------------------------------ MODULE Process ------------------------------
(***************************************************************************)
(* Processes of the kernel (os/src/task, os/src/syscall/process.rs): task  *)
(* control blocks (TCBs) shared through Arc, the FIFO ready queue, the one *)
(* processor, the pid allocator, the kernel stacks mapped per pid, and     *)
(* fork / exit / waitpid / yield / a blocking read of stdin.               *)
(*                                                                         *)
(* The kernel is uniprocessor and never interrupted in S-mode, so one trap *)
(* up to its __switch (or its return to U-mode) is one atomic action.      *)
(* Dropping the last Arc of a TCB is part of the action that drops it.     *)
(***************************************************************************)
EXTENDS FiniteSets, Lists

CONSTANTS
  Task,       \* heap addresses a TaskControlBlock can have: the bound on live TCBs
  INITPROC,   \* the address of the static INITPROC
  None,       \* Option::None
  ExitCode    \* the codes user programs pass to exit

ASSUME ProcessAssumption ==
  /\ INITPROC \in Task
  /\ None \notin Task
  /\ ExitCode \subseteq Int

VARIABLES
  status,       \* TaskStatus of the TCB at an address, "Free" where there is none
  pid,          \* the PidHandle of a TCB
  parent,       \* Weak pointer to the parent
  children,     \* Vec<Arc<TaskControlBlock>>
  exit_code,
  in_read,      \* tasks inside the loop of Stdin::read, their kernel stack holds an Arc of them
  ready_queue,  \* TASK_MANAGER
  current,      \* PROCESSOR.current
  pid_current,  \* PID_ALLOCATOR.current
  recycled,     \* PID_ALLOCATOR.recycled
  kstacks,      \* pids whose kernel stack is mapped in KERNEL_SPACE
  ret,          \* value the last system call of the current task put in x[10]
  xstate,       \* value its last successful waitpid stored through exit_code_ptr
  machine       \* "on", "off" (QEMU exit) or "panic"

tcbs == <<status, pid, parent, children, exit_code>>
pids == <<pid_current, recycled>>
vars == <<status, pid, parent, children, exit_code, in_read, ready_queue,
          current, pid_current, recycled, kstacks, ret, xstate, machine>>

IDLE_PID == 0
PageFaultCode == -2
IllegalInstructionCode == -3

(* What exit can be given: by programs, by main and the panic handler of   *)
(* the programs that Programs models, and by the trap handler.             *)
ExitCodes == ExitCode \cup {0, -1, -4, PageFaultCode, IllegalInstructionCode}
Alive == {t \in Task : status[t] # "Free"}

-----------------------------------------------------------------------------
(* Arc references.  A TCB is referenced from children lists, the ready     *)
(* queue, PROCESSOR.current, the kernel stack of a task inside Stdin::read *)
(* and, for INITPROC, from the static.                                     *)

(* Fault: the children lists hold Weak pointers. *)
Referenced_weak_children(t, ch, queue, cur) ==
  t = INITPROC \/ t = cur \/ t \in in_read \/ t \in Range(queue)

Referenced(t, ch, queue, cur) ==
  \/ t = INITPROC
  \/ t = cur
  \/ t \in in_read
  \/ t \in Range(queue)
  \/ \E p \in Task : t \in Range(ch[p])

(* Fault: last() in place of pop(). *)
pid_alloc_peek(p) ==
  /\ p = IF recycled # <<>> THEN Last(recycled) ELSE pid_current
  /\ pid_current' = IF recycled # <<>> THEN pid_current ELSE pid_current + 1
  /\ UNCHANGED recycled

(* PidAllocator::alloc: the most recently recycled pid, else a fresh one. *)
pid_alloc(p) ==
  \/ /\ recycled # <<>>
     /\ p = Last(recycled)
     /\ recycled' = Front(recycled)
     /\ UNCHANGED pid_current
  \/ /\ recycled = <<>>
     /\ p = pid_current
     /\ pid_current' = pid_current + 1
     /\ UNCHANGED recycled

(* The two assertions of PidAllocator::dealloc. *)
DeallocAsserts(p) ==
  /\ p < pid_current
  /\ p \notin Range(recycled)

-----------------------------------------------------------------------------
Init ==
  /\ status = [t \in Task |-> IF t = INITPROC THEN "Ready" ELSE "Free"]
  /\ pid = [t \in Task |-> 0]
  /\ parent = [t \in Task |-> None]
  /\ children = [t \in Task |-> <<>>]
  /\ exit_code = [t \in Task |-> 0]
  /\ in_read = {}
  /\ ready_queue = <<INITPROC>>
  /\ current = None
  /\ pid_current = 1
  /\ recycled = <<>>
  /\ kstacks = {0}
  /\ ret = 0
  /\ xstate = 0
  /\ machine = "on"

(* Fault: front() in place of pop_front(). *)
run_tasks_peek ==
  /\ machine = "on"
  /\ current = None
  /\ ready_queue # <<>>
  /\ status' = [status EXCEPT ![Head(ready_queue)] = "Running"]
  /\ current' = Head(ready_queue)
  /\ UNCHANGED <<pid, parent, children, exit_code, in_read, ready_queue, pids, kstacks,
                 ret, xstate, machine>>

(* run_tasks: the idle control flow takes the head of the ready queue and  *)
(* switches to it.  With an empty queue the loop only spins.               *)
run_tasks ==
  /\ machine = "on"
  /\ current = None
  /\ ready_queue # <<>>
  /\ LET task == Head(ready_queue) IN
       /\ status' = [status EXCEPT ![task] = "Running"]
       /\ current' = task
  /\ ready_queue' = Tail(ready_queue)
  /\ UNCHANGED <<pid, parent, children, exit_code, in_read, pids, kstacks,
                 ret, xstate, machine>>

(* The current task is in U-mode: it can trap, and only then. *)
UserMode == machine = "on" /\ current # None /\ current \notin in_read

(* Fault: push_front in place of push_back. *)
suspend_lifo ==
  /\ status' = [status EXCEPT ![current] = "Ready"]
  /\ ready_queue' = <<current>> \o ready_queue
  /\ current' = None
  /\ ret' = 0
  /\ xstate' = 0
  /\ UNCHANGED <<pid, parent, children, exit_code, pids, kstacks, machine>>

suspend_current_and_run_next ==
  /\ status' = [status EXCEPT ![current] = "Ready"]
  /\ ready_queue' = Append(ready_queue, current)
  /\ current' = None
  /\ ret' = 0
  /\ xstate' = 0
  /\ UNCHANGED <<pid, parent, children, exit_code, pids, kstacks, machine>>

sys_yield ==
  /\ UserMode
  /\ suspend_current_and_run_next
  /\ UNCHANGED in_read

(* trap_handler on SupervisorTimer: set_next_trigger, then suspend.  The   *)
(* next interrupt is always armed.                                         *)
timer_interrupt ==
  /\ UserMode
  /\ suspend_current_and_run_next
  /\ UNCHANGED in_read

(* One turn of the loop of Stdin::read, in S-mode: with no character the   *)
(* task is suspended inside the loop, otherwise sys_read returns 1.  Until *)
(* then its stack keeps the Arc that sys_read cloned from PROCESSOR.       *)
sys_read_stdin ==
  /\ machine = "on"
  /\ current # None
  /\ \/ /\ in_read' = in_read \cup {current}
        /\ suspend_current_and_run_next
     \/ /\ in_read' = in_read \ {current}
        /\ ret' = 1
        /\ UNCHANGED <<tcbs, ready_queue, current, pids, kstacks, xstate, machine>>

(* sys_fork: TaskControlBlock::fork, then add_task.  KernelStack::new maps *)
(* the stack of the pid, which panics when those pages are mapped already. *)
sys_fork ==
  /\ UserMode
  /\ \E child \in Task, p \in 0 .. pid_current :
       /\ status[child] = "Free"
       /\ pid_alloc(p)
       /\ kstacks' = kstacks \cup {p}
       /\ machine' = IF p \in kstacks THEN "panic" ELSE machine
       /\ status' = [status EXCEPT ![child] = "Ready"]
       /\ pid' = [pid EXCEPT ![child] = p]
       /\ parent' = [parent EXCEPT ![child] = current]
       /\ children' = [children EXCEPT ![current] = Append(@, child)]
       /\ exit_code' = [exit_code EXCEPT ![child] = 0]
       /\ ready_queue' = Append(ready_queue, child)
       /\ ret' = p
  /\ UNCHANGED <<in_read, current, xstate>>

(* Fault: PidHandle has no Drop. *)
drop_tcb_leak(t, asserts) ==
  /\ status' = [status EXCEPT ![t] = "Free"]
  /\ pid' = [pid EXCEPT ![t] = 0]
  /\ exit_code' = [exit_code EXCEPT ![t] = 0]
  /\ kstacks' = kstacks \ {pid[t]}
  /\ UNCHANGED <<recycled, pid_current, machine>>

(* The drop of the last Arc of a TCB: its PidHandle, then its KernelStack. *)
drop_tcb(t, asserts) ==
  /\ status' = [status EXCEPT ![t] = "Free"]
  /\ pid' = [pid EXCEPT ![t] = 0]
  /\ exit_code' = [exit_code EXCEPT ![t] = 0]
  /\ recycled' = Append(recycled, pid[t])
  /\ kstacks' = kstacks \ {pid[t]}
  /\ machine' = IF asserts /\ DeallocAsserts(pid[t]) THEN machine ELSE "panic"
  /\ UNCHANGED pid_current

(* Fault: children are cleared and given to nobody. *)
Reparent_lost(t) ==
  /\ children' = [children EXCEPT ![t] = <<>>]
  /\ UNCHANGED parent

(* Fault: the children go to the parent of t. *)
Reparent_to_grandparent(t) ==
  /\ parent' = [c \in Task |-> IF c \in Range(children[t]) THEN parent[t] ELSE parent[c]]
  /\ children' = [children EXCEPT ![parent[t]] = @ \o children[t], ![t] = <<>>]

(* exit hands the children of t to INITPROC, behind those INITPROC has. *)
Reparent(t) ==
  /\ parent' = [c \in Task |-> IF c \in Range(children[t]) THEN INITPROC ELSE parent[c]]
  /\ children' = [children EXCEPT ![INITPROC] = @ \o children[t], ![t] = <<>>]

(* exit_current_and_run_next.  Pid 0 ends the machine.  Otherwise the      *)
(* drop(task) before schedule frees the TCB, and the kernel stack the      *)
(* function runs on, unless another Arc is left.                           *)
exit_current_and_run_next(code) ==
  /\ current' = None
  /\ ret' = 0
  /\ xstate' = 0
  /\ \/ /\ pid[current] = IDLE_PID
        /\ machine' = "off"
        /\ UNCHANGED <<tcbs, pids, kstacks>>
     \/ /\ pid[current] # IDLE_PID
        /\ Reparent(current)
        /\ IF Referenced(current, children', ready_queue, None)
           THEN /\ status' = [status EXCEPT ![current] = "Zombie"]
                /\ exit_code' = [exit_code EXCEPT ![current] = code]
                /\ UNCHANGED <<pid, pids, kstacks, machine>>
           ELSE drop_tcb(current, TRUE)
  /\ UNCHANGED <<in_read, ready_queue>>

sys_exit ==
  /\ UserMode
  /\ \E code \in ExitCode : exit_current_and_run_next(code)

(* trap_handler on a fault of the application. *)
page_fault == UserMode /\ exit_current_and_run_next(PageFaultCode)
illegal_instruction == UserMode /\ exit_current_and_run_next(IllegalInstructionCode)

-----------------------------------------------------------------------------
(* sys_waitpid; want is -1 for any child.                                  *)

Matches(want, c) == want = -1 \/ want = pid[c]

(* Fault: the test of is_zombie is missing. *)
FirstZombie_any(want, i) ==
  /\ i \in DOMAIN children[current]
  /\ Matches(want, children[current][i])
  /\ \A k \in 1 .. i - 1 : ~Matches(want, children[current][k])

(* find: the first zombie child that matches. *)
FirstZombie(want, i) ==
  LET ch == children[current]
      hit(k) == status[ch[k]] = "Zombie" /\ Matches(want, ch[k])
  IN /\ i \in DOMAIN ch
     /\ hit(i)
     /\ \A k \in 1 .. i - 1 : ~hit(k)

waitpid_no_child(want) ==
  /\ \A c \in Range(children[current]) : ~Matches(want, c)
  /\ ret' = -1
  /\ UNCHANGED <<tcbs, pids, kstacks, xstate, machine>>

waitpid_still_running(want) ==
  /\ \E c \in Range(children[current]) : Matches(want, c)
  /\ ~ \E i \in DOMAIN children[current] : FirstZombie(want, i)
  /\ ret' = -2
  /\ UNCHANGED <<tcbs, pids, kstacks, xstate, machine>>

(* Fault: found_pid is stored through exit_code_ptr. *)
waitpid_reap_swapped(want) ==
  \E i \in DOMAIN children[current] :
    LET child == children[current][i] IN
      /\ FirstZombie(want, i)
      /\ children' = [children EXCEPT ![current] = RemoveAt(@, i)]
      /\ parent' = [parent EXCEPT ![child] = None]
      /\ xstate' = pid[child]
      /\ ret' = pid[child]
      /\ drop_tcb(child, TRUE)

(* The child leaves the Vec; the assertion on its strong count says that   *)
(* the local variable is the only Arc left, and dropping it frees the TCB. *)
waitpid_reap(want) ==
  \E i \in DOMAIN children[current] :
    LET child == children[current][i] IN
      /\ FirstZombie(want, i)
      /\ children' = [children EXCEPT ![current] = RemoveAt(@, i)]
      /\ parent' = [parent EXCEPT ![child] = None]
      /\ xstate' = exit_code[child]
      /\ ret' = pid[child]
      /\ drop_tcb(child, ~Referenced(child, children', ready_queue, current))

sys_waitpid(want) ==
  /\ UserMode
  /\ \/ waitpid_no_child(want)
     \/ waitpid_still_running(want)
     \/ waitpid_reap(want)
  /\ UNCHANGED <<in_read, ready_queue, current>>

(* The machine is off, or the panic handler has shut it down. *)
Halted == machine # "on" /\ UNCHANGED vars

Next ==
  \/ run_tasks
  \/ sys_yield
  \/ timer_interrupt
  \/ sys_read_stdin
  \/ sys_fork
  \/ sys_exit
  \/ page_fault
  \/ illegal_instruction
  \/ \E want \in -1 .. pid_current : sys_waitpid(want)
  \/ Halted

Spec == Init /\ [][Next]_vars

-----------------------------------------------------------------------------
(* Every variable has its type; the pids of live TCBs have been handed out. *)
TypeOK ==
  /\ status \in [Task -> {"Free", "Ready", "Running", "Zombie"}]
  /\ pid \in [Task -> Nat]
  /\ parent \in [Task -> Task \cup {None}]
  /\ children \in [Task -> Seq(Task)]
  /\ exit_code \in [Task -> ExitCodes]
  /\ in_read \subseteq Task
  /\ ready_queue \in Seq(Task)
  /\ current \in Task \cup {None}
  /\ pid_current \in Nat
  /\ recycled \in Seq(Nat)
  /\ kstacks \subseteq Nat
  /\ ret \in Int
  /\ xstate \in ExitCodes
  /\ machine \in {"on", "off", "panic"}

(* No assertion of the process code fails: when waitpid removes a zombie   *)
(* from children its strong count is 1 (syscall/process.rs), no pid is     *)
(* deallocated twice or before it was handed out (task/pid.rs), and no     *)
(* kernel stack is mapped over another one (mm/page_table.rs map).         *)
NoPanic == machine # "panic"

(* The ready queue holds exactly the Ready tasks, each of them once, and   *)
(* PROCESSOR.current is exactly the Running one: suspend, exit and         *)
(* run_tasks never lose a task nor run a zombie or a freed TCB.            *)
SchedulerExact ==
  /\ \A t \in Task : status[t] = "Ready" <=> t \in Range(ready_queue)
  /\ IsInjective(ready_queue)
  /\ machine = "on" => \A t \in Task : status[t] = "Running" <=> current = t
  /\ \A t \in in_read : status[t] \in {"Ready", "Running"}

(* The processes form one family: every live TCB but INITPROC is exactly   *)
(* once in exactly one children list, that of its parent, and the parent   *)
(* is another task and no zombie: exit leaves no child behind, waitpid forgets none.     *)
FamilyTree ==
  /\ \A p \in Task : \A c \in Range(children[p]) :
       /\ status[p] \in {"Ready", "Running"}
       /\ c \in Alive \ {INITPROC}
       /\ parent[c] = p
  /\ \A t \in Alive \ {INITPROC} :
       /\ parent[t] \in Alive \ {t}
       /\ t \in Range(children[parent[t]])
  /\ \A p \in Task : IsInjective(children[p])

(* Two live TCBs never share a pid, a recycled pid belongs to none and is  *)
(* recycled once, and the mapped kernel stacks are exactly those of the    *)
(* live TCBs, zombies included.                                            *)
PidsExact ==
  /\ \A t, u \in Alive : pid[t] = pid[u] => t = u
  /\ \A t \in Alive : pid[t] < pid_current
  /\ \A p \in Range(recycled) : p < pid_current /\ p \notin kstacks
  /\ IsInjective(recycled)
  /\ kstacks = {pid[t] : t \in Alive}

(* No pid leaks: every pid ever handed out is live or recycled, so pids    *)
(* (and kernel stack addresses) stay below the largest number of processes *)
(* that were ever alive together.                                          *)
PidsConserved == pid_current = Cardinality(Alive) + Len(recycled)

(* INITPROC keeps pid 0 and never becomes a zombie, so the orphans of exit *)
(* always get a parent that can still wait for them.                       *)
InitprocLives == status[INITPROC] \in {"Ready", "Running"} /\ pid[INITPROC] = IDLE_PID

(* fork returns a positive pid in the parent (user/src/bin/forktest.rs     *)
(* asserts pid > 0): the 0 of the child is never a pid that is allocated.  *)
ForkReturnsPositive ==
  [][\A t \in Task : status[t] = "Free" /\ status'[t] = "Ready" => ret' > 0]_vars

(* When exit leaves the processor the kernel stack that schedule() is      *)
(* running on is still mapped: drop(task) was not the last Arc.            *)
StackOutlivesExit ==
  [][\A t \in Task : current = t /\ current' = None => pid[t] \in kstacks']_vars

(* A zombie stays what it is, with its pid and exit code, until a waitpid  *)
(* of the task whose child it then is returns that pid and delivers that   *)
(* code; orphans are reaped through INITPROC.                              *)
ZombieUntilReaped ==
  [][\A t \in Task : status[t] = "Zombie" =>
       \/ status'[t] = "Zombie" /\ pid'[t] = pid[t] /\ exit_code'[t] = exit_code[t]
       \/ /\ status'[t] = "Free"
          /\ parent[t] = current
          /\ ret' = pid[t]
          /\ xstate' = exit_code[t]]_vars

(* Except for INITPROC a children list only grows by the owner's fork, so  *)
(* once a pid was reaped a second waitpid of it fails although the pid may *)
(* be in use again (user/src/bin/exit.rs asserts waitpid < 0).             *)
ChildrenGrowByFork ==
  [][\A p \in Task \ {INITPROC} : \A c \in Range(children'[p]) :
       c \in Range(children[p]) \/ (current = p /\ status[c] = "Free")]_vars

(* Every Ready task runs again: the queue is FIFO and the timer ends every *)
(* turn of the others.                                                     *)
ReadyRuns == \A t \in Task : (status[t] = "Ready") ~> (status[t] = "Running" \/ machine # "on")
============================================================================

------------------------------ MODULE Programs ------------------------------
(***************************************************************************)
(* The kernel of Process with the programs that keep a system running:     *)
(* initproc, the shell and usertests (user/src/bin, over user/src/lib.rs). *)
(* What they start is arbitrary: a program "any" makes every system call   *)
(* but exec, in any order, and may fault.                                  *)
(***************************************************************************)
EXTENDS Process

CONSTANTS
  Tests,      \* the exit codes that usertests expects of its tests, in order
  MaxLine     \* length of the longest command line that is typed

ASSUME ProgramsAssumption == MaxLine \in Nat \ {0} /\ Tests \in Seq(Int)

VARIABLE user   \* the memory of a task: its program, where it is, its local variables

programVars == <<vars, user>>

Start(program, at) ==
  [program |-> program, at |-> at, line |-> 0, pid |-> 0, test |-> 1, passed |-> TRUE, code |-> 0]

Gone == Start("none", "none")

ProgramsInit == Init /\ user = [t \in Task |-> IF t = INITPROC THEN Start("initproc", "fork") ELSE Gone]

me == user[current]

(* The current task goes on with memory m; tasks that have ended have none. *)
Continue(m) ==
  user' = [t \in Task |-> IF status'[t] \in {"Free", "Zombie"} THEN Gone
                          ELSE IF t = current THEN m ELSE user[t]]

Go(at) == Continue([me EXCEPT !.at = at])

(* main returns, or the panic handler runs: exit(code) comes next. *)
Leaving(code) == [me EXCEPT !.at = "exit", !.code = code]

(* fork: the child goes on with a copy of the memory, in which pid is 0. *)
ForkThen(parent_at, child_at) ==
  /\ sys_fork
  /\ \E child \in Task :
       /\ status[child] = "Free" /\ status'[child] = "Ready"
       /\ user' = [user EXCEPT ![current] = [@ EXCEPT !.at = parent_at, !.pid = ret'],
                               ![child] = [me EXCEPT !.at = child_at, !.pid = 0]]

(* exec replaces the program of the task and nothing the kernel modules    *)
(* track; it returns -1 when there is no such file.                        *)
ExecThen(programs, failed) ==
  /\ UserMode
  /\ \E m \in programs \cup {failed} : user' = [user EXCEPT ![current] = m]
  /\ UNCHANGED vars

exit_program ==
  /\ me.at = "exit"
  /\ UserMode
  /\ exit_current_and_run_next(me.code)
  /\ Continue(me)

-----------------------------------------------------------------------------
(* initproc: fork the shell, then collect zombies for ever.                *)

init_fork == me.program = "initproc" /\ me.at = "fork" /\ ForkThen("wait", "exec")

(* The child: when exec fails main returns 0. *)
init_exec ==
  /\ me.program = "initproc" /\ me.at = "exec"
  /\ ExecThen({Start("user_shell", "getchar")}, Leaving(0))

(* Fault: waits for its first child, the shell, alone. *)
init_wait_shell ==
  /\ me.program = "initproc" /\ me.at = "wait"
  /\ sys_waitpid(1)
  /\ Go(IF ret' \in {-2, -1} THEN "yield" ELSE "wait")

(* wait(): on -2 wait() itself yields, on -1 main does; a pid goes to      *)
(* println and the next turn of the loop.                                  *)
init_wait ==
  /\ me.program = "initproc" /\ me.at = "wait"
  /\ sys_waitpid(-1)
  /\ Go(IF ret' \in {-2, -1} THEN "yield" ELSE "wait")

(* yield_() inside wait() and waitpid(), and in the main of initproc. *)
yield_program == me.at = "yield" /\ sys_yield /\ Go("wait")

-----------------------------------------------------------------------------
(* The shell and usertests: both fork, exec in the child, and wait for the *)
(* child by its pid.                                                       *)

(* The match on a character that getchar returned. *)
Typed(c) ==
  CASE c = "enter"     -> [me EXCEPT !.at = IF me.line = 0 THEN "getchar" ELSE "fork"]
    [] c = "backspace" -> [me EXCEPT !.at = "getchar", !.line = IF @ = 0 THEN 0 ELSE @ - 1]
    [] OTHER           -> [me EXCEPT !.at = "getchar", !.line = @ + 1]

(* getchar: the read ends in a character or the task waits in Stdin::read. *)
shell_getchar ==
  /\ me.program = "user_shell" /\ me.at = "getchar"
  /\ sys_read_stdin
  /\ \/ current' = None /\ UNCHANGED user
     \/ /\ current' = current
        /\ \E c \in {"enter", "backspace", "letter"} :
             /\ c = "letter" => me.line < MaxLine
             /\ Continue(Typed(c))

launch_fork == me.program \in {"user_shell", "usertests"} /\ me.at = "fork" /\ ForkThen("wait", "exec")

(* The child of the shell returns -4 when exec fails, that of usertests    *)
(* panics.  The shell can start itself and usertests like any program.     *)
launch_exec ==
  /\ me.at = "exec"
  /\ \/ /\ me.program = "user_shell"
        /\ ExecThen({Start("user_shell", "getchar"), Start("usertests", "fork"), Start("any", "run")}, Leaving(-4))
     \/ /\ me.program = "usertests"
        /\ ExecThen({Start("any", "run")}, Leaving(-1))

(* What follows the assertion: the shell clears the line and prompts;      *)
(* usertests goes to the next test, and returns 0 if all have passed.      *)
Launched(code) ==
  IF me.program = "user_shell" THEN Start("user_shell", "getchar")
  ELSE LET passed == me.passed /\ code = Tests[me.test]
       IN IF me.test = Len(Tests) THEN Leaving(IF passed THEN 0 ELSE -1)
          ELSE [me EXCEPT !.at = "fork", !.pid = 0, !.test = @ + 1, !.passed = passed]

(* Fault: waitpid does not leave its loop with the pid. *)
launch_wait_loops ==
  /\ me.program \in {"user_shell", "usertests"} /\ me.at = "wait"
  /\ sys_waitpid(me.pid)
  /\ Continue(CASE ret' = -1 -> Leaving(-1)
                [] OTHER     -> [me EXCEPT !.at = "yield"])

(* waitpid() asks again after -2; what else it returns must be the pid. *)
launch_wait ==
  /\ me.program \in {"user_shell", "usertests"} /\ me.at = "wait"
  /\ sys_waitpid(me.pid)
  /\ Continue(CASE ret' = -2     -> [me EXCEPT !.at = "yield"]
                [] ret' = me.pid -> Launched(xstate')
                [] OTHER         -> Leaving(-1))

-----------------------------------------------------------------------------
(* A program that is not modelled: any system call, or a fault. *)
any_program ==
  /\ me.program = "any"
  /\ \/ (sys_yield \/ sys_read_stdin \/ sys_exit \/ page_fault \/ illegal_instruction) /\ Continue(me)
     \/ ForkThen("run", "run")
     \/ \E want \in -1 .. pid_current : sys_waitpid(want) /\ Continue(me)

main ==
  /\ current # None
  /\ \/ init_fork \/ init_exec \/ init_wait
     \/ shell_getchar \/ launch_fork \/ launch_exec \/ launch_wait
     \/ yield_program \/ exit_program

preempted == current # None /\ timer_interrupt /\ Continue(me)

dispatch == run_tasks /\ UNCHANGED user

ProgramsNext == main \/ (current # None /\ any_program) \/ preempted \/ dispatch

(* The idle loop keeps fetching, the timer eventually interrupts what runs *)
(* in U-mode, and kernel code inside Stdin::read runs on.  A modelled      *)
(* program that is given the processor again and again makes its next      *)
(* system call: strong fairness, since the timer may come first any finite *)
(* number of times.                                                        *)
ProgramsSpec ==
  /\ ProgramsInit
  /\ [][ProgramsNext]_programVars
  /\ WF_programVars(dispatch)
  /\ WF_programVars(preempted)
  /\ WF_programVars(current \in in_read /\ ProgramsNext)
  /\ \A t \in Task : SF_programVars(current = t /\ main)

-----------------------------------------------------------------------------
(* assert_eq!(pid, exit_pid) of the shell and of usertests holds: as long  *)
(* as they wait, the pid that fork returned is that of a child of theirs,  *)
(* however pids are recycled and orphans handed over meanwhile.            *)
WaitsForOwnChild ==
  \A t \in Task : user[t].program \in {"user_shell", "usertests"} /\ user[t].at \in {"wait", "yield"} =>
    \E c \in Range(children[t]) : pid[c] = user[t].pid

(* A zombie that initproc, the shell or usertests has to collect is freed, *)
(* so its pid and kernel stack are recycled and the prompt comes back,     *)
(* however many other children initproc is handed meanwhile.               *)
ZombieReaped ==
  \A t \in Task :
    (status[t] = "Zombie" /\ user[parent[t]].program # "any") ~> (status[t] = "Free")
============================================================================

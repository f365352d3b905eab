---------------------------- MODULE KernelProofs ----------------------------
(***************************************************************************)
(* What a step of the kernel can do to the process table, and what follows *)
(* from it for any set of TCB addresses: the action properties of Process, *)
(* the conservation of pids, the assertion of the programs that wait for a *)
(* child, and that no cell is borrowed twice.                              *)
(***************************************************************************)
EXTENDS Programs, Borrows, ProcessProofs, FiniteSetTheorems

(* The four ways a step can touch the process table; the properties below  *)
(* follow from them.                                                       *)
Scheduling ==
  /\ UNCHANGED <<pid, children, exit_code, kstacks, pid_current, recycled>>
  /\ \A t \in Task : \/ status'[t] = status[t]
                     \/ {status[t], status'[t]} \subseteq {"Ready", "Running"}

Forking ==
  /\ current # None /\ current' = current
  /\ ret' > 0
  /\ pid_alloc(ret')
  /\ \E child \in Task : /\ status[child] = "Free"
                         /\ status'[child] = "Ready" /\ pid'[child] = ret'
                         /\ \A t \in Task \ {child} :
                              status'[t] = status[t] /\ pid'[t] = pid[t] /\ exit_code'[t] = exit_code[t]
                         /\ \A q \in Task : Range(children'[q]) =
                              Range(children[q]) \cup (IF q = current THEN {child} ELSE {})

Exiting ==
  /\ current' = None
  /\ UNCHANGED <<pid, kstacks, pid_current, recycled>>
  /\ \A t \in Task \ {current} : status'[t] = status[t] /\ exit_code'[t] = exit_code[t]
  /\ status[current] = "Running" /\ status'[current] = "Zombie"
  /\ \A q \in Task \ {INITPROC} : Range(children'[q]) \subseteq Range(children[q])
  /\ \A q \in Task \ {current} : Range(children[q]) \subseteq Range(children'[q])

Reaping ==
  /\ current # None /\ current' = current
  /\ pid_current' = pid_current
  /\ \E child \in Task :
       /\ status[child] = "Zombie" /\ status'[child] = "Free" /\ parent[child] = current
       /\ ret' = pid[child] /\ xstate' = exit_code[child]
       /\ recycled' = Append(recycled, pid[child])
       /\ \A t \in Task \ {child} :
            status'[t] = status[t] /\ pid'[t] = pid[t] /\ exit_code'[t] = exit_code[t]
       /\ \A q \in Task : Range(children'[q]) = Range(children[q]) \ {child}

(* Every step of the kernel is one of the four. *)
LEMMA StepKinds ==
  ASSUME IInv, KernelStep PROVE Scheduling \/ Forking \/ Exiting \/ Reaping
<1> USE ProcessAssumption
<1>1. CASE run_tasks
  <2>1. PICK task : task = Head(ready_queue)
    OBVIOUS
  <2>2. task \in Task /\ status[task] = "Ready"
    BY <1>1, <2>1, RangeTail, SMTT(20) DEF IInv, TypeOK, SchedulerExact, run_tasks
  <2>3. \A t \in Task : status'[t] = IF t = task THEN "Running" ELSE status[t]
    BY <1>1, <2>1, <2>2, SMTT(20) DEF IInv, TypeOK, run_tasks
  <2> QED BY <1>1, <2>2, <2>3 DEF run_tasks, Scheduling, pids
<1>2. ASSUME machine = "on", current # None, suspend_current_and_run_next PROVE Scheduling
  <2>1. current \in Task /\ status[current] = "Running"
    BY <1>2, CurrentRuns, SMTT(20)
  <2>2. \A t \in Task : status'[t] = IF t = current THEN "Ready" ELSE status[t]
    BY <1>2, <2>1 DEF IInv, TypeOK, suspend_current_and_run_next
  <2> QED BY <1>2, <2>1, <2>2, SMTT(20) DEF suspend_current_and_run_next, Scheduling, pids
<1>3. CASE sys_yield \/ timer_interrupt
  BY <1>2, <1>3, SMTT(20) DEF sys_yield, timer_interrupt, UserMode
<1>4. CASE sys_read_stdin
  BY <1>2, <1>4 DEF sys_read_stdin, Scheduling, tcbs, pids
<1>5. CASE sys_fork
  <2>1. /\ current \in Task /\ status[current] = "Running" /\ children[current] \in Seq(Task)
        /\ current' = current
    BY <1>5, CurrentRuns, SMTT(20) DEF sys_fork, UserMode
  <2>2. PICK child \in Task, p \in 0 .. pid_current :
         /\ status[child] = "Free"
         /\ pid_alloc(p)
         /\ status' = [status EXCEPT ![child] = "Ready"]
         /\ pid' = [pid EXCEPT ![child] = p]
         /\ children' = [children EXCEPT ![current] = Append(@, child)]
         /\ exit_code' = [exit_code EXCEPT ![child] = 0]
         /\ ret' = p
    BY <1>5, ZenonT(20) DEF sys_fork
  <2>3. p \in Nat /\ p \notin kstacks
    BY <2>2, PidAllocFresh
  <2>4. 0 \in kstacks
    BY DEF IInv, InitprocLives, PidsExact, Alive, IDLE_PID
  <2>5. ret' > 0
    BY <2>2, <2>3, <2>4, SMTT(20)
  <2>6. \A t \in Task \ {child} :
           status'[t] = status[t] /\ pid'[t] = pid[t] /\ exit_code'[t] = exit_code[t]
    BY <2>2 DEF IInv, TypeOK
  <2>7. PICK ch : ch = Append(children[current], child)
    BY ZenonT(20)
  <2>8. Range(ch) = Range(children[current]) \cup {child}
    BY <2>1, <2>7, RangeAppend
  <2>9. \A q \in Task : children'[q] = IF q = current THEN ch ELSE children[q]
    <3>1. children \in [Task -> Seq(Task)]
      BY DEF IInv, TypeOK
    <3>2. children' = [children EXCEPT ![current] = ch]
      BY <2>2, <2>7, SMTT(20)
    <3> QED BY <3>1, <3>2, <2>1, SMTT(20)
  <2>10. \A q \in Task : Range(children'[q]) =
                              Range(children[q]) \cup (IF q = current THEN {child} ELSE {})
    BY <2>8, <2>9, SMTT(20)
  <2>11. status'[child] = "Ready" /\ pid'[child] = ret' /\ pid_alloc(ret')
    BY <2>2, SMTT(20) DEF IInv, TypeOK
  <2>12. Forking
    BY <2>1, <2>2, <2>5, <2>6, <2>10, <2>11, ProcessAssumption, ZenonT(20) DEF Forking
  <2> QED BY <2>12
<1>6. ASSUME UserMode, NEW code \in ExitCodes, exit_current_and_run_next(code)
      PROVE  Scheduling \/ Exiting
  <2>1. current \in Task /\ status[current] = "Running"
    BY <1>6, CurrentRuns, SMTT(20) DEF UserMode
  <2>2. CASE pid[current] = IDLE_PID
    BY <1>6, <2>2, SMTT(20) DEF exit_current_and_run_next, tcbs, pids, Scheduling
  <2>3. CASE pid[current] # IDLE_PID
    <3>1. /\ status' = [status EXCEPT ![current] = "Zombie"]
          /\ exit_code' = [exit_code EXCEPT ![current] = code]
          /\ UNCHANGED <<pid, kstacks>>
          /\ UNCHANGED <<pid_current, recycled>>
          /\ \A q \in Task \ {INITPROC, current} : children'[q] = children[q]
          /\ children'[current] = <<>> /\ current # INITPROC
          /\ Range(children[INITPROC]) \subseteq Range(children'[INITPROC])
      BY <1>6, <2>1, <2>3, ExitFacts, SMTT(20)
    <3>2. \A q \in Task \ {INITPROC} : Range(children'[q]) \subseteq Range(children[q])
      BY <3>1, RangeEmpty
    <3>3. \A q \in Task \ {current} : Range(children[q]) \subseteq Range(children'[q])
      BY <3>1
    <3>4. current' = None
      BY <1>6 DEF exit_current_and_run_next
    <3> QED BY <2>1, <3>1, <3>2, <3>3, <3>4, SMTT(20) DEF Exiting, IInv, TypeOK
  <2> QED BY <2>2, <2>3
<1>7. CASE UserMode /\ \E code \in ExitCodes : exit_current_and_run_next(code)
  BY <1>6, <1>7, ZenonT(20)
<1>8. ASSUME NEW want, sys_waitpid(want) PROVE Scheduling \/ Reaping
  <2>1. CASE waitpid_no_child(want) \/ waitpid_still_running(want)
    BY <2>1 DEF waitpid_no_child, waitpid_still_running, tcbs, pids, Scheduling
  <2>2. CASE waitpid_reap(want)
    <3>1. UserMode /\ current' = current
      BY <1>8, SMTT(20) DEF sys_waitpid
    <3>0. PICK i \in DOMAIN children[current] :
            LET child == children[current][i] IN
            /\ FirstZombie(want, i)
            /\ children' = [children EXCEPT ![current] = RemoveAt(@, i)]
            /\ xstate' = exit_code[child]
            /\ ret' = pid[child]
            /\ drop_tcb(child, ~Referenced(child, children', ready_queue, current))
      BY <2>2, ZenonT(20) DEF waitpid_reap
    <3>2. PICK child :
            /\ child = children[current][i]
            /\ FirstZombie(want, i)
            /\ children' = [children EXCEPT ![current] = RemoveAt(@, i)]
            /\ xstate' = exit_code[child]
            /\ ret' = pid[child]
            /\ drop_tcb(child, ~Referenced(child, children', ready_queue, current))
      BY <3>0
    <3>3. status[child] = "Zombie"
      BY <3>2 DEF FirstZombie
    <3>4. /\ child \in Task /\ parent[child] = current
          /\ \A q \in Task : Range(children'[q]) = Range(children[q]) \ {child}
      BY <3>1, <3>2, <3>3, ReapFacts, ZenonT(20)
    <3>5. /\ status'[child] = "Free"
          /\ \A t \in Task \ {child} :
               status'[t] = status[t] /\ pid'[t] = pid[t] /\ exit_code'[t] = exit_code[t]
      BY <3>2, <3>4, SMTT(20) DEF drop_tcb, IInv, TypeOK
    <3>6. recycled' = Append(recycled, pid[child]) /\ pid_current' = pid_current
      BY <3>2, SMTT(20) DEF drop_tcb
    <3>7. current # None
      BY <3>1 DEF UserMode
    <3>8. xstate' = exit_code[child] /\ ret' = pid[child]
      BY <3>2
    <3> QED BY <3>1, <3>3, <3>4, <3>5, <3>6, <3>7, <3>8, ZenonT(20) DEF Reaping
  <2> QED BY <1>8, <2>1, <2>2 DEF sys_waitpid
<1>9. CASE Quiet
  BY <1>9 DEF Quiet, tcbs, pids, Scheduling
<1> QED
  BY <1>1, <1>3, <1>4, <1>5, <1>7, <1>8, <1>9, SMTT(20) DEF KernelStep

(* fork never returns 0 in the parent: pid 0 is INITPROC's for good. *)
THEOREM ForkPositive == Spec => ForkReturnsPositive
<1>1. IInv /\ [Next]_vars => [\A t \in Task : status[t] = "Free" /\ status'[t] = "Ready" => ret' > 0]_vars
  BY NextIsStep, StepKinds DEF Scheduling, Forking, Exiting, Reaping
<1> QED BY <1>1, Invariance, PTL DEF Spec, ForkReturnsPositive

(* The kernel stack of the task that leaves the processor is still mapped. *)
THEOREM StackSurvivesExit == Spec => StackOutlivesExit
<1>1. IInv /\ [Next]_vars =>
        [\A t \in Task : current = t /\ current' = None => pid[t] \in kstacks']_vars
  <2> SUFFICES ASSUME IInv, [Next]_vars, NEW t \in Task, current = t, current' = None
               PROVE  pid[t] \in kstacks' \/ UNCHANGED vars
    OBVIOUS
  <2>1. CASE machine = "on"
    <3>1. pid[t] \in kstacks
      BY <2>1, CurrentRuns, ProcessAssumption, SMTT(20) DEF IInv, PidsExact
    <3> QED BY <3>1, NextIsStep, StepKinds, SMTT(20) DEF Scheduling, Forking, Exiting, Reaping
  <2>2. CASE machine # "on"
    BY <2>2 DEF Next, Halted, run_tasks, sys_yield, timer_interrupt, sys_read_stdin, sys_fork,
                sys_exit, page_fault, illegal_instruction, sys_waitpid, UserMode
  <2> QED BY <2>1, <2>2
<1> QED BY <1>1, Invariance, PTL DEF Spec, StackOutlivesExit

(* A zombie keeps its pid and code until its parent's waitpid gets both. *)
THEOREM ZombieWaits == Spec => ZombieUntilReaped
<1>1. IInv /\ [Next]_vars =>
       [\A t \in Task : status[t] = "Zombie" =>
         \/ status'[t] = "Zombie" /\ pid'[t] = pid[t] /\ exit_code'[t] = exit_code[t]
         \/ /\ status'[t] = "Free"
            /\ parent[t] = current
            /\ ret' = pid[t]
            /\ xstate' = exit_code[t]]_vars
  <2> SUFFICES ASSUME IInv, [Next]_vars, NEW t \in Task, status[t] = "Zombie"
               PROVE  \/ status'[t] = "Zombie" /\ pid'[t] = pid[t] /\ exit_code'[t] = exit_code[t]
                      \/ /\ status'[t] = "Free"
                         /\ parent[t] = current
                         /\ ret' = pid[t]
                         /\ xstate' = exit_code[t]
    OBVIOUS
  <2> QED BY NextIsStep, StepKinds, SMTT(20) DEF Scheduling, Forking, Exiting, Reaping
<1> QED BY <1>1, Invariance, PTL DEF Spec, ZombieUntilReaped

(* No task but INITPROC gets a child it did not fork. *)
THEOREM ChildrenOnlyForked == Spec => ChildrenGrowByFork
<1>1. IInv /\ [Next]_vars =>
       [\A p \in Task \ {INITPROC} : \A c \in Range(children'[p]) :
         c \in Range(children[p]) \/ (current = p /\ status[c] = "Free")]_vars
  <2> SUFFICES ASSUME IInv, [Next]_vars, NEW p \in Task \ {INITPROC}, NEW c \in Range(children'[p])
               PROVE  c \in Range(children[p]) \/ (current = p /\ status[c] = "Free")
    OBVIOUS
  <2> QED BY NextIsStep, StepKinds, Zenon DEF Scheduling, Forking, Exiting, Reaping
<1> QED BY <1>1, Invariance, PTL DEF Spec, ChildrenGrowByFork

-----------------------------------------------------------------------------
(* PidsConserved is kept next to the finiteness of the set it counts. *)
Conserved == PidsConserved /\ IsFiniteSet(Alive)

(* A step that neither creates nor frees a TCB moves no pid. *)
LEMMA ConservedByStep ==
  ASSUME IInv, Conserved, Scheduling \/ Forking \/ Exiting \/ Reaping PROVE Conserved'
<1>1. pid_current \in Nat /\ recycled \in Seq(Nat) /\ Len(recycled) \in Nat /\ pid \in [Task -> Nat]
  BY LenProperties DEF IInv, TypeOK
<1>2. IsFiniteSet(Alive) /\ Cardinality(Alive) \in Nat
  BY FS_CardinalityType DEF Conserved
<1>3. pid_current = Cardinality(Alive) + Len(recycled)
  BY DEF Conserved, PidsConserved
<1>4. CASE Scheduling \/ Exiting
  <2>1. Alive' = Alive
    BY <1>4, SMTT(20) DEF Scheduling, Exiting, Alive
  <2>2. UNCHANGED <<pid_current, recycled>>
    BY <1>4 DEF Scheduling, Exiting
  <2> QED BY <2>1, <2>2, <1>2, <1>3 DEF Conserved, PidsConserved
<1>5. CASE Forking
  <2>1. PICK child \in Task : /\ status[child] = "Free" /\ status'[child] = "Ready"
                              /\ \A t \in Task \ {child} : status'[t] = status[t]
    BY <1>5 DEF Forking
  <2>2. Alive' = Alive \cup {child} /\ child \notin Alive
    BY <2>1 DEF Alive
  <2>3. IsFiniteSet(Alive') /\ Cardinality(Alive') = Cardinality(Alive) + 1
    BY <2>2, <1>2, FS_AddElement
  <2>4. pid_alloc(ret')
    BY <1>5 DEF Forking
  <2>5. CASE recycled # <<>> /\ recycled' = Front(recycled) /\ pid_current' = pid_current
    <3>1. Len(recycled') = Len(recycled) - 1
      BY <2>5, <1>1, FrontProperties
    <3> QED BY <3>1, <2>3, <2>5, <1>1, <1>2, <1>3 DEF Conserved, PidsConserved
  <2>6. CASE recycled' = recycled /\ pid_current' = pid_current + 1
    BY <2>3, <2>6, <1>1, <1>2, <1>3 DEF Conserved, PidsConserved
  <2> QED BY <2>4, <2>5, <2>6 DEF pid_alloc
<1>6. CASE Reaping
  <2>1. PICK child \in Task : /\ status[child] = "Zombie" /\ status'[child] = "Free"
                              /\ \A t \in Task \ {child} : status'[t] = status[t]
                              /\ recycled' = Append(recycled, pid[child])
    BY <1>6 DEF Reaping
  <2>2. Alive' = Alive \ {child} /\ child \in Alive
    BY <2>1 DEF Alive
  <2>3. IsFiniteSet(Alive') /\ Cardinality(Alive') = Cardinality(Alive) - 1
    BY <2>2, <1>2, FS_RemoveElement
  <2>4. Len(recycled') = Len(recycled) + 1
    BY <2>1, <1>1
  <2>5. pid_current' = pid_current
    BY <1>6 DEF Reaping
  <2> QED BY <2>3, <2>4, <2>5, <1>1, <1>2, <1>3 DEF Conserved, PidsConserved
<1> QED BY <1>4, <1>5, <1>6

(* No pid leaks through fork, exit and waitpid: those handed out are the   *)
(* live and the recycled ones.                                             *)
THEOREM NoPidLeaks == Spec => []PidsConserved
<1>1. Init => Conserved
  <2> SUFFICES ASSUME Init PROVE Conserved
    OBVIOUS
  <2>1. Alive = {INITPROC}
    BY ProcessAssumption DEF Init, Alive
  <2>2. IsFiniteSet(Alive) /\ Cardinality(Alive) = 1
    BY <2>1, FS_Singleton, Zenon
  <2>3. Len(recycled) = 0 /\ pid_current = 1
    BY DEF Init
  <2> QED BY <2>2, <2>3 DEF Conserved, PidsConserved
<1>2. IInv /\ Conserved /\ [Next]_vars => Conserved'
  BY NextIsStep, StepKinds, ConservedByStep
<1>3. Conserved => PidsConserved
  BY DEF Conserved
<1> QED BY <1>1, <1>2, <1>3, Invariance, PTL DEF Spec

-----------------------------------------------------------------------------
(* The memory of a program, and the invariant of Programs. *)
Places == {"none", "fork", "exec", "wait", "yield", "getchar", "run", "exit"}

Mem == [program : {"none", "initproc", "user_shell", "usertests", "any"},
        at : Places,
        line : Int, pid : Nat, test : Int, passed : BOOLEAN, code : {0, -1, -4}]

PInv == IInv /\ user \in [Task -> Mem] /\ WaitsForOwnChild

(* The updates of a program's memory, and that they keep its type. *)
WithPid(m, at, p) == [m EXCEPT !.at = at, !.pid = p]
WithCode(m, at, code) == [m EXCEPT !.at = at, !.code = code]
WithLine(m, at, line) == [m EXCEPT !.at = at, !.line = line]
WithTest(m, at, test, passed) == [m EXCEPT !.at = at, !.pid = 0, !.test = test, !.passed = passed]
WithAt(m, at) == [m EXCEPT !.at = at]

(* A program that goes on keeps the type of its memory, *)
LEMMA MemAt ==
  ASSUME NEW m \in Mem, NEW at \in Places
  PROVE  /\ WithAt(m, at) \in Mem /\ WithAt(m, at).at = at
         /\ WithAt(m, at).program = m.program /\ WithAt(m, at).pid = m.pid
BY DEF Mem, WithAt

(* one that stores the pid of its child, *)
LEMMA MemPid ==
  ASSUME NEW m \in Mem, NEW at \in Places, NEW p \in Nat
  PROVE  WithPid(m, at, p) \in Mem /\ WithPid(m, at, p).at = at /\ WithPid(m, at, p).pid = p
BY Zenon DEF Mem, WithPid

(* the code it got, *)
LEMMA MemCode ==
  ASSUME NEW m \in Mem, NEW at \in Places, NEW code \in {0, -1, -4}
  PROVE  WithCode(m, at, code) \in Mem /\ WithCode(m, at, code).at = at
BY Zenon DEF Mem, WithCode

(* the line it reads, *)
LEMMA MemLine ==
  ASSUME NEW m \in Mem, NEW at \in Places, NEW line \in Int
  PROVE  WithLine(m, at, line) \in Mem /\ WithLine(m, at, line).at = at
BY Zenon DEF Mem, WithLine

(* or the next test. *)
LEMMA MemTest ==
  ASSUME NEW m \in Mem, NEW at \in Places, NEW test \in Int, NEW passed \in BOOLEAN
  PROVE  WithTest(m, at, test, passed) \in Mem /\ WithTest(m, at, test, passed).at = at
<1>1. PICK a : a = WithPid(m, at, 0)
  OBVIOUS
<1>2. a \in Mem /\ a.at = at
  BY <1>1, MemPid
<1>3. PICK b : b = [a EXCEPT !.test = test]
  BY Zenon
<1>4. b \in Mem /\ b.at = at
  BY <1>2, <1>3 DEF Mem
<1>5. PICK c : c = [b EXCEPT !.passed = passed]
  BY Zenon
<1>6. c \in Mem /\ c.at = at
  <2>1. c = [program |-> b.program, at |-> b.at, line |-> b.line, pid |-> b.pid, test |-> b.test,
             passed |-> passed, code |-> b.code]
    BY <1>4, <1>5 DEF Mem
  <2>2. /\ b.program \in {"none", "initproc", "user_shell", "usertests", "any"} /\ b.at \in Places
        /\ b.line \in Int /\ b.pid \in Nat /\ b.test \in Int /\ b.code \in {0, -1, -4}
    BY <1>4 DEF Mem
  <2>3. c \in Mem
    BY <2>1, <2>2, Zenon DEF Mem
  <2>4. c.at = b.at
    BY <2>1
  <2> QED BY <1>4, <2>3, <2>4
<1>7. c = WithTest(m, at, test, passed)
  BY <1>1, <1>3, <1>5, Zenon DEF WithTest, WithPid
<1> QED BY <1>6, <1>7

(* A launcher between its fork and the end of its waitpid. *)
Waiting(m) == m.program \in {"user_shell", "usertests"} /\ m.at \in {"wait", "yield"}

(* A step does not take a child from a task that goes on, unless that task *)
(* reaps one: its pid stays the same and nobody else can collect it.       *)
LEMMA KeepsChild ==
  ASSUME IInv, KernelStep, NEW t \in Task, NEW p,
         \E c \in Range(children[t]) : pid[c] = p,
         status'[t] \notin {"Free", "Zombie"},
         ~Reaping \/ t # current
  PROVE  \E c \in Range(children'[t]) : pid'[c] = p
<1>1. PICK c \in Range(children[t]) : pid[c] = p
  OBVIOUS
<1>2. c \in Task /\ status[c] # "Free" /\ parent[c] = t
  BY <1>1 DEF IInv, FamilyTree, Alive
<1>3. CASE Scheduling
  BY <1>1, <1>3 DEF Scheduling
<1>4. CASE Forking
  <2>1. PICK child \in Task : /\ status[child] = "Free"
                              /\ \A u \in Task \ {child} : pid'[u] = pid[u]
                              /\ \A q \in Task : Range(children'[q]) =
                                   Range(children[q]) \cup (IF q = current THEN {child} ELSE {})
    BY <1>4, Zenon DEF Forking
  <2>2. c \in Range(children'[t]) /\ pid'[c] = pid[c]
    BY <1>1, <1>2, <2>1
  <2> QED BY <1>1, <2>2
<1>5. CASE Exiting
  <2>1. t # current
    BY <1>5 DEF Exiting
  <2>2. c \in Range(children'[t]) /\ pid'[c] = pid[c]
    BY <1>1, <1>5, <2>1 DEF Exiting
  <2> QED BY <1>1, <2>2
<1>6. CASE Reaping
  <2>1. PICK child \in Task : /\ parent[child] = current
                              /\ \A u \in Task \ {child} : pid'[u] = pid[u]
                              /\ \A q \in Task : Range(children'[q]) = Range(children[q]) \ {child}
    BY <1>6, Zenon DEF Reaping
  <2>2. c # child
    BY <1>2, <1>6, <2>1
  <2>3. c \in Range(children'[t]) /\ pid'[c] = pid[c]
    BY <1>1, <1>2, <2>1, <2>2
  <2> QED BY <1>1, <2>3
<1> QED BY <1>3, <1>4, <1>5, <1>6, StepKinds, Zenon

(* A step after which the current task goes on with memory m, if at all. *)
LEMMA ContinuePInv ==
  ASSUME PInv, KernelStep, NEW m \in Mem, Continue(m),
         Waiting(m) => Waiting(me) /\ m.pid = me.pid /\ ~Reaping
  PROVE  PInv'
<1>1. IInv /\ IInv' /\ user \in [Task -> Mem] /\ WaitsForOwnChild
  BY StepIInv DEF PInv
<1>2. Gone \in Mem /\ ~Waiting(Gone)
  BY DEF Gone, Start, Mem, Places, Waiting
<1>3. /\ user' \in [Task -> Mem]
      /\ \A t \in Task : user'[t] = IF status'[t] \in {"Free", "Zombie"} THEN Gone
                                    ELSE IF t = current THEN m ELSE user[t]
  BY <1>1, <1>2 DEF Continue
<1>4. ASSUME NEW t \in Task, Waiting(user'[t])
      PROVE  \E c \in Range(children'[t]) : pid'[c] = user'[t].pid
  <2>1. status'[t] \notin {"Free", "Zombie"}
    BY <1>2, <1>3, <1>4
  <2>2. Waiting(user[t]) /\ user'[t].pid = user[t].pid /\ (~Reaping \/ t # current)
    BY <1>3, <1>4, <2>1 DEF me
  <2>3. \E c \in Range(children[t]) : pid[c] = user[t].pid
    BY <1>1, <2>2 DEF WaitsForOwnChild, Waiting
  <2>4. \E c \in Range(children'[t]) : pid'[c] = user[t].pid
    BY <1>1, <2>1, <2>2, <2>3, KeepsChild
  <2> QED BY <2>2, <2>4
<1>5. WaitsForOwnChild'
  BY <1>4, Zenon DEF WaitsForOwnChild, Waiting
<1> QED BY <1>1, <1>3, <1>5, Zenon DEF PInv

(* fork gives the parent a child of the pid it returns. *)
LEMMA ForkThenPInv ==
  ASSUME PInv, current # None, NEW parent_at, NEW child_at, ForkThen(parent_at, child_at),
         parent_at \in {"wait", "run"}, child_at \in {"exec", "run"}
  PROVE  PInv'
<1>1. IInv /\ IInv' /\ user \in [Task -> Mem] /\ WaitsForOwnChild /\ KernelStep /\ sys_fork
  BY StepIInv DEF PInv, ForkThen, KernelStep
<1>2. current \in Task /\ me \in Mem /\ status[current] = "Running"
  BY <1>1, CurrentRuns DEF me, IInv, TypeOK, sys_fork, UserMode
<1>3. Forking
  <2>1. /\ \E c \in Task : status[c] = "Free" /\ status'[c] = "Ready"
        /\ current' = current
    <3>1. PICK c \in Task : status[c] = "Free" /\ status' = [status EXCEPT ![c] = "Ready"]
      BY <1>1, ZenonT(20) DEF sys_fork
    <3>2. status'[c] = "Ready"
      BY <1>1, <3>1 DEF IInv, TypeOK
    <3>3. current' = current
      BY <1>1 DEF sys_fork
    <3> QED BY <3>1, <3>2, <3>3
  <2>2. ~Scheduling
    BY <2>1 DEF Scheduling
  <2>3. ~Exiting
    BY <2>1, <1>2, ProcessAssumption DEF Exiting
  <2>4. ~Reaping
    BY <2>1 DEF Reaping
  <2> QED BY <1>1, <2>2, <2>3, <2>4, StepKinds, Zenon
<1>4. ret' \in Nat
  BY <1>1, <1>3 DEF Forking, IInv, TypeOK
<1>5. PICK child \in Task :
        /\ status[child] = "Free"
        /\ user' = [user EXCEPT ![current] = [@ EXCEPT !.at = parent_at, !.pid = ret'],
                                ![child] = [me EXCEPT !.at = child_at, !.pid = 0]]
  BY Zenon DEF ForkThen
<1>6. PICK mp : mp = [me EXCEPT !.at = parent_at, !.pid = ret']
  OBVIOUS
<1>7. PICK mc : mc = [me EXCEPT !.at = child_at, !.pid = 0]
  OBVIOUS
<1>8. mp \in Mem /\ mp.pid = ret' /\ mc \in Mem /\ mc.at = child_at
  <2>1. {parent_at, child_at} \subseteq Places
    BY DEF Places
  <2>2. PICK m \in Mem : m = me
    BY <1>2
  <2>3. mp = WithPid(m, parent_at, ret') /\ mc = WithPid(m, child_at, 0)
    BY <1>6, <1>7, <2>2 DEF WithPid
  <2>4. mp \in Mem /\ mp.pid = ret'
    BY <1>4, <2>1, <2>3, MemPid
  <2>5. mc \in Mem /\ mc.at = child_at
    BY <2>1, <2>3, MemPid
  <2> QED BY <2>4, <2>5
<1>9. child # current
  BY <1>2, <1>5
<1>10. user' = [user EXCEPT ![current] = mp, ![child] = mc]
  BY <1>1, <1>2, <1>5, <1>6, <1>7, <1>9 DEF me
<1>11. /\ user' \in [Task -> Mem]
      /\ \A t \in Task : user'[t] = IF t = child THEN mc ELSE IF t = current THEN mp ELSE user[t]
  BY <1>1, <1>2, <1>8, <1>9, <1>10
<1>12. \E c \in Range(children'[current]) : pid'[c] = ret'
  BY <1>2, <1>3 DEF Forking
<1>13. ASSUME NEW t \in Task, Waiting(user'[t])
       PROVE  \E c \in Range(children'[t]) : pid'[c] = user'[t].pid
  <2>1. CASE t = current
    BY <1>8, <1>9, <1>11, <1>12, <2>1
  <2>2. CASE t # current
    <3>1. t # child
      BY <1>8, <1>11, <1>13 DEF Waiting
    <3>2. user'[t] = user[t]
      BY <1>11, <2>2, <3>1
    <3>3. \E c \in Range(children[t]) : pid[c] = user[t].pid
      BY <1>1, <1>13, <3>2 DEF WaitsForOwnChild, Waiting
    <3>4. status[t] \in {"Ready", "Running"}
      BY <1>1, <3>3 DEF IInv, FamilyTree
    <3>5. status'[t] \notin {"Free", "Zombie"}
      BY <1>3, <3>4 DEF Forking
    <3>6. \E c \in Range(children'[t]) : pid'[c] = user[t].pid
      BY <1>1, <2>2, <3>3, <3>5, KeepsChild
    <3> QED BY <3>2, <3>6
  <2> QED BY <2>1, <2>2
<1>14. WaitsForOwnChild'
  BY <1>13, Zenon DEF WaitsForOwnChild, Waiting
<1> QED BY <1>1, <1>11, <1>14, Zenon DEF PInv

(* A step that leaves the children, their pids and the other programs. *)
LEMMA StayPInv ==
  ASSUME PInv, KernelStep, UNCHANGED <<children, pid>>, user' \in [Task -> Mem],
         \A t \in Task : user'[t] = user[t] \/ ~Waiting(user'[t])
  PROVE  PInv'
<1>1. WaitsForOwnChild'
  BY DEF PInv, WaitsForOwnChild, Waiting
<1> QED BY <1>1, StepIInv DEF PInv

(* exec replaces a program by one that waits for nothing. *)
LEMMA ExecThenPInv ==
  ASSUME PInv, current # None, NEW programs, NEW failed, ExecThen(programs, failed),
         \A m \in programs \cup {failed} : m \in Mem /\ ~Waiting(m)
  PROVE  PInv'
<1>1. current \in Task
  BY CurrentRuns DEF PInv, ExecThen, UserMode
<1>2. PICK m \in programs \cup {failed} : user' = [user EXCEPT ![current] = m]
  BY Zenon DEF ExecThen
<1>3. user' \in [Task -> Mem] /\ \A t \in Task : user'[t] = user[t] \/ ~Waiting(user'[t])
  BY <1>1, <1>2 DEF PInv
<1>4. KernelStep /\ UNCHANGED <<children, pid>>
  BY NextIsStep DEF ExecThen, PInv, vars
<1> QED BY <1>3, <1>4, StayPInv

(* Every step of Programs keeps the invariant. *)
LEMMA ProgramsStep == ASSUME PInv, [ProgramsNext]_programVars PROVE PInv'
<1>0. IInv /\ user \in [Task -> Mem] /\ WaitsForOwnChild
  BY DEF PInv
<1> USE DEF Places
<1>1. CASE dispatch \/ UNCHANGED programVars
  <2>1. KernelStep /\ UNCHANGED <<children, pid>> /\ UNCHANGED user
    <3>1. CASE dispatch
      BY <3>1 DEF dispatch, KernelStep, run_tasks
    <3>2. CASE UNCHANGED programVars
      BY <3>2, <1>0, NextIsStep DEF programVars, vars
    <3> QED BY <1>1, <3>1, <3>2
  <2> QED BY <1>0, <2>1, StayPInv
<1>2. SUFFICES ASSUME main \/ (current # None /\ any_program) \/ preempted PROVE PInv'
  BY <1>1 DEF ProgramsNext
<1>3. current \in Task /\ me \in Mem /\ current # None
  BY <1>0, <1>2 DEF main, preempted, me, IInv, TypeOK
<1>4. ASSUME current' = None PROVE ~Reaping
  BY <1>3, <1>4 DEF Reaping
<1>5. ASSUME sys_yield \/ timer_interrupt PROVE KernelStep /\ ~Reaping
  BY <1>4, <1>5 DEF KernelStep, sys_yield, timer_interrupt, suspend_current_and_run_next
<1>6. CASE preempted
  BY <1>3, <1>5, <1>6, ContinuePInv DEF preempted
<1>7. ASSUME me.program = "any", any_program PROVE PInv'
  <2>1. ~Waiting(me)
    BY <1>7 DEF Waiting
  <2>2. ASSUME KernelStep, Continue(me) PROVE PInv'
    BY <1>3, <2>1, <2>2, ContinuePInv
  <2>3. CASE (sys_yield \/ sys_read_stdin \/ sys_exit \/ page_fault \/ illegal_instruction) /\ Continue(me)
    <3>1. KernelStep
      <4>1. CASE sys_yield \/ sys_read_stdin
        BY <4>1, Zenon DEF KernelStep
      <4>2. CASE sys_exit \/ page_fault \/ illegal_instruction
        BY <4>2, <1>0, NextIsStep, Zenon DEF Next
      <4> QED BY <2>3, <4>1, <4>2
    <3> QED BY <2>2, <2>3, <3>1
  <2>4. CASE ForkThen("run", "run")
    BY <1>3, <2>4, ForkThenPInv
  <2>5. CASE \E want \in -1 .. pid_current : sys_waitpid(want) /\ Continue(me)
    BY <2>2, <2>5, Zenon DEF KernelStep
  <2> QED BY <1>7, <2>3, <2>4, <2>5, Zenon DEF any_program
<1>8. CASE init_fork \/ launch_fork
  BY <1>3, <1>8, ForkThenPInv DEF init_fork, launch_fork
<1>9. ASSUME NEW code \in {0, -1, -4} PROVE Leaving(code) \in Mem /\ ~Waiting(Leaving(code))
  <2>1. Leaving(code) = WithCode(me, "exit", code)
    BY DEF Leaving, WithCode
  <2> QED BY <1>3, <2>1, MemCode DEF Waiting
<1>10. ASSUME NEW program \in {"user_shell", "usertests", "any"}, NEW at \in {"getchar", "fork", "run"}
       PROVE  Start(program, at) \in Mem /\ ~Waiting(Start(program, at))
  BY DEF Start, Mem, Waiting
<1>11. CASE init_exec
  <2>1. ExecThen({Start("user_shell", "getchar")}, Leaving(0))
    BY <1>11 DEF init_exec
  <2>2. \A m \in {Start("user_shell", "getchar")} \cup {Leaving(0)} : m \in Mem /\ ~Waiting(m)
    BY <1>9, <1>10
  <2> QED BY <1>3, <2>1, <2>2, ExecThenPInv, Zenon
<1>12. CASE launch_exec
  <2> DEFINE ps == {Start("user_shell", "getchar"), Start("usertests", "fork"), Start("any", "run")}
  <2>1. \/ ExecThen(ps, Leaving(-4))
        \/ ExecThen({Start("any", "run")}, Leaving(-1))
    BY <1>12 DEF launch_exec
  <2>2. \A m \in ps \cup {Leaving(-4)} : m \in Mem /\ ~Waiting(m)
    BY <1>9, <1>10
  <2>3. \A m \in {Start("any", "run")} \cup {Leaving(-1)} : m \in Mem /\ ~Waiting(m)
    BY <1>9, <1>10
  <2> QED BY <1>3, <2>1, <2>2, <2>3, ExecThenPInv, Zenon
<1>13. ASSUME NEW at \in Places, Go(at) PROVE /\ WithAt(me, at) \in Mem /\ WithAt(me, at).at = at
                                              /\ WithAt(me, at).program = me.program
                                              /\ WithAt(me, at).pid = me.pid
                                              /\ Continue(WithAt(me, at))
  <2>1. Continue(WithAt(me, at))
    BY <1>13, Zenon DEF Go, WithAt
  <2> QED BY <1>3, <2>1, MemAt
<1>14. CASE init_wait
  <2>1. PICK at \in Places : Go(at)
    BY <1>14 DEF init_wait
  <2>2. KernelStep
    BY <1>14, Zenon DEF init_wait, KernelStep
  <2>3. ~Waiting(WithAt(me, at))
    BY <1>13, <1>14, <2>1 DEF init_wait, Waiting
  <2> QED BY <1>13, <2>1, <2>2, <2>3, ContinuePInv
<1>15. CASE yield_program
  <2>1. KernelStep /\ ~Reaping /\ me.at = "yield" /\ Go("wait")
    BY <1>5, <1>15 DEF yield_program
  <2>2. Waiting(WithAt(me, "wait")) => Waiting(me)
    BY <1>13, <2>1 DEF Waiting
  <2> QED BY <1>13, <2>1, <2>2, ContinuePInv
<1>16. CASE exit_program
  <2>1. me.code \in ExitCodes /\ ~Waiting(me)
    BY <1>3, <1>16 DEF Mem, ExitCodes, exit_program, Waiting
  <2>2. KernelStep
    BY <1>16, <2>1, Zenon DEF exit_program, KernelStep
  <2> QED BY <1>3, <1>16, <2>1, <2>2, ContinuePInv DEF exit_program
<1>17. CASE shell_getchar
  <2>1. KernelStep
    BY <1>17, Zenon DEF shell_getchar, KernelStep
  <2>2. CASE UNCHANGED user
    <3>1. UNCHANGED <<children, pid>>
      BY <1>17 DEF shell_getchar, sys_read_stdin, suspend_current_and_run_next, tcbs
    <3> QED BY <1>0, <2>1, <2>2, <3>1, StayPInv
  <2>3. ASSUME NEW c \in {"enter", "backspace", "letter"}, Continue(Typed(c)) PROVE PInv'
    <3>1. Typed(c) \in Mem /\ Typed(c).at \in {"getchar", "fork"}
      <4>1. me.line \in Int
        BY <1>3 DEF Mem
      <4>2. CASE c = "enter"
        <5>1. PICK at \in {"getchar", "fork"} : Typed(c) = WithAt(me, at)
          BY <4>2 DEF Typed, WithAt
        <5> QED BY <1>3, <5>1, MemAt
      <4>3. CASE c # "enter"
        <5>1. PICK line \in Int : Typed(c) = WithLine(me, "getchar", line)
          <6>1. CASE c = "backspace"
            <7>1. PICK line \in Int : line = IF me.line = 0 THEN 0 ELSE me.line - 1
              BY <4>1
            <7>2. Typed(c) = WithLine(me, "getchar", line)
              BY <1>3, <6>1, <7>1 DEF Typed, WithLine, Mem
            <7> QED BY <7>2
          <6>2. CASE c = "letter"
            <7>1. PICK line \in Int : line = me.line + 1
              BY <4>1
            <7>2. Typed(c) = WithLine(me, "getchar", line)
              BY <1>3, <6>2, <7>1 DEF Typed, WithLine, Mem
            <7> QED BY <7>2
          <6> QED BY <4>3, <6>1, <6>2
        <5>2. PICK m \in Mem, at \in Places : m = me /\ at = "getchar"
          BY <1>3
        <5>3. WithLine(m, at, line) \in Mem /\ WithLine(m, at, line).at = at
          <6> HIDE DEF Places
          <6> QED BY MemLine, Zenon
        <5> QED BY <5>1, <5>2, <5>3
      <4> QED BY <4>2, <4>3
    <3>2. ~Waiting(Typed(c))
      BY <3>1 DEF Waiting
    <3> QED BY <2>1, <2>3, <3>1, <3>2, ContinuePInv
  <2> QED BY <1>17, <2>2, <2>3, Zenon DEF shell_getchar
<1>18. CASE launch_wait
  <2>1. KernelStep
    BY <1>18, Zenon DEF launch_wait, KernelStep
  <2> DEFINE m == CASE ret' = -2     -> [me EXCEPT !.at = "yield"]
                    [] ret' = me.pid -> Launched(xstate')
                    [] OTHER         -> Leaving(-1)
  <2>2. Continue(m)
    BY <1>18 DEF launch_wait
  <2>5. ret' = -2 => ret' # me.pid
    BY <1>3 DEF Mem
  <2>6. /\ ret' = -2 => m = [me EXCEPT !.at = "yield"]
        /\ ret' # -2 => m = Launched(xstate') \/ m = Leaving(-1)
    BY <2>5
  <2> HIDE DEF m
  <2>3. CASE ret' = -2
    <3>1. m = WithAt(me, "yield")
      BY <2>6, <2>3 DEF WithAt
    <3>2. m \in Mem /\ m.program = me.program /\ m.pid = me.pid
      BY <1>3, <3>1, MemAt
    <3>3. Waiting(me)
      BY <1>18 DEF launch_wait, Waiting
    <3>4. ~Reaping
      BY <1>0, <2>3 DEF Reaping, IInv, TypeOK
    <3> QED BY <2>1, <2>2, <3>2, <3>3, <3>4, ContinuePInv
  <2>4. CASE ret' # -2
    <3>1. m = Launched(xstate') \/ m = Leaving(-1)
      BY <2>4, <2>6
    <3>2. Launched(xstate') \in Mem /\ ~Waiting(Launched(xstate'))
      <4>1. CASE me.program = "user_shell"
        BY <1>10, <4>1 DEF Launched
      <4>2. CASE me.program # "user_shell" /\ me.test = Len(Tests)
        <5>1. PICK code \in {0, -1, -4} : Launched(xstate') = Leaving(code)
          BY <4>2 DEF Launched
        <5> QED BY <1>9, <5>1
      <4>3. CASE me.program # "user_shell" /\ me.test # Len(Tests)
        <5>1. PICK passed \in BOOLEAN : passed = (me.passed /\ xstate' = Tests[me.test])
          <6>1. me.passed \in BOOLEAN
            BY <1>3 DEF Mem
          <6> QED BY <6>1, Zenon
        <5>2. PICK test \in Int : test = me.test + 1
          BY <1>3 DEF Mem
        <5>3. Launched(xstate') = WithTest(me, "fork", test, passed)
          BY <1>3, <4>3, <5>1, <5>2, Zenon DEF Launched, WithTest
        <5> QED BY <1>3, <5>3, MemTest DEF Waiting
      <4> QED BY <4>1, <4>2, <4>3
    <3>3. m \in Mem /\ ~Waiting(m)
      BY <1>9, <3>1, <3>2
    <3> QED BY <2>1, <2>2, <3>3, ContinuePInv
  <2> QED BY <2>3, <2>4
<1> QED
  BY <1>2, <1>6, <1>7, <1>8, <1>11, <1>12, <1>14, <1>15, <1>16, <1>17, <1>18, Zenon DEF main, any_program

(* While the shell or usertests waits, the pid it waits for is that of a   *)
(* child of its own, for any programs that run beside it.                  *)
THEOREM LaunchersWaitForTheirChild == ProgramsSpec => []WaitsForOwnChild
<1>1. ProgramsInit => PInv
  <2> SUFFICES ASSUME ProgramsInit PROVE PInv
    OBVIOUS
  <2>1. IInv
    BY InitIInv DEF ProgramsInit
  <2>2. Gone \in Mem /\ ~Waiting(Gone) /\ Start("initproc", "fork") \in Mem /\ ~Waiting(Start("initproc", "fork"))
    BY DEF Gone, Start, Mem, Places, Waiting
  <2>3. user \in [Task -> Mem] /\ \A t \in Task : ~Waiting(user[t])
    BY <2>2 DEF ProgramsInit
  <2> QED BY <2>1, <2>3 DEF PInv, WaitsForOwnChild, Waiting
<1>2. PInv /\ [ProgramsNext]_programVars => PInv'
  BY ProgramsStep
<1>3. PInv => WaitsForOwnChild
  BY DEF PInv
<1> QED BY <1>1, <1>2, <1>3, PTL DEF ProgramsSpec

-----------------------------------------------------------------------------
(* NoDoubleBorrow of Borrows: every stretch of kernel code is clean, in    *)
(* that it leaves no RefMut alive and never meets one of its own.  Where   *)
(* cells are held over one another (fork, exit, waitpid) they belong to    *)
(* different tasks because of the family tree, which is why the invariant  *)
(* of Process is needed here.                                              *)

(* Code that leaves no RefMut alive and meets none of its own. *)
Clean(code) == code.holds = {} /\ code.twice = {}

(* A temporary borrow. *)
LEMMA CleanTouch == ASSUME NEW cell PROVE Clean(Touch(cell)) /\ Touch(cell).uses = {cell}
BY DEF Clean, Nothing, Touch, Scope

(* Several, one after the other. *)
LEMMA CleanEach == ASSUME NEW cells PROVE Clean(Each(cells)) /\ Each(cells).uses = cells
BY DEF Clean, Each

(* No code borrows nothing. *)
LEMMA CleanNothing == Clean(Nothing) /\ Nothing.uses = {}
BY Zenon DEF Clean, Nothing

(* Clean code after clean code. *)
LEMMA CleanThen == ASSUME NEW a, NEW b, Clean(a), Clean(b) PROVE Clean(a ++ b)
BY Zenon DEF Clean, ++

(* What a sequence uses. *)
LEMMA ThenUses == ASSUME NEW a, NEW b PROVE (a ++ b).uses = a.uses \cup b.uses
BY DEF ++

(* Clean code under a cell that it does not borrow. *)
LEMMA CleanScope ==
  ASSUME NEW cell, NEW body, Clean(body), cell \notin body.uses
  PROVE  Clean(Scope(cell, body)) /\ Scope(cell, body).uses = body.uses \cup {cell}
BY DEF Clean, Scope

(* A step of clean code leaves the cells as it found them, all free. *)
BorrowsFree == borrowed = {} /\ doubly = {}

(* Whatever clean code a step runs, no borrow outlives it. *)
LEMMA CleanStep == ASSUME BorrowsFree, NEW code, Clean(code), Borrowing(code) PROVE BorrowsFree'
BY DEF BorrowsFree, Clean, Borrowing

(* The functions of several paths are clean. *)
LEMMA CleanCalls ==
  /\ Clean(current_task) /\ Clean(user_frames) /\ Clean(kernel_stack)
  /\ Clean(drop_task) /\ Clean(block_io)
  /\ user_frames.uses \subseteq Statics /\ kernel_stack.uses \subseteq Statics
  /\ drop_task.uses \subseteq Statics /\ block_io.uses = {"VirtIOBlock", "KERNEL_SPACE"}
  /\ \A t : /\ Clean(current_trap_cx(t)) /\ Clean(current_user_token(t))
            /\ Clean(syscall_enter(t)) /\ Clean(syscall_leave(t))
            /\ Clean(suspend_trace(t)) /\ Clean(sys_read_prefix(t))
<1>1. Clean(current_task)
  BY CleanTouch, Zenon DEF current_task
<1>2. Clean(user_frames) /\ user_frames.uses = {"FRAME_ALLOCATOR"}
  BY CleanTouch, Zenon DEF user_frames
<1>3. Clean(kernel_stack) /\ kernel_stack.uses = {"KERNEL_SPACE", "FRAME_ALLOCATOR"}
  <2>1. PICK body : body = Touch("FRAME_ALLOCATOR")
    OBVIOUS
  <2>2. Clean(body) /\ body.uses = {"FRAME_ALLOCATOR"}
    BY <2>1, CleanTouch, Zenon
  <2>3. "KERNEL_SPACE" \notin body.uses
    BY <2>2
  <2>4. Clean(kernel_stack) /\ kernel_stack.uses = body.uses \cup {"KERNEL_SPACE"}
    BY <2>1, <2>2, <2>3, CleanScope, Zenon DEF kernel_stack
  <2> QED BY <2>2, <2>4
<1>4. Clean(block_io) /\ block_io.uses = {"VirtIOBlock", "KERNEL_SPACE"}
  <2>1. PICK body : body = Touch("KERNEL_SPACE")
    OBVIOUS
  <2>2. Clean(body) /\ body.uses = {"KERNEL_SPACE"}
    BY <2>1, CleanTouch, Zenon
  <2>3. "VirtIOBlock" \notin body.uses
    BY <2>2
  <2>4. Clean(block_io) /\ block_io.uses = body.uses \cup {"VirtIOBlock"}
    BY <2>1, <2>2, <2>3, CleanScope, Zenon DEF block_io
  <2> QED BY <2>2, <2>4
<1>5. Clean(drop_task) /\ drop_task.uses = {"PID_ALLOCATOR", "KERNEL_SPACE", "FRAME_ALLOCATOR"}
  <2>1. Clean(Touch("PID_ALLOCATOR")) /\ Touch("PID_ALLOCATOR").uses = {"PID_ALLOCATOR"}
    BY CleanTouch, Zenon
  <2>2. /\ Clean(Touch("PID_ALLOCATOR") ++ kernel_stack)
        /\ (Touch("PID_ALLOCATOR") ++ kernel_stack).uses = {"PID_ALLOCATOR"} \cup kernel_stack.uses
    BY <2>1, <1>3, CleanThen, ThenUses, Zenon
  <2>3. Clean(drop_task) /\ drop_task.uses = ({"PID_ALLOCATOR"} \cup kernel_stack.uses) \cup user_frames.uses
    BY <2>2, <1>2, CleanThen, ThenUses, Zenon DEF drop_task
  <2> QED BY <2>3, <1>2, <1>3
<1>6. ASSUME NEW t
      PROVE  /\ Clean(current_trap_cx(t)) /\ Clean(current_user_token(t))
             /\ Clean(syscall_enter(t)) /\ Clean(syscall_leave(t))
             /\ Clean(suspend_trace(t)) /\ Clean(sys_read_prefix(t))
  <2>1. Clean(Touch(t)) /\ Clean(Touch("PROCESSOR")) /\ Clean(Touch("TASK_MANAGER"))
    BY CleanTouch, Zenon
  <2>2. Clean(current_trap_cx(t)) /\ Clean(current_user_token(t)) /\ Clean(syscall_enter(t))
    BY <1>1, <2>1, CleanThen, Zenon DEF current_trap_cx, current_user_token, syscall_enter
  <2>3. Clean(syscall_leave(t))
    BY <2>2, CleanThen, Zenon DEF syscall_leave, trap_return
  <2>4. Clean(suspend_trace(t))
    BY <2>1, CleanThen, Zenon DEF suspend_trace
  <2>5. Clean(sys_read_prefix(t))
    BY <1>1, <2>1, <2>2, CleanThen, Zenon DEF sys_read_prefix
  <2> QED BY <2>2, <2>3, <2>4, <2>5
<1> QED
  BY <1>1, <1>2, <1>3, <1>4, <1>5, <1>6 DEF Statics

(* exit holds the cells of three generations at once: they are different   *)
(* tasks because nobody is its own child and INITPROC is nobody's.         *)
LEMMA CleanExit ==
  ASSUME IInv, UserMode PROVE Clean(exit_trace(current))
<1>1. current \in Task /\ children[current] \in Seq(Task)
  BY CurrentRuns DEF UserMode
<1>2. CASE pid[current] = IDLE_PID
  <2>1. Clean(Touch("PROCESSOR") ++ Nothing)
    BY CleanTouch, CleanThen, CleanNothing, Zenon
  <2> QED BY <1>2, <2>1, Zenon DEF exit_trace
<1>3. CASE pid[current] # IDLE_PID
  <2>1. current # INITPROC
    BY <1>3 DEF IInv, InitprocLives
  <2>2. PICK ch : ch = Range(children[current])
    OBVIOUS
  <2>3. INITPROC \notin ch /\ current \notin ch
    BY <1>1, <2>2 DEF IInv, FamilyTree, Alive
  <2>4. PICK a : a = Scope(INITPROC, Each(ch))
    OBVIOUS
  <2>5. Clean(a) /\ a.uses = ch \cup {INITPROC}
    BY <2>3, <2>4, CleanScope, CleanEach, Zenon
  <2>6. Clean(a ++ user_frames) /\ (a ++ user_frames).uses = a.uses \cup user_frames.uses
    BY <2>5, CleanCalls, CleanThen, ThenUses, Zenon
  <2>7. current \notin (a ++ user_frames).uses
    <3>1. current \notin user_frames.uses
      BY <1>1, CleanCalls, BorrowsAssumption
    <3> QED BY <2>1, <2>3, <2>5, <2>6, <3>1
  <2>8. Clean(Scope(current, a ++ user_frames)) /\ Clean(Touch("PROCESSOR"))
    BY <2>6, <2>7, CleanScope, CleanTouch, Zenon
  <2>9. Clean(Touch("PROCESSOR") ++ (Scope(current, a ++ user_frames) ++ Touch("PROCESSOR")))
    BY <2>8, CleanThen, Zenon
  <2> QED BY <1>3, <2>2, <2>4, <2>9, Zenon DEF exit_trace
<1> QED BY <1>2, <1>3

(* fork holds the cell of the parent over that of the child. *)
LEMMA CleanFork ==
  ASSUME IInv, UserMode, NEW child \in Task, child # current
  PROVE  Clean(syscall_enter(current) ++ current_task
               ++ Scope(current, user_frames ++ Touch("PID_ALLOCATOR") ++ kernel_stack ++ Touch(child))
               ++ Touch(child) ++ Touch("TASK_MANAGER")
               ++ syscall_leave(current))
<1>1. current \in Task
  BY CurrentRuns DEF UserMode
<1>2. PICK body : body = user_frames ++ Touch("PID_ALLOCATOR") ++ kernel_stack ++ Touch(child)
  OBVIOUS
<1>3. /\ Clean(user_frames ++ Touch("PID_ALLOCATOR"))
      /\ (user_frames ++ Touch("PID_ALLOCATOR")).uses = user_frames.uses \cup {"PID_ALLOCATOR"}
  <2>1. Clean(user_frames) /\ Clean(Touch("PID_ALLOCATOR")) /\ Touch("PID_ALLOCATOR").uses = {"PID_ALLOCATOR"}
    BY CleanCalls, CleanTouch, Zenon
  <2> QED BY <2>1, CleanThen, ThenUses, Zenon
<1>4. /\ Clean(user_frames ++ Touch("PID_ALLOCATOR") ++ kernel_stack)
      /\ (user_frames ++ Touch("PID_ALLOCATOR") ++ kernel_stack).uses
           = (user_frames.uses \cup {"PID_ALLOCATOR"}) \cup kernel_stack.uses
  BY <1>3, CleanCalls, CleanThen, ThenUses, ZenonT(30)
<1>5. /\ Clean(body)
      /\ body.uses = ((user_frames.uses \cup {"PID_ALLOCATOR"}) \cup kernel_stack.uses) \cup {child}
  <2>1. PICK a : a = user_frames ++ Touch("PID_ALLOCATOR") ++ kernel_stack
    OBVIOUS
  <2>2. Clean(Touch(child)) /\ Touch(child).uses = {child}
    BY CleanTouch, Zenon
  <2>3. Clean(a) /\ a.uses = (user_frames.uses \cup {"PID_ALLOCATOR"}) \cup kernel_stack.uses
    BY <1>4, <2>1, Zenon
  <2>4. body = a ++ Touch(child)
    BY <1>2, <2>1, Zenon
  <2>5. Clean(body)
    BY <2>2, <2>3, <2>4, CleanThen, Zenon
  <2>6. body.uses = a.uses \cup Touch(child).uses
    BY <2>4, ThenUses, Zenon
  <2> QED BY <2>2, <2>3, <2>5, <2>6, Zenon
<1>6. current \notin body.uses
  BY <1>1, <1>5, CleanCalls, BorrowsAssumption DEF Statics
<1>7. Clean(Scope(current, body)) /\ Clean(Touch(child)) /\ Clean(Touch("TASK_MANAGER"))
  BY <1>5, <1>6, CleanScope, CleanTouch, Zenon
<1>8. Clean(syscall_enter(current) ++ current_task ++ Scope(current, body) ++ Touch(child))
  BY <1>7, CleanCalls, CleanThen, Zenon
<1> QED BY <1>2, <1>7, <1>8, CleanCalls, CleanThen, Zenon

(* waitpid holds its own cell over those of the children it looks at. *)
LEMMA CleanWaitpid ==
  ASSUME IInv, UserMode, NEW looked, looked \subseteq Range(children[current]),
         NEW reaped, reaped = Nothing \/ \E c \in Range(children[current]) : reaped = Touch(c) ++ drop_task
  PROVE  Clean(syscall_enter(current) ++ current_task ++ Scope(current, Each(looked) ++ reaped)
               ++ syscall_leave(current))
<1>1. current \in Task /\ current \notin Range(children[current])
  BY CurrentRuns DEF UserMode, IInv, FamilyTree, Alive
<1>2. Clean(reaped) /\ current \notin reaped.uses
  <2>1. CASE reaped = Nothing
    <3>1. Clean(Nothing) /\ Nothing.uses = {}
      BY CleanNothing, Zenon
    <3> QED BY <2>1, <3>1
  <2>2. ASSUME NEW c \in Range(children[current]), reaped = Touch(c) ++ drop_task
        PROVE  Clean(reaped) /\ current \notin reaped.uses
    <3>1. Clean(reaped) /\ reaped.uses = {c} \cup drop_task.uses
      <4>1. Clean(drop_task) /\ Clean(Touch(c)) /\ Touch(c).uses = {c}
        BY CleanCalls, CleanTouch, Zenon
      <4> QED BY <2>2, <4>1, CleanThen, ThenUses, Zenon
    <3> QED BY <1>1, <3>1, CleanCalls, BorrowsAssumption, RangeType DEF IInv, TypeOK
  <2> QED BY <2>1, <2>2
<1>3. Clean(Each(looked) ++ reaped) /\ (Each(looked) ++ reaped).uses = looked \cup reaped.uses
  <2>1. Clean(Each(looked)) /\ Each(looked).uses = looked
    BY CleanEach, Zenon
  <2> QED BY <1>2, <2>1, CleanThen, ThenUses, Zenon
<1>4. current \notin (Each(looked) ++ reaped).uses
  BY <1>1, <1>2, <1>3
<1>5. Clean(Scope(current, Each(looked) ++ reaped))
  BY <1>3, <1>4, CleanScope, Zenon
<1> QED BY <1>5, CleanCalls, CleanThen, Zenon

(* Every step of Borrows is a step of the kernel that runs clean code. *)
LEMMA BorrowsStep ==
  ASSUME IInv, BorrowsFree, [BorrowsNext]_borrowVars PROVE IInv' /\ BorrowsFree'
<1>1. CASE run_tasks_borrows
  <2>1. PICK task : task = Head(ready_queue)
    OBVIOUS
  <2>2. PICK tail : tail = IF task \in in_read THEN Nothing ELSE syscall_leave(task)
    OBVIOUS
  <2>3. Clean(tail)
    BY <2>2, CleanNothing, CleanCalls, Zenon
  <2>4. task \in Task
    BY <1>1, <2>1, RangeTail DEF IInv, TypeOK, SchedulerExact, run_tasks_borrows, run_tasks
  <2>5. PICK body : body = Touch("TASK_MANAGER") ++ Touch(task)
    OBVIOUS
  <2>6. Clean(body)
    BY <2>5, CleanTouch, CleanThen, Zenon
  <2>7. body.uses = {"TASK_MANAGER"} \cup {task}
    <3>1. Touch("TASK_MANAGER").uses = {"TASK_MANAGER"} /\ Touch(task).uses = {task}
      BY CleanTouch, Zenon
    <3>2. body.uses = Touch("TASK_MANAGER").uses \cup Touch(task).uses
      BY <2>5, ThenUses, Zenon
    <3> QED BY <3>1, <3>2, Zenon
  <2>8. "PROCESSOR" \notin body.uses
    BY <2>4, <2>7, BorrowsAssumption DEF Statics
  <2>9. Clean(Scope("PROCESSOR", body))
    BY <2>6, <2>8, CleanScope, Zenon
  <2>10. Clean(Scope("PROCESSOR", body) ++ tail)
    BY <2>3, <2>9, CleanThen, Zenon
  <2>11. Borrowing(Scope("PROCESSOR", body) ++ tail)
    BY <1>1, <2>1, <2>2, <2>5, Zenon DEF run_tasks_borrows
  <2>12. KernelStep
    BY <1>1, Zenon DEF run_tasks_borrows, KernelStep
  <2> QED BY <2>10, <2>11, <2>12, CleanStep, StepIInv, Zenon
<1>2. CASE sys_yield_borrows \/ timer_interrupt_borrows
  <2>1. Clean(suspend_trace(current)) /\ Clean(syscall_enter(current))
    BY CleanCalls, Zenon
  <2>2. Clean(syscall_enter(current) ++ suspend_trace(current))
    BY <2>1, CleanThen, Zenon
  <2>3. KernelStep
    BY <1>2, Zenon DEF sys_yield_borrows, timer_interrupt_borrows, KernelStep
  <2>4. \/ Borrowing(syscall_enter(current) ++ suspend_trace(current))
        \/ Borrowing(suspend_trace(current))
    BY <1>2, Zenon DEF sys_yield_borrows, timer_interrupt_borrows
  <2> QED BY <2>1, <2>2, <2>3, <2>4, CleanStep, StepIInv, Zenon
<1>3. CASE sys_read_borrows
  <2>1. PICK enter : enter = IF current \in in_read THEN Nothing ELSE sys_read_prefix(current)
    OBVIOUS
  <2>2. PICK leave : leave = IF current' = None THEN suspend_trace(current) ELSE syscall_leave(current)
    OBVIOUS
  <2>3. Clean(enter) /\ Clean(leave)
    BY <2>1, <2>2, CleanNothing, CleanCalls, Zenon
  <2>4. Clean(enter ++ leave)
    BY <2>3, CleanThen, Zenon
  <2>5. Borrowing(enter ++ leave) /\ KernelStep
    BY <1>3, <2>1, <2>2, Zenon DEF sys_read_borrows, KernelStep
  <2> QED BY <2>4, <2>5, CleanStep, StepIInv, Zenon
<1>4. CASE sys_fork_borrows
  <2>0. sys_fork /\ UserMode
    BY <1>4, Zenon DEF sys_fork_borrows, sys_fork
  <2>1. current \in Task /\ status[current] = "Running" /\ children[current] \in Seq(Task)
    BY <2>0, CurrentRuns DEF UserMode
  <2>2. PICK child \in Task : /\ status[child] = "Free"
                              /\ children' = [children EXCEPT ![current] = Append(@, child)]
    BY <2>0, ZenonT(20) DEF sys_fork
  <2>3. child # current
    BY <2>1, <2>2
  <2>4. children'[current] = Append(children[current], child)
    BY <2>1, <2>2 DEF IInv, TypeOK
  <2>5. Last(children'[current]) = child
    <3>1. PICK ch \in Seq(Task) : ch = children[current]
      BY <2>1
    <3>2. Last(Append(ch, child)) = child
      BY AppendProperties DEF Last
    <3> QED BY <2>4, <3>1, <3>2, Zenon
  <2>6. Borrowing(syscall_enter(current) ++ current_task
               ++ Scope(current, user_frames ++ Touch("PID_ALLOCATOR") ++ kernel_stack ++ Touch(child))
               ++ Touch(child) ++ Touch("TASK_MANAGER")
               ++ syscall_leave(current))
    BY <1>4, <2>5, Zenon DEF sys_fork_borrows
  <2>7. KernelStep
    BY <2>0, Zenon DEF KernelStep
  <2> QED BY <2>0, <2>3, <2>6, <2>7, CleanFork, CleanStep, StepIInv, Zenon
<1>5. CASE sys_exit_borrows \/ page_fault_borrows \/ illegal_instruction_borrows
  <2>1. UserMode /\ \E code \in ExitCodes : exit_current_and_run_next(code)
    BY <1>5 DEF sys_exit_borrows, page_fault_borrows, illegal_instruction_borrows, sys_exit,
                page_fault, illegal_instruction, ExitCodes
  <2>2. Clean(exit_trace(current))
    BY <2>1, CleanExit, Zenon
  <2>3. Clean(syscall_enter(current) ++ exit_trace(current)) /\ Clean(current_trap_cx(current) ++ exit_trace(current))
    BY <2>2, CleanCalls, CleanThen, Zenon
  <2>4. \/ Borrowing(syscall_enter(current) ++ exit_trace(current))
        \/ Borrowing(current_trap_cx(current) ++ exit_trace(current))
        \/ Borrowing(exit_trace(current))
    BY <1>5, Zenon DEF sys_exit_borrows, page_fault_borrows, illegal_instruction_borrows
  <2>5. KernelStep
    BY <2>1, Zenon DEF KernelStep
  <2> QED BY <2>2, <2>3, <2>4, <2>5, CleanStep, StepIInv, Zenon
<1>6. ASSUME NEW want \in -1 .. pid_current, sys_waitpid_borrows(want) PROVE IInv' /\ BorrowsFree'
  <2>0. sys_waitpid(want) /\ UserMode /\ KernelStep
    BY <1>6, Zenon DEF sys_waitpid_borrows, sys_waitpid, KernelStep
  <2> DEFINE ch == children[current]
             found == CHOOSE i \in DOMAIN ch : FirstZombie(want, i)
             looked == CASE ret' = -1 -> {}
                         [] ret' = -2 -> Range(ch)
                         [] OTHER     -> {ch[k] : k \in 1 .. found}
             reaped == IF ret' < 0 THEN Nothing ELSE Touch(ch[found]) ++ drop_task
  <2>6. Borrowing(syscall_enter(current) ++ current_task ++ Scope(current, Each(looked) ++ reaped)
                  ++ syscall_leave(current))
    BY <1>6 DEF sys_waitpid_borrows
  <2>1. ch = children[current]
    OBVIOUS
  <2>2. ch \in Seq(Task)
    BY <2>0, <2>1, CurrentRuns DEF UserMode
  <2>3. found = CHOOSE i \in DOMAIN ch : FirstZombie(want, i)
    OBVIOUS
  <2>4. looked = CASE ret' = -1 -> {}
                   [] ret' = -2 -> Range(ch)
                   [] OTHER     -> {ch[k] : k \in 1 .. found}
    OBVIOUS
  <2>5. reaped = IF ret' < 0 THEN Nothing ELSE Touch(ch[found]) ++ drop_task
    OBVIOUS
  <2> HIDE DEF ch, found, looked, reaped
  <2>7. \/ ret' = -1
        \/ ret' = -2
        \/ ret' \in Nat /\ \E i \in DOMAIN ch : FirstZombie(want, i)
    <3>1. CASE waitpid_reap(want)
      <4>1. PICK i \in DOMAIN ch : FirstZombie(want, i) /\ ret' = pid[ch[i]]
        BY <2>1, <3>1, Zenon DEF waitpid_reap
      <4>2. ch[i] \in Task
        BY <2>2
      <4> QED BY <4>1, <4>2 DEF IInv, TypeOK
    <3>2. CASE waitpid_no_child(want) \/ waitpid_still_running(want)
      BY <3>2 DEF waitpid_no_child, waitpid_still_running
    <3> QED BY <2>0, <3>1, <3>2 DEF sys_waitpid
  <2>8. CASE ret' = -1
    <3>1. looked = {} /\ reaped = Nothing
      BY <2>4, <2>5, <2>8
    <3> QED BY <2>0, <2>6, <3>1, CleanWaitpid, CleanStep, StepIInv
  <2>9. CASE ret' = -2
    <3>1. looked = Range(ch) /\ reaped = Nothing
      BY <2>4, <2>5, <2>9
    <3> QED BY <2>0, <2>1, <2>6, <3>1, CleanWaitpid, CleanStep, StepIInv
  <2>10. CASE ret' \in Nat /\ \E i \in DOMAIN ch : FirstZombie(want, i)
    <3>1. looked = {ch[k] : k \in 1 .. found} /\ reaped = Touch(ch[found]) ++ drop_task
      BY <2>4, <2>5, <2>10
    <3>2. found \in DOMAIN ch
      BY <2>3, <2>10, Zenon
    <3>3. found \in 1 .. Len(ch) /\ 1 .. found \subseteq DOMAIN ch
      BY <3>2, <2>2
    <3>4. looked \subseteq Range(ch) /\ ch[found] \in Range(ch)
      BY <3>1, <3>2, <3>3, <2>2, RangeType
    <3> QED BY <2>0, <2>1, <2>6, <3>1, <3>4, CleanWaitpid, CleanStep, StepIInv, Zenon
  <2> QED BY <2>7, <2>8, <2>9, <2>10
<1>7. ASSUME NEW result \in Int, StaysCurrent(result) PROVE KernelStep /\ current \in Task
  <2>1. current \in Task
    BY <1>7, CurrentRuns DEF StaysCurrent, UserMode
  <2>2. Quiet
    BY <1>7 DEF StaysCurrent, Quiet, IInv, TypeOK, tcbs, pids
  <2> QED BY <2>1, <2>2, Zenon DEF KernelStep
<1>8. Clean(Scope("OSInode", block_io))
  <2>1. Clean(block_io) /\ "OSInode" \notin block_io.uses
    BY CleanCalls
  <2> QED BY <2>1, CleanScope, Zenon
<1>9. CASE sys_exec_borrows
  <2>1. current \in Task /\ KernelStep
    BY <1>7, <1>9 DEF sys_exec_borrows
  <2>2. PICK body : body = user_frames ++ Touch("KERNEL_SPACE")
    OBVIOUS
  <2>3. Clean(body) /\ body.uses = user_frames.uses \cup {"KERNEL_SPACE"}
    <3>1. Clean(user_frames) /\ Clean(Touch("KERNEL_SPACE")) /\ Touch("KERNEL_SPACE").uses = {"KERNEL_SPACE"}
      BY CleanCalls, CleanTouch, Zenon
    <3> QED BY <2>2, <3>1, CleanThen, ThenUses, Zenon
  <2>4. current \notin body.uses
    BY <2>1, <2>3, CleanCalls, BorrowsAssumption DEF Statics
  <2>5. Clean(Scope(current, body))
    BY <2>3, <2>4, CleanScope, Zenon
  <2>6. PICK a : a = syscall_enter(current) ++ current_user_token(current) ++ block_io ++ Scope("OSInode", block_io)
    OBVIOUS
  <2>7. Clean(a)
    <3>1. Clean(syscall_enter(current)) /\ Clean(current_user_token(current)) /\ Clean(block_io)
      BY CleanCalls, Zenon
    <3> QED BY <1>8, <2>6, <3>1, CleanThen, Zenon
  <2>8. Clean(a ++ current_task ++ user_frames ++ Scope(current, body) ++ syscall_leave(current))
    <3>1. Clean(current_task) /\ Clean(user_frames) /\ Clean(syscall_leave(current))
      BY CleanCalls, Zenon
    <3> QED BY <2>5, <2>7, <3>1, CleanThen, Zenon
  <2>9. Borrowing(a ++ current_task ++ user_frames ++ Scope(current, body) ++ syscall_leave(current))
    BY <1>9, <2>2, <2>6, Zenon DEF sys_exec_borrows
  <2> QED BY <2>1, <2>8, <2>9, CleanStep, StepIInv, Zenon
<1>10. CASE sys_open_borrows
  <2>1. KernelStep
    BY <1>7, <1>10 DEF sys_open_borrows
  <2>2. /\ Clean(syscall_enter(current)) /\ Clean(current_task) /\ Clean(current_user_token(current))
        /\ Clean(block_io) /\ Clean(Touch(current)) /\ Clean(syscall_leave(current))
    BY CleanCalls, CleanTouch, Zenon
  <2>3. Clean(syscall_enter(current) ++ current_task ++ current_user_token(current)
               ++ block_io ++ Touch(current) ++ syscall_leave(current))
    BY <2>2, CleanThen, Zenon
  <2>4. Borrowing(syscall_enter(current) ++ current_task ++ current_user_token(current)
               ++ block_io ++ Touch(current) ++ syscall_leave(current))
    BY <1>10, Zenon DEF sys_open_borrows
  <2> QED BY <2>1, <2>3, <2>4, CleanStep, StepIInv, Zenon
<1>11. CASE file_io_borrows
  <2>1. KernelStep
    BY <1>7, <1>11 DEF file_io_borrows
  <2>2. Clean(sys_read_prefix(current)) /\ Clean(syscall_leave(current))
    BY CleanCalls, Zenon
  <2>3. Clean(sys_read_prefix(current) ++ Scope("OSInode", block_io) ++ syscall_leave(current))
    BY <1>8, <2>2, CleanThen, Zenon
  <2>4. Borrowing(sys_read_prefix(current) ++ Scope("OSInode", block_io) ++ syscall_leave(current))
    BY <1>11, Zenon DEF file_io_borrows
  <2> QED BY <2>1, <2>3, <2>4, CleanStep, StepIInv, Zenon
<1>12. CASE not_found_borrows
  <2>1. KernelStep
    BY <1>7, <1>12 DEF not_found_borrows
  <2>2. /\ Clean(syscall_enter(current)) /\ Clean(current_task) /\ Clean(current_user_token(current))
        /\ Clean(block_io) /\ Clean(syscall_leave(current))
    BY CleanCalls, Zenon
  <2>3. Clean(syscall_enter(current) ++ current_task ++ current_user_token(current)
               ++ block_io ++ syscall_leave(current))
    BY <2>2, CleanThen, Zenon
  <2>4. Borrowing(syscall_enter(current) ++ current_task ++ current_user_token(current)
               ++ block_io ++ syscall_leave(current))
    BY <1>12, Zenon DEF not_found_borrows
  <2> QED BY <2>1, <2>3, <2>4, CleanStep, StepIInv, Zenon
<1>13. ASSUME NEW result \in {-1, 0}, no_file_io_borrows(result) \/ sys_close_borrows(result)
       PROVE  IInv' /\ BorrowsFree'
  <2>1. KernelStep
    <3>1. result \in Int /\ StaysCurrent(result)
      BY <1>13 DEF no_file_io_borrows, sys_close_borrows
    <3> QED BY <1>7, <3>1, Zenon
  <2>2. /\ Clean(syscall_enter(current)) /\ Clean(current_task) /\ Clean(Touch(current))
        /\ Clean(sys_read_prefix(current)) /\ Clean(syscall_leave(current))
    BY CleanCalls, CleanTouch, Zenon
  <2>3. /\ Clean(sys_read_prefix(current) ++ syscall_leave(current))
        /\ Clean(syscall_enter(current) ++ current_task ++ Touch(current) ++ syscall_leave(current))
    BY <2>2, CleanThen, Zenon
  <2>4. \/ Borrowing(sys_read_prefix(current) ++ syscall_leave(current))
        \/ Borrowing(syscall_enter(current) ++ current_task ++ Touch(current) ++ syscall_leave(current))
    BY <1>13, Zenon DEF no_file_io_borrows, sys_close_borrows
  <2> QED BY <2>1, <2>3, <2>4, CleanStep, StepIInv, Zenon
<1>14. CASE sys_getpid_borrows
  <2>1. KernelStep
    <3>1. StaysCurrent(pid[current]) /\ UserMode
      BY <1>14, Zenon DEF sys_getpid_borrows, StaysCurrent
    <3>2. current \in Task
      BY <3>1, CurrentRuns DEF UserMode
    <3>3. pid[current] \in Int
      BY <3>2 DEF IInv, TypeOK
    <3> QED BY <1>7, <3>1, <3>3, Zenon
  <2>2. Clean(syscall_enter(current)) /\ Clean(current_task) /\ Clean(syscall_leave(current))
    BY CleanCalls, Zenon
  <2>3. Clean(syscall_enter(current) ++ current_task ++ syscall_leave(current))
    BY <2>2, CleanThen, Zenon
  <2>4. Borrowing(syscall_enter(current) ++ current_task ++ syscall_leave(current))
    BY <1>14, Zenon DEF sys_getpid_borrows
  <2> QED BY <2>1, <2>3, <2>4, CleanStep, StepIInv, Zenon
<1>15. CASE (Halted /\ UNCHANGED <<borrowed, doubly>>) \/ UNCHANGED borrowVars
  <2>1. UNCHANGED vars /\ UNCHANGED <<borrowed, doubly>>
    BY <1>15, Zenon DEF Halted, borrowVars
  <2>2. KernelStep
    BY <2>1, NextIsStep, Zenon
  <2> QED BY <2>1, <2>2, StepIInv DEF BorrowsFree
<1> QED
  BY <1>1, <1>2, <1>3, <1>4, <1>5, <1>6, <1>9, <1>10, <1>11, <1>12, <1>13, <1>14, <1>15, Zenon DEF BorrowsNext

(* No exclusive_access panics, whatever tasks exist and however they are   *)
(* related.                                                                *)
THEOREM CellsNeverBorrowedTwice == BorrowsSpec => []NoDoubleBorrow
<1>1. BorrowsInit => IInv /\ BorrowsFree
  BY InitIInv DEF BorrowsInit, BorrowsFree
<1>2. IInv /\ BorrowsFree /\ [BorrowsNext]_borrowVars => (IInv /\ BorrowsFree)'
  BY BorrowsStep
<1>3. BorrowsFree => NoDoubleBorrow
  BY DEF BorrowsFree, NoDoubleBorrow
<1> QED BY <1>1, <1>2, <1>3, PTL DEF BorrowsSpec
============================================================================

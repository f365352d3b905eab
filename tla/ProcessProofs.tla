--------------------------- MODULE ProcessProofs ---------------------------
(***************************************************************************)
(* The safety properties of Process for any set of TCB addresses and any   *)
(* exit codes.  NoPanic alone is not inductive: that a zombie has one Arc  *)
(* left needs the exact contents of the ready queue (SchedulerExact) and   *)
(* of the children lists (FamilyTree), and the allocator assertions need   *)
(* the ownership of pids (PidsExact).                                      *)
(***************************************************************************)
EXTENDS Process, Lemmas

IInv ==
  /\ TypeOK
  /\ NoPanic
  /\ SchedulerExact
  /\ FamilyTree
  /\ PidsExact
  /\ InitprocLives

-----------------------------------------------------------------------------
(* The boot state satisfies the invariant. *)
LEMMA InitIInv == Init => IInv
<1> SUFFICES ASSUME Init PROVE IInv
  OBVIOUS
<1> USE ProcessAssumption
<1>0. <<>> \in Seq(Task) /\ <<>> \in Seq(Nat) /\ <<INITPROC>> = Append(<<>>, INITPROC)
  BY EmptySeq
<1>1. <<INITPROC>> \in Seq(Task) /\ Range(<<INITPROC>>) = {INITPROC} /\ IsInjective(<<INITPROC>>)
  <2>1. PICK e : e = <<>>
    OBVIOUS
  <2>2. e \in Seq(Task) /\ Range(e) = {} /\ IsInjective(e)
    BY <2>1, <1>0, RangeEmpty
  <2>3. /\ Append(e, INITPROC) \in Seq(Task)
        /\ Range(Append(e, INITPROC)) = {INITPROC}
        /\ IsInjective(Append(e, INITPROC))
    BY <2>2, RangeAppend
  <2> QED BY <2>1, <2>3, <1>0, Zenon
<1>2. TypeOK
  BY <1>0, <1>1 DEF Init, TypeOK, ExitCodes
<1>3. SchedulerExact
  BY <1>1 DEF Init, SchedulerExact
<1>4. FamilyTree
  BY RangeEmpty DEF Init, FamilyTree, Alive
<1>5. PidsExact
  BY RangeEmpty DEF Init, PidsExact, Alive
<1>6. NoPanic /\ InitprocLives
  BY DEF Init, NoPanic, InitprocLives, IDLE_PID
<1> QED
  BY <1>2, <1>3, <1>4, <1>5, <1>6 DEF IInv

(* A step that leaves the process table alone only has to keep the types. *)
LEMMA FrameIInv ==
  ASSUME IInv, TypeOK', machine' = machine,
         \/ in_read' = in_read
         \/ in_read' = in_read \ {current},
         UNCHANGED <<status, pid, parent, children, ready_queue, current,
                     pid_current, recycled, kstacks>>
  PROVE  IInv'
BY DEF IInv, NoPanic, SchedulerExact, FamilyTree, PidsExact, InitprocLives, Alive

(* The task on the processor. *)
LEMMA CurrentRuns ==
  ASSUME IInv, machine = "on", current # None
  PROVE  /\ current \in Task
         /\ status[current] = "Running"
         /\ current \in Alive
         /\ current \notin Range(ready_queue)
         /\ \A t \in Task : status[t] = "Running" => t = current
         /\ children[current] \in Seq(Task)
         /\ IsInjective(children[current])
BY DEF IInv, TypeOK, SchedulerExact, FamilyTree, Alive

(* suspend_current_and_run_next of the task that runs. *)
LEMMA SuspendIInv ==
  ASSUME IInv, machine = "on", current # None, suspend_current_and_run_next,
         in_read' = in_read \/ in_read' = in_read \cup {current}
  PROVE  IInv'
<1> USE ProcessAssumption
<1>1. /\ current \in Task
      /\ status[current] = "Running"
      /\ \A t \in Task : status[t] = "Running" => t = current
  BY CurrentRuns
<1>2. /\ ready_queue' \in Seq(Task)
      /\ Range(ready_queue') = Range(ready_queue) \cup {current}
      /\ IsInjective(ready_queue')
  BY CurrentRuns, RangeAppend DEF IInv, TypeOK, SchedulerExact, suspend_current_and_run_next
<1>3. \A t \in Task : status'[t] = IF t = current THEN "Ready" ELSE status[t]
  BY <1>1 DEF IInv, TypeOK, suspend_current_and_run_next
<1>4. TypeOK'
  BY <1>1, <1>2 DEF IInv, TypeOK, suspend_current_and_run_next, pids, ExitCodes
<1>5. SchedulerExact'
  BY <1>1, <1>2, <1>3 DEF IInv, TypeOK, SchedulerExact, suspend_current_and_run_next
<1>6. FamilyTree'
  BY <1>1, <1>3 DEF IInv, TypeOK, FamilyTree, Alive, suspend_current_and_run_next
<1>7. PidsExact'
  BY <1>1, <1>3 DEF IInv, TypeOK, PidsExact, Alive, suspend_current_and_run_next, pids
<1>8. NoPanic' /\ InitprocLives'
  BY <1>1, <1>3 DEF IInv, TypeOK, NoPanic, InitprocLives, suspend_current_and_run_next
<1> QED
  BY <1>4, <1>5, <1>6, <1>7, <1>8, SMTT(20) DEF IInv

(* run_tasks. *)
LEMMA RunTasksIInv == ASSUME IInv, run_tasks PROVE IInv'
<1> USE ProcessAssumption
<1>1. PICK task : task = Head(ready_queue)
  OBVIOUS
<1>2. /\ task \in Task
      /\ task \in Range(ready_queue)
      /\ ready_queue' \in Seq(Task)
      /\ Range(ready_queue') = Range(ready_queue) \ {task}
      /\ IsInjective(ready_queue')
  BY <1>1, RangeTail DEF IInv, TypeOK, SchedulerExact, run_tasks
<1>3. status[task] = "Ready"
  BY <1>2 DEF IInv, SchedulerExact
<1>4. /\ \A t \in Task : status'[t] = IF t = task THEN "Running" ELSE status[t]
      /\ status' \in [Task -> {"Free", "Ready", "Running", "Zombie"}]
      /\ current' = task
  BY <1>1, <1>2 DEF IInv, TypeOK, run_tasks
<1>5. TypeOK'
  BY <1>2, <1>4 DEF IInv, TypeOK, run_tasks, pids
<1>6. SchedulerExact'
  BY <1>2, <1>3, <1>4, SMTT(20) DEF IInv, TypeOK, SchedulerExact, run_tasks
<1>7. FamilyTree'
  BY <1>3, <1>4 DEF IInv, TypeOK, FamilyTree, Alive, run_tasks
<1>8. PidsExact'
  BY <1>3, <1>4 DEF IInv, TypeOK, PidsExact, Alive, run_tasks, pids
<1>9. NoPanic' /\ InitprocLives'
  BY <1>4 DEF IInv, TypeOK, NoPanic, InitprocLives, run_tasks
<1> QED
  BY <1>5, <1>6, <1>7, <1>8, <1>9 DEF IInv

(* The pid that PidAllocator::alloc hands out is nobody's, its kernel stack *)
(* is not mapped, and the recycled list stays clean.                       *)
LEMMA PidAllocFresh ==
  ASSUME IInv, NEW p, pid_alloc(p)
  PROVE  /\ p \in Nat
         /\ p \notin kstacks
         /\ p < pid_current'
         /\ pid_current' \in Nat
         /\ pid_current <= pid_current'
         /\ recycled' \in Seq(Nat)
         /\ Range(recycled') = Range(recycled) \ {p}
         /\ IsInjective(recycled')
<1>0. /\ pid_current \in Nat
      /\ recycled \in Seq(Nat)
      /\ PidsExact
      /\ kstacks \subseteq Nat
  BY DEF IInv, TypeOK
<1>1. CASE recycled # <<>> /\ p = Last(recycled) /\ recycled' = Front(recycled)
           /\ UNCHANGED pid_current
  <2>1. /\ recycled' \in Seq(Nat)
        /\ p \in Nat
        /\ p \in Range(recycled)
        /\ Range(recycled') = Range(recycled) \ {p}
        /\ IsInjective(recycled')
    BY <1>0, <1>1, RangeFront, ZenonT(20) DEF PidsExact
  <2> QED
    BY <2>1, <1>0, <1>1 DEF PidsExact
<1>2. CASE recycled = <<>> /\ p = pid_current /\ pid_current' = pid_current + 1
           /\ UNCHANGED recycled
  <2>1. Range(recycled) = {}
    BY <1>2, RangeEmpty
  <2>2. p \notin kstacks
    BY <1>0, <1>2 DEF PidsExact
  <2> QED
    BY <2>1, <2>2, <1>0, <1>2 DEF PidsExact
<1> QED
  BY <1>1, <1>2 DEF pid_alloc

(* sys_fork. *)
LEMMA ForkIInv == ASSUME IInv, sys_fork PROVE IInv'
<1> USE ProcessAssumption
<1>1. /\ current \in Task
      /\ status[current] = "Running"
      /\ machine = "on"
      /\ children[current] \in Seq(Task)
      /\ IsInjective(children[current])
  BY CurrentRuns DEF sys_fork, UserMode
<1>2. PICK child \in Task, p \in 0 .. pid_current :
       /\ status[child] = "Free"
       /\ pid_alloc(p)
       /\ kstacks' = kstacks \cup {p}
       /\ machine' = IF p \in kstacks THEN "panic" ELSE machine
       /\ status' = [status EXCEPT ![child] = "Ready"]
       /\ pid' = [pid EXCEPT ![child] = p]
       /\ parent' = [parent EXCEPT ![child] = current]
       /\ children' = [children EXCEPT ![current] = Append(@, child)]
       /\ exit_code' = [exit_code EXCEPT ![child] = 0]
       /\ ready_queue' = Append(ready_queue, child)
       /\ ret' = p
  BY ZenonT(20) DEF sys_fork
<1>3. UNCHANGED <<in_read, current, xstate>>
  BY DEF sys_fork
<1>4. /\ p \in Nat
      /\ p \notin kstacks
      /\ p < pid_current'
      /\ pid_current' \in Nat
      /\ pid_current <= pid_current'
      /\ recycled' \in Seq(Nat)
      /\ Range(recycled') = Range(recycled) \ {p}
      /\ IsInjective(recycled')
  BY <1>2, PidAllocFresh
<1>5. child \notin Range(ready_queue) /\ child \notin Range(children[current])
  BY <1>1, <1>2 DEF IInv, SchedulerExact, FamilyTree, Alive
<1>6. /\ ready_queue' \in Seq(Task)
      /\ Range(ready_queue') = Range(ready_queue) \cup {child}
      /\ IsInjective(ready_queue')
  BY <1>2, <1>5, RangeAppend DEF IInv, TypeOK, SchedulerExact
<1>7. PICK ch : ch = Append(children[current], child)
  BY ZenonT(20)
<1>8. /\ ch \in Seq(Task)
      /\ Range(ch) = Range(children[current]) \cup {child}
      /\ IsInjective(ch)
  BY <1>1, <1>2, <1>5, <1>7, RangeAppend
<1>9. /\ \A t \in Task : status'[t] = IF t = child THEN "Ready" ELSE status[t]
      /\ \A t \in Task : pid'[t] = IF t = child THEN p ELSE pid[t]
      /\ \A t \in Task : parent'[t] = IF t = child THEN current ELSE parent[t]
      /\ \A t \in Task : children'[t] = IF t = current THEN ch ELSE children[t]
      /\ child # current /\ child # INITPROC
      /\ Alive' = Alive \cup {child}
      /\ child \notin Alive
  BY <1>1, <1>2, <1>7, SMTT(20) DEF IInv, TypeOK, Alive, InitprocLives
<1>10. TypeOK'
  <2>1. /\ status' \in [Task -> {"Free", "Ready", "Running", "Zombie"}]
        /\ pid' \in [Task -> Nat]
        /\ parent' \in [Task -> Task \cup {None}]
        /\ exit_code' \in [Task -> ExitCodes]
    BY <1>1, <1>2, <1>4, SMTT(20) DEF IInv, TypeOK, ExitCodes
  <2>2. children' \in [Task -> Seq(Task)]
    BY <1>1, <1>2, <1>7, <1>8 DEF IInv, TypeOK
  <2>3. kstacks' \subseteq Nat /\ ret' \in Int /\ machine' = "on"
    BY <1>1, <1>2, <1>4, SMTT(20) DEF IInv, TypeOK
  <2> QED
    BY <2>1, <2>2, <2>3, <1>3, <1>4, <1>6, ZenonT(20) DEF IInv, TypeOK
<1>11. SchedulerExact'
  BY <1>1, <1>2, <1>3, <1>6, <1>9 DEF IInv, TypeOK, SchedulerExact
<1>12. FamilyTree'
  <2>1. ASSUME NEW q \in Task, NEW c \in Range(children'[q])
        PROVE  /\ status'[q] \in {"Ready", "Running"}
               /\ c \in Alive' \ {INITPROC}
               /\ parent'[c] = q
    <3>1. CASE c = child
      <4>1. q = current
        BY <3>1, <1>8, <1>9, SMTT(20) DEF IInv, FamilyTree
      <4> QED BY <3>1, <4>1, <1>1, <1>9, SMTT(20)
    <3>2. CASE c # child
      <4>1. c \in Range(children[q])
        BY <3>2, <1>8, <1>9, SMTT(20)
      <4> QED BY <3>2, <4>1, <1>9, SMTT(20) DEF IInv, FamilyTree, Alive
    <3> QED BY <3>1, <3>2
  <2>2. ASSUME NEW t \in Alive' \ {INITPROC}
        PROVE  parent'[t] \in Alive' \ {t} /\ t \in Range(children'[parent'[t]])
    <3>1. CASE t = child
      BY <3>1, <1>1, <1>8, <1>9 DEF Alive
    <3>2. CASE t # child
      <4>1. /\ t \in Task /\ parent'[t] = parent[t]
            /\ parent[t] \in Task /\ parent[t] \in Alive \ {t}
            /\ t \in Range(children[parent[t]])
        BY <3>2, <1>9 DEF IInv, FamilyTree, Alive
      <4> QED BY <4>1, <1>8, <1>9
    <3> QED BY <3>1, <3>2
  <2>3. \A q \in Task : IsInjective(children'[q])
    BY <1>8, <1>9, SMTT(20) DEF IInv, FamilyTree
  <2> QED
    BY <2>1, <2>2, <2>3 DEF FamilyTree
<1>13. PidsExact'
  <2>1. \A t \in Alive : pid[t] \in kstacks /\ pid[t] \in Nat /\ pid[t] < pid_current'
    <3> TAKE t \in Alive
    <3>1. t \in Task /\ pid[t] \in Nat /\ pid_current \in Nat
      BY DEF IInv, TypeOK, Alive
    <3>2. pid[t] \in kstacks /\ pid[t] < pid_current
      BY DEF IInv, PidsExact
    <3> QED BY <3>1, <3>2, <1>4, SMTT(20)
  <2>2. \A t, u \in Alive' : pid'[t] = pid'[u] => t = u
    BY <2>1, <1>4, <1>9, SMTT(20) DEF IInv, PidsExact, Alive
  <2>3. \A t \in Alive' : pid'[t] < pid_current'
    BY <2>1, <1>4, <1>9, SMTT(20) DEF Alive
  <2>4. \A x \in Range(recycled') : x < pid_current' /\ x \notin kstacks'
    <3> TAKE x \in Range(recycled')
    <3>1. x \in Nat /\ x # p /\ x < pid_current /\ x \notin kstacks /\ pid_current \in Nat
      BY <1>4, RangeType, ZenonT(20) DEF IInv, TypeOK, PidsExact
    <3> QED BY <3>1, <1>2, <1>4
  <2>5. kstacks' = {pid'[t] : t \in Alive'}
    BY <1>2, <1>9 DEF IInv, PidsExact, Alive
  <2> QED
    BY <2>2, <2>3, <2>4, <2>5, <1>4, SMTT(20) DEF PidsExact
<1>14. NoPanic' /\ InitprocLives'
  BY <1>1, <1>2, <1>4, <1>9, SMTT(20) DEF IInv, NoPanic, InitprocLives
<1> QED
  BY <1>10, <1>11, <1>12, <1>13, <1>14, SMTT(20) DEF IInv

(* The exit of any task but INITPROC.  The task is in its parent's list, a *)
(* list that survives because nobody is its own parent, so drop(task) does *)
(* not free it; its children join INITPROC's, which are others.            *)
LEMMA ExitFacts ==
  ASSUME IInv, UserMode, NEW code, exit_current_and_run_next(code), pid[current] # IDLE_PID
  PROVE  /\ current # INITPROC /\ status[INITPROC] \in {"Ready", "Running"} /\ INITPROC \in Alive
         /\ \E kids, ikids :
              /\ kids = children[current]
              /\ \A c \in Range(kids) : parent[c] = current /\ c \in Alive \ {INITPROC}
              /\ Range(ikids) = Range(children[INITPROC]) \cup Range(kids)
              /\ IsInjective(ikids)
              /\ \A c \in Task : parent'[c] = IF c \in Range(kids) THEN INITPROC ELSE parent[c]
              /\ \A q \in Task : children'[q] = IF q = current THEN <<>>
                                                ELSE IF q = INITPROC THEN ikids ELSE children[q]
         /\ parent' \in [Task -> Task \cup {None}]
         /\ children' \in [Task -> Seq(Task)]
         /\ status' = [status EXCEPT ![current] = "Zombie"]
         /\ exit_code' = [exit_code EXCEPT ![current] = code]
         /\ UNCHANGED <<pid, pid_current, recycled, kstacks, machine>>
<1> USE ProcessAssumption
<1>0. /\ current \in Task
      /\ status[current] = "Running"
      /\ current \in Alive
      /\ children[current] \in Seq(Task)
      /\ IsInjective(children[current])
  BY CurrentRuns DEF UserMode
<1>1. current # INITPROC /\ status[INITPROC] \in {"Ready", "Running"} /\ INITPROC \in Alive
  BY DEF IInv, InitprocLives, Alive
<1>2. PICK kids, ikids : kids = children[current] /\ ikids = children[INITPROC] \o kids
  BY ZenonT(20)
<1>3. /\ \A c \in Range(kids) : parent[c] = current /\ c \in Alive \ {INITPROC}
      /\ Range(children[INITPROC]) \cap Range(kids) = {}
  <2>1. \A c \in Range(kids) : parent[c] = current /\ c \in Alive \ {INITPROC}
    BY <1>0, <1>2 DEF IInv, FamilyTree
  <2>2. \A c \in Range(children[INITPROC]) : parent[c] = INITPROC
    BY DEF IInv, FamilyTree
  <2> QED BY <2>1, <2>2, <1>1
<1>4. /\ ikids \in Seq(Task)
      /\ Range(ikids) = Range(children[INITPROC]) \cup Range(kids)
      /\ IsInjective(ikids)
  <2>1. children[INITPROC] \in Seq(Task) /\ IsInjective(children[INITPROC])
    BY DEF IInv, TypeOK, FamilyTree
  <2> QED BY <1>0, <1>2, <1>3, <2>1, RangeConcat
<1>5. /\ \A c \in Task : parent'[c] = IF c \in Range(kids) THEN INITPROC ELSE parent[c]
      /\ \A q \in Task : children'[q] = IF q = current THEN <<>>
                                        ELSE IF q = INITPROC THEN ikids ELSE children[q]
      /\ parent' \in [Task -> Task \cup {None}]
      /\ children' \in [Task -> Seq(Task)]
  <2>1. Reparent(current)
    BY ZenonT(20) DEF exit_current_and_run_next
  <2>2. /\ parent' = [c \in Task |-> IF c \in Range(kids) THEN INITPROC ELSE parent[c]]
        /\ children' = [children EXCEPT ![INITPROC] = ikids, ![current] = <<>>]
    BY <2>1, <1>2, <1>1, <1>0 DEF Reparent, IInv, TypeOK
  <2>3. <<>> \in Seq(Task)
    BY EmptySeq
  <2>4. parent' \in [Task -> Task \cup {None}]
    BY <2>2 DEF IInv, TypeOK
  <2>5. children' \in [Task -> Seq(Task)]
    BY <2>2, <2>3, <1>4, <1>0, ZenonT(20) DEF IInv, TypeOK
  <2> QED BY <2>2, <2>4, <2>5, <1>1, <1>0, ZenonT(20) DEF IInv, TypeOK
<1>6. Referenced(current, children', ready_queue, None)
  <2>1. /\ parent[current] \in Task /\ parent[current] # current
        /\ current \in Range(children[parent[current]])
    BY <1>0, <1>1 DEF IInv, FamilyTree, Alive
  <2>2. current \in Range(children'[parent[current]])
    BY <2>1, <1>4, <1>5, SMTT(20)
  <2> QED BY <2>1, <2>2 DEF Referenced
<1>7. /\ status' = [status EXCEPT ![current] = "Zombie"]
      /\ exit_code' = [exit_code EXCEPT ![current] = code]
      /\ UNCHANGED <<pid, pid_current, recycled, kstacks, machine>>
  BY <1>6 DEF exit_current_and_run_next, pids
<1>8. \E k, ik :
        /\ k = children[current]
        /\ \A c \in Range(k) : parent[c] = current /\ c \in Alive \ {INITPROC}
        /\ Range(ik) = Range(children[INITPROC]) \cup Range(k)
        /\ IsInjective(ik)
        /\ \A c \in Task : parent'[c] = IF c \in Range(k) THEN INITPROC ELSE parent[c]
        /\ \A q \in Task : children'[q] = IF q = current THEN <<>>
                                          ELSE IF q = INITPROC THEN ik ELSE children[q]
  <2> WITNESS kids, ikids
  <2> QED BY <1>2, <1>3, <1>4, <1>5, ZenonT(20)
<1> QED
  BY <1>1, <1>5, <1>7, <1>8, Zenon

(* exit_current_and_run_next. *)
LEMMA ExitIInv ==
  ASSUME IInv, UserMode, NEW code \in ExitCodes, exit_current_and_run_next(code)
  PROVE  IInv'
<1> USE ProcessAssumption
<1>1. /\ current \in Task
      /\ status[current] = "Running"
      /\ machine = "on"
      /\ current \in Alive
      /\ children[current] \in Seq(Task)
      /\ IsInjective(children[current])
      /\ \A t \in Task : status[t] = "Running" => t = current
  BY CurrentRuns DEF UserMode
<1>2. UNCHANGED <<in_read, ready_queue>> /\ current' = None /\ ret' = 0 /\ xstate' = 0
  BY DEF exit_current_and_run_next
<1>3. CASE pid[current] = IDLE_PID
  <2>1. machine' = "off" /\ UNCHANGED <<status, pid, parent, children, exit_code, pid_current, recycled, kstacks>>
    BY <1>3 DEF exit_current_and_run_next, tcbs, pids
  <2>2. TypeOK'
    BY <1>2, <2>1 DEF IInv, TypeOK, ExitCodes
  <2>3. SchedulerExact'
    BY <1>2, <2>1 DEF IInv, SchedulerExact
  <2>4. FamilyTree'
    BY <2>1 DEF IInv, FamilyTree, Alive
  <2>5. PidsExact'
    BY <2>1 DEF IInv, PidsExact, Alive
  <2>6. NoPanic' /\ InitprocLives'
    BY <2>1, SMTT(20) DEF IInv, NoPanic, InitprocLives
  <2> QED
    BY <2>2, <2>3, <2>4, <2>5, <2>6 DEF IInv
<1>4. CASE pid[current] # IDLE_PID
  <2>1. current # INITPROC /\ status[INITPROC] \in {"Ready", "Running"} /\ INITPROC \in Alive
    BY <1>4, ExitFacts, SMTT(20)
  <2>2. PICK kids, ikids :
              /\ kids = children[current]
              /\ \A c \in Range(kids) : parent[c] = current /\ c \in Alive \ {INITPROC}
              /\ Range(ikids) = Range(children[INITPROC]) \cup Range(kids)
              /\ IsInjective(ikids)
              /\ \A c \in Task : parent'[c] = IF c \in Range(kids) THEN INITPROC ELSE parent[c]
              /\ \A q \in Task : children'[q] = IF q = current THEN <<>>
                                                ELSE IF q = INITPROC THEN ikids ELSE children[q]
    BY <1>4, ExitFacts, ZenonT(20)
  <2>7. /\ parent' \in [Task -> Task \cup {None}]
        /\ children' \in [Task -> Seq(Task)]
        /\ status' = [status EXCEPT ![current] = "Zombie"]
        /\ exit_code' = [exit_code EXCEPT ![current] = code]
        /\ UNCHANGED <<pid, pid_current, recycled, kstacks, machine>>
    BY <1>4, ExitFacts
  <2>8. /\ \A t \in Task : status'[t] = IF t = current THEN "Zombie" ELSE status[t]
        /\ status' \in [Task -> {"Free", "Ready", "Running", "Zombie"}]
        /\ Alive' = Alive
    BY <1>1, <2>7 DEF IInv, TypeOK, Alive
  <2>9. TypeOK'
    <3>1. exit_code' \in [Task -> ExitCodes] /\ 0 \in ExitCodes /\ 0 \in Int
      BY <2>7, <1>1, SMTT(20) DEF IInv, TypeOK, ExitCodes
    <3> QED BY <3>1, <1>2, <2>2, <2>7, <2>8, SMTT(20) DEF IInv, TypeOK
  <2>10. SchedulerExact'
    BY <1>1, <1>2, <2>7, <2>8, SMTT(20) DEF IInv, TypeOK, SchedulerExact, UserMode
  <2>11. FamilyTree'
    <3>1. ASSUME NEW q \in Task, NEW c \in Range(children'[q])
          PROVE  /\ status'[q] \in {"Ready", "Running"}
                 /\ c \in Alive' \ {INITPROC}
                 /\ parent'[c] = q
      <4>1. q # current
        BY <2>2, RangeEmpty
      <4>2. CASE q = INITPROC
        <5>1. c \in Range(children[INITPROC]) \cup Range(kids)
          BY <4>2, <2>1, <2>2, SMTT(20)
        <5>2. c \in Alive \ {INITPROC} /\ (c \in Range(kids) \/ parent[c] = INITPROC)
          BY <5>1, <1>1, <2>2, SMTT(20) DEF IInv, FamilyTree
        <5> QED BY <5>2, <4>2, <2>1, <2>2, <2>8, SMTT(20) DEF Alive
      <4>3. CASE q # INITPROC
        <5>1. c \in Range(children[q])
          BY <4>1, <4>3, <2>2, SMTT(20)
        <5>2. /\ status[q] \in {"Ready", "Running"} /\ c \in Alive \ {INITPROC}
              /\ parent[c] = q
          BY <5>1 DEF IInv, FamilyTree
        <5>3. c \notin Range(kids)
          BY <5>2, <4>1, <2>2, SMTT(20)
        <5> QED BY <5>2, <5>3, <4>1, <2>2, <2>8, SMTT(20) DEF Alive
      <4> QED BY <4>2, <4>3
    <3>2. ASSUME NEW t \in Alive' \ {INITPROC}
          PROVE  parent'[t] \in Alive' \ {t} /\ t \in Range(children'[parent'[t]])
      <4>1. /\ t \in Task /\ parent[t] \in Alive \ {t} /\ parent[t] \in Task
            /\ t \in Range(children[parent[t]])
        BY <2>8 DEF IInv, FamilyTree, Alive
      <4>2. CASE t \in Range(kids)
        BY <4>1, <4>2, <2>1, <2>2, <2>8, SMTT(20)
      <4>3. CASE t \notin Range(kids)
        <5>1. parent[t] # current
          BY <4>1, <4>3, <2>2, SMTT(20)
        <5> QED BY <5>1, <4>1, <4>3, <2>2, <2>8, SMTT(20)
      <4> QED BY <4>2, <4>3, SMTT(20)
    <3>3. \A q \in Task : IsInjective(children'[q])
      BY <2>2, RangeEmpty, SMTT(20) DEF IInv, FamilyTree
    <3> QED
      BY <3>1, <3>2, <3>3 DEF FamilyTree
  <2>12. PidsExact'
    <3>1. PidsExact
      BY DEF IInv
    <3>2. pid' = pid /\ pid_current' = pid_current /\ recycled' = recycled /\ kstacks' = kstacks
      BY <2>7
    <3> QED BY <3>1, <3>2, <2>8 DEF PidsExact
  <2>13. NoPanic' /\ InitprocLives'
    BY <2>1, <2>7, <2>8, SMTT(20) DEF IInv, NoPanic, InitprocLives
  <2> QED
    BY <2>9, <2>10, <2>11, <2>12, <2>13 DEF IInv
<1> QED
  BY <1>3, <1>4

(* What waitpid knows about the child it takes from the list: it is a      *)
(* zombie without children, no other list has it, nothing else refers to   *)
(* it, and the assertions of the allocator hold for its pid.               *)
LEMMA ReapFacts ==
  ASSUME IInv, UserMode, NEW i \in DOMAIN children[current],
         NEW child, child = children[current][i], status[child] = "Zombie",
         children' = [children EXCEPT ![current] = RemoveAt(@, i)]
  PROVE  /\ child \in Alive \ {INITPROC, current}
         /\ child \in Task
         /\ parent[child] = current
         /\ Range(children[child]) = {}
         /\ children' \in [Task -> Seq(Task)]
         /\ \A q \in Task : Range(children'[q]) = Range(children[q]) \ {child}
         /\ \A q \in Task : IsInjective(children'[q])
         /\ ~Referenced(child, children', ready_queue, current)
         /\ DeallocAsserts(pid[child])
<1> USE ProcessAssumption
<1>1. /\ current \in Task
      /\ status[current] = "Running"
      /\ children[current] \in Seq(Task)
      /\ IsInjective(children[current])
  BY CurrentRuns DEF UserMode
<1>2. child \in Range(children[current])
  BY <1>1, RangeType
<1>3. /\ child \in Alive \ {INITPROC, current}
      /\ child \in Task
      /\ parent[child] = current
  BY <1>1, <1>2 DEF IInv, FamilyTree, Alive
<1>4. Range(children[child]) = {}
  BY <1>3 DEF IInv, FamilyTree
<1>5. PICK ch : ch = RemoveAt(children[current], i)
  OBVIOUS
<1>6. ch \in Seq(Task) /\ Range(ch) = Range(children[current]) \ {child} /\ IsInjective(ch)
  BY <1>1, <1>5, RangeRemoveAt, SMTT(20)
<1>7. /\ children' \in [Task -> Seq(Task)]
      /\ \A q \in Task : children'[q] = IF q = current THEN ch ELSE children[q]
  BY <1>1, <1>5, <1>6 DEF IInv, TypeOK
<1>8. \A q \in Task : Range(children'[q]) = Range(children[q]) \ {child}
  BY <1>3, <1>6, <1>7, SMTT(20) DEF IInv, FamilyTree
<1>9. \A q \in Task : IsInjective(children'[q])
  BY <1>6, <1>7 DEF IInv, FamilyTree
<1>10. ~Referenced(child, children', ready_queue, current)
  BY <1>3, <1>8 DEF IInv, SchedulerExact, Referenced
<1>11. DeallocAsserts(pid[child])
  BY <1>3 DEF IInv, PidsExact, DeallocAsserts
<1> QED
  BY <1>3, <1>4, <1>7, <1>8, <1>9, <1>10, <1>11, SMTT(20)

(* The reaping branch of sys_waitpid. *)
LEMMA ReapIInv ==
  ASSUME IInv, UserMode, NEW want, waitpid_reap(want),
         UNCHANGED <<in_read, ready_queue, current>>
  PROVE  IInv'
<1> USE ProcessAssumption
<1>0. PICK i \in DOMAIN children[current] :
        LET child == children[current][i] IN
        /\ FirstZombie(want, i)
        /\ children' = [children EXCEPT ![current] = RemoveAt(@, i)]
        /\ parent' = [parent EXCEPT ![child] = None]
        /\ xstate' = exit_code[child]
        /\ ret' = pid[child]
        /\ drop_tcb(child, ~Referenced(child, children', ready_queue, current))
  BY ZenonT(20) DEF waitpid_reap
<1>1. PICK child :
        /\ child = children[current][i]
        /\ FirstZombie(want, i)
        /\ children' = [children EXCEPT ![current] = RemoveAt(@, i)]
        /\ parent' = [parent EXCEPT ![child] = None]
        /\ xstate' = exit_code[child]
        /\ ret' = pid[child]
        /\ drop_tcb(child, ~Referenced(child, children', ready_queue, current))
  BY <1>0, ZenonT(20)
<1>2. status[child] = "Zombie"
  BY <1>1 DEF FirstZombie
<1>3. /\ child \in Alive \ {INITPROC, current}
      /\ child \in Task
      /\ parent[child] = current
      /\ Range(children[child]) = {}
      /\ children' \in [Task -> Seq(Task)]
      /\ \A q \in Task : Range(children'[q]) = Range(children[q]) \ {child}
      /\ \A q \in Task : IsInjective(children'[q])
      /\ ~Referenced(child, children', ready_queue, current)
      /\ DeallocAsserts(pid[child])
  BY <1>1, <1>2, ReapFacts, ZenonT(20)
<1>4. /\ status' = [status EXCEPT ![child] = "Free"]
      /\ pid' = [pid EXCEPT ![child] = 0]
      /\ exit_code' = [exit_code EXCEPT ![child] = 0]
      /\ recycled' = Append(recycled, pid[child])
      /\ kstacks' = kstacks \ {pid[child]}
      /\ UNCHANGED <<pid_current, machine>>
  BY <1>1, <1>3 DEF drop_tcb
<1>5. /\ \A t \in Task : status'[t] = IF t = child THEN "Free" ELSE status[t]
      /\ \A t \in Task : pid'[t] = IF t = child THEN 0 ELSE pid[t]
      /\ \A t \in Task : parent'[t] = IF t = child THEN None ELSE parent[t]
      /\ Alive' = Alive \ {child}
  BY <1>1, <1>3, <1>4, SMTT(20) DEF IInv, TypeOK, Alive
<1>6. /\ pid[child] \in Nat /\ pid[child] \in kstacks
      /\ pid[child] \notin Range(recycled)
  <2>1. pid[child] \in Nat
    BY <1>3, SMTT(20) DEF IInv, TypeOK
  <2>2. pid[child] \in kstacks
    BY <1>3 DEF IInv, PidsExact
  <2> QED BY <2>1, <2>2, <1>3 DEF DeallocAsserts
<1>7. /\ recycled' \in Seq(Nat)
      /\ Range(recycled') = Range(recycled) \cup {pid[child]}
      /\ IsInjective(recycled')
  <2>1. PICK p \in Nat : p = pid[child]
    BY <1>6, SMTT(20)
  <2>2. recycled \in Seq(Nat) /\ IsInjective(recycled)
    BY DEF IInv, TypeOK, PidsExact
  <2> QED BY <2>1, <2>2, <1>4, <1>6, RangeAppend, SMTT(20)
<1>8. TypeOK'
  <2>1. /\ status' \in [Task -> {"Free", "Ready", "Running", "Zombie"}]
        /\ pid' \in [Task -> Nat]
        /\ parent' \in [Task -> Task \cup {None}]
        /\ exit_code' \in [Task -> ExitCodes]
    BY <1>1, <1>3, <1>4, ZenonT(20) DEF IInv, TypeOK, ExitCodes
  <2>2. xstate' \in ExitCodes /\ ret' \in Int /\ kstacks' \subseteq Nat
    <3>1. exit_code[child] \in ExitCodes /\ kstacks \subseteq Nat
      BY <1>3 DEF IInv, TypeOK
    <3>2. xstate' = exit_code[child] /\ ret' = pid[child]
      BY <1>1, Zenon
    <3>3. kstacks' = kstacks \ {pid[child]}
      BY <1>4
    <3>4. xstate' \in ExitCodes
      BY <3>1, <3>2
    <3>5. pid[child] \in Int
      BY <1>6
    <3>6. kstacks' \subseteq Nat
      BY <3>1, <3>3
    <3> QED BY <3>2, <3>4, <3>5, <3>6, Zenon
  <2>3. /\ in_read' \subseteq Task
        /\ ready_queue' \in Seq(Task)
        /\ current' \in Task \cup {None}
        /\ pid_current' \in Nat
        /\ machine' \in {"on", "off", "panic"}
    BY <1>4 DEF IInv, TypeOK
  <2>4. children' \in [Task -> Seq(Task)] /\ recycled' \in Seq(Nat)
    BY <1>3, <1>7
  <2>5. ExitCodes' = ExitCodes
    BY DEF ExitCodes
  <2> QED BY <2>1, <2>2, <2>3, <2>4, <2>5, SMTT(20) DEF TypeOK
<1>9. SchedulerExact'
  <2>1. /\ \A t \in Task : status[t] = "Ready" <=> t \in Range(ready_queue)
        /\ IsInjective(ready_queue)
        /\ machine = "on" => \A t \in Task : status[t] = "Running" <=> current = t
        /\ \A t \in in_read : status[t] \in {"Ready", "Running"} /\ t \in Task
    BY DEF IInv, TypeOK, SchedulerExact
  <2>2. UNCHANGED <<in_read, ready_queue, current, machine>>
    BY <1>4
  <2>3. \A t \in Task : status'[t] = "Ready" <=> t \in Range(ready_queue')
    BY <2>1, <2>2, <1>2, <1>5, SMTT(20)
  <2>4. machine' = "on" => \A t \in Task : status'[t] = "Running" <=> current' = t
    BY <2>1, <2>2, <1>2, <1>5, SMTT(20)
  <2>5. \A t \in in_read' : status'[t] \in {"Ready", "Running"}
    BY <2>1, <2>2, <1>2, <1>5, SMTT(20)
  <2> QED BY <2>1, <2>2, <2>3, <2>4, <2>5, SMTT(20) DEF SchedulerExact
<1>10. FamilyTree'
  <2>1. ASSUME NEW q \in Task, NEW c \in Range(children'[q])
        PROVE  /\ status'[q] \in {"Ready", "Running"}
               /\ c \in Alive' \ {INITPROC}
               /\ parent'[c] = q
    <3>1. c \in Range(children[q]) /\ c # child /\ q # child
      BY <1>3
    <3>2. status[q] \in {"Ready", "Running"} /\ c \in Alive \ {INITPROC} /\ parent[c] = q
      BY <3>1 DEF IInv, FamilyTree
    <3> QED BY <3>1, <3>2, <1>5, SMTT(20) DEF Alive
  <2>2. ASSUME NEW t \in Alive' \ {INITPROC}
        PROVE  parent'[t] \in Alive' \ {t} /\ t \in Range(children'[parent'[t]])
    <3>1. /\ t \in Task /\ t # child /\ parent'[t] = parent[t]
          /\ parent[t] \in Alive \ {t} /\ parent[t] \in Task
          /\ t \in Range(children[parent[t]])
      BY <1>5 DEF IInv, FamilyTree, Alive
    <3> QED BY <3>1, <1>3, <1>5, ZenonT(30)
  <2> QED
    BY <2>1, <2>2, <1>3, ZenonT(30) DEF FamilyTree
<1>11. PidsExact'
  <2>0. \A t \in Alive' : t \in Alive /\ pid'[t] = pid[t]
    BY <1>5 DEF Alive
  <2>1. \A t, u \in Alive' : pid'[t] = pid'[u] => t = u
    BY <2>0 DEF IInv, PidsExact
  <2>2. \A t \in Alive' : pid'[t] < pid_current'
    BY <2>0, <1>4, SMTT(20) DEF IInv, PidsExact
  <2>3. \A x \in Range(recycled') : x < pid_current' /\ x \notin kstacks'
    BY <1>3, <1>4, <1>7 DEF IInv, PidsExact
  <2>4. kstacks' = {pid'[t] : t \in Alive'}
    <3>1. /\ kstacks = {pid[t] : t \in Alive}
          /\ \A t \in Alive : pid[t] = pid[child] => t = child
      BY <1>3 DEF IInv, PidsExact
    <3>2. \A t \in Alive' : t \in Alive /\ t # child /\ pid'[t] = pid[t]
      BY <1>5 DEF Alive
    <3>3. \A t \in Alive : t # child => t \in Alive'
      BY <1>5
    <3>4. ASSUME NEW x \in kstacks' PROVE \E t \in Alive' : x = pid'[t]
      BY <1>4, <3>1, <3>2, <3>3, SMTT(20)
    <3>5. ASSUME NEW t \in Alive' PROVE pid'[t] \in kstacks'
      BY <1>4, <3>1, <3>2, SMTT(20)
    <3> QED BY <3>4, <3>5, ZenonT(30)
  <2> QED
    BY <2>1, <2>2, <2>3, <2>4, <1>7, SMTT(20) DEF PidsExact
<1>12. NoPanic' /\ InitprocLives'
  BY <1>3, <1>4, <1>5 DEF IInv, NoPanic, InitprocLives
<1> QED
  BY <1>8, <1>9, <1>10, <1>11, <1>12, SMTT(20) DEF IInv

(* A step of the kernel, whatever a program exits with or waits for; Quiet *)
(* is a system call that only returns a value.                             *)
Quiet ==
  /\ ret' \in Int
  /\ UNCHANGED <<tcbs, in_read, ready_queue, current, pids, kstacks, xstate, machine>>

KernelStep ==
  \/ run_tasks
  \/ sys_yield \/ timer_interrupt
  \/ sys_read_stdin
  \/ sys_fork
  \/ UserMode /\ \E code \in ExitCodes : exit_current_and_run_next(code)
  \/ \E want : sys_waitpid(want)
  \/ Quiet

(* Every action of Process is such a step. *)
LEMMA NextIsStep == IInv /\ [Next]_vars => KernelStep
<1>1. ExitCode \subseteq ExitCodes /\ {PageFaultCode, IllegalInstructionCode} \subseteq ExitCodes
  BY DEF ExitCodes
<1>2. ASSUME sys_exit \/ page_fault \/ illegal_instruction
      PROVE  UserMode /\ \E code \in ExitCodes : exit_current_and_run_next(code)
  BY <1>1, <1>2, ZenonT(20) DEF sys_exit, page_fault, illegal_instruction
<1>3. IInv /\ UNCHANGED vars => Quiet
  BY DEF IInv, TypeOK, vars, Quiet, tcbs, pids
<1> QED BY <1>2, <1>3, ZenonT(20) DEF Next, Halted, KernelStep

(* Every step keeps the invariant. *)
LEMMA StepIInv == ASSUME IInv, KernelStep PROVE IInv'
<1> USE ProcessAssumption
<1>1. CASE run_tasks
  BY <1>1, RunTasksIInv
<1>2. CASE sys_yield \/ timer_interrupt
  BY <1>2, SuspendIInv DEF sys_yield, timer_interrupt, UserMode
<1>3. CASE sys_read_stdin
  <2>1. CASE in_read' = in_read \cup {current} /\ suspend_current_and_run_next
    BY <1>3, <2>1, SuspendIInv DEF sys_read_stdin
  <2>2. CASE /\ in_read' = in_read \ {current}
             /\ ret' = 1
             /\ UNCHANGED <<tcbs, ready_queue, current, pids, kstacks, xstate, machine>>
    <3>1. TypeOK'
      <4>1. TypeOK
        BY DEF IInv
      <4>2. in_read' \subseteq Task /\ ret' \in Int /\ ExitCodes' = ExitCodes
        BY <4>1, <2>2 DEF TypeOK, ExitCodes
      <4>3. UNCHANGED <<status, pid, parent, children, exit_code, ready_queue, current,
                        pid_current, recycled, kstacks, xstate, machine>>
        BY <2>2 DEF tcbs, pids
      <4> QED BY <4>1, <4>2, <4>3 DEF TypeOK
    <3> QED BY <2>2, <3>1, FrameIInv DEF tcbs, pids
  <2> QED BY <1>3, <2>1, <2>2 DEF sys_read_stdin
<1>4. CASE sys_fork
  BY <1>4, ForkIInv
<1>5. CASE UserMode /\ \E code \in ExitCodes : exit_current_and_run_next(code)
  BY <1>5, ExitIInv, ZenonT(20)
<1>6. ASSUME NEW want, sys_waitpid(want) PROVE IInv'
  <2>1. UserMode /\ UNCHANGED <<in_read, ready_queue, current>>
    BY <1>6 DEF sys_waitpid
  <2>2. CASE waitpid_no_child(want) \/ waitpid_still_running(want)
    <3>1. /\ UNCHANGED <<status, pid, parent, children, exit_code, pid_current, recycled,
                         kstacks, xstate, machine>>
          /\ ret' \in Int
      BY <2>2 DEF waitpid_no_child, waitpid_still_running, tcbs, pids
    <3>2. TypeOK'
      BY <2>1, <3>1 DEF IInv, TypeOK, ExitCodes
    <3> QED BY <2>1, <3>1, <3>2, FrameIInv
  <2>3. CASE waitpid_reap(want)
    BY <2>1, <2>3, ReapIInv
  <2> QED BY <1>6, <2>2, <2>3 DEF sys_waitpid
<1>7. CASE Quiet
  <2>1. TypeOK'
    BY <1>7 DEF Quiet, tcbs, pids, IInv, TypeOK, ExitCodes
  <2> QED BY <1>7, <2>1, FrameIInv, SMTT(20) DEF Quiet, tcbs, pids
<1> QED
  BY <1>1, <1>2, <1>3, <1>4, <1>5, <1>6, <1>7 DEF KernelStep

(* The inductive invariant holds in every reachable state. *)
LEMMA Invariance == Spec => []IInv
BY InitIInv, NextIsStep, StepIInv, PTL DEF Spec

(* Every variable keeps its type, for any set of TCB addresses. *)
THEOREM TypeCorrect == Spec => []TypeOK
<1>1. IInv => TypeOK
  BY DEF IInv
<1> QED BY <1>1, Invariance, PTL

(* No assertion of the process code ever fails: waitpid finds the strong   *)
(* count of the zombie at 1, a pid is never deallocated twice, a kernel    *)
(* stack never mapped over another.                                        *)
THEOREM NeverPanics == Spec => []NoPanic
<1>1. IInv => NoPanic
  BY DEF IInv
<1> QED BY <1>1, Invariance, PTL

(* The ready queue and the processor hold exactly the runnable tasks. *)
THEOREM SchedulerIsExact == Spec => []SchedulerExact
<1>1. IInv => SchedulerExact
  BY DEF IInv
<1> QED BY <1>1, Invariance, PTL

(* Exit and waitpid keep the processes one family rooted in INITPROC. *)
THEOREM FamilyIsTree == Spec => []FamilyTree
<1>1. IInv => FamilyTree
  BY DEF IInv
<1> QED BY <1>1, Invariance, PTL

(* Pids and kernel stacks are owned by exactly one live TCB. *)
THEOREM PidsAreExact == Spec => []PidsExact
<1>1. IInv => PidsExact
  BY DEF IInv
<1> QED BY <1>1, Invariance, PTL

(* INITPROC never dies while the machine runs. *)
THEOREM InitprocNeverDies == Spec => []InitprocLives
<1>1. IInv => InitprocLives
  BY DEF IInv
<1> QED BY <1>1, Invariance, PTL
============================================================================

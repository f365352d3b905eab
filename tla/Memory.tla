------------------------------- MODULE Memory -------------------------------
(***************************************************************************)
(* Physical frames, SV39 page tables and address spaces (os/src/mm), under *)
(* the operations of a process that change them: creation from an ELF, fork,   *)
(* exec, exit, the drop of a reaped TCB, and stores of the application.    *)
(*                                                                         *)
(* Memory holds words.  A word is a record of a number and a flag set, the *)
(* two halves of a page table entry, so that whatever a program stores is  *)
(* an entry as well if its frame ever becomes a page table.                *)
(***************************************************************************)
EXTENDS FrameAllocator, Loops

CONSTANTS
  Pid,          \* pids that can be in use at the same time: the bound on TCBs
  ENTRIES,      \* entries of a page table, words of a page (512)
  EKERNEL,      \* first frame behind the kernel image
  strampoline,  \* frame of the trampoline, the end of the kernel's text
  MEMORY_END,   \* first frame that does not exist
  STACK_PAGES,  \* pages of a user stack and of a kernel stack
  QUEUE_PAGES,  \* pages of the queue the block driver shares with its device
  Program,      \* ELF images: sequences of loadable segments
  Word,         \* what an application stores
  MaxOps        \* bound on the number of operations

(* A word as a page table entry, and a loadable segment of an ELF. *)
Entry == [ppn : Nat, flags : SUBSET {"V", "R", "W", "X", "U"}]
Segment == [start : Nat, end : Nat, flags : SUBSET {"R", "W", "X"}, data : Seq(Entry)]

(* The kernel image ends inside memory; an ELF has a loadable segment. *)
ASSUME MemoryAssumption ==
  /\ 0 \in Pid /\ Pid \subseteq Nat
  /\ ENTRIES \in Nat \ {0, 1}
  /\ {EKERNEL, MEMORY_END, strampoline, STACK_PAGES, QUEUE_PAGES, MaxOps} \subseteq Nat
  /\ EKERNEL <= MEMORY_END
  /\ Word \subseteq Entry
  /\ \A elf \in Program : elf # <<>> /\ elf \in Seq(Segment)

VARIABLES
  fa,           \* FRAME_ALLOCATOR
  mem,          \* contents of the frames
  kernel,       \* KERNEL_SPACE
  queue_frames, \* QUEUE_FRAMES
  space,        \* memory_set of a TCB
  trap_cx_ppn,
  task,         \* "free", "live" or "zombie"
  panicked,     \* the panic that stopped the kernel, or "no"
  ops

vars == <<fa, mem, kernel, queue_frames, space, trap_cx_ppn, task, panicked, ops>>

Offset == 0 .. ENTRIES - 1
TRAMPOLINE == ENTRIES * ENTRIES * ENTRIES - 1
TRAP_CONTEXT == TRAMPOLINE - 1

(* Fault: no room for a guard page. *)
kernel_stack_bottom_tight(pid) == TRAMPOLINE - pid * STACK_PAGES - STACK_PAGES

(* kernel_stack_position: the bottom page; a guard page lies below it. *)
kernel_stack_bottom(pid) == TRAMPOLINE - pid * (STACK_PAGES + 1) - STACK_PAGES
kernel_stack_top(pid) == kernel_stack_bottom(pid) + STACK_PAGES

-----------------------------------------------------------------------------
(* Page tables.  A builder b carries the allocator and the memory through  *)
(* the loops of the code, with the page table and the areas they build.    *)

Value(n) == [ppn |-> n, flags |-> {}]
ZeroPage == [k \in Offset |-> Value(0)]
NoSpace == [root |-> 0, frames |-> <<>>, areas |-> <<>>]

is_valid(pte) == "V" \in pte.flags

indexes(vpn) ==
  <<vpn \div (ENTRIES * ENTRIES), (vpn \div ENTRIES) % ENTRIES, vpn % ENTRIES>>

(* Fault: the frame is not cleared. *)
frame_alloc_dirty(b) ==
  IF can_alloc(b.fa)
  THEN [b EXCEPT !.fa = alloc(@)]
  ELSE [b EXCEPT !.panicked = "out of frames"]

(* frame_alloc().unwrap(): FrameTracker::new clears the frame. *)
frame_alloc(b) ==
  IF can_alloc(b.fa)
  THEN [b EXCEPT !.fa = alloc(@), !.mem[alloc_ppn(b.fa)] = ZeroPage]
  ELSE [b EXCEPT !.panicked = "out of frames"]

(* One level of find_pte_create: b.at moves on to the next table. *)
next_level(b, idx) ==
  LET pte == b.mem[b.at][idx]
      ppn == alloc_ppn(b.fa)
  IN IF is_valid(pte)
     THEN [b EXCEPT !.at = pte.ppn]
     ELSE Then(frame_alloc(b),
               [frame_alloc(b) EXCEPT !.mem[b.at][idx] = [ppn |-> ppn, flags |-> {"V"}],
                                      !.frames = Append(@, ppn),
                                      !.at = ppn])

find_pte_create(b, vpn) ==
  LET level1 == next_level([b EXCEPT !.at = b.root], indexes(vpn)[1])
  IN Then(level1, next_level(level1, indexes(vpn)[2]))

map(b, vpn, ppn, flags) ==
  LET c == find_pte_create(b, vpn)
      idx == indexes(vpn)[3]
      pte == [ppn |-> ppn, flags |-> flags \cup {"V"}]
  IN Then(c, IF is_valid(c.mem[c.at][idx])
             THEN [c EXCEPT !.panicked = "mapped before mapping"]
             ELSE [c EXCEPT !.mem[c.at][idx] = pte])

(* find_pte as the set of the table and index it finds. *)
find_pte(m, root, vpn) ==
  LET idx == indexes(vpn)
      pte1 == m[root][idx[1]]
      pte2 == m[pte1.ppn][idx[2]]
  IN IF is_valid(pte1)
     THEN IF is_valid(pte2) THEN {<<pte2.ppn, idx[3]>>} ELSE {}
     ELSE {}

translate(m, root, vpn) == {m[at[1]][at[2]] : at \in find_pte(m, root, vpn)}

(* translate(vpn).unwrap().ppn() *)
ppn_of(m, root, vpn) == (CHOOSE pte \in translate(m, root, vpn) : TRUE).ppn

unmap(b, vpn) ==
  LET at == CHOOSE a \in find_pte(b.mem, b.root, vpn) : TRUE
  IN IF is_valid(b.mem[at[1]][at[2]])
     THEN [b EXCEPT !.mem[at[1]][at[2]] = Value(0)]
     ELSE [b EXCEPT !.panicked = "invalid before unmapping"]

-----------------------------------------------------------------------------
(* MapArea and MemorySet.  An area is a range of pages, its type and       *)
(* permissions, and the frames it owns in page order.                      *)

MapArea(start, end, map_type, map_perm) ==
  [start |-> start, end |-> end, map_type |-> map_type, map_perm |-> map_perm,
   data_frames |-> <<>>]

Pages(area) == [k \in 1 .. area.end - area.start |-> area.start + k - 1]

(* map_one on the last area of the builder. *)
map_one(b, vpn) ==
  LET n == Len(b.areas)
      ppn == alloc_ppn(b.fa)
      framed == [frame_alloc(b) EXCEPT !.areas[n].data_frames = Append(@, ppn)]
  IN IF b.areas[n].map_type = "Identical"
     THEN map(b, vpn, vpn, b.areas[n].map_perm)
     ELSE Then(frame_alloc(b), map(framed, vpn, ppn, b.areas[n].map_perm))

(* copy_data into the area just mapped; the words of data fill its pages   *)
(* in order.                                                               *)
copy_words(data, c, k) ==
  LET ppn == ppn_of(c.mem, c.root, Last(c.areas).start + k)
      word(idx) == k * ENTRIES + idx + 1
  IN [c EXCEPT !.mem[ppn] =
        [idx \in Offset |-> IF word(idx) <= Len(data) THEN data[word(idx)] ELSE @[idx]]]

copy_data(b, data) ==
  Then(b, ForEach(LAMBDA c, k : copy_words(data, c, k), b,
                  Upto(0, (Len(data) + ENTRIES - 1) \div ENTRIES)))

push(b, area, data) ==
  copy_data(ForEach(map_one, [b EXCEPT !.areas = Append(@, area)], Pages(area)), data)

(* new_bare, then map_trampoline, which is in no area. *)
with_trampoline(f, m) ==
  LET root == alloc_ppn(f)
      frame == frame_alloc([fa |-> f, mem |-> m, panicked |-> "no", at |-> root,
                            root |-> root, frames |-> <<>>, areas |-> <<>>])
      bare == [frame EXCEPT !.frames = <<root>>]
  IN Then(frame, map(bare, TRAMPOLINE, strampoline, {"R", "X"}))

(* new_kernel: the text, the data and all memory behind the kernel image   *)
(* are mapped to themselves.                                               *)
new_kernel(f, m) ==
  ForEach(LAMBDA b, area : push(b, area, <<>>), with_trampoline(f, m),
          << MapArea(0, strampoline + 1, "Identical", {"R", "X"}),
             MapArea(strampoline + 1, EKERNEL, "Identical", {"R", "W"}),
             MapArea(EKERNEL, MEMORY_END, "Identical", {"R", "W"}) >>)

(* The areas of a program and their initial words: its segments, the stack *)
(* behind a guard page above the last segment, the trap context.           *)
user_areas(elf) ==
  LET stack == Last(elf).end + 1
      segment(ph) == [area |-> MapArea(ph.start, ph.end, "Framed", ph.flags \cup {"U"}), data |-> ph.data]
  IN [k \in DOMAIN elf |-> segment(elf[k])]
     \o << [area |-> MapArea(stack, stack + STACK_PAGES, "Framed", {"R", "W", "U"}), data |-> <<>>],
           [area |-> MapArea(TRAP_CONTEXT, TRAMPOLINE, "Framed", {"R", "W"}), data |-> <<>>] >>

from_elf(f, m, elf) ==
  ForEach(LAMBDA b, ua : push(b, ua.area, ua.data), with_trampoline(f, m), user_areas(elf))

(* from_existed_user: new frames for every page, filled from the old ones. *)
copy_page(old, b, vpn) ==
  [b EXCEPT !.mem[ppn_of(b.mem, b.root, vpn)] = b.mem[ppn_of(b.mem, old.root, vpn)]]

from_another(area) == MapArea(area.start, area.end, area.map_type, area.map_perm)

(* Fault: of every area only the first page is copied. *)
copy_area_head(old, b, area) ==
  LET pushed == push(b, from_another(area), <<>>)
  IN Then(pushed, copy_page(old, pushed, area.start))

copy_area(old, b, area) ==
  LET pushed == push(b, from_another(area), <<>>)
  IN Then(pushed, ForEach(LAMBDA c, vpn : copy_page(old, c, vpn), pushed, Pages(area)))

from_existed_user(f, m, old) ==
  ForEach(LAMBDA b, area : copy_area(old, b, area), with_trampoline(f, m), old.areas)

(* Drop of frame trackers, in order. *)
frame_dealloc(b, ppn) ==
  IF dealloc_ok(b.fa, ppn)
  THEN [b EXCEPT !.fa = dealloc(@, ppn)]
  ELSE [b EXCEPT !.panicked = "has not been allocated"]

drop_frames(b, frames) == ForEach(frame_dealloc, b, frames)

drop_areas(b, areas) == ForEach(LAMBDA c, area : drop_frames(c, area.data_frames), b, areas)

(* Fault: the frames of the page tables are not given back. *)
drop_space_areas_only(b, s) == drop_areas(b, s.areas)

(* Drop of a MemorySet: page_table, then areas. *)
drop_space(b, s) == drop_areas(drop_frames(b, s.frames), s.areas)

(* KernelStack::new and its drop, on the builder of the kernel space. *)
kernel_stack_new(b, pid) ==
  Then(b, push(b, MapArea(kernel_stack_bottom(pid), kernel_stack_top(pid), "Framed", {"R", "W"}), <<>>))

unmap_one(area, b, k) ==
  LET freed == frame_dealloc(b, area.data_frames[k])
  IN Then(freed, unmap(freed, area.start + k - 1))

kernel_stack_drop(b, pid) ==
  LET i == CHOOSE k \in DOMAIN b.areas : b.areas[k].start = kernel_stack_bottom(pid)
      area == b.areas[i]
  IN [ForEach(LAMBDA c, k : unmap_one(area, c, k), b, Upto(1, Len(area.data_frames) + 1))
        EXCEPT !.areas = RemoveAt(@, i)]

-----------------------------------------------------------------------------
(* A memory set goes on with the allocator and memory of b. *)
Resume(b, s) ==
  [fa |-> b.fa, mem |-> b.mem, panicked |-> b.panicked, at |-> s.root,
   root |-> s.root, frames |-> s.frames, areas |-> s.areas]
SpaceOf(b) == [root |-> b.root, frames |-> b.frames, areas |-> b.areas]

(* Fields of the trap context. *)
X10 == 0
KERNEL_SP == 1

app_init_context(pid) == [ZeroPage EXCEPT ![KERNEL_SP] = Value(kernel_stack_top(pid))]

Put(m, ppn, field, n) == [m EXCEPT ![ppn][field] = Value(n)]

(* Fault: the child traps onto the stack of its parent. *)
child_context_shared(m, cx, c) == Put(m, cx, X10, 0)

(* The copied trap context becomes the child's. *)
child_context(m, cx, c) == Put(Put(m, cx, KERNEL_SP, kernel_stack_top(c)), cx, X10, 0)

(* Fault: the trackers are dropped, the areas stay. *)
recycle_data_pages_kept(s) == s

recycle_data_pages(s) == [s EXCEPT !.areas = <<>>]

(* VirtioHal::dma_alloc: frames one after the other, which must adjoin. *)
next_queue_page(b, i) ==
  LET ppn == alloc_ppn(b.fa)
      c == [frame_alloc(b) EXCEPT !.queue = Append(@, ppn)]
  IN Then(frame_alloc(b), IF ppn = c.queue[1] + i THEN c ELSE [c EXCEPT !.panicked = "queue"])

dma_alloc(b, pages) ==
  ForEach(next_queue_page,
          [fa |-> b.fa, mem |-> b.mem, panicked |-> b.panicked, queue |-> <<>>], Upto(0, pages))

(* rust_main: mm::init builds KERNEL_SPACE, list_apps is the first to use  *)
(* the block device, then TaskControlBlock::new builds INITPROC.           *)
Init ==
  \E elf \in Program,
     kern \in {new_kernel(init(EKERNEL, MEMORY_END), [p \in 0 .. MEMORY_END - 1 |-> ZeroPage])} :
    LET dma == dma_alloc(kern, QUEUE_PAGES)
        user == from_elf(dma.fa, dma.mem, elf)
        b == kernel_stack_new(Resume(user, SpaceOf(kern)), 0)
        cx == ppn_of(b.mem, user.root, TRAP_CONTEXT)
    IN /\ fa = b.fa
       /\ mem = [b.mem EXCEPT ![cx] = app_init_context(0)]
       /\ kernel = SpaceOf(b)
       /\ queue_frames = dma.queue
       /\ space = [p \in Pid |-> IF p = 0 THEN SpaceOf(user) ELSE NoSpace]
       /\ trap_cx_ppn = [p \in Pid |-> IF p = 0 THEN cx ELSE 0]
       /\ task = [p \in Pid |-> IF p = 0 THEN "live" ELSE "free"]
       /\ panicked = Then(dma, b).panicked
       /\ ops = 0

(* A panic ends the machine; the state before the operation is kept. *)
Panic(b) ==
  /\ panicked' = b.panicked
  /\ UNCHANGED <<fa, mem, kernel, space, trap_cx_ppn, task>>

Running(t) == panicked = "no" /\ task[t] = "live"
Step == ops < MaxOps /\ ops' = ops + 1 /\ UNCHANGED queue_frames

(* sys_fork: the user space is copied, then the kernel stack of the child  *)
(* is mapped; the copied trap context gets the child's kernel stack and    *)
(* return value, the parent's gets the pid when the trap returns.          *)
fork(t, c) ==
  LET user == from_existed_user(fa, mem, space[t])
      b == kernel_stack_new(Resume(user, kernel), c)
      cx == ppn_of(b.mem, user.root, TRAP_CONTEXT)
  IN /\ Running(t)
     /\ task[c] = "free"
     /\ Step
     /\ IF b.panicked # "no"
        THEN Panic(b)
        ELSE /\ fa' = b.fa
             /\ mem' = Put(child_context(b.mem, cx, c), trap_cx_ppn[t], X10, c)
             /\ kernel' = SpaceOf(b)
             /\ space' = [space EXCEPT ![c] = SpaceOf(user)]
             /\ trap_cx_ppn' = [trap_cx_ppn EXCEPT ![c] = cx]
             /\ task' = [task EXCEPT ![c] = "live"]
             /\ UNCHANGED panicked

(* Fault: the result is stored through the reference taken before exec. *)
exec_stale(t, elf) ==
  LET user == from_elf(fa, mem, elf)
      b == drop_space(user, space[t])
      cx == ppn_of(b.mem, user.root, TRAP_CONTEXT)
  IN /\ Running(t)
     /\ Step
     /\ b.panicked = "no"
     /\ fa' = b.fa
     /\ mem' = Put([b.mem EXCEPT ![cx] = app_init_context(t)], trap_cx_ppn[t], X10, 0)
     /\ space' = [space EXCEPT ![t] = SpaceOf(user)]
     /\ trap_cx_ppn' = [trap_cx_ppn EXCEPT ![t] = cx]
     /\ UNCHANGED <<kernel, task, panicked>>

(* exec: the new space is complete before the old one is dropped.  The     *)
(* trap handler asks for the trap context again before it stores 0.        *)
exec(t, elf) ==
  LET user == from_elf(fa, mem, elf)
      b == drop_space(user, space[t])
      cx == ppn_of(b.mem, user.root, TRAP_CONTEXT)
  IN /\ Running(t)
     /\ Step
     /\ IF b.panicked # "no"
        THEN Panic(b)
        ELSE /\ fa' = b.fa
             /\ mem' = Put([b.mem EXCEPT ![cx] = app_init_context(t)], cx, X10, 0)
             /\ space' = [space EXCEPT ![t] = SpaceOf(user)]
             /\ trap_cx_ppn' = [trap_cx_ppn EXCEPT ![t] = cx]
             /\ UNCHANGED <<kernel, task, panicked>>

(* exit: recycle_data_pages drops the areas.  The page table stays, with   *)
(* entries for frames that now belong to others, until the TCB is dropped. *)
exit(t) ==
  LET b == drop_areas(Resume([fa |-> fa, mem |-> mem, panicked |-> "no"], space[t]), space[t].areas)
  IN /\ Running(t)
     /\ t # 0
     /\ Step
     /\ IF b.panicked # "no"
        THEN Panic(b)
        ELSE /\ fa' = b.fa
             /\ space' = [space EXCEPT ![t] = recycle_data_pages(@)]
             /\ task' = [task EXCEPT ![t] = "zombie"]
             /\ UNCHANGED <<mem, kernel, trap_cx_ppn, panicked>>

(* The TCB of a zombie is dropped: its kernel stack, then its memory set. *)
drop_tcb(t) ==
  LET stack == kernel_stack_drop(Resume([fa |-> fa, mem |-> mem, panicked |-> "no"], kernel), t)
      b == drop_space(stack, space[t])
  IN /\ panicked = "no"
     /\ task[t] = "zombie"
     /\ Step
     /\ IF b.panicked # "no"
        THEN Panic(b)
        ELSE /\ fa' = b.fa
             /\ mem' = b.mem
             /\ kernel' = SpaceOf(stack)
             /\ space' = [space EXCEPT ![t] = NoSpace]
             /\ trap_cx_ppn' = [trap_cx_ppn EXCEPT ![t] = 0]
             /\ task' = [task EXCEPT ![t] = "free"]
             /\ UNCHANGED panicked

(* The application stores to a page that its page table lets it write, as  *)
(* the hardware walks it from satp.                                        *)
UserWritable(t, vpn) ==
  \E pte \in translate(mem, space[t].root, vpn) : {"V", "W", "U"} \subseteq pte.flags

store(t, vpn, w) ==
  /\ Running(t)
  /\ UserWritable(t, vpn)
  /\ Step
  /\ mem' = [mem EXCEPT ![ppn_of(mem, space[t].root, vpn)][0] = w]
  /\ UNCHANGED <<fa, kernel, space, trap_cx_ppn, task, panicked>>

(* The kernel has panicked, or the bound is reached. *)
Halted == (panicked # "no" \/ ops = MaxOps) /\ UNCHANGED vars

Next ==
  \/ \E t \in Pid, c \in Pid : fork(t, c)
  \/ \E t \in Pid, elf \in Program : exec(t, elf)
  \/ \E t \in Pid : exit(t) \/ drop_tcb(t)
  \/ \E t \in Pid, vpn \in 0 .. TRAMPOLINE, w \in Word : store(t, vpn, w)
  \/ Halted

Spec == Init /\ [][Next]_vars

-----------------------------------------------------------------------------
(* Properties. *)

(* The frames of the trackers of an area, and of a memory set. *)
DataFrames(area) == Range(area.data_frames)
Owned(s) == Range(s.frames) \cup UNION {DataFrames(s.areas[k]) : k \in DOMAIN s.areas}

(* No frame has two trackers in the memory set. *)
OwnedOnce(s) ==
  /\ IsInjective(s.frames)
  /\ \A k \in DOMAIN s.areas :
       /\ IsInjective(s.areas[k].data_frames)
       /\ DataFrames(s.areas[k]) \cap Range(s.frames) = {}
       /\ \A j \in DOMAIN s.areas :
            j # k => DataFrames(s.areas[j]) \cap DataFrames(s.areas[k]) = {}

TaskFrames == UNION {Owned(space[t]) : t \in Pid}

(* No frame is ever owned twice, lost, or free while owned, through any    *)
(* fork, exec, exit and reap: the trackers of the kernel, of the driver    *)
(* and of every TCB share no frame, and with the allocator's stack they    *)
(* partition the frames handed out (FrameTracker).                         *)
FramesExact ==
  /\ OwnedOnce(kernel) /\ IsInjective(queue_frames)
  /\ \A t \in Pid : OwnedOnce(space[t])
  /\ Owned(kernel) \cap Range(queue_frames) = {}
  /\ TaskFrames \cap (Owned(kernel) \cup Range(queue_frames)) = {}
  /\ \A t, u \in Pid : t # u => Owned(space[t]) \cap Owned(space[u]) = {}
  /\ Exact(fa, EKERNEL, Owned(kernel) \cup Range(queue_frames) \cup TaskFrames)

(* The pages an area maps and what their entries must be. *)
AreaEntries(area) ==
  {<<area.start + k - 1,
     [ppn |-> IF area.map_type = "Identical" THEN area.start + k - 1 ELSE area.data_frames[k],
      flags |-> area.map_perm \cup {"V"}]>> : k \in 1 .. area.end - area.start}

ExactlyMapped(s) ==
  UNION {{vpn} \X {pte \in translate(mem, s.root, vpn) : is_valid(pte)} : vpn \in 0 .. TRAMPOLINE}
    = {<<TRAMPOLINE, [ppn |-> strampoline, flags |-> {"V", "R", "X"}]>>}
      \cup UNION {AreaEntries(s.areas[k]) : k \in DOMAIN s.areas}

(* The page table of a process that can run maps its own areas and the     *)
(* trampoline and nothing else, so no process reaches a frame of another,  *)
(* a freed frame or a page table (MapArea::map_one, recycle_data_pages).   *)
UserSpaceExact == \A t \in Pid : task[t] = "live" => ExactlyMapped(space[t])

(* The kernel maps physical memory to itself and exactly the stacks of the *)
(* TCBs that exist, with an unmapped guard page below each (KernelStack).  *)
KernelSpaceExact ==
  /\ ExactlyMapped(kernel)
  /\ {area.start : area \in {a \in Range(kernel.areas) : a.map_type = "Framed"}}
       = {kernel_stack_bottom(t) : t \in {u \in Pid : task[u] # "free"}}
  /\ \A t \in Pid : \A pte \in translate(mem, kernel.root, kernel_stack_bottom(t) - 1) : ~is_valid(pte)

(* The frame the kernel takes for a process' trap context is the one its   *)
(* page table shows to the trampoline, and it names the process' own       *)
(* kernel stack, through fork and exec (trap_cx_ppn, get_trap_cx).         *)
TrapContextOwn ==
  \A t \in Pid : task[t] = "live" =>
    /\ trap_cx_ppn[t] = ppn_of(mem, space[t].root, TRAP_CONTEXT)
    /\ mem[trap_cx_ppn[t]][KERNEL_SP] = Value(kernel_stack_top(t))

(* No step leaves its mark in a frame that has no owner when it ends.  The *)
(* kernel works through references into frames (trap contexts, page        *)
(* tables, pages to copy) that no FrameTracker guards, and must use none   *)
(* of them once the frame is freed (trap_handler after sys_exec).          *)
WritesOwnedFrames ==
  [][\A ppn \in DOMAIN mem : mem'[ppn] # mem[ppn] =>
       ppn \in (Owned(kernel) \cup Range(queue_frames) \cup TaskFrames)']_vars

(* The only panic of the memory system is the one for lack of frames: no   *)
(* page is mapped twice, unmapped when it is not mapped, no frame is freed *)
(* that was not allocated (the asserts and the panic of mm/), and the      *)
(* driver's queue gets adjacent frames (dma_alloc), being the first.       *)
PanicsOnlyWhenFull == panicked \in {"no", "out of frames"}

(* What a process sees: its pages as its page table reaches them. *)
Visible(t) ==
  {vpn \in 0 .. TRAP_CONTEXT : \E pte \in translate(mem, space[t].root, vpn) : is_valid(pte)}

memory ==
  [t \in Pid |->
     [vpn \in IF task[t] = "live" THEN Visible(t) ELSE {} |->
        LET pte == CHOOSE e \in translate(mem, space[t].root, vpn) : TRUE
        IN [perm |-> pte.flags, words |-> mem[pte.ppn]]]]

(* The image of a program, page by page; what is not in the file is zero. *)
Loaded(t, elf) ==
  LET ua == user_areas(elf)
      at(vpn) == CHOOSE k \in DOMAIN ua : vpn \in ua[k].area.start .. ua[k].area.end - 1
      image(vpn, idx) ==
        LET word == (vpn - ua[at(vpn)].area.start) * ENTRIES + idx + 1
        IN IF word <= Len(ua[at(vpn)].data) THEN ua[at(vpn)].data[word] ELSE Value(0)
  IN [vpn \in UNION {ua[k].area.start .. ua[k].area.end - 1 : k \in DOMAIN ua} |->
        [perm |-> ua[at(vpn)].area.map_perm \cup {"V"},
         words |-> IF vpn = TRAP_CONTEXT THEN app_init_context(t)
                   ELSE [idx \in Offset |-> image(vpn, idx)]]]

Returned(m, n) == [m EXCEPT ![TRAP_CONTEXT].words[X10] = Value(n)]
Forked(m, c) == [m EXCEPT ![TRAP_CONTEXT].words[X10] = Value(0),
                          ![TRAP_CONTEXT].words[KERNEL_SP] = Value(kernel_stack_top(c))]
Stored(m, vpn, w) == [m EXCEPT ![vpn].words[0] = w]

Abstract == INSTANCE AddressSpaces WITH Task <- Pid

(* Page tables, recycled frames and copies implement private memories:     *)
(* fork copies every page, exec loads the image into zeroed pages, a store *)
(* is seen by no other process (from_existed_user, from_elf, copy_data).   *)
ImplementsAddressSpaces == Abstract!Spec
============================================================================

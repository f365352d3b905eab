# Verification of the rCore chapter-6 kernel and easy-fs

TLA+ models of the kernel in `os/`, the file system in `easy-fs/`, the image packer in
`easy-fs-fuse/` and the programs that keep the system running (`initproc`, the shell, `usertests`),
model-checked with TLC on small instances.  The process layer, the borrows of its cells, the programs
that wait for children, the ownership of frames, open files, the block cache, bitmaps and disk layout,
and the access to user buffers are also proved with TLAPS for all values of their constants.

## 1. The system

A RISC-V kernel for one hart (`os/`) runs user programs (`user/`) from an easy-fs disk
(`easy-fs/`, packed on the host by `easy-fs-fuse/`).

* **Concurrency.** One hart; interrupts are off in S-mode.  A trap runs without interference until
  it returns to U-mode or reaches `__switch`.  Processes interleave at those points only, so one trap
  is one action.  Inside easy-fs, closures over cached blocks nest; the lock of `EasyFileSystem` is
  held for a whole operation.
* **Ownership.** Most of what can go wrong is about Rust values with a meaningful drop: the last `Arc`
  of a TCB recycles a pid and unmaps a kernel stack; a `FrameTracker` frees a frame; a `BlockCache`
  writes itself back.  The models keep references explicit and make each drop part of the action that
  causes it.
* **Panics.** Assertions, `unwrap` and `panic!` stop the machine.  They are states of the models
  (`machine`, `panicked`), and the properties say when they are reached.

| Part | State | Operations | Module |
|---|---|---|---|
| processes, scheduler, pids, kernel stacks (`os/src/task`, `syscall/process.rs`) | TCBs, `TASK_MANAGER`, `PROCESSOR`, `PID_ALLOCATOR` | run_tasks, yield, timer, fork, exit, faults, waitpid, read of stdin | `Process` |
| initproc, shell, usertests (`user/src/bin`, `user/src/lib.rs`) | program, place and locals of every task | fork, exec, wait, waitpid, getchar, yield, exit | `Programs` |
| borrows of `UPSafeCell` (`sync/up.rs`) | cells borrowed between two steps | every action of `Process`, exec, open, close, read, write, getpid | `Borrows` |
| descriptors and open files (`fs/inode.rs`, `syscall/fs.rs`) | `fd_table` of every TCB, OSInodes with their offset | open, close, read, write, fork, exit, waitpid | `Files` |
| frame allocator (`mm/frame_allocator.rs`) | current, end, recycled | init, alloc, dealloc | `FrameAllocator` |
| page tables, address spaces (`mm/page_table.rs`, `memory_set.rs`, `address.rs`) | frames' contents, `KERNEL_SPACE`, memory sets, `trap_cx_ppn` | fork, exec, exit, drop of a TCB, user stores | `Memory` |
| user buffers (`translated_byte_buffer`, `UserBuffer`) | slices, iterator | one turn of either loop | `UserBuffer` |
| block cache (`easy-fs/src/block_cache.rs`) | queue, cached blocks, dirty flags, open accesses | get_block_cache, read, modify, drop, sync_all | `BlockCache` |
| disk inode (`easy-fs/src/layout.rs`) | size, direct and three indirect trees | increase_size, clear_size, read_at, write_at | `DiskInode` |
| bitmaps, disk layout (`bitmap.rs`, `efs.rs`) | bitmap blocks; start and size of the areas | alloc, dealloc; create, open, get_disk_inode_pos | `Bitmap`, `Layout` |
| file system (`efs.rs`, `vfs.rs`) | blocks, inode area, two bitmaps, the mounted layout | create, find, read_at, write_at, clear, mount | `EasyFs` |
| disk image (`easy-fs-fuse/src/main.rs`, `fs/inode.rs`) | what reached the image file, the application in hand | pack, boot, list_apps, read_all | `Image` |

How they interact: fork and exit of `Process` are the fork, exit and drop of `Memory`, seen from the
scheduler and from the frames respectively; `Memory` uses `FrameAllocator`.  `Programs`, `Files` and
`Borrows` each extend `Process`: every action of theirs is an action of `Process` with what it does to
programs, descriptors or cells.  `EasyFs` uses `DiskInode`, `Bitmap` and `Layout` on an array of
blocks, which is what `BlockCache` is proved to implement (`BlockStore`); it implements `FileStore`,
on which `Files` is built in turn: `UserBuffer` says how the pages of a program cut the buffers that
`Files` moves slice by slice.  `Image` extends `EasyFs` from the packer to the booted kernel.

The hazards, line by line and with the properties that cover them, are in `PROJECT.json`.

## 2. Modules and how they correspond to the code

Definitions have the name of the function they model where TLA+ allows it; `PROJECT.json` maps each
one to its lines.  A definition whose comment begins with "Fault:" is not part of the model: it is a
wrong variant of the definition after it, used to see that a property notices the mistake.

* `Process` - a TCB is an address in `Task` with its fields as functions on `Task`.  `Referenced` is
  `Arc::strong_count` as a predicate; `drop_tcb` is the drop of `PidHandle` and `KernelStack`.
  `in_read` is the set of tasks suspended inside `Stdin::read`, whose kernel stack holds an `Arc`.
  A program is any sequence of system calls.
* `Programs` - the same kernel with programs: a task's memory (`user`) has its program, its place and
  its locals; fork copies it, exec replaces it.  initproc, the shell and usertests make the calls of
  their source; a program `any` makes every call but exec in any order.  A command line is its length,
  a test the exit code that is expected of it.
* `Borrows` - each action of `Process`, and the calls that leave the processes alone (exec, open, close,
  read and write, also when they fail), with the `exclusive_access` calls and drops of its code, in
  their order.  A stretch of code is a record of the cells it borrows, those whose `RefMut` it leaves
  alive and those it finds borrowed by itself; `++` is one stretch after the other, `Scope` a cell
  held over a body.  Cells still borrowed when a kernel stack leaves the processor stay in `borrowed`;
  `doubly` has the cells that an `exclusive_access` met borrowed.  `sys_get_time` borrows only what
  every trap does; `QUEUE_FRAMES` is borrowed by `dma_alloc` alone, before the first process runs.
* `Files` - a descriptor table is a sequence of handles; an OSInode lives as long as a table of some
  TCB, zombies included, refers to it.  The pages of a
  buffer cut it into slices, whose lengths are its shape; `read_slice` and `write_slice` are a round
  of the loops of `OSInode::read` and `write`.  Every unit that is written tells the open it was
  written through, the operation and its place in the buffer, so that no two writes look alike.
* `UserBuffer` - the loop of `translated_byte_buffer` and the iterator, one turn per step, with the
  masking and the sign extension of `VirtAddr`.
* `FrameAllocator` - the allocator as operators on a record, with `Exact`, its invariant relative to a
  set of owned frames.
* `Memory` - memory is a function from frames to words; page tables live in it and are walked as the
  hardware walks them.  A builder record carries allocator, memory and the address space under
  construction through the loops of the code.  Words double as page table entries, so that a frame
  which is not cleared before it becomes a page table has visible consequences.  A page has
  `ENTRIES` words, virtual addresses have three indexes below `ENTRIES`.
* `AddressSpaces` - what `Memory` implements: a private function from pages to contents per process.
* `BlockCache`, `BlockStore` - the cache and the array of blocks it implements.  `pins` is the stack of
  closures that have a block open.
* `Loops` - `for` loops with panics, for `Memory`, `Files` and `DiskInode`.
* `Lists` - the `Vec` operations on sequences that the modules with proofs use.
* `DiskInode` - the index trees; a unit of data and an index entry both take one offset of a block.
* `Bitmap` - a bitmap block is a function from words to the set of their bits that are 1; `alloc` is
  the search for a block, a word and a bit.
* `Layout` - the arithmetic of `create` and `open`, and the place of an inode.
* `EasyFs`, `FileStore` - the file system, and the named sequences it implements.  Inodes are found by
  their block and offset, through the layout in `efs`, which `mount` computes again from the super
  block.  After a panic the machine is off, so the model keeps the state before the operation that
  panicked.
* `Image` - the packer runs create and write_at of `EasyFs`; `image` is what the last
  `block_cache_sync_all` left on the device, and all that `boot` finds.
* `MCProcess`, `MCPrograms`, `MCFiles`, `MCBorrows`, `MCBlockCache`, `MCMemory` - instances for TLC.
* Proofs: `Lemmas` (numbers and sequences), `LoopProofs` (the loops of `Loops`), `ProcessProofs` (the
  invariant of `Process`), `KernelProofs` (what follows from it for `Process`, `Programs` and
  `Borrows`), `FilesProofs`, `MemoryProofs` (`FrameAllocator` and `Memory`), `BlockCacheProofs`, and
  `AddressProofs` (`Bitmap`, `Layout`, `UserBuffer`).

## 3. Runs

| Run | Checks | Bounds |
|---|---|---|
| `process` | no kernel assertion fails, queue and processor exact, family tree, pids and kernel stacks exact and conserved, zombies wait for their parent, exit does not unmap its own stack | four TCB addresses, two exit codes |
| `programs` | every ready task runs again; every zombie that initproc, a shell or usertests has to collect is freed; the pid they wait for is that of a child of theirs | four TCB addresses, lines of one character, two tests |
| `borrows` | no `exclusive_access` meets a borrowed cell | three TCB addresses |
| `files` | open files implement `FileStore`; descriptors of one open never overwrite each other's units; offsets move by what a call returns; tables are private and filled from the lowest hole | two processes, two OSInodes, one name, four sets of flags, buffers in one and in two slices, 4 opens, reads and writes |
| `user_buffer` | bytes of a buffer once and in order; both loops end | 4 pages of 4 bytes, every buffer and every page table over 2 frames |
| `block_cache` | one copy per block, open accesses keep their block, dirty flags, durability of sync, refinement of `BlockStore` | cache of 2, 4 blocks, 3 nested accesses, 2 values |
| `block_cache_two_devices` (violation) | the cache returns "the block cache corresponding to the given block id and block device" | two devices |
| `memory` | frames have one owner, user and kernel page tables map exactly their areas, trap contexts, no write to a freed frame, panics only for lack of frames, refinement of `AddressSpaces` | 3 pids, pages of 4 words, 50 frames, 2 of them for the driver's queue, 2 programs, 5 operations |
| `easy_fs` | bitmaps and trees agree, free blocks are zero, directory, index assertions, refinement of `FileStore`, all across remounts | blocks of 2 units, 1 direct entry, bitmap blocks of 2 words of 2 bits, 46 blocks, 2 names, files of up to 15 data blocks, 5 operations |
| `easy_fs_full` | what happens when blocks or inodes run out | 14 blocks in all, bitmap blocks of 3 bits, 3 names, 5 operations |
| `easy_fs_large` (violation) | the assertion of `clear_size` on the third level | 54 blocks, one file |
| `image` | a kernel booted from what was synced lists the applications as packed and reads each byte for byte | 80 blocks, 2 executables in either order, 17 sizes up to 22 units |

**Why the bounds are enough.**  *process*: four addresses give a parent, a child, a grandchild and a
reused address, hence reparenting of running and zombie children next to INITPROC's own, and reuse of
pids in any order; the state space is finite without a bound on steps, because pids are recycled.
*block_cache*: three nested accesses on two entries reach the panic and every eviction choice.
*memory*: five operations include fork-exit-drop-fork chains, exec after fork and a second child;
the number of frames is such that some of them run out of frames and others do not.  *programs*: four
addresses let the shell run usertests, which runs a test, or a second shell, which runs a program that
leaves an orphan; a test passes or fails by its code, and pids are reused throughout.  There the heap
gives fork an address that depends only on which are free (`SameHeap`), since no code compares them.  *borrows*: a
path borrows its own cell, that of INITPROC and those of its children, so three tasks have every
pair.  *files*: parent and child with two OSInodes have every way to share one: inherited, opened
twice, closed by either, truncated by the other's open while an offset lies behind the new end.
*user_buffer*: buffers start and end at every offset, span up to four pages and reach the end of the
lower half, where addresses change their sign.  *image*: the sizes lie inside and at the
ends of the first three index levels and inside the fourth.  *easy_fs*: with
two entries per index block a file has at most 15 data blocks: 1 direct, 2, 4 and 8 below the three
trees.  The positions make files of 1, 2, 3, 4, 7, 8, 12 and 15 blocks, so that a file grows from the
end of each level (1, 3, 7), from inside the first tree (2), the second (4) and the third (8, and 12
in its second half), within a level and across several at once; then it is cleared and grows into
used blocks.  A file of 12 or 15 blocks makes the assertion of `clear_size` fail that is the second
finding below.  `IndexAssertionsHold` leaves out that assertion, by name, and no other.

**Fairness.**  `programs` assumes weak fairness of the idle loop (`run_tasks`), of the timer
(`set_next_trigger` re-arms it in every timer interrupt and `rust_main` arms it first, and U-mode
always takes it), and of kernel code inside `Stdin::read`, which is never preempted.  Of initproc,
the shell and usertests it assumes strong fairness of their next step: a program that gets the
processor again and again makes progress, although the timer may interrupt it any finite number of
times.  Nothing is assumed of the other programs, so a child that never ends keeps its shell waiting.
`user_buffer` is sequential code; it assumes that the code runs on.

**Findings.**
* `block_cache_two_devices`: the queue is searched by block id alone, so with two devices the block of
  the wrong one is returned, against the function's comment.  The kernel mounts one device.
* `easy_fs_large`: `clear_size` compares the number of blocks before it has subtracted those of the
  second tree with the capacity of the third, so the assertion fails for the largest files
  `increase_size` can build.  With the real constants this takes a file of more than 1 GiB.

## 4. Proofs

Every theorem below holds for all values of the constants that satisfy the named assumptions of the
modules: any number of TCB addresses, pids, frames, pages, segments, files, descriptors, blocks,
values and cache entries.  The assumptions say what the constants are (numbers, disjoint sets of
addresses, a kernel image that ends inside memory, an ELF with a segment) and nothing about behaviour.

**Processes.**  `ProcessProofs` proves `TypeOK`, `NoPanic`, `SchedulerExact`, `FamilyTree`, `PidsExact`
and `InitprocLives`.  The argument is one inductive invariant, `IInv`, the conjunction of these.  None
is inductive alone.  `NoPanic` needs that a zombie in a children list is in no queue
(`SchedulerExact`), in no second list (`FamilyTree`) and that its pid is not recycled (`PidsExact`).
`FamilyTree` after exit needs that the exiting task is not INITPROC, which follows from the pids being
distinct and INITPROC having pid 0.  There is one lemma per action and, under it, one step per part
of the invariant that the action disturbs.

**What follows for the kernel.**  `KernelProofs` first shows that a step touches the process table in
one of four ways (scheduling, forking, exiting, reaping), and derives from them `ForkReturnsPositive`,
`StackOutlivesExit` (the parent's list still refers to the exiting task), `ZombieUntilReaped`,
`ChildrenGrowByFork`, and `PidsConserved` (a cardinality, kept next to the finiteness of the set it
counts).  It then proves of `Programs` that the shell and usertests wait for a child of their own
(`WaitsForOwnChild`): the invariant adds the types of the programs' memories, and uses that only the
parent's waitpid removes a child whose pid it holds.  And it proves `NoDoubleBorrow` of `Borrows`:
every stretch of kernel code is *clean*, in that it leaves no `RefMut` alive and meets none of its
own; where cells of tasks are held over one another (fork, exit, waitpid) they differ because of the
family tree, so the invariant of `Process` is needed here too.

**Loops.**  What a recursive function computes cannot be proved by the library's induction theorems in
these provers.  `LoopProofs` goes around them: the body of a loop and an invariant of its rounds are
constants of the module, and `ForEachInv` proves, by the least round at which it would fail, that the
invariant holds after the loop, whether it ends or a panic leaves it.  A proof about a loop of
`Memory` or `Files` instantiates the module with that loop's body.

**Frames.**  `MemoryProofs` proves the contract of the frame allocator for every range of frames: `init`
establishes `Exact`; `alloc` hands out a frame that nobody owns and keeps it; `dealloc` of an owned
frame passes the validity check and keeps it; a frame nobody owns is refused; `None` means that all
frames are owned.  On top of it `FramesNeverLeak` proves `FramesExact` of the whole of `Memory`: over
boot, fork, exec, exit, reap and stores every frame ever handed out has one owner or is recycled.  Each builder (page table walks, areas, ELF
segments, copies of areas, kernel stacks, the driver's queue, the drops) has a lemma that says which
frames it adds to or takes from the space it works on, relative to the frames of all others, and
each loop an instance of `ForEachInv`.  The inductive invariant `MemoryInv` adds to `FramesExact` the
types, that a free slot owns nothing, and that every TCB has its kernel stack among the areas of the
kernel (`StacksMapped`), without which the drop of a TCB would leave its stack's frames behind.

**Open files.**  `FilesProofs` proves all four properties of the run `files`.  `FilesRefineStore`: the loops
over the slices of a buffer do what one read or write of `FileStore` does, by loop invariants that say
what was moved after each slice.  `SharedOpensAppend` needs `UnitsBehindOffset`: units that
were written through an open lie before its offset, also after another process truncated the file;
and `OpensDistinct`: no two live OSInodes stem from one open.  `OffsetsMoveByResult` and `TablesStayPrivate` follow from the types and from the
invariant of `Process`, which says whose table fork, exit and waitpid may touch.  The inductive
invariant is `FilesInv`.

**Block cache.**  `BlockCacheProofs` proves `CacheCoherent` (`OneCachePerBlock`, with
`PinsTheBlockAskedFor` and `DirtyIsMarked` as `AccessStaysOnItsBlock` and `NoChangeUnmarked`),
`PanicNeedsFullCache`, `CacheTransparent` (the refinement of `BlockStore`) and `SyncIsDurable`.  All of
them assume `OneDevice`, without which the run `block_cache_two_devices` refutes them.  The inductive
invariant is the three properties of `CacheCoherent` with the types and the fact that a block in
memory has its fields filled in; they hold each other up, because eviction decides by the reference
count that an entry is free to go (`PinsTheBlockAskedFor`), writes back by the flag (`DirtyIsMarked`),
and may forget the entry only if it was the one copy (`OneCachePerBlock`).  The refinement maps a
block to its cached copy if there is one and to the device otherwise; the lemmas show for each step
what becomes of that map: loading, evicting and syncing leave it alone, and a write changes it at one
block.  `PanicNeedsFullCache` counts: entries have distinct blocks, and with no victim each of them is
held.

**Addresses.**  `AddressProofs` proves, for every word and block size: `alloc` of a bitmap returns the
lowest free bit and sets it alone, fails only when all are set, and `dealloc` clears one bit alone;
and for every device size that `create` accepts: the areas follow each other and end with the device,
the data bitmap has a bit for every data block, `open` recovers what `create` had, and every inode has
a place of its own in the inode area.  `BufferBytesInOrder` proves `BytesInOrder` for every page size,
page table and buffer in the lower half; its invariant says of each slice which addresses it stands
for, and of the iterator how many bytes lie before it.

**Only model-checked.**  Liveness under fairness (`ReadyRuns`, `ZombieReaped`, `Terminates`) is outside
the prover's reach.  `EasyFs` and `Image`, with their refinement of `FileStore`, rest on the recursive
operators of `DiskInode`, and a module that reaches one loses the SMT backend.  Of `Memory`, what
page tables map and processes see (`UserSpaceExact`, `KernelSpaceExact`, `TrapContextOwn`,
`ImplementsAddressSpaces`), `WritesOwnedFrames` and `PanicsOnlyWhenFull` are checked by TLC and not proved: they need the contents of the frames
through every walk and copy, where the proof so far follows the ownership of their frames.  The type
invariants, `InitprocLives` and `ForkReturnsPositive` are proved and not part of a run.

## 5. What is not modelled

* Panics on requests the kernel does not support: unknown system calls, unsupported traps, undefined
  open flags, pointers to unmapped pages, a read of stdin of a length other than 1.  `UserBuffer`
  takes buffers in mapped pages, which for an application all lie in the lower half.
* The contents of strings: `translated_str` walks them with `translate_va`, which `UserBuffer` has;
  names are values.  Output to `Stdout` is its length only.
* exec by programs other than initproc, the shell and usertests in `Programs`.
* ELF images whose segments are not in ascending order; `from_elf` places the stack above the last one.
* The magic number of the super block; only a device that `create` made is opened.  A device too small
  for its own areas makes a subtraction in `create` underflow and is excluded by an assumption.
* A crash in the middle of a file system operation: easy-fs has no log and promises nothing.  That an
  operation is durable once it has returned is `DurableAfterSync`, and `AppsIntact` builds on it.
* Where `BlockCache::new` has its buffer on the kernel stack, which the driver translates by its first
  address only: this depends on the compiled code.
* Exhaustion of the kernel heap, the virtio queue, `dma_dealloc` (never called: the device is a
  static), SBI calls, console output, assembly, TLB flushes.
* The packer's command line and host files, and the tests in `easy-fs-fuse` and `user/src/bin`, which
  are instances of the arbitrary programs of `Process`.
* `Process` and `Memory` are not composed into one module: their product is beyond TLC's reach in the
  sizes at which either is interesting.  They share the actions fork, exit and drop, whose effects on
  the other's state are disjoint.

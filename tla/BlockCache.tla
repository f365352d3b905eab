----------------------------- MODULE BlockCache -----------------------------
(***************************************************************************)
(* The block cache of easy-fs (easy-fs/src/block_cache.rs): a queue of at  *)
(* most BLOCK_CACHE_SIZE blocks shared through Arc<Mutex<BlockCache>>,     *)
(* write-back on eviction (Drop) and in block_cache_sync_all.              *)
(*                                                                         *)
(* The file system uses it in one pattern only:                            *)
(*   get_block_cache(id, dev).lock().read(..) or .modify(..),              *)
(* where the Arc and the lock guard live until the closure returns and     *)
(* closures nest.  The stack pins holds the accesses that are open.        *)
(***************************************************************************)
EXTENDS Lists, FiniteSetsExt

CONSTANTS
  BlockDevice,        \* devices behind the cache (external, trait BlockDevice)
  Block,              \* block ids
  Data,               \* what a block can hold
  Addr,               \* heap addresses a BlockCache can have
  Nil,                \* fields of an address that holds no BlockCache
  BLOCK_CACHE_SIZE,
  MaxPins             \* how deep the file system nests accesses

ASSUME BlockCacheAssumption ==
  /\ BLOCK_CACHE_SIZE \in Nat \ {0}
  /\ MaxPins \in Nat
  /\ Nil \notin Block \cup BlockDevice \cup Data

VARIABLES
  disk,       \* device contents
  block_id, block_device, cache, modified,    \* fields of the BlockCache at an address
  queue,      \* BlockCacheManager.queue: pairs of a block id and an Arc
  pins,       \* open accesses: address, mode, and what was asked for
  out,        \* the last access of a closure: device, block, value read or written
  panicked    \* "Run out of BlockCache!"

fields == <<block_id, block_device, cache, modified>>
vars == <<disk, block_id, block_device, cache, modified, queue, pins, out, panicked>>

Live(a) == block_id[a] # Nil

(* Arc::strong_count(a) == 1: only the queue refers to a. *)
Unshared(a) == \A k \in DOMAIN pins : pins[k].addr # a

(* Fault: the flag is tested the wrong way round. *)
Synced_inverted(a) ==
  IF modified[a]
  THEN disk
  ELSE [disk EXCEPT ![block_device[a]] = [@ EXCEPT ![block_id[a]] = cache[a]]]

(* BlockCache::sync: a dirty block is written back. *)
Synced(a) ==
  IF modified[a]
  THEN [disk EXCEPT ![block_device[a]] = [@ EXCEPT ![block_id[a]] = cache[a]]]
  ELSE disk

-----------------------------------------------------------------------------
Init ==
  /\ disk \in [BlockDevice -> [Block -> Data]]
  /\ block_id = [a \in Addr |-> Nil]
  /\ block_device = [a \in Addr |-> Nil]
  /\ cache = [a \in Addr |-> Nil]
  /\ modified = [a \in Addr |-> FALSE]
  /\ queue = <<>>
  /\ pins = <<>>
  /\ out \in [op : {"read"}, dev : BlockDevice, block : Block, value : Data]
  /\ out.value = disk[out.dev][out.block]
  /\ panicked = FALSE

(* Fault: the position is not the one found. *)
Hit_first(b, i) ==
  /\ i = 1
  /\ \E k \in DOMAIN queue : queue[k].id = b

(* find: the first pair with the block id.  The device is not compared. *)
Hit(b, i) ==
  /\ i \in DOMAIN queue
  /\ queue[i].id = b
  /\ \A k \in 1 .. i - 1 : queue[k].id # b

Cached(b) == \E i \in DOMAIN queue : queue[i].id = b

(* Fault: the oldest entry goes, whether it is in use or not. *)
Victim_oldest(i) == i \in DOMAIN queue /\ i = 1

(* Fault: only the oldest entry is considered. *)
Victim_oldest_unshared(i) == i \in DOMAIN queue /\ i = 1 /\ Unshared(queue[i].addr)

(* find: the first pair that nobody else refers to. *)
Victim(i) ==
  /\ i \in DOMAIN queue
  /\ Unshared(queue[i].addr)
  /\ \A k \in 1 .. i - 1 : ~Unshared(queue[k].addr)

Pin(a, m, b, d) == Append(pins, [addr |-> a, mode |-> m, id |-> b, dev |-> d])

(* Fault: get_mut does not mark. *)
Marked_never(a, m) == modified

(* modify() takes get_mut first, which marks the block before the closure  *)
(* changes it; read() takes get_ref.                                       *)
Marked(a, m) == IF m = "modify" THEN [modified EXCEPT ![a] = TRUE] ELSE modified

get_hit(b, d, m) ==
  /\ \E i \in DOMAIN queue :
       /\ Hit(b, i)
       /\ pins' = Pin(queue[i].addr, m, b, d)
       /\ modified' = Marked(queue[i].addr, m)
  /\ UNCHANGED <<disk, block_id, block_device, cache, queue, out, panicked>>

(* BlockCache::new at address a, pushed to the back of what is left of the *)
(* queue; the addresses in freed are dropped first.                        *)
load(a, b, d, m, rest, freed, newdisk) ==
  /\ ~Live(a)
  /\ block_id' = [x \in Addr |-> IF x = a THEN b ELSE IF x \in freed THEN Nil ELSE block_id[x]]
  /\ block_device' = [x \in Addr |-> IF x = a THEN d ELSE IF x \in freed THEN Nil ELSE block_device[x]]
  /\ cache' = [x \in Addr |->
                 IF x = a THEN newdisk[d][b] ELSE IF x \in freed THEN Nil ELSE cache[x]]
  /\ modified' = [x \in Addr |->
                    IF x = a THEN m = "modify" ELSE x \notin freed /\ modified[x]]
  /\ queue' = Append(rest, [id |-> b, addr |-> a])
  /\ pins' = Pin(a, m, b, d)
  /\ disk' = newdisk
  /\ UNCHANGED <<out, panicked>>

get_miss(b, d, m) ==
  /\ ~Cached(b)
  /\ Len(queue) < BLOCK_CACHE_SIZE
  /\ \E a \in Addr : load(a, b, d, m, queue, {}, disk)

(* drain: when the Arc of the pair is the last one, drop writes the block  *)
(* back before the new one is loaded.                                      *)
get_substitute(b, d, m) ==
  /\ ~Cached(b)
  /\ Len(queue) = BLOCK_CACHE_SIZE
  /\ \E i \in DOMAIN queue, a \in Addr :
       LET old == queue[i].addr IN
         /\ Victim(i)
         /\ IF Unshared(old)
            THEN load(a, b, d, m, RemoveAt(queue, i), {old}, Synced(old))
            ELSE load(a, b, d, m, RemoveAt(queue, i), {}, disk)

get_panic(b) ==
  /\ ~Cached(b)
  /\ Len(queue) = BLOCK_CACHE_SIZE
  /\ ~ \E i \in DOMAIN queue : Victim(i)
  /\ panicked' = TRUE
  /\ UNCHANGED <<disk, fields, queue, pins, out>>

(* The guards are the discipline of the callers: accesses nest at most     *)
(* MaxPins deep and never lock a block that is locked already.             *)
get_block_cache(b, d, m) ==
  /\ ~panicked
  /\ Len(pins) < MaxPins
  /\ \A k \in DOMAIN pins : pins[k].id # b
  /\ \/ get_hit(b, d, m)
     \/ get_miss(b, d, m)
     \/ get_substitute(b, d, m)
     \/ get_panic(b)

(* A closure reads from, or writes to, a block it has open. *)
read(k) ==
  /\ ~panicked
  /\ out' = [op |-> "read", dev |-> pins[k].dev, block |-> pins[k].id, value |-> cache[pins[k].addr]]
  /\ UNCHANGED <<disk, fields, queue, pins, panicked>>

modify(k, v) ==
  /\ ~panicked
  /\ pins[k].mode = "modify"
  /\ cache' = [cache EXCEPT ![pins[k].addr] = v]
  /\ out' = [op |-> "modify", dev |-> pins[k].dev, block |-> pins[k].id, value |-> v]
  /\ UNCHANGED <<disk, block_id, block_device, modified, queue, pins, panicked>>

(* The innermost closure returns: guard and Arc are dropped, the block     *)
(* stays as long as the queue refers to it.                                *)
release ==
  /\ ~panicked
  /\ pins # <<>>
  /\ pins' = Front(pins)
  /\ LET a == Last(pins).addr
         kept == \/ \E i \in DOMAIN queue : queue[i].addr = a
                 \/ \E k \in DOMAIN pins' : pins'[k].addr = a
     IN IF kept
        THEN UNCHANGED <<disk, fields>>
        ELSE /\ disk' = Synced(a)
             /\ block_id' = [block_id EXCEPT ![a] = Nil]
             /\ block_device' = [block_device EXCEPT ![a] = Nil]
             /\ cache' = [cache EXCEPT ![a] = Nil]
             /\ modified' = [modified EXCEPT ![a] = FALSE]
  /\ UNCHANGED <<queue, out, panicked>>

(* The queue entries that hold unwritten data of block b of device d. *)
Dirty(d, b) ==
  {i \in DOMAIN queue : LET a == queue[i].addr
                        IN modified[a] /\ block_device[a] = d /\ block_id[a] = b}

(* Fault: the flags are cleared, nothing is written. *)
sync_all_flags_only ==
  /\ ~panicked
  /\ pins = <<>>
  /\ modified' = [a \in Addr |-> FALSE]
  /\ UNCHANGED <<disk, block_id, block_device, cache, queue, pins, out, panicked>>

(* block_cache_sync_all: sync every entry, front to back.  create, write_at *)
(* and clear (vfs.rs) call it after their closures have returned; it locks *)
(* every block in turn.                                                    *)
block_cache_sync_all ==
  /\ ~panicked
  /\ pins = <<>>
  /\ disk' = [d \in BlockDevice |-> [b \in Block |->
                IF Dirty(d, b) = {} THEN disk[d][b]
                ELSE cache[queue[Max(Dirty(d, b))].addr]]]
  /\ modified' = [a \in Addr |->
                    modified[a] /\ \A i \in DOMAIN queue : queue[i].addr # a]
  /\ UNCHANGED <<block_id, block_device, cache, queue, pins, out, panicked>>

Halted == panicked /\ UNCHANGED vars

Access == {"read", "modify"}

Next ==
  \/ \E b \in Block, d \in BlockDevice, m \in Access : get_block_cache(b, d, m)
  \/ \E k \in DOMAIN pins : read(k)
  \/ \E k \in DOMAIN pins, v \in Data : modify(k, v)
  \/ release
  \/ block_cache_sync_all
  \/ Halted

Spec == Init /\ [][Next]_vars

-----------------------------------------------------------------------------
(* What the file system sees: the cached copy where there is one. *)
Logical ==
  [d \in BlockDevice |-> [b \in Block |->
     LET copies == {i \in DOMAIN queue : block_id[queue[i].addr] = b /\ block_device[queue[i].addr] = d}
     IN IF copies = {} THEN disk[d][b] ELSE cache[queue[Max(copies)].addr]]]

(* Every variable has its type. *)
TypeOK ==
  /\ disk \in [BlockDevice -> [Block -> Data]]
  /\ block_id \in [Addr -> Block \cup {Nil}]
  /\ block_device \in [Addr -> BlockDevice \cup {Nil}]
  /\ cache \in [Addr -> Data \cup {Nil}]
  /\ modified \in [Addr -> BOOLEAN]
  /\ queue \in Seq([id : Block, addr : Addr])
  /\ pins \in Seq([addr : Addr, mode : Access, id : Block, dev : BlockDevice])
  /\ out \in [op : Access, dev : BlockDevice, block : Block, value : Data]
  /\ panicked \in BOOLEAN

(* A block has at most one BlockCache in memory, and it is in the queue:   *)
(* an eviction never takes a block that a closure still has open, so no    *)
(* second copy is loaded beside it and its changes are not lost.           *)
OneCachePerBlock ==
  /\ \A a \in Addr : Live(a) <=> \E i \in DOMAIN queue : queue[i].addr = a
  /\ \A i \in DOMAIN queue : block_id[queue[i].addr] = queue[i].id
  /\ \A i, j \in DOMAIN queue : queue[i].id = queue[j].id => i = j
  /\ Len(queue) <= BLOCK_CACHE_SIZE

(* An open access works on the block it asked for, although evictions and  *)
(* loads happened since: "Get the block cache corresponding to the given   *)
(* block id and block device" (block_cache.rs).                            *)
PinsTheBlockAskedFor ==
  \A k \in DOMAIN pins :
    /\ block_id[pins[k].addr] = pins[k].id
    /\ block_device[pins[k].addr] = pins[k].dev

(* A cached block that differs from the device is marked: sync and drop    *)
(* miss no change, the flag being set before the closure writes.           *)
DirtyIsMarked ==
  \A a \in Addr :
    /\ Live(a) /\ cache[a] # disk[block_device[a]][block_id[a]] => modified[a]
    /\ \A k \in DOMAIN pins : pins[k].addr = a /\ pins[k].mode = "modify" => modified[a]

(* "Run out of BlockCache!" is reached only when every entry is in use:    *)
(* never while accesses nest at most BLOCK_CACHE_SIZE deep.                *)
RunsOutOnlyWhenFull == panicked => Len(pins) >= BLOCK_CACHE_SIZE

(* After block_cache_sync_all the device holds what the file system saw    *)
(* before and sees after it: create, write_at and clear are durable when   *)
(* they return.                                                            *)
DurableAfterSync ==
  [][block_cache_sync_all => disk' = Logical /\ Logical' = Logical]_vars

(* The cache is transparent: it implements an array of blocks whose reads  *)
(* return the last write.                                                  *)
Store == INSTANCE BlockStore WITH Device <- BlockDevice, contents <- Logical
Transparent == Store!Spec
============================================================================

-------------------------- MODULE BlockCacheProofs --------------------------
(***************************************************************************)
(* The block cache for every number of blocks, every cache size and every  *)
(* depth of nesting, on one device: its invariants, when it runs out of    *)
(* entries, and that it implements the block store.  With two devices it   *)
(* mixes up their blocks, so one device is an assumption of what is proved *)
(* here.                                                                   *)
(***************************************************************************)
EXTENDS BlockCache, Lemmas, FiniteSetTheorems

OneDevice == \A d, e \in BlockDevice : d = e

Pair == [id : Block, addr : Addr]
PinRecord == [addr : Addr, mode : Access, id : Block, dev : BlockDevice]

(* The fields of a BlockCache that is in memory are filled in. *)
LiveFields ==
  \A a \in Addr : Live(a) => /\ block_id[a] \in Block
                             /\ block_device[a] \in BlockDevice
                             /\ cache[a] \in Data

IInv ==
  /\ TypeOK
  /\ LiveFields
  /\ OneCachePerBlock
  /\ PinsTheBlockAskedFor
  /\ DirtyIsMarked

-----------------------------------------------------------------------------
(* No block id is twice in a queue. *)
Distinct(q) == \A j, k \in DOMAIN q : q[j].id = q[k].id => j = k

(* r is q without the pair at position i. *)
Drained(q, i, r) ==
  /\ r \in Seq(Pair) /\ Len(r) = Len(q) - 1
  /\ \A j \in DOMAIN r : \E k \in DOMAIN q : k # i /\ r[j] = q[k]
  /\ \A k \in DOMAIN q : k # i => \E j \in DOMAIN r : r[j] = q[k]
  /\ Distinct(r)

(* r is q with the pair p pushed to its back. *)
Pushed(q, p, r) ==
  /\ r \in Seq(Pair) /\ Len(r) = Len(q) + 1
  /\ \A j \in DOMAIN r : r[j] = p \/ \E k \in DOMAIN q : r[j] = q[k]
  /\ \A k \in DOMAIN q : \E j \in DOMAIN r : r[j] = q[k]
  /\ \E j \in DOMAIN r : r[j] = p
  /\ Distinct(r)

(* The queue after drain of one position: the other pairs, each once. *)
LEMMA QueueRemove ==
  ASSUME NEW q \in Seq(Pair), NEW i \in DOMAIN q, Distinct(q)
  PROVE  Drained(q, i, RemoveAt(q, i))
<1> DEFINE r == RemoveAt(q, i)
           n == Len(q)
<1>0. n \in Nat /\ DOMAIN q = 1 .. n /\ i \in 1 .. n
  BY LenProperties
<1>a. i \in 1 .. Len(q)
  BY <1>0
<1>1. /\ r \in Seq(Pair)
      /\ Len(r) = n - 1
      /\ \A j \in 1 .. n - 1 : r[j] = IF j < i THEN q[j] ELSE q[j + 1]
  BY <1>a, RemoveAtProperties, Zenon
<1> HIDE DEF r
<1>2. DOMAIN r = 1 .. n - 1
  BY <1>0, <1>1, LenProperties
<1> HIDE DEF n
<1>3. ASSUME NEW j \in 1 .. n - 1
      PROVE  (IF j < i THEN j ELSE j + 1) \in 1 .. n /\ (IF j < i THEN j ELSE j + 1) # i
             /\ r[j] = q[IF j < i THEN j ELSE j + 1]
  BY <1>0, <1>1
<1>4. \A j \in DOMAIN r : \E k \in DOMAIN q : k # i /\ r[j] = q[k]
  BY <1>0, <1>2, <1>3, Zenon
<1>5. ASSUME NEW k \in DOMAIN q, k # i
      PROVE  \E j \in DOMAIN r : r[j] = q[k]
  <2>1. CASE k < i
    BY <2>1, <1>0, <1>1, <1>2
  <2>2. CASE i < k
    <3>1. k - 1 \in 1 .. n - 1 /\ ~(k - 1 < i) /\ k - 1 + 1 = k
      BY <2>2, <1>0
    <3>2. r[k - 1] = q[k]
      BY <3>1, <1>1
    <3> QED BY <3>1, <3>2, <1>2
  <2> QED BY <2>1, <2>2, <1>0, <1>5
<1>6. ASSUME NEW j \in DOMAIN r, NEW k \in DOMAIN r, r[j].id = r[k].id
      PROVE  j = k
  <2> DEFINE u == IF j < i THEN j ELSE j + 1
             w == IF k < i THEN k ELSE k + 1
  <2>1. u \in 1 .. n /\ w \in 1 .. n /\ r[j] = q[u] /\ r[k] = q[w]
    BY <1>2, <1>3
  <2>2. u = w
    BY <2>1, <1>0, <1>6 DEF Distinct
  <2> QED BY <2>2, <1>0, <1>2
<1> QED BY <1>0, <1>1, <1>4, <1>5, <1>6 DEF r, n, Drained, Distinct

(* The queue after push_back. *)
LEMMA QueueAppend ==
  ASSUME NEW q \in Seq(Pair), NEW p \in Pair, NEW r, r = Append(q, p),
         Distinct(q), \A j \in DOMAIN q : q[j].id # p.id
  PROVE  Pushed(q, p, r)
<1> DEFINE n == Len(q)
<1>0. n \in Nat /\ DOMAIN q = 1 .. n
  BY LenProperties
<1>1. r \in Seq(Pair) /\ Len(r) = n + 1 /\ r[n + 1] = p /\ \A j \in 1 .. n : r[j] = q[j]
  BY <1>0, AppendProperties
<1>2. DOMAIN r = 1 .. n + 1
  BY <1>0, <1>1, LenProperties
<1> HIDE DEF n
<1>3. ASSUME NEW j \in DOMAIN r, NEW k \in DOMAIN r, r[j].id = r[k].id
      PROVE  j = k
  <2>1. (j \in 1 .. n \/ j = n + 1) /\ (k \in 1 .. n \/ k = n + 1)
    BY <1>0, <1>2
  <2> QED BY <2>1, <1>0, <1>1, <1>3 DEF Distinct
<1>4. /\ \A j \in DOMAIN r : r[j] = p \/ \E k \in DOMAIN q : r[j] = q[k]
      /\ \A k \in DOMAIN q : \E j \in DOMAIN r : r[j] = q[k]
      /\ \E j \in DOMAIN r : r[j] = p
  BY <1>0, <1>1, <1>2
<1> QED BY <1>1, <1>3, <1>4 DEF n, Pushed, Distinct

(* The pins after one more access was opened. *)
LEMMA PinAppend ==
  ASSUME NEW ps \in Seq(PinRecord), NEW p \in PinRecord
  PROVE  LET r == Append(ps, p)
         IN /\ r \in Seq(PinRecord)
            /\ \A j \in DOMAIN r : r[j] = p \/ \E k \in DOMAIN ps : r[j] = ps[k]
<1> DEFINE r == Append(ps, p)
           n == Len(ps)
<1>0. n \in Nat /\ DOMAIN ps = 1 .. n
  BY LenProperties
<1>1. r \in Seq(PinRecord) /\ Len(r) = n + 1 /\ r[n + 1] = p /\ \A j \in 1 .. n : r[j] = ps[j]
  BY <1>0, AppendProperties
<1> HIDE DEF r
<1>2. DOMAIN r = 1 .. n + 1
  BY <1>0, <1>1, LenProperties
<1> HIDE DEF n
<1>3. \A j \in DOMAIN r : r[j] = p \/ \E k \in DOMAIN ps : r[j] = ps[k]
  BY <1>0, <1>1, <1>2
<1> QED BY <1>1, <1>3 DEF r, n

(* Every pair of the queue is a BlockCache in memory, every pin is one of  *)
(* the queue, and a block is at one address only.                          *)
LEMMA QueueFacts ==
  ASSUME IInv
  PROVE  /\ queue \in Seq(Pair) /\ pins \in Seq(PinRecord)
         /\ \A i \in DOMAIN queue : /\ queue[i] \in Pair /\ queue[i].addr \in Addr /\ queue[i].id \in Block
                                    /\ Live(queue[i].addr) /\ block_id[queue[i].addr] = queue[i].id
         /\ \A a \in Addr : Live(a) => \E i \in DOMAIN queue : queue[i].addr = a
         /\ \A i, j \in DOMAIN queue : queue[i].id = queue[j].id => i = j
         /\ \A a, c \in Addr : Live(a) /\ Live(c) /\ block_id[a] = block_id[c] => a = c
         /\ \A k \in DOMAIN pins : /\ pins[k] \in PinRecord /\ pins[k].addr \in Addr /\ Live(pins[k].addr)
                                   /\ block_id[pins[k].addr] = pins[k].id /\ block_device[pins[k].addr] = pins[k].dev
                                   /\ pins[k].id \in Block /\ pins[k].dev \in BlockDevice
<1>1. queue \in Seq(Pair) /\ pins \in Seq(PinRecord)
  BY DEF IInv, TypeOK, Pair, PinRecord
<1>2. ASSUME NEW i \in DOMAIN queue
      PROVE  /\ queue[i] \in Pair /\ queue[i].addr \in Addr /\ queue[i].id \in Block
             /\ Live(queue[i].addr) /\ block_id[queue[i].addr] = queue[i].id
  <2>1. queue[i] \in Pair
    BY <1>1, ElementOfSeq, LenProperties
  <2> QED BY <2>1 DEF Pair, IInv, OneCachePerBlock
<1>3. ASSUME NEW k \in DOMAIN pins
      PROVE  /\ pins[k] \in PinRecord /\ pins[k].addr \in Addr /\ Live(pins[k].addr)
             /\ block_id[pins[k].addr] = pins[k].id /\ block_device[pins[k].addr] = pins[k].dev
             /\ pins[k].id \in Block /\ pins[k].dev \in BlockDevice
  <2>1. pins[k] \in PinRecord
    BY <1>1, ElementOfSeq, LenProperties
  <2>2. pins[k].addr \in Addr /\ pins[k].id \in Block /\ pins[k].dev \in BlockDevice
    BY <2>1 DEF PinRecord
  <2>3. block_id[pins[k].addr] = pins[k].id /\ block_device[pins[k].addr] = pins[k].dev
    BY DEF IInv, PinsTheBlockAskedFor
  <2> QED BY <2>1, <2>2, <2>3, BlockCacheAssumption DEF Live
<1>4. /\ \A a \in Addr : Live(a) => \E i \in DOMAIN queue : queue[i].addr = a
      /\ \A i, j \in DOMAIN queue : queue[i].id = queue[j].id => i = j
  BY DEF IInv, OneCachePerBlock
<1>5. ASSUME NEW a \in Addr, NEW c \in Addr, Live(a), Live(c), block_id[a] = block_id[c]
      PROVE  a = c
  <2>1. PICK i \in DOMAIN queue : queue[i].addr = a
    BY <1>4, <1>5
  <2>2. PICK j \in DOMAIN queue : queue[j].addr = c
    BY <1>4, <1>5
  <2>3. queue[i].id = queue[j].id
    BY <1>2, <1>5, <2>1, <2>2
  <2>4. i = j
    BY <1>4, <2>3
  <2> QED BY <2>1, <2>2, <2>4
<1> QED BY <1>1, <1>2, <1>3, <1>4, <1>5

-----------------------------------------------------------------------------
(* What BlockCache::new finds: what is left of the queue is the queue      *)
(* without the freed caches, which nobody has open, and the device changes *)
(* in no block that stays cached.                                          *)
LoadPre(rest, freed, newdisk) ==
  /\ rest \in Seq(Pair)
  /\ freed \in SUBSET Addr
  /\ newdisk \in [BlockDevice -> [Block -> Data]]
  /\ Len(rest) < BLOCK_CACHE_SIZE
  /\ Distinct(rest)
  /\ \A j \in DOMAIN rest : \E k \in DOMAIN queue : rest[j] = queue[k] /\ queue[k].addr \notin freed
  /\ \A c \in Addr : Live(c) /\ c \notin freed => \E j \in DOMAIN rest : rest[j].addr = c
  /\ \A k \in DOMAIN pins : pins[k].addr \notin freed
  /\ \A c \in Addr : Live(c) /\ c \notin freed =>
       newdisk[block_device[c]][block_id[c]] = disk[block_device[c]][block_id[c]]

(* BlockCache::new keeps the invariant. *)
LEMMA LoadInv ==
  ASSUME IInv, OneDevice,
         NEW a \in Addr, NEW b \in Block, NEW d \in BlockDevice, NEW m \in Access,
         NEW rest, NEW freed, NEW newdisk,
         load(a, b, d, m, rest, freed, newdisk),
         ~Cached(b),
         LoadPre(rest, freed, newdisk)
  PROVE  IInv'
<1> DEFINE p == [id |-> b, addr |-> a]
           pin == [addr |-> a, mode |-> m, id |-> b, dev |-> d]
<1>q. /\ queue \in Seq(Pair) /\ pins \in Seq(PinRecord)
      /\ \A i \in DOMAIN queue : /\ queue[i] \in Pair /\ queue[i].addr \in Addr /\ queue[i].id \in Block
                                 /\ Live(queue[i].addr) /\ block_id[queue[i].addr] = queue[i].id
      /\ \A k \in DOMAIN pins : /\ pins[k] \in PinRecord /\ pins[k].addr \in Addr /\ Live(pins[k].addr)
                                /\ block_id[pins[k].addr] = pins[k].id /\ block_device[pins[k].addr] = pins[k].dev
                                /\ pins[k].id \in Block /\ pins[k].dev \in BlockDevice
  BY QueueFacts
<1>p. p \in Pair /\ p.id = b /\ p.addr = a /\ pin \in PinRecord
      /\ pin.addr = a /\ pin.mode = m /\ pin.id = b /\ pin.dev = d
  BY DEF Pair, PinRecord
<1>1. /\ ~Live(a)
      /\ queue' = Append(rest, p) /\ pins' = Append(pins, pin) /\ disk' = newdisk
      /\ out' = out /\ panicked' = panicked
  BY DEF load, Pin
<1>2. /\ block_id' = [x \in Addr |-> IF x = a THEN b ELSE IF x \in freed THEN Nil ELSE block_id[x]]
      /\ block_device' = [x \in Addr |-> IF x = a THEN d ELSE IF x \in freed THEN Nil ELSE block_device[x]]
      /\ cache' = [x \in Addr |-> IF x = a THEN newdisk[d][b] ELSE IF x \in freed THEN Nil ELSE cache[x]]
      /\ modified' = [x \in Addr |-> IF x = a THEN m = "modify" ELSE x \notin freed /\ modified[x]]
  BY DEF load
<1> HIDE DEF p, pin
<1>n. Nil \notin Block /\ Nil \notin BlockDevice /\ Nil \notin Data
  BY BlockCacheAssumption
<1>3. \A j \in DOMAIN rest : rest[j].id # p.id
  BY <1>p DEF Cached, LoadPre
<1>c. Pushed(rest, p, queue')
  BY <1>1, <1>3, <1>p, QueueAppend, ZenonT(20) DEF LoadPre
<1>4. /\ queue' \in Seq(Pair) /\ Len(queue') = Len(rest) + 1
      /\ \A j \in DOMAIN queue' : queue'[j] = p \/ \E k \in DOMAIN rest : queue'[j] = rest[k]
      /\ \A k \in DOMAIN rest : \E j \in DOMAIN queue' : queue'[j] = rest[k]
      /\ \E j \in DOMAIN queue' : queue'[j] = p
      /\ \A j, k \in DOMAIN queue' : queue'[j].id = queue'[k].id => j = k
  BY <1>c DEF Pushed, Distinct
<1>5. /\ pins' \in Seq(PinRecord)
      /\ \A j \in DOMAIN pins' : pins'[j] = pin \/ \E k \in DOMAIN pins : pins'[j] = pins[k]
  BY <1>1, <1>p, <1>q, PinAppend, Zenon
<1>6. TypeOK'
  <2>1. TypeOK
    BY DEF IInv
  <2>2. block_id' \in [Addr -> Block \cup {Nil}]
    BY <1>2, <2>1 DEF TypeOK, LoadPre
  <2>3. block_device' \in [Addr -> BlockDevice \cup {Nil}]
    BY <1>2, <2>1 DEF TypeOK, LoadPre
  <2>4. cache' \in [Addr -> Data \cup {Nil}]
    BY <1>2, <2>1 DEF TypeOK, LoadPre
  <2>5. modified' \in [Addr -> BOOLEAN]
    BY <1>2, <2>1, ZenonT(20) DEF TypeOK, LoadPre
  <2> QED BY <2>1, <2>2, <2>3, <2>4, <2>5, <1>1, <1>4, <1>5, Zenon DEF TypeOK, Pair, PinRecord, LoadPre
<1>7. \A c \in Addr : (block_id'[c] # Nil) <=> (c = a \/ (Live(c) /\ c \notin freed))
  BY <1>2, <1>n DEF Live
<1>8. LiveFields'
  <2>1. newdisk[d][b] \in Data
    BY DEF LoadPre
  <2> QED BY <1>2, <1>7, <2>1, Zenon DEF LiveFields, Live, IInv
<1>9. OneCachePerBlock'
  <2>1. ASSUME NEW j \in DOMAIN queue'
        PROVE  queue'[j].addr \in Addr /\ block_id'[queue'[j].addr] = queue'[j].id
    <3>1. CASE queue'[j] = p
      BY <3>1, <1>p, <1>2, Zenon
    <3>2. CASE \E k \in DOMAIN rest : queue'[j] = rest[k]
      <4>1. PICK k \in DOMAIN queue : queue'[j] = queue[k] /\ queue[k].addr \notin freed
        BY <3>2 DEF LoadPre
      <4>2. queue[k].addr # a /\ queue[k].addr \in Addr
        BY <1>q, <1>1, Zenon
      <4>3. block_id'[queue[k].addr] = block_id[queue[k].addr]
        BY <4>1, <4>2, <1>2, Zenon
      <4> QED BY <4>1, <4>2, <4>3, <1>q, Zenon
    <3> QED BY <3>1, <3>2, <1>4
  <2>2. ASSUME NEW c \in Addr
        PROVE  (block_id'[c] # Nil) <=> \E j \in DOMAIN queue' : queue'[j].addr = c
    <3>1. ASSUME block_id'[c] # Nil
          PROVE  \E j \in DOMAIN queue' : queue'[j].addr = c
      <4>1. CASE c = a
        BY <4>1, <1>4, <1>p, Zenon
      <4>2. CASE Live(c) /\ c \notin freed
        BY <4>2, <1>4 DEF LoadPre
      <4> QED BY <4>1, <4>2, <3>1, <1>7, Zenon
    <3>2. ASSUME NEW j \in DOMAIN queue', queue'[j].addr = c
          PROVE  block_id'[c] # Nil
      <4>0. queue'[j] \in Pair
        BY <1>4, ElementOfSeq, LenProperties
      <4>1. queue'[j].id \in Block
        BY <4>0 DEF Pair
      <4> QED BY <4>1, <3>2, <2>1, <1>n, Zenon
    <3> QED BY <3>1, <3>2
  <2>3. Len(queue') <= BLOCK_CACHE_SIZE
    BY <1>4, LenProperties, BlockCacheAssumption, SMTT(20) DEF LoadPre
  <2> QED BY <2>1, <2>2, <2>3, <1>4 DEF OneCachePerBlock, Live
<1>10. \A k \in DOMAIN pins : /\ block_id'[pins[k].addr] = block_id[pins[k].addr]
                              /\ block_device'[pins[k].addr] = block_device[pins[k].addr]
                              /\ modified'[pins[k].addr] = modified[pins[k].addr]
                              /\ pins[k].addr # a
  <2> TAKE k \in DOMAIN pins
  <2>1. pins[k].addr # a /\ pins[k].addr \in Addr /\ pins[k].addr \notin freed
    BY <1>1, <1>q DEF LoadPre
  <2>2. modified[pins[k].addr] \in BOOLEAN
    BY <2>1, Zenon DEF IInv, TypeOK
  <2> QED BY <2>1, <2>2, <1>2, Zenon
<1>11. PinsTheBlockAskedFor'
  <2> SUFFICES ASSUME NEW k \in DOMAIN pins'
               PROVE  block_id'[pins'[k].addr] = pins'[k].id /\ block_device'[pins'[k].addr] = pins'[k].dev
    BY Zenon DEF PinsTheBlockAskedFor
  <2>1. CASE pins'[k] = pin
    BY <2>1, <1>p, <1>2, Zenon
  <2>2. CASE \E j \in DOMAIN pins : pins'[k] = pins[j]
    BY <2>2, <1>10, <1>q, SMTT(20)
  <2> QED BY <2>1, <2>2, <1>5, Zenon
<1>12. DirtyIsMarked'
  <2>1. ASSUME NEW c \in Addr, block_id'[c] # Nil, cache'[c] # disk'[block_device'[c]][block_id'[c]]
        PROVE  modified'[c]
    <3>1. c # a
      BY <2>1, <1>1, <1>2, Zenon
    <3>2. Live(c) /\ c \notin freed
      BY <3>1, <2>1, <1>7, Zenon
    <3>3. block_id'[c] = block_id[c] /\ block_device'[c] = block_device[c] /\ cache'[c] = cache[c]
      BY <3>1, <3>2, <1>2, Zenon
    <3>4. cache[c] # disk[block_device[c]][block_id[c]]
      BY <3>2, <3>3, <2>1, <1>1, Zenon DEF LoadPre
    <3>5. modified[c]
      BY <3>2, <3>4, Zenon DEF IInv, DirtyIsMarked
    <3> QED BY <3>1, <3>2, <3>5, <1>2, ZenonT(20)
  <2>2. ASSUME NEW c \in Addr, NEW k \in DOMAIN pins', pins'[k].addr = c, pins'[k].mode = "modify"
        PROVE  modified'[c]
    <3>1. CASE pins'[k] = pin
      BY <3>1, <2>2, <1>p, <1>2, ZenonT(20)
    <3>2. CASE \E j \in DOMAIN pins : pins'[k] = pins[j]
      <4>1. PICK j \in DOMAIN pins : pins'[k] = pins[j]
        BY <3>2, Zenon DEF LoadPre
      <4>2. modified[c]
        BY <4>1, <2>2 DEF IInv, DirtyIsMarked
      <4> QED BY <4>1, <4>2, <2>2, <1>10, Zenon
    <3> QED BY <3>1, <3>2, <1>5, SMTT(20)
  <2> QED BY <2>1, <2>2 DEF DirtyIsMarked, Live
<1> QED BY <1>6, <1>8, <1>9, <1>11, <1>12, Zenon DEF IInv

(* A hit opens the cached block: with one device it is the one asked for.  *)
LEMMA HitInv ==
  ASSUME IInv, OneDevice, NEW b \in Block, NEW d \in BlockDevice, NEW m \in Access, get_hit(b, d, m)
  PROVE  IInv'
<1>q. /\ queue \in Seq(Pair) /\ pins \in Seq(PinRecord)
      /\ \A i \in DOMAIN queue : /\ queue[i].addr \in Addr /\ Live(queue[i].addr) /\ block_id[queue[i].addr] = queue[i].id
      /\ \A k \in DOMAIN pins : /\ pins[k].addr \in Addr
                                /\ block_id[pins[k].addr] = pins[k].id /\ block_device[pins[k].addr] = pins[k].dev
  BY QueueFacts
<1>1. PICK i \in DOMAIN queue : /\ Hit(b, i)
                                /\ pins' = Pin(queue[i].addr, m, b, d)
                                /\ modified' = Marked(queue[i].addr, m)
  BY DEF get_hit
<1> DEFINE a == queue[i].addr
           pin == [addr |-> a, mode |-> m, id |-> b, dev |-> d]
<1>2. UNCHANGED <<disk, block_id, block_device, cache, queue, out, panicked>>
  BY DEF get_hit
<1>3. a \in Addr /\ Live(a) /\ block_id[a] = b /\ block_device[a] \in BlockDevice
  BY <1>1, <1>q DEF Hit, IInv, LiveFields
<1>4. block_device[a] = d
  BY <1>3 DEF OneDevice
<1> HIDE DEF a
<1>5. pin \in PinRecord /\ pin.addr = a /\ pin.mode = m /\ pin.id = b /\ pin.dev = d
  BY <1>3 DEF PinRecord
<1>6. pins' = Append(pins, pin)
  BY <1>1 DEF Pin, a
<1> HIDE DEF pin
<1>7. /\ pins' \in Seq(PinRecord)
      /\ \A j \in DOMAIN pins' : pins'[j] = pin \/ \E k \in DOMAIN pins : pins'[j] = pins[k]
  BY <1>5, <1>6, <1>q, PinAppend, Zenon
<1>8. /\ modified' \in [Addr -> BOOLEAN]
      /\ \A c \in Addr : modified[c] => modified'[c]
      /\ m = "modify" => modified'[a]
  BY <1>1, <1>3, Zenon DEF Marked, IInv, TypeOK, a
<1>9. TypeOK'
  BY <1>2, <1>7, <1>8 DEF IInv, TypeOK, PinRecord
<1>10. LiveFields' /\ OneCachePerBlock'
  BY <1>2 DEF IInv, LiveFields, OneCachePerBlock, Live
<1>11. PinsTheBlockAskedFor'
  <2> SUFFICES ASSUME NEW k \in DOMAIN pins'
               PROVE  block_id'[pins'[k].addr] = pins'[k].id /\ block_device'[pins'[k].addr] = pins'[k].dev
    BY DEF PinsTheBlockAskedFor
  <2>1. CASE pins'[k] = pin
    BY <2>1, <1>2, <1>3, <1>4, <1>5, Zenon
  <2>2. CASE \E j \in DOMAIN pins : pins'[k] = pins[j]
    BY <2>2, <1>2, <1>q
  <2> QED BY <2>1, <2>2, <1>7
<1>12. DirtyIsMarked'
  <2>1. ASSUME NEW c \in Addr, Live(c)', cache'[c] # disk'[block_device'[c]][block_id'[c]]
        PROVE  modified'[c]
    BY <2>1, <1>2, <1>8, Zenon DEF Live, IInv, DirtyIsMarked
  <2>2. ASSUME NEW c \in Addr, NEW k \in DOMAIN pins', pins'[k].addr = c, pins'[k].mode = "modify"
        PROVE  modified'[c]
    <3>1. CASE pins'[k] = pin
      BY <3>1, <2>2, <1>5, <1>8, Zenon
    <3>2. CASE \E j \in DOMAIN pins : pins'[k] = pins[j]
      BY <3>2, <2>2, <1>8, Zenon DEF IInv, DirtyIsMarked
    <3> QED BY <3>1, <3>2, <1>7
  <2> QED BY <2>1, <2>2 DEF DirtyIsMarked
<1> QED BY <1>9, <1>10, <1>11, <1>12, Zenon DEF IInv

(* What a drop of an unshared cache leaves on the device: its own block    *)
(* only changes, and becomes the cached one.                               *)
LEMMA SyncedProperties ==
  ASSUME IInv, NEW a \in Addr, Live(a)
  PROVE  /\ Synced(a) \in [BlockDevice -> [Block -> Data]]
         /\ Synced(a)[block_device[a]][block_id[a]] = cache[a]
         /\ \A e \in BlockDevice, c \in Block :
              c # block_id[a] => Synced(a)[e][c] = disk[e][c]
<1>1. /\ block_id[a] \in Block /\ block_device[a] \in BlockDevice /\ cache[a] \in Data
      /\ disk \in [BlockDevice -> [Block -> Data]]
      /\ cache[a] # disk[block_device[a]][block_id[a]] => modified[a]
  BY DEF IInv, LiveFields, TypeOK, DirtyIsMarked
<1>2. CASE modified[a]
  <2>1. Synced(a) = [disk EXCEPT ![block_device[a]] = [@ EXCEPT ![block_id[a]] = cache[a]]]
    BY <1>2 DEF Synced
  <2>2. disk[block_device[a]] \in [Block -> Data]
    BY <1>1
  <2>3. [disk[block_device[a]] EXCEPT ![block_id[a]] = cache[a]] \in [Block -> Data]
    BY <1>1, <2>2, Zenon
  <2> QED BY <1>1, <2>1, <2>2, <2>3
<1>3. CASE ~modified[a]
  BY <1>1, <1>3 DEF Synced
<1> QED BY <1>2, <1>3

(* A miss with room, and a miss that evicts, keep the invariant. *)
LEMMA MissInv ==
  ASSUME IInv, OneDevice, NEW b \in Block, NEW d \in BlockDevice, NEW m \in Access, get_miss(b, d, m)
  PROVE  IInv'
<1>1. PICK a \in Addr : load(a, b, d, m, queue, {}, disk)
  BY DEF get_miss
<1>2. ~Cached(b) /\ Len(queue) < BLOCK_CACHE_SIZE
  BY DEF get_miss
<1>3. /\ queue \in Seq(Pair) /\ Distinct(queue)
      /\ \A c \in Addr : Live(c) => \E j \in DOMAIN queue : queue[j].addr = c
  BY QueueFacts DEF Distinct
<1>4. disk \in [BlockDevice -> [Block -> Data]]
  BY DEF IInv, TypeOK
<1>5. \A j \in DOMAIN queue : \E k \in DOMAIN queue : queue[j] = queue[k] /\ queue[k].addr \notin {}
  OBVIOUS
<1>6. LoadPre(queue, {}, disk)
  BY <1>2, <1>3, <1>4, <1>5, Zenon DEF LoadPre
<1> QED BY <1>1, <1>2, <1>6, LoadInv, Zenon

(* The queue, the pins and the device as an eviction hands them to load. *)
LEMMA SubstituteFacts ==
  ASSUME IInv, OneDevice, NEW i \in DOMAIN queue, Victim(i)
  PROVE  LET old == queue[i].addr
             rest == RemoveAt(queue, i)
         IN /\ old \in Addr /\ Live(old) /\ Unshared(old)
            /\ Drained(queue, i, rest)
            /\ \A j \in DOMAIN rest : \E k \in DOMAIN queue : rest[j] = queue[k] /\ queue[k].addr \notin {old}
            /\ \A c \in Addr : Live(c) /\ c \notin {old} => \E j \in DOMAIN rest : rest[j].addr = c
            /\ \A k \in DOMAIN pins : pins[k].addr \notin {old}
            /\ \A c \in Addr : Live(c) /\ c \notin {old} =>
                 Synced(old)[block_device[c]][block_id[c]] = disk[block_device[c]][block_id[c]]
<1> DEFINE old == queue[i].addr
           rest == RemoveAt(queue, i)
<1>1. /\ queue \in Seq(Pair) /\ Distinct(queue)
      /\ \A k \in DOMAIN queue : queue[k].addr \in Addr /\ Live(queue[k].addr) /\ block_id[queue[k].addr] = queue[k].id
      /\ \A c \in Addr : Live(c) => \E j \in DOMAIN queue : queue[j].addr = c
      /\ \A c, e \in Addr : Live(c) /\ Live(e) /\ block_id[c] = block_id[e] => c = e
  BY QueueFacts, Zenon DEF Distinct
<1>2. Drained(queue, i, rest)
  BY <1>1, QueueRemove
<1>3. old \in Addr /\ Live(old) /\ Unshared(old)
  BY <1>1 DEF Victim
<1>4. \A k \in DOMAIN queue : k # i => queue[k].addr # old
  BY <1>1 DEF Distinct
<1> HIDE DEF old, rest
<1>5. \A j \in DOMAIN rest : \E k \in DOMAIN queue : rest[j] = queue[k] /\ queue[k].addr \notin {old}
  BY <1>2, <1>4 DEF Drained
<1>6. ASSUME NEW c \in Addr, Live(c), c # old
      PROVE  \E j \in DOMAIN rest : rest[j].addr = c
  <2>1. PICK k \in DOMAIN queue : queue[k].addr = c
    BY <1>1, <1>6
  <2>2. k # i
    BY <2>1, <1>6 DEF old
  <2> QED BY <2>1, <2>2, <1>2 DEF Drained
<1>7. \A k \in DOMAIN pins : pins[k].addr \notin {old}
  BY <1>3 DEF Unshared
<1>8. ASSUME NEW c \in Addr, Live(c), c # old
      PROVE  Synced(old)[block_device[c]][block_id[c]] = disk[block_device[c]][block_id[c]]
  <2>1. block_id[c] \in Block /\ block_device[c] \in BlockDevice
    BY <1>8 DEF IInv, LiveFields
  <2>2. block_id[c] # block_id[old]
    BY <1>1, <1>3, <1>8, Zenon
  <2> QED BY <2>1, <2>2, <1>3, SyncedProperties
<1> QED BY <1>2, <1>3, <1>5, <1>6, <1>7, <1>8, Zenon DEF old, rest

(* Substitution: the victim is dropped, the new block takes its room. *)
LEMMA SubstituteInv ==
  ASSUME IInv, OneDevice, NEW b \in Block, NEW d \in BlockDevice, NEW m \in Access, get_substitute(b, d, m)
  PROVE  IInv'
<1>1. PICK i \in DOMAIN queue, a \in Addr :
        /\ Victim(i)
        /\ IF Unshared(queue[i].addr)
           THEN load(a, b, d, m, RemoveAt(queue, i), {queue[i].addr}, Synced(queue[i].addr))
           ELSE load(a, b, d, m, RemoveAt(queue, i), {}, disk)
  BY ZenonT(20) DEF get_substitute
<1> DEFINE old == queue[i].addr
           rest == RemoveAt(queue, i)
<1>2. /\ old \in Addr /\ Live(old) /\ Unshared(old)
      /\ Drained(queue, i, rest)
      /\ \A j \in DOMAIN rest : \E k \in DOMAIN queue : rest[j] = queue[k] /\ queue[k].addr \notin {old}
      /\ \A c \in Addr : Live(c) /\ c \notin {old} => \E j \in DOMAIN rest : rest[j].addr = c
      /\ \A k \in DOMAIN pins : pins[k].addr \notin {old}
      /\ \A c \in Addr : Live(c) /\ c \notin {old} =>
           Synced(old)[block_device[c]][block_id[c]] = disk[block_device[c]][block_id[c]]
  BY <1>1, SubstituteFacts, Zenon
<1>3. ~Cached(b) /\ Len(queue) = BLOCK_CACHE_SIZE
  BY Zenon DEF get_substitute
<1>4. load(a, b, d, m, rest, {old}, Synced(old))
  BY <1>1, <1>2, Zenon
<1>5. Synced(old) \in [BlockDevice -> [Block -> Data]]
  BY <1>2, SyncedProperties, Zenon
<1> HIDE DEF old, rest
<1>6. rest \in Seq(Pair) /\ Distinct(rest) /\ Len(rest) < BLOCK_CACHE_SIZE
  BY <1>2, <1>3, BlockCacheAssumption, SMTT(20) DEF Drained
<1>7. LoadPre(rest, {old}, Synced(old))
  BY <1>2, <1>5, <1>6, ZenonT(30) DEF LoadPre
<1> QED BY <1>3, <1>4, <1>7, LoadInv

(* A closure that reads, and a panic, change no cache. *)
LEMMA StillInv ==
  ASSUME IInv, UNCHANGED <<disk, fields, queue, pins>>,
         out' \in [op : Access, dev : BlockDevice, block : Block, value : Data], panicked' \in BOOLEAN
  PROVE  IInv'
<1>1. UNCHANGED <<disk, block_id, block_device, cache, modified, queue, pins>>
  BY DEF fields
<1>2. TypeOK'
  BY <1>1 DEF IInv, TypeOK
<1> QED BY <1>1, <1>2 DEF IInv, LiveFields, OneCachePerBlock, PinsTheBlockAskedFor, DirtyIsMarked, Live

(* A closure that writes has the block marked since its access opened. *)
LEMMA ModifyInv ==
  ASSUME IInv, NEW k \in DOMAIN pins, NEW v \in Data, modify(k, v)
  PROVE  IInv'
<1>1. /\ pins[k].addr \in Addr /\ Live(pins[k].addr) /\ pins[k].dev \in BlockDevice /\ pins[k].id \in Block
  BY QueueFacts
<1>2. /\ pins[k].mode = "modify"
      /\ cache' = [cache EXCEPT ![pins[k].addr] = v]
      /\ out' = [op |-> "modify", dev |-> pins[k].dev, block |-> pins[k].id, value |-> v]
      /\ UNCHANGED <<disk, block_id, block_device, modified, queue, pins, panicked>>
  BY Zenon DEF modify
<1>3. modified[pins[k].addr]
  BY <1>1, <1>2, Zenon DEF IInv, DirtyIsMarked
<1>4. /\ cache' \in [Addr -> Data \cup {Nil}] /\ cache'[pins[k].addr] = v
      /\ \A c \in Addr : c # pins[k].addr => cache'[c] = cache[c]
  BY <1>1, <1>2, Zenon DEF IInv, TypeOK
<1>5. TypeOK'
  BY <1>1, <1>2, <1>4, Zenon DEF IInv, TypeOK, Access
<1>6. LiveFields'
  BY <1>2, <1>4, Zenon DEF IInv, LiveFields, Live
<1>7. OneCachePerBlock' /\ PinsTheBlockAskedFor'
  BY <1>2, ZenonT(30) DEF IInv, OneCachePerBlock, PinsTheBlockAskedFor, Live
<1>8. DirtyIsMarked'
  BY <1>2, <1>3, <1>4 DEF IInv, DirtyIsMarked, Live
<1> QED BY <1>5, <1>6, <1>7, <1>8, Zenon DEF IInv

(* The block of an access that returns is in the queue, so it stays.  *)
LEMMA ReleaseKeeps ==
  ASSUME IInv, release
  PROVE  /\ UNCHANGED <<disk, fields, queue, out, panicked>>
         /\ pins # <<>> /\ pins' = Front(pins)
<1>1. pins # <<>> /\ pins' = Front(pins) /\ UNCHANGED <<queue, out, panicked>>
  BY DEF release
<1>2. Len(pins) \in Nat \ {0} /\ Last(pins) = pins[Len(pins)]
  BY <1>1, QueueFacts, FrontProperties, Zenon
<1>3. Len(pins) \in DOMAIN pins
  BY <1>2, QueueFacts, LenProperties
<1>4. \E i \in DOMAIN queue : queue[i].addr = Last(pins).addr
  BY <1>2, <1>3, QueueFacts, Zenon
<1>5. UNCHANGED <<disk, fields>>
  BY <1>4 DEF release
<1> QED BY <1>1, <1>5, Zenon

(* An access that returns keeps the invariant. *)
LEMMA ReleaseInv ==
  ASSUME IInv, release
  PROVE  IInv'
<1>1. /\ UNCHANGED <<disk, block_id, block_device, cache, modified, queue, out, panicked>>
      /\ pins # <<>> /\ pins' = Front(pins)
  BY ReleaseKeeps DEF fields
<1>2. pins \in Seq(PinRecord)
  BY QueueFacts
<1>3. /\ pins' \in Seq(PinRecord) /\ Len(pins) \in Nat \ {0} /\ Len(pins') = Len(pins) - 1
      /\ \A j \in 1 .. Len(pins) - 1 : pins'[j] = pins[j]
  BY <1>1, <1>2, FrontProperties, Zenon
<1>4. DOMAIN pins' = 1 .. Len(pins) - 1 /\ DOMAIN pins = 1 .. Len(pins)
  BY <1>2, <1>3, LenProperties
<1>5. \A j \in DOMAIN pins' : j \in DOMAIN pins /\ pins'[j] = pins[j]
  BY <1>3, <1>4
<1>6. TypeOK'
  BY <1>1, <1>3, Zenon DEF IInv, TypeOK, PinRecord
<1>7. LiveFields' /\ OneCachePerBlock'
  BY <1>1 DEF IInv, LiveFields, OneCachePerBlock, Live
<1>8. PinsTheBlockAskedFor' /\ DirtyIsMarked'
  BY <1>1, <1>5, SMTT(20) DEF IInv, PinsTheBlockAskedFor, DirtyIsMarked, Live
<1> QED BY <1>6, <1>7, <1>8 DEF IInv

(* A block has one place in the queue at most, so sync_all finds one copy  *)
(* of it that is dirty, or none.                                           *)
LEMMA DirtyProperties ==
  ASSUME IInv, NEW a \in Addr, Live(a)
  PROVE  /\ ~modified[a] => \A e \in BlockDevice : Dirty(e, block_id[a]) = {}
         /\ modified[a] => /\ Dirty(block_device[a], block_id[a]) # {}
                           /\ queue[Max(Dirty(block_device[a], block_id[a]))].addr = a
<1>1. PICK i \in DOMAIN queue : queue[i].addr = a
  BY QueueFacts, Zenon
<1>2. \A j \in DOMAIN queue : block_id[queue[j].addr] = block_id[a] => j = i
  BY <1>1, QueueFacts
<1>3. \A e : \A j \in Dirty(e, block_id[a]) : j = i /\ modified[a]
  BY <1>1, <1>2, Zenon DEF Dirty
<1>4. ASSUME modified[a]
      PROVE  Dirty(block_device[a], block_id[a]) = {i}
  BY <1>1, <1>3, <1>4, Zenon DEF Dirty
<1>5. i \in Nat
  BY QueueFacts, LenProperties
<1>6. Max({i}) = i
  BY <1>5 DEF Max
<1> QED BY <1>1, <1>3, <1>4, <1>6, Zenon

(* sync_all leaves every cached block as it is on the device. *)
LEMMA SyncAllDisk ==
  ASSUME IInv, block_cache_sync_all
  PROVE  /\ disk' \in [BlockDevice -> [Block -> Data]]
         /\ \A a \in Addr : Live(a) => disk'[block_device[a]][block_id[a]] = cache[a]
         /\ \A e \in BlockDevice, b \in Block :
              (\A a \in Addr : Live(a) => block_id[a] # b) => disk'[e][b] = disk[e][b]
<1>0. disk \in [BlockDevice -> [Block -> Data]]
  BY DEF IInv, TypeOK
<1>1. disk' = [e \in BlockDevice |-> [b \in Block |->
                 IF Dirty(e, b) = {} THEN disk[e][b] ELSE cache[queue[Max(Dirty(e, b))].addr]]]
  BY DEF block_cache_sync_all
<1>2. ASSUME NEW a \in Addr, Live(a)
      PROVE  disk'[block_device[a]][block_id[a]] = cache[a]
  <2>1. block_id[a] \in Block /\ block_device[a] \in BlockDevice
    BY <1>2, Zenon DEF IInv, LiveFields
  <2>2. CASE modified[a]
    BY <1>1, <1>2, <2>1, <2>2, DirtyProperties, SMTT(20)
  <2>3. CASE ~modified[a]
    <3>1. disk[block_device[a]][block_id[a]] = cache[a]
      BY <1>2, <2>3, Zenon DEF IInv, DirtyIsMarked
    <3> QED BY <1>1, <1>2, <2>1, <2>3, <3>1, DirtyProperties, ZenonT(20)
  <2> QED BY <2>2, <2>3
<1>3. ASSUME NEW e \in BlockDevice, NEW b \in Block, Dirty(e, b) # {}
      PROVE  \E a \in Addr : Live(a) /\ block_id[a] = b /\ block_device[a] = e
  <2>1. PICK i \in DOMAIN queue : block_id[queue[i].addr] = b /\ block_device[queue[i].addr] = e
    BY <1>3 DEF Dirty
  <2> QED BY <2>1, QueueFacts, Zenon
<1>4. ASSUME NEW e \in BlockDevice, NEW b \in Block
      PROVE  disk'[e][b] \in Data
  <2>1. CASE Dirty(e, b) = {}
    BY <1>0, <1>1, <2>1
  <2>2. CASE Dirty(e, b) # {}
    <3>1. PICK a \in Addr : Live(a) /\ block_id[a] = b /\ block_device[a] = e
      BY <1>3, <2>2
    <3> QED BY <3>1, <1>2 DEF IInv, LiveFields
  <2> QED BY <2>1, <2>2, Zenon
<1>5. disk' \in [BlockDevice -> [Block -> Data]]
  <2>1. \A e \in BlockDevice, b \in Block :
          (IF Dirty(e, b) = {} THEN disk[e][b] ELSE cache[queue[Max(Dirty(e, b))].addr]) \in Data
    BY <1>1, <1>4, Zenon
  <2> QED BY <1>1, <2>1
<1>6. ASSUME NEW e \in BlockDevice, NEW b \in Block, \A a \in Addr : Live(a) => block_id[a] # b
      PROVE  disk'[e][b] = disk[e][b]
  BY <1>1, <1>3, <1>6
<1> QED BY <1>2, <1>5, <1>6, Zenon

(* sync_all keeps the invariant: it may clear every flag. *)
LEMMA SyncInv ==
  ASSUME IInv, block_cache_sync_all
  PROVE  IInv'
<1>1. /\ UNCHANGED <<block_id, block_device, cache, queue, pins, out, panicked>> /\ pins = <<>>
      /\ modified' = [a \in Addr |-> modified[a] /\ \A i \in DOMAIN queue : queue[i].addr # a]
  BY DEF block_cache_sync_all
<1>2. modified' \in [Addr -> BOOLEAN]
  BY <1>1, Zenon
<1>3. TypeOK'
  BY <1>1, <1>2, SyncAllDisk, Zenon DEF IInv, TypeOK
<1>4. LiveFields' /\ OneCachePerBlock' /\ PinsTheBlockAskedFor'
  BY <1>1, ZenonT(30) DEF IInv, LiveFields, OneCachePerBlock, PinsTheBlockAskedFor, Live
<1>5. DirtyIsMarked'
  <2>1. \A a \in Addr : Live(a)' => cache'[a] = disk'[block_device'[a]][block_id'[a]]
    BY <1>1, SyncAllDisk DEF Live
  <2>2. DOMAIN pins' = {}
    BY <1>1
  <2> QED BY <2>1, <2>2 DEF DirtyIsMarked
<1> QED BY <1>3, <1>4, <1>5, Zenon DEF IInv

(* An empty cache satisfies the invariant. *)
LEMMA InitInv == Init => IInv
<1> SUFFICES ASSUME Init PROVE IInv
  OBVIOUS
<1>0. /\ queue = <<>> /\ pins = <<>> /\ DOMAIN queue = {} /\ DOMAIN pins = {} /\ Len(queue) = 0
      /\ \A a \in Addr : ~Live(a)
  BY DEF Init, Live
<1>1. TypeOK
  <2>1. out \in [op : Access, dev : BlockDevice, block : Block, value : Data]
    BY DEF Init, Access
  <2>2. /\ block_id \in [Addr -> Block \cup {Nil}] /\ block_device \in [Addr -> BlockDevice \cup {Nil}]
        /\ cache \in [Addr -> Data \cup {Nil}] /\ modified \in [Addr -> BOOLEAN]
    BY DEF Init
  <2>3. queue \in Seq([id : Block, addr : Addr])
        /\ pins \in Seq([addr : Addr, mode : Access, id : Block, dev : BlockDevice])
    BY <1>0, EmptySeq
  <2>4. disk \in [BlockDevice -> [Block -> Data]] /\ panicked \in BOOLEAN
    BY ZenonT(20) DEF Init
  <2> QED BY <2>1, <2>2, <2>3, <2>4, Zenon DEF TypeOK
<1> QED BY <1>0, <1>1, BlockCacheAssumption DEF IInv, LiveFields, OneCachePerBlock, PinsTheBlockAskedFor, DirtyIsMarked

(* Every step keeps the invariant: one case per action. *)
LEMMA NextInv ==
  ASSUME OneDevice, IInv, [Next]_vars
  PROVE  IInv'
<1>1. ASSUME NEW b \in Block, NEW d \in BlockDevice, NEW m \in Access, get_block_cache(b, d, m)
      PROVE  IInv'
  <2>1. CASE get_hit(b, d, m)
    BY <2>1, HitInv
  <2>2. CASE get_miss(b, d, m)
    BY <2>2, MissInv, SMTT(20)
  <2>3. CASE get_substitute(b, d, m)
    BY <2>3, SubstituteInv
  <2>4. CASE get_panic(b)
    <3>1. UNCHANGED <<disk, fields, queue, pins>> /\ out' = out /\ panicked' = TRUE
      BY <2>4 DEF get_panic
    <3>2. out' \in [op : Access, dev : BlockDevice, block : Block, value : Data] /\ panicked' \in BOOLEAN
      BY <3>1, Zenon DEF IInv, TypeOK
    <3> QED BY <3>1, <3>2, StillInv, Zenon
  <2> QED BY <1>1, <2>1, <2>2, <2>3, <2>4, Zenon DEF get_block_cache
<1>2. ASSUME NEW k \in DOMAIN pins, read(k)
      PROVE  IInv'
  <2>1. /\ UNCHANGED <<disk, fields, queue, pins>> /\ panicked' = panicked
        /\ out' = [op |-> "read", dev |-> pins[k].dev, block |-> pins[k].id, value |-> cache[pins[k].addr]]
    BY <1>2, Zenon DEF read
  <2>2. pins[k].addr \in Addr /\ Live(pins[k].addr) /\ pins[k].dev \in BlockDevice /\ pins[k].id \in Block
    BY QueueFacts, Zenon
  <2>3. cache[pins[k].addr] \in Data
    BY <2>2, Zenon DEF IInv, LiveFields
  <2>4. out' \in [op : Access, dev : BlockDevice, block : Block, value : Data]
    BY <2>1, <2>2, <2>3, Zenon DEF Access
  <2>5. panicked' \in BOOLEAN
    BY <2>1 DEF IInv, TypeOK
  <2> QED BY <2>1, <2>4, <2>5, StillInv, Zenon
<1>3. CASE UNCHANGED vars
  <2>1. UNCHANGED <<disk, fields, queue, pins>> /\ out' = out /\ panicked' = panicked
    BY <1>3 DEF vars, fields
  <2>2. out' \in [op : Access, dev : BlockDevice, block : Block, value : Data] /\ panicked' \in BOOLEAN
    BY <2>1 DEF IInv, TypeOK
  <2> QED BY <2>1, <2>2, StillInv
<1> QED BY <1>1, <1>2, <1>3, ModifyInv, ReleaseInv, SyncInv, Zenon DEF Next, Halted

(* With one device, however large the cache is and however deep accesses   *)
(* nest: get_block_cache never loads a block beside the copy that is open, *)
(* an open access stays on its block, and no change escapes the flag.      *)
THEOREM CacheCoherent ==
  ASSUME OneDevice
  PROVE  Spec => [](OneCachePerBlock /\ PinsTheBlockAskedFor /\ DirtyIsMarked)
<1>1. IInv => OneCachePerBlock /\ PinsTheBlockAskedFor /\ DirtyIsMarked
  BY DEF IInv
<1>2. IInv /\ [Next]_vars => IInv'
  BY NextInv
<1> QED BY <1>1, <1>2, InitInv, PTL DEF Spec

(* An access that is open works on the block it asked for, whatever was    *)
(* evicted and loaded since (get_block_cache, the Arc it returns).         *)
THEOREM AccessStaysOnItsBlock ==
  ASSUME OneDevice
  PROVE  Spec => []PinsTheBlockAskedFor
BY CacheCoherent, PTL

(* No change to a cached block escapes the flag that sync and drop look at *)
(* (get_mut, sync).                                                        *)
THEOREM NoChangeUnmarked ==
  ASSUME OneDevice
  PROVE  Spec => []DirtyIsMarked
BY CacheCoherent, PTL

-----------------------------------------------------------------------------
(* A queue with no pair to evict has every block of it open, each by an    *)
(* access of its own.                                                      *)
LEMMA NoVictim ==
  ASSUME IInv, ~ \E i \in DOMAIN queue : Victim(i)
  PROVE  Len(queue) <= Len(pins)
<1>1. /\ queue \in Seq(Pair) /\ pins \in Seq(PinRecord)
      /\ \A i, j \in DOMAIN queue : queue[i].addr = queue[j].addr => i = j
  BY QueueFacts
<1>2. /\ Len(queue) \in Nat /\ DOMAIN queue = 1 .. Len(queue)
      /\ Len(pins) \in Nat /\ DOMAIN pins = 1 .. Len(pins)
  BY <1>1, LenProperties
<1> DEFINE T == {i \in DOMAIN queue : Unshared(queue[i].addr)}
<1>3. T = {}
  <2> SUFFICES ASSUME T # {} PROVE FALSE
    OBVIOUS
  <2>1. T \subseteq Nat
    BY <1>2
  <2>2. PICK i \in T : \A j \in T : i <= j
    BY <2>1, LeastElement, ZenonT(20)
  <2>3. \A k \in 1 .. i - 1 : k \in DOMAIN queue /\ k \notin T
    BY <1>2, <2>1, <2>2
  <2>4. Victim(i)
    BY <2>2, <2>3, Zenon DEF Victim
  <2> QED BY <2>2, <2>4
<1>4. \A i \in DOMAIN queue : \E k \in DOMAIN pins : pins[k].addr = queue[i].addr
  BY <1>3 DEF Unshared
<1> HIDE DEF T
<1> DEFINE f == [i \in DOMAIN queue |-> CHOOSE k \in DOMAIN pins : pins[k].addr = queue[i].addr]
<1>5. \A i \in DOMAIN queue : f[i] \in DOMAIN pins /\ pins[f[i]].addr = queue[i].addr
  BY <1>4
<1>6. f \in [DOMAIN queue -> DOMAIN pins]
  BY <1>5
<1> HIDE DEF f
<1>7. /\ IsFiniteSet(DOMAIN queue) /\ Cardinality(DOMAIN queue) = Len(queue)
      /\ IsFiniteSet(DOMAIN pins) /\ Cardinality(DOMAIN pins) = Len(pins)
  <2>1. \A n \in Nat : IsFiniteSet(1 .. n) /\ Cardinality(1 .. n) = n
    BY FS_Interval
  <2> QED BY <1>2, <2>1
<1>8. ASSUME Len(pins) < Len(queue)
      PROVE  FALSE
  <2>1. PICK i, j \in DOMAIN queue : i # j /\ f[i] = f[j]
    BY <1>6, <1>7, <1>8, FS_PigeonHole, Zenon
  <2>2. queue[i].addr = queue[j].addr
    BY <1>5, <2>1
  <2> QED BY <1>1, <2>1, <2>2, Zenon
<1> QED BY <1>2, <1>8

(* "Run out of BlockCache!" needs as many open accesses as the cache has   *)
(* entries, for every cache size.                                          *)
THEOREM PanicNeedsFullCache ==
  ASSUME OneDevice
  PROVE  Spec => []RunsOutOnlyWhenFull
<1>1. Init => RunsOutOnlyWhenFull
  BY DEF Init, RunsOutOnlyWhenFull
<1>2. ASSUME IInv, RunsOutOnlyWhenFull, [Next]_vars
      PROVE  RunsOutOnlyWhenFull'
  <2>1. CASE panicked' = panicked /\ ~panicked
    BY <2>1 DEF RunsOutOnlyWhenFull
  <2>2. CASE UNCHANGED <<pins, panicked>>
    BY <2>2, <1>2 DEF RunsOutOnlyWhenFull
  <2>3. ASSUME NEW b \in Block, get_panic(b)
        PROVE  RunsOutOnlyWhenFull'
    <3>1. pins' = pins /\ Len(queue) = BLOCK_CACHE_SIZE /\ Len(queue) <= Len(pins)
      BY <1>2, <2>3, NoVictim DEF get_panic
    <3>2. Len(pins) \in Nat
      BY <1>2, QueueFacts, LenProperties
    <3> QED BY <3>1, <3>2, BlockCacheAssumption DEF RunsOutOnlyWhenFull
  <2>4. ASSUME NEW b \in Block, NEW d \in BlockDevice, NEW m \in Access, get_block_cache(b, d, m)
        PROVE  RunsOutOnlyWhenFull'
    <3>1. CASE get_panic(b)
      BY <3>1, <2>3
    <3>2. CASE ~get_panic(b)
      <4>1. panicked' = panicked /\ ~panicked
        BY <2>4, <3>2, ZenonT(20) DEF get_block_cache, get_hit, get_miss, get_substitute, load
      <4> QED BY <4>1, <2>1, SMTT(20)
    <3> QED BY <3>1, <3>2
  <2>5. ASSUME NEW k \in DOMAIN pins, read(k)
        PROVE  RunsOutOnlyWhenFull'
    BY <2>1, <2>5, Zenon DEF read
  <2>6. ASSUME NEW k \in DOMAIN pins, NEW v \in Data, modify(k, v)
        PROVE  RunsOutOnlyWhenFull'
    BY <2>1, <2>6 DEF modify
  <2>7. CASE release
    BY <2>1, <2>7 DEF release
  <2>8. CASE block_cache_sync_all
    BY <2>1, <2>8 DEF block_cache_sync_all
  <2>9. CASE UNCHANGED vars
    BY <2>2, <2>9 DEF vars
  <2> QED BY <1>2, <2>4, <2>5, <2>6, <2>7, <2>8, <2>9, Zenon DEF Next, Halted
<1>3. IInv /\ [Next]_vars => IInv'
  BY NextInv, Zenon
<1> QED BY <1>1, <1>2, <1>3, InitInv, PTL DEF Spec

-----------------------------------------------------------------------------
(* What the file system sees of a block: the cached copy, or the device. *)
LogicalOK ==
  /\ Logical \in [BlockDevice -> [Block -> Data]]
  /\ \A a \in Addr : Live(a) => Logical[block_device[a]][block_id[a]] = cache[a]
  /\ \A e \in BlockDevice, b \in Block :
       (\A a \in Addr : Live(a) => block_id[a] # b) => Logical[e][b] = disk[e][b]

(* The copy that Logical picks is the only one. *)
LEMMA LogicalFacts ==
  ASSUME OneDevice
  PROVE  IInv => LogicalOK
<1> SUFFICES ASSUME IInv PROVE LogicalOK
  OBVIOUS
<1> DEFINE copies(e, b) == {i \in DOMAIN queue : block_id[queue[i].addr] = b /\ block_device[queue[i].addr] = e}
           view(e, b) == IF copies(e, b) = {} THEN disk[e][b] ELSE cache[queue[Max(copies(e, b))].addr]
<1>0. Logical = [e \in BlockDevice |-> [b \in Block |-> view(e, b)]]
  BY DEF Logical
<1>1. ASSUME NEW a \in Addr, Live(a)
      PROVE  /\ block_device[a] \in BlockDevice /\ block_id[a] \in Block /\ cache[a] \in Data
             /\ view(block_device[a], block_id[a]) = cache[a]
  <2>1. block_device[a] \in BlockDevice /\ block_id[a] \in Block /\ cache[a] \in Data
    BY <1>1, Zenon DEF IInv, LiveFields
  <2>2. PICK i \in DOMAIN queue : queue[i].addr = a
    BY <1>1, QueueFacts, Zenon
  <2>3. \A j \in DOMAIN queue : block_id[queue[j].addr] = block_id[a] => j = i
    BY <2>2, QueueFacts
  <2>4. copies(block_device[a], block_id[a]) = {i}
    BY <2>2, <2>3, Zenon
  <2>5. i \in Nat
    BY QueueFacts, LenProperties
  <2>6. Max({i}) = i
    BY <2>5 DEF Max
  <2> QED BY <2>1, <2>2, <2>4, <2>6, ZenonT(20)
<1>2. ASSUME NEW e \in BlockDevice, NEW b \in Block, \A a \in Addr : Live(a) => block_id[a] # b
      PROVE  view(e, b) = disk[e][b]
  <2>1. copies(e, b) = {}
    BY <1>2, QueueFacts
  <2> QED BY <2>1, Zenon
<1> HIDE DEF view
<1>3. ASSUME NEW e \in BlockDevice, NEW b \in Block
      PROVE  view(e, b) \in Data
  <2>1. CASE \A a \in Addr : Live(a) => block_id[a] # b
    <3>1. disk[e][b] \in Data
      BY DEF IInv, TypeOK
    <3> QED BY <1>2, <2>1, <3>1, Zenon
  <2>2. ASSUME NEW a \in Addr, Live(a), block_id[a] = b
        PROVE  view(e, b) \in Data
    <3>1. block_device[a] = e
      BY <1>1, <2>2, Zenon DEF OneDevice
    <3> QED BY <1>1, <2>2, <3>1, Zenon
  <2> QED BY <2>1, <2>2
<1>4. Logical \in [BlockDevice -> [Block -> Data]]
  BY <1>0, <1>3
<1>5. \A e \in BlockDevice, b \in Block : Logical[e][b] = view(e, b)
  BY <1>0
<1> QED BY <1>1, <1>2, <1>4, <1>5 DEF LogicalOK

(* The same after a step. *)
LEMMA LogicalFactsNext ==
  ASSUME OneDevice
  PROVE  IInv' => LogicalOK'
<1>1. IInv => LogicalOK
  BY LogicalFacts
<1> QED BY <1>1, PTL

(* Two arrays of blocks are the same when every block is. *)
LEMMA SameBlocks ==
  ASSUME NEW f \in [BlockDevice -> [Block -> Data]], NEW g \in [BlockDevice -> [Block -> Data]],
         \A e \in BlockDevice, b \in Block : f[e][b] = g[e][b]
  PROVE  f = g
<1>1. \A e \in BlockDevice : f[e] \in [Block -> Data] /\ g[e] \in [Block -> Data]
  OBVIOUS
<1>2. \A e \in BlockDevice : f[e] = g[e]
  BY <1>1
<1> QED BY <1>2

(* The drop before a load wrote back what it freed, and nothing else. *)
DropPre(freed, newdisk) ==
  /\ freed \in SUBSET Addr
  /\ \A c \in freed : Live(c) /\ newdisk[block_device[c]][block_id[c]] = cache[c]
  /\ \A e \in BlockDevice, y \in Block :
       (\A c \in freed : block_id[c] # y) => newdisk[e][y] = disk[e][y]

(* A load, and the drop before it, change nothing that the file system     *)
(* sees.                                                                   *)
LEMMA LoadLogical ==
  ASSUME OneDevice, IInv, IInv',
         NEW a \in Addr, NEW b \in Block, NEW d \in BlockDevice, NEW m \in Access,
         NEW rest, NEW freed, NEW newdisk,
         load(a, b, d, m, rest, freed, newdisk),
         ~Cached(b),
         DropPre(freed, newdisk)
  PROVE  Logical' = Logical
<1>1. LogicalOK /\ LogicalOK'
  BY LogicalFacts, LogicalFactsNext, Zenon
<1>2. /\ ~Live(a) /\ disk' = newdisk
      /\ block_id' = [x \in Addr |-> IF x = a THEN b ELSE IF x \in freed THEN Nil ELSE block_id[x]]
      /\ block_device' = [x \in Addr |-> IF x = a THEN d ELSE IF x \in freed THEN Nil ELSE block_device[x]]
      /\ cache' = [x \in Addr |-> IF x = a THEN newdisk[d][b] ELSE IF x \in freed THEN Nil ELSE cache[x]]
  BY Zenon DEF load
<1>3. \A c \in Addr : Live(c)' <=> (c = a \/ (Live(c) /\ c \notin freed))
  BY <1>2, BlockCacheAssumption, ZenonT(30) DEF Live, DropPre
<1>4. \A c \in Addr : Live(c) => block_id[c] # b /\ block_id[c] \in Block /\ block_device[c] \in BlockDevice
  <2> SUFFICES ASSUME NEW c \in Addr, Live(c)
               PROVE  block_id[c] # b /\ block_id[c] \in Block /\ block_device[c] \in BlockDevice
    OBVIOUS
  <2>1. \E i \in DOMAIN queue : queue[i].addr = c
    BY QueueFacts, Zenon
  <2>2. block_id[c] # b
    BY <2>1, QueueFacts DEF Cached
  <2> QED BY <2>2, ZenonT(30) DEF IInv, LiveFields
<1>5. ASSUME NEW e \in BlockDevice, NEW y \in Block
      PROVE  Logical'[e][y] = Logical[e][y]
  <2>1. CASE y = b
    <3>1. Logical[e][y] = disk[e][y]
      BY <1>1, <1>4, <2>1, ZenonT(30) DEF LogicalOK
    <3>2. Logical'[e][y] = newdisk[d][b]
      <4>1. Logical'[block_device'[a]][block_id'[a]] = cache'[a]
        BY <1>1, <1>3, ZenonT(30) DEF LogicalOK
      <4>2. block_device'[a] = d /\ block_id'[a] = b /\ cache'[a] = newdisk[d][b] /\ d = e
        BY <1>2, Zenon DEF OneDevice
      <4> QED BY <2>1, <4>1, <4>2, ZenonT(30)
    <3>3. newdisk[e][y] = disk[e][y] /\ d = e
      BY <1>4, <2>1, Zenon DEF OneDevice, DropPre
    <3> QED BY <2>1, <3>1, <3>2, <3>3, Zenon
  <2>2. ASSUME y # b, NEW c \in Addr, Live(c), block_id[c] = y
        PROVE  Logical'[e][y] = Logical[e][y]
    <3>1. block_device[c] = e
      BY <1>4, <2>2, Zenon DEF OneDevice
    <3>2. Logical[e][y] = cache[c]
      BY <1>1, <2>2, <3>1, ZenonT(30) DEF LogicalOK
    <3>3. CASE c \notin freed
      <4>1. c # a
        BY <1>2, <2>2, ZenonT(30)
      <4>2. Live(c)' /\ block_id'[c] = y /\ block_device'[c] = e /\ cache'[c] = cache[c]
        BY <1>2, <1>3, <2>2, <3>1, <3>3, <4>1, Zenon
      <4>3. Logical'[block_device'[c]][block_id'[c]] = cache'[c]
        BY <1>1, <4>2, ZenonT(30) DEF LogicalOK
      <4> QED BY <3>2, <4>2, <4>3, ZenonT(30)
    <3>4. CASE c \in freed
      <4>1. ASSUME NEW x \in Addr, Live(x)' PROVE block_id'[x] # y
        <5>1. CASE x = a
          BY <1>2, <2>2, <5>1, Zenon
        <5>2. CASE x # a /\ Live(x) /\ x \notin freed
          <6>1. block_id'[x] = block_id[x]
            BY <1>2, <5>2, Zenon
          <6>2. block_id[x] # block_id[c]
            BY <2>2, <3>4, <5>2, QueueFacts, ZenonT(30)
          <6> QED BY <2>2, <6>1, <6>2, Zenon
        <5> QED BY <1>3, <4>1, <5>1, <5>2, Zenon
      <4>2. Logical'[e][y] = disk'[e][y]
        BY <1>1, <4>1, Zenon DEF LogicalOK
      <4>3. newdisk[e][y] = cache[c]
        BY <2>2, <3>1, <3>4, ZenonT(30) DEF DropPre
      <4> QED BY <1>2, <3>2, <4>2, <4>3, Zenon
    <3> QED BY <3>3, <3>4, Zenon
  <2>3. ASSUME y # b, \A c \in Addr : Live(c) => block_id[c] # y
        PROVE  Logical'[e][y] = Logical[e][y]
    <3>1. Logical[e][y] = disk[e][y]
      BY <1>1, <2>3, ZenonT(30) DEF LogicalOK
    <3>2. \A x \in Addr : Live(x)' => block_id'[x] # y
      BY <1>2, <1>3, <2>3, ZenonT(30)
    <3>3. Logical'[e][y] = disk'[e][y]
      BY <1>1, <3>2, Zenon DEF LogicalOK
    <3>4. newdisk[e][y] = disk[e][y]
      BY <2>3, Zenon DEF DropPre
    <3> QED BY <1>2, <3>1, <3>3, <3>4, Zenon
  <2> QED BY <2>1, <2>2, <2>3, ZenonT(30)
<1>6. Logical \in [BlockDevice -> [Block -> Data]] /\ Logical' \in [BlockDevice -> [Block -> Data]]
  BY <1>1, Zenon DEF LogicalOK
<1> QED BY <1>5, <1>6, SameBlocks, Zenon

(* The device is all that the file system sees when nothing is cached that *)
(* differs from it.                                                        *)
LEMMA LogicalIsDisk ==
  ASSUME OneDevice, IInv, \A a \in Addr : Live(a) => cache[a] = disk[block_device[a]][block_id[a]]
  PROVE  Logical = disk
<1>1. LogicalOK
  BY LogicalFacts
<1>2. ASSUME NEW e \in BlockDevice, NEW b \in Block
      PROVE  Logical[e][b] = disk[e][b]
  <2>1. CASE \A a \in Addr : Live(a) => block_id[a] # b
    BY <1>1, <2>1, Zenon DEF LogicalOK
  <2>2. ASSUME NEW a \in Addr, Live(a), block_id[a] = b
        PROVE  Logical[e][b] = disk[e][b]
    <3>1. block_device[a] = e
      BY <2>2 DEF IInv, LiveFields, OneDevice
    <3> QED BY <1>1, <2>2, <3>1 DEF LogicalOK
  <2> QED BY <2>1, <2>2, Zenon
<1>3. Logical \in [BlockDevice -> [Block -> Data]] /\ disk \in [BlockDevice -> [Block -> Data]]
  BY <1>1 DEF LogicalOK, IInv, TypeOK
<1> QED BY <1>2, <1>3, SameBlocks

(* sync_all brings the device up to what the file system sees, which does  *)
(* not change.                                                             *)
LEMMA SyncLogical ==
  ASSUME OneDevice, IInv, IInv', block_cache_sync_all
  PROVE  disk' = Logical /\ Logical' = Logical
<1>1. LogicalOK /\ LogicalOK'
  BY LogicalFacts, LogicalFactsNext, Zenon
<1>2. UNCHANGED <<block_id, block_device, cache>>
  BY Zenon DEF block_cache_sync_all
<1>3. ASSUME NEW e \in BlockDevice, NEW b \in Block
      PROVE  disk'[e][b] = Logical[e][b] /\ Logical'[e][b] = Logical[e][b]
  <2>1. CASE \A a \in Addr : Live(a) => block_id[a] # b
    <3>1. disk'[e][b] = disk[e][b] /\ Logical[e][b] = disk[e][b]
      BY <1>1, <2>1, SyncAllDisk, Zenon DEF LogicalOK
    <3>2. \A a \in Addr : Live(a)' => block_id'[a] # b
      BY <1>2, <2>1, Zenon DEF Live
    <3>3. Logical'[e][b] = disk'[e][b]
      BY <1>1, <3>2, Zenon DEF LogicalOK
    <3> QED BY <3>1, <3>3, Zenon
  <2>2. ASSUME NEW a \in Addr, Live(a), block_id[a] = b
        PROVE  disk'[e][b] = Logical[e][b] /\ Logical'[e][b] = Logical[e][b]
    <3>1. block_device[a] = e
      BY <2>2 DEF IInv, LiveFields, OneDevice
    <3>2. Logical[e][b] = cache[a] /\ disk'[e][b] = cache[a]
      BY <1>1, <2>2, <3>1, SyncAllDisk, SMTT(20) DEF LogicalOK
    <3>3. Live(a)'
      BY <1>2, <2>2, Zenon DEF Live
    <3>4. Logical'[block_device'[a]][block_id'[a]] = cache'[a]
      BY <1>1, <3>3, Zenon DEF LogicalOK
    <3> QED BY <1>2, <2>2, <3>1, <3>2, <3>4, Zenon
  <2> QED BY <2>1, <2>2
<1>4. /\ Logical \in [BlockDevice -> [Block -> Data]] /\ Logical' \in [BlockDevice -> [Block -> Data]]
      /\ disk' \in [BlockDevice -> [Block -> Data]]
  BY <1>1, SyncAllDisk DEF LogicalOK
<1>5. disk' = Logical
  BY <1>3, <1>4, SameBlocks
<1>6. Logical' = Logical
  BY <1>3, <1>4, SameBlocks
<1> QED BY <1>5, <1>6

(* A write through an access changes what the file system sees of that     *)
(* block, and of no other.                                                 *)
LEMMA ModifyLogical ==
  ASSUME OneDevice, IInv, IInv', NEW k \in DOMAIN pins, NEW v \in Data, modify(k, v)
  PROVE  Logical' = [Logical EXCEPT ![pins[k].dev] = [@ EXCEPT ![pins[k].id] = v]]
<1> DEFINE a == pins[k].addr
           d == pins[k].dev
           y == pins[k].id
           new == [Logical EXCEPT ![d] = [@ EXCEPT ![y] = v]]
<1>1. LogicalOK /\ LogicalOK'
  BY LogicalFacts, LogicalFactsNext, Zenon
<1>2. a \in Addr /\ Live(a) /\ block_id[a] = y /\ block_device[a] = d /\ d \in BlockDevice /\ y \in Block
  BY QueueFacts, Zenon
<1>3. cache' = [cache EXCEPT ![a] = v] /\ UNCHANGED <<disk, block_id, block_device>>
  BY Zenon DEF modify
<1> HIDE DEF a, d, y
<1>4. cache'[a] = v /\ \A c \in Addr : c # a => cache'[c] = cache[c]
  BY <1>2, <1>3, Zenon DEF IInv, TypeOK
<1>5. Logical \in [BlockDevice -> [Block -> Data]] /\ Logical' \in [BlockDevice -> [Block -> Data]]
  BY <1>1, ZenonT(30) DEF LogicalOK
<1>6. new \in [BlockDevice -> [Block -> Data]] /\ new[d][y] = v
      /\ \A e \in BlockDevice, b \in Block : b # y => new[e][b] = Logical[e][b]
  BY <1>2, <1>5
<1> HIDE DEF new
<1>7. ASSUME NEW e \in BlockDevice, NEW b \in Block
      PROVE  Logical'[e][b] = new[e][b]
  <2>1. CASE b = y
    <3>1. block_id'[a] # Nil /\ block_id'[a] = y /\ block_device'[a] = d /\ d = e
      BY <1>2, <1>3, Zenon DEF Live, OneDevice
    <3>2. Logical'[block_device'[a]][block_id'[a]] = cache'[a]
      BY <1>1, <1>2, <3>1, Zenon DEF LogicalOK, Live
    <3> QED BY <1>4, <1>6, <2>1, <3>1, <3>2, SMTT(20)
  <2>2. ASSUME b # y, NEW c \in Addr, Live(c), block_id[c] = b
        PROVE  Logical'[e][b] = new[e][b]
    <3>1. block_device[c] = e
      BY <2>2, Zenon DEF IInv, LiveFields, OneDevice
    <3>2. c # a /\ Live(c)' /\ block_id'[c] = b /\ block_device'[c] = e
      BY <1>2, <1>3, <2>2, <3>1, Zenon DEF Live
    <3>3. Logical[e][b] = cache[c]
      BY <1>1, <2>2, <3>1, Zenon DEF LogicalOK
    <3>4. Logical'[block_device'[c]][block_id'[c]] = cache'[c]
      BY <1>1, <3>2, Zenon DEF LogicalOK
    <3> QED BY <1>4, <1>6, <2>2, <3>2, <3>3, <3>4, ZenonT(30)
  <2>3. ASSUME b # y, \A c \in Addr : Live(c) => block_id[c] # b
        PROVE  Logical'[e][b] = new[e][b]
    <3>1. Logical[e][b] = disk[e][b]
      BY <1>1, <2>3 DEF LogicalOK
    <3>2. \A c \in Addr : Live(c)' => block_id'[c] # b
      BY <1>3, <2>3, Zenon DEF Live
    <3>3. Logical'[e][b] = disk'[e][b]
      BY <1>1, <3>2, Zenon DEF LogicalOK
    <3> QED BY <1>3, <1>6, <2>3, <3>1, <3>3, ZenonT(30)
  <2> QED BY <2>1, <2>2, <2>3, Zenon
<1>8. Logical' = new
  BY <1>5, <1>6, <1>7, SameBlocks
<1> QED BY <1>8 DEF new, d, y

(* Steps that leave the caches and the queue alone leave the view alone. *)
LEMMA StillLogical ==
  ASSUME UNCHANGED <<disk, block_id, block_device, cache, queue>>
  PROVE  Logical' = Logical
  BY DEF Logical

(* Every step of the cache is a step of the block store, or none. *)
LEMMA StoreStep ==
  ASSUME OneDevice, IInv, IInv', [Next]_vars
  PROVE  [Store!Next]_(Store!vars)
<1> USE DEF Store!vars
<1>1. ASSUME NEW b \in Block, NEW d \in BlockDevice, NEW m \in Access, get_block_cache(b, d, m)
      PROVE  [Store!Next]_(Store!vars)
  <2>1. CASE get_hit(b, d, m)
    <3>1. UNCHANGED <<disk, block_id, block_device, cache, queue, out>>
      BY <2>1 DEF get_hit
    <3> QED BY <3>1, StillLogical
  <2>2. CASE get_miss(b, d, m)
    <3>1. PICK a \in Addr : load(a, b, d, m, queue, {}, disk)
      BY <2>2 DEF get_miss
    <3>2. ~Cached(b)
      BY <2>2 DEF get_miss
    <3>3. Logical' = Logical
      <4>1. DropPre({}, disk)
        BY Zenon DEF DropPre
      <4> QED BY <3>1, <3>2, <4>1, LoadLogical, Zenon
    <3>4. disk' = disk /\ out' = out
      BY <3>1 DEF load
    <3> QED BY <3>3, <3>4
  <2>3. CASE get_substitute(b, d, m)
    <3>1. PICK i \in DOMAIN queue, a \in Addr :
            /\ Victim(i)
            /\ IF Unshared(queue[i].addr)
               THEN load(a, b, d, m, RemoveAt(queue, i), {queue[i].addr}, Synced(queue[i].addr))
               ELSE load(a, b, d, m, RemoveAt(queue, i), {}, disk)
      BY <2>3, ZenonT(20) DEF get_substitute
    <3> DEFINE old == queue[i].addr
    <3>2. old \in Addr /\ Live(old) /\ Unshared(old)
      BY <3>1, QueueFacts, Zenon DEF Victim
    <3>3. load(a, b, d, m, RemoveAt(queue, i), {old}, Synced(old))
      BY <3>1, <3>2, ZenonT(30)
    <3>4. ~Cached(b)
      BY <2>3, ZenonT(30) DEF get_substitute
    <3> HIDE DEF old
    <3>5. /\ Synced(old)[block_device[old]][block_id[old]] = cache[old]
          /\ \A e \in BlockDevice, c \in Block : c # block_id[old] => Synced(old)[e][c] = disk[e][c]
      BY <3>2, SyncedProperties, ZenonT(30)
    <3>6. DropPre({old}, Synced(old))
      BY <3>2, <3>5 DEF DropPre
    <3>7. Logical' = Logical
      BY <3>3, <3>4, <3>6, LoadLogical, ZenonT(30)
    <3>8. disk' = Synced(old) /\ out' = out
      BY <3>3 DEF load
    <3>9. block_device[old] \in BlockDevice /\ block_id[old] \in Block
          /\ Logical[block_device[old]][block_id[old]] = cache[old]
      BY <3>2, LogicalFacts, ZenonT(30) DEF IInv, LiveFields, LogicalOK
    <3>10. CASE modified[old]
      <4>1. Store!WriteBack(block_device[old], block_id[old])
        BY <3>7, <3>8, <3>9, <3>10, SMTT(20) DEF Synced, Store!WriteBack
      <4> QED BY <3>9, <4>1, Zenon DEF Store!Next
    <3>11. CASE ~modified[old]
      BY <3>7, <3>8, <3>11, SMTT(20) DEF Synced
    <3> QED BY <3>10, <3>11
  <2>4. CASE get_panic(b)
    <3>1. UNCHANGED <<disk, block_id, block_device, cache, queue, out>>
      BY <2>4 DEF get_panic, fields
    <3> QED BY <3>1, StillLogical
  <2> QED BY <1>1, <2>1, <2>2, <2>3, <2>4, ZenonT(30) DEF get_block_cache
<1>2. ASSUME NEW k \in DOMAIN pins, read(k)
      PROVE  [Store!Next]_(Store!vars)
  <2>1. pins[k].addr \in Addr /\ Live(pins[k].addr) /\ pins[k].dev \in BlockDevice /\ pins[k].id \in Block
        /\ block_id[pins[k].addr] = pins[k].id /\ block_device[pins[k].addr] = pins[k].dev
    BY QueueFacts, SMTT(20)
  <2>2. Logical[pins[k].dev][pins[k].id] = cache[pins[k].addr]
    BY <2>1, LogicalFacts, ZenonT(30) DEF LogicalOK
  <2>3. UNCHANGED <<disk, block_id, block_device, cache, queue>>
    BY <1>2 DEF read, fields
  <2>4. Store!Read(pins[k].dev, pins[k].id)
    BY <1>2, <2>2, <2>3, StillLogical, SMTT(20) DEF read, Store!Read
  <2> QED BY <2>1, <2>4 DEF Store!Next
<1>3. ASSUME NEW k \in DOMAIN pins, NEW v \in Data, modify(k, v)
      PROVE  [Store!Next]_(Store!vars)
  <2>1. pins[k].dev \in BlockDevice /\ pins[k].id \in Block
    BY QueueFacts
  <2>2. Store!Write(pins[k].dev, pins[k].id, v)
    BY <1>3, ModifyLogical, ZenonT(20) DEF modify, Store!Write
  <2> QED BY <2>1, <2>2, ZenonT(30) DEF Store!Next
<1>4. CASE release
  <2>1. UNCHANGED <<disk, block_id, block_device, cache, queue, out>>
    BY <1>4, ReleaseKeeps DEF fields
  <2> QED BY <2>1, StillLogical
<1>5. CASE block_cache_sync_all
  <2>1. out' = out
    BY <1>5, Zenon DEF block_cache_sync_all
  <2>2. Store!Sync
    BY <1>5, <2>1, SyncLogical, SMTT(20) DEF Store!Sync
  <2> QED BY <2>2 DEF Store!Next
<1>6. CASE UNCHANGED vars
  <2>1. UNCHANGED <<disk, block_id, block_device, cache, queue, out>>
    BY <1>6 DEF vars
  <2> QED BY <2>1, StillLogical
<1> QED BY <1>1, <1>2, <1>3, <1>4, <1>5, <1>6, Zenon DEF Next, Halted

(* The cache implements the block store: whatever is evicted and whenever, *)
(* a read returns the last write.  For every cache size, on one device.    *)
THEOREM CacheTransparent ==
  ASSUME OneDevice
  PROVE  Spec => Transparent
<1>1. Init => Store!Init
  <2> SUFFICES ASSUME Init PROVE Store!Init
    OBVIOUS
  <2>1. \A a \in Addr : ~Live(a)
    BY DEF Init, Live
  <2>2. Logical = disk
    BY <2>1, InitInv, LogicalIsDisk, SMTT(20)
  <2> QED BY <2>2 DEF Init, Store!Init
<1>2. IInv /\ [Next]_vars => IInv'
  BY NextInv
<1>3. IInv /\ IInv' /\ [Next]_vars => [Store!Next]_(Store!vars)
  BY StoreStep
<1> QED BY <1>1, <1>2, <1>3, InitInv, PTL DEF Spec, Transparent, Store!Spec

(* When create, write_at and clear return from sync_all, the device holds  *)
(* all that the file system sees.                                          *)
THEOREM SyncIsDurable ==
  ASSUME OneDevice
  PROVE  Spec => DurableAfterSync
<1>1. IInv /\ [Next]_vars => IInv'
  BY NextInv
<1>2. IInv /\ IInv' /\ [Next]_vars => [block_cache_sync_all => disk' = Logical /\ Logical' = Logical]_vars
  BY SyncLogical
<1> QED BY <1>1, <1>2, InitInv, PTL DEF Spec, DurableAfterSync
============================================================================

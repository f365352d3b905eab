---------------------------- MODULE MemoryProofs ----------------------------
(***************************************************************************)
(* Frames, for any number of processes, pages and frames: the allocator    *)
(* keeps exact books, and what the kernel builds, copies and drops of      *)
(* address spaces keeps every frame with one owner, through every panic.   *)
(***************************************************************************)
EXTENDS Memory, Lemmas

(* The fields of the allocator; PhysPageNum is a number. *)
Allocator == [current : Int, end : Int, recycled : Seq(Int)]

(* The fields of what alloc and dealloc return: each changes one of them.  *)
LEMMA FieldsAfter ==
  ASSUME NEW f \in Allocator, NEW ppn \in Int
  PROVE  /\ f.recycled # <<>> =>
              /\ alloc(f).current = f.current
              /\ alloc(f).end = f.end
              /\ alloc(f).recycled = Front(f.recycled)
         /\ f.recycled = <<>> =>
              /\ alloc(f).current = f.current + 1
              /\ alloc(f).end = f.end
              /\ alloc(f).recycled = f.recycled
         /\ dealloc(f, ppn).current = f.current
         /\ dealloc(f, ppn).end = f.end
         /\ dealloc(f, ppn).recycled = Append(f.recycled, ppn)
BY DEF Allocator, alloc, dealloc

(* After init nobody owns a frame and every frame can still be handed out. *)
THEOREM InitExact ==
  ASSUME NEW l \in Int, NEW r \in Int, l <= r
  PROVE  Exact(init(l, r), l, {})
<1>1. /\ init(l, r).current = l
      /\ init(l, r).end = r
      /\ init(l, r).recycled = <<>>
  BY DEF init
<1>2. l .. l - 1 = {} /\ l \in l .. r
  OBVIOUS
<1>3. Range(<<>>) \cap {} = {} /\ Range(<<>>) \cup {} = l .. l - 1
  BY <1>2, RangeEmpty
<1> QED
  BY <1>1, <1>2, <1>3, RangeEmpty, Zenon DEF Exact

(* alloc hands out a frame of the range that no tracker owns, so no page   *)
(* or page table is ever given a frame in use, and the books stay exact.   *)
THEOREM AllocFresh ==
  ASSUME NEW f \in Allocator, NEW base \in Int, NEW owned,
         Exact(f, base, owned), can_alloc(f)
  PROVE  /\ alloc_ppn(f) \in base .. f.end - 1
         /\ alloc_ppn(f) \notin owned
         /\ Exact(alloc(f), base, owned \cup {alloc_ppn(f)})
<1> DEFINE s == f.recycled
           p == alloc_ppn(f)
<1>1. f.current \in Int /\ f.end \in Int /\ s \in Seq(Int)
  BY DEF Allocator
<1>2. /\ f.current \in base .. f.end
      /\ IsInjective(s)
      /\ Range(s) \cap owned = {}
      /\ Range(s) \cup owned = base .. f.current - 1
  BY DEF Exact
<1>3. CASE s # <<>>
  <2>1. p = Last(s)
    BY <1>3 DEF alloc_ppn
  <2>2. /\ Last(s) \in Range(s)
        /\ Range(Front(s)) = Range(s) \ {Last(s)}
        /\ IsInjective(Front(s))
    BY <1>1, <1>2, <1>3, RangeFront
  <2>3. /\ alloc(f).current = f.current
        /\ alloc(f).end = f.end
        /\ alloc(f).recycled = Front(s)
    BY <1>3, FieldsAfter
  <2> HIDE DEF s, p
  <2>4. p \in base .. f.current - 1 /\ p \notin owned
    BY <1>2, <2>1, <2>2
  <2>5. p \in base .. f.end - 1
    BY <1>1, <1>2, <2>4
  <2>6. /\ Range(Front(s)) \cap (owned \cup {p}) = {}
        /\ Range(Front(s)) \cup (owned \cup {p}) = base .. f.current - 1
    BY <1>2, <2>1, <2>2
  <2>7. Exact(alloc(f), base, owned \cup {p})
    BY <1>2, <2>2, <2>3, <2>6 DEF Exact
  <2> QED BY <2>4, <2>5, <2>7 DEF p
<1>4. CASE s = <<>>
  <2>1. p = f.current
    BY <1>4 DEF alloc_ppn
  <2>2. f.current # f.end
    BY <1>4 DEF can_alloc
  <2>3. /\ alloc(f).current = f.current + 1
        /\ alloc(f).end = f.end
        /\ alloc(f).recycled = s
    BY <1>4, FieldsAfter
  <2>4. Range(s) = {}
    BY <1>4, RangeEmpty
  <2> HIDE DEF s, p
  <2>5. p \in base .. f.end - 1 /\ f.current + 1 \in base .. f.end
    BY <1>1, <1>2, <2>1, <2>2
  <2>6. owned = base .. f.current - 1
    BY <1>2, <2>4
  <2>7. p \notin owned
    BY <1>1, <2>1, <2>6
  <2>8. base .. (f.current + 1) - 1 = (base .. f.current - 1) \cup {f.current}
    BY <1>1, <1>2
  <2>9. Exact(alloc(f), base, owned \cup {p})
    BY <1>2, <2>1, <2>3, <2>4, <2>5, <2>6, <2>8 DEF Exact
  <2> QED BY <2>5, <2>7, <2>9 DEF p
<1> QED
  BY <1>3, <1>4

(* The drop of a FrameTracker always passes the validity check of dealloc, *)
(* whose failure panics, and gives exactly that frame back.                *)
THEOREM DeallocExact ==
  ASSUME NEW f \in Allocator, NEW base \in Int, NEW owned,
         Exact(f, base, owned), NEW ppn \in owned
  PROVE  /\ dealloc_ok(f, ppn)
         /\ Exact(dealloc(f, ppn), base, owned \ {ppn})
<1> DEFINE s == f.recycled
<1>1. f.current \in Int /\ f.end \in Int /\ s \in Seq(Int)
  BY DEF Allocator
<1>2. /\ f.current \in base .. f.end
      /\ IsInjective(s)
      /\ Range(s) \cap owned = {}
      /\ Range(s) \cup owned = base .. f.current - 1
  BY DEF Exact
<1>3. ppn \in base .. f.current - 1 /\ ppn \notin Range(s)
  BY <1>2
<1>4. ppn \in Int /\ ppn < f.current
  BY <1>1, <1>3
<1>5. dealloc_ok(f, ppn)
  BY <1>3, <1>4 DEF dealloc_ok
<1>6. /\ dealloc(f, ppn).current = f.current
      /\ dealloc(f, ppn).end = f.end
      /\ dealloc(f, ppn).recycled = Append(s, ppn)
  BY <1>4, FieldsAfter
<1>7. Range(Append(s, ppn)) = Range(s) \cup {ppn} /\ IsInjective(Append(s, ppn))
  BY <1>1, <1>2, <1>3, <1>4, RangeAppend
<1> HIDE DEF s
<1>8. /\ Range(Append(s, ppn)) \cap (owned \ {ppn}) = {}
      /\ Range(Append(s, ppn)) \cup (owned \ {ppn}) = base .. f.current - 1
  BY <1>2, <1>7
<1>9. Exact(dealloc(f, ppn), base, owned \ {ppn})
  BY <1>2, <1>6, <1>7, <1>8 DEF Exact
<1> QED
  BY <1>5, <1>9

(* A frame of the range that nobody owns, freed already or never handed    *)
(* out, is refused: dealloc catches every double free.                     *)
THEOREM DoubleFreeRefused ==
  ASSUME NEW f \in Allocator, NEW base \in Int, NEW owned,
         Exact(f, base, owned), NEW ppn \in Int, base <= ppn, ppn \notin owned
  PROVE  ~dealloc_ok(f, ppn)
<1>1. f.current \in Int
  BY DEF Allocator
<1>2. Range(f.recycled) \cup owned = base .. f.current - 1
  BY DEF Exact
<1>3. CASE ppn < f.current
  <2>1. ppn \in base .. f.current - 1
    BY <1>1, <1>3
  <2> QED BY <1>2, <2>1 DEF dealloc_ok
<1>4. CASE ~(ppn < f.current)
  BY <1>4 DEF dealloc_ok
<1> QED
  BY <1>3, <1>4

(* frame_alloc answers None only when every frame of the range is owned:   *)
(* no frame is lost however often processes come and go.                   *)
THEOREM ExhaustedOnlyWhenAllOwned ==
  ASSUME NEW f \in Allocator, NEW base \in Int, NEW owned,
         Exact(f, base, owned), ~can_alloc(f)
  PROVE  owned = base .. f.end - 1
<1>1. f.recycled = <<>> /\ f.current = f.end
  BY DEF can_alloc
<1>2. Range(f.recycled) = {}
  BY <1>1, RangeEmpty
<1> QED
  BY <1>1, <1>2, Zenon DEF Exact

(* Both results are allocators again. *)
LEMMA AllocType ==
  ASSUME NEW f \in Allocator, NEW ppn \in Int
  PROVE  alloc(f) \in Allocator /\ dealloc(f, ppn) \in Allocator
<1>1. /\ f.recycled \in Seq(Int) /\ f.current \in Int /\ f.end \in Int
      /\ f = [current |-> f.current, end |-> f.end, recycled |-> f.recycled]
  BY DEF Allocator
<1>4. dealloc(f, ppn) \in Allocator
  <2>1. Append(f.recycled, ppn) \in Seq(Int)
    BY <1>1, AppendProperties
  <2>2. dealloc(f, ppn) = [f EXCEPT !.recycled = Append(f.recycled, ppn)]
    BY DEF dealloc
  <2> QED BY <1>1, <2>1, <2>2, Zenon DEF Allocator
<1>2. CASE f.recycled # <<>>
  <2>1. Front(f.recycled) \in Seq(Int)
    BY <1>1, <1>2, FrontProperties
  <2>2. alloc(f) = [f EXCEPT !.recycled = Front(f.recycled)]
    BY <1>2 DEF alloc
  <2> QED BY <1>1, <1>4, <2>1, <2>2, Zenon DEF Allocator
<1>3. CASE f.recycled = <<>>
  <2>1. alloc(f) = [f EXCEPT !.current = f.current + 1]
    BY <1>3 DEF alloc
  <2>2. f.current + 1 \in Int
    BY <1>1
  <2> DEFINE n == f.current + 1
  <2> HIDE DEF n
  <2>3. [f EXCEPT !.current = n] \in Allocator
    BY <2>2 DEF Allocator, n
  <2> QED BY <1>4, <2>1, <2>3 DEF n
<1> QED BY <1>2, <1>3, <1>4

(* A sequence with one element replaced. *)
LEMMA ExceptKeepsSeq ==
  ASSUME NEW S, NEW s \in Seq(S), NEW i \in DOMAIN s, NEW e \in S
  PROVE  /\ [s EXCEPT ![i] = e] \in Seq(S) /\ DOMAIN [s EXCEPT ![i] = e] = DOMAIN s
         /\ [s EXCEPT ![i] = e][i] = e
         /\ \A k \in DOMAIN s : k # i => [s EXCEPT ![i] = e][k] = s[k]
  OBVIOUS

(* A range of numbers is a sequence of numbers. *)
LEMMA UptoSeq ==
  ASSUME NEW lo \in Int, NEW hi \in Int
  PROVE  Upto(lo, hi) \in Seq(Int)
BY DEF Upto

-----------------------------------------------------------------------------
(* Builders.  Nothing below depends on what page tables contain.           *)

(* A builder has these fields. *)
IsBuilder(b) ==
  b = [fa |-> b.fa, mem |-> b.mem, panicked |-> b.panicked, at |-> b.at,
       root |-> b.root, frames |-> b.frames, areas |-> b.areas]

Area == [start : Int, end : Int, map_type : {"Identical", "Framed"},
         map_perm : SUBSET {"R", "W", "X", "U"}, data_frames : Seq(Int)]

Space == [root : Int, frames : Seq(Int), areas : Seq(Area)]

(* The types of a builder's fields; what memory contains is left open. *)
BuilderType(b) ==
  /\ IsBuilder(b)
  /\ b.fa \in Allocator /\ b.root \in Int
  /\ b.frames \in Seq(Int) /\ b.areas \in Seq(Area)

(* The trackers of b and of others are all there are, and no frame has two. *)
Holds(others, b) ==
  /\ BuilderType(b)
  /\ OwnedOnce(b)
  /\ Owned(b) \cap others = {}
  /\ Exact(b.fa, EKERNEL, Owned(b) \cup others)

(* r differs from b in memory, the table it is at and panics alone. *)
SameTrackers(b, r) ==
  /\ IsBuilder(r)
  /\ r.fa = b.fa /\ r.root = b.root /\ r.frames = b.frames /\ r.areas = b.areas

(* A step that leaves allocator and trackers alone keeps Holds. *)
LEMMA HoldsSame ==
  ASSUME NEW others, NEW b, NEW r, Holds(others, b), SameTrackers(b, r)
  PROVE  Holds(others, r)
<1>1. Owned(r) = Owned(b) /\ OwnedOnce(r) = OwnedOnce(b)
  BY DEF Owned, OwnedOnce, SameTrackers
<1> QED BY <1>1 DEF Holds, BuilderType, SameTrackers

(* The base of the allocator is a number. *)
LEMMA BaseInt == EKERNEL \in Nat /\ MEMORY_END \in Nat /\ EKERNEL <= MEMORY_END
BY MemoryAssumption

(* frame_alloc().unwrap(): a fresh frame, or a panic that changes nothing. *)
LEMMA FrameAlloc ==
  ASSUME NEW others, NEW b, Holds(others, b)
  PROVE  LET c == frame_alloc(b)
             p == alloc_ppn(b.fa)
         IN /\ IsBuilder(c)
            /\ c.root = b.root /\ c.frames = b.frames /\ c.areas = b.areas /\ c.at = b.at
            /\ can_alloc(b.fa) =>
                 /\ c.fa = alloc(b.fa) /\ c.fa \in Allocator /\ c.panicked = b.panicked
                 /\ p \in Int /\ p \notin Owned(b) /\ p \notin others
                 /\ Exact(c.fa, EKERNEL, Owned(b) \cup others \cup {p})
            /\ ~can_alloc(b.fa) => c.panicked # "no" /\ SameTrackers(b, c)
<1> DEFINE c == frame_alloc(b)
           p == alloc_ppn(b.fa)
<1>1. IsBuilder(b) /\ b.fa \in Allocator /\ Exact(b.fa, EKERNEL, Owned(b) \cup others)
  BY DEF Holds, BuilderType
<1>2. CASE can_alloc(b.fa)
  <2>1. c = [b EXCEPT !.fa = alloc(@), !.mem[p] = ZeroPage]
    BY <1>2 DEF frame_alloc
  <2>2. /\ IsBuilder(c) /\ c.fa = alloc(b.fa) /\ c.panicked = b.panicked /\ c.at = b.at
        /\ c.root = b.root /\ c.frames = b.frames /\ c.areas = b.areas
    <3> HIDE DEF c, p
    <3> QED BY <1>1, <2>1, Zenon DEF IsBuilder
  <2>3. /\ p \in EKERNEL .. b.fa.end - 1 /\ p \notin Owned(b) \cup others
        /\ Exact(alloc(b.fa), EKERNEL, Owned(b) \cup others \cup {p})
    <3> DEFINE all == Owned(b) \cup others
    <3>1. EKERNEL \in Int /\ Exact(b.fa, EKERNEL, all)
      BY <1>1, BaseInt
    <3> HIDE DEF all, p
    <3>2. /\ alloc_ppn(b.fa) \in EKERNEL .. b.fa.end - 1 /\ alloc_ppn(b.fa) \notin all
          /\ Exact(alloc(b.fa), EKERNEL, all \cup {alloc_ppn(b.fa)})
      BY <1>1, <1>2, <3>1, AllocFresh, Zenon
    <3> QED BY <3>2 DEF all, p
  <2>4. p \in Int /\ alloc(b.fa) \in Allocator
    <3>1. b.fa.end \in Int
      BY <1>1 DEF Allocator
    <3>2. p \in Int
      BY <2>3, <3>1, BaseInt
    <3>3. alloc(b.fa) \in Allocator
      BY <1>1, AllocType
    <3> QED BY <3>2, <3>3
  <2> HIDE DEF c, p
  <2> QED BY <1>2, <2>2, <2>3, <2>4 DEF c, p
<1>3. CASE ~can_alloc(b.fa)
  <2>1. c = [b EXCEPT !.panicked = "out of frames"]
    BY <1>3 DEF frame_alloc
  <2> HIDE DEF c
  <2>2. /\ IsBuilder(c) /\ c.fa = b.fa /\ c.panicked = "out of frames" /\ c.at = b.at
        /\ c.root = b.root /\ c.frames = b.frames /\ c.areas = b.areas
    BY <1>1, <2>1, Zenon DEF IsBuilder
  <2> QED BY <1>3, <2>2, Zenon DEF SameTrackers, c
<1> QED BY <1>2, <1>3

(* A frame just allocated joins the frames of the page table. *)
LEMMA JoinsTable ==
  ASSUME NEW others, NEW b, Holds(others, b), can_alloc(b.fa), NEW r, IsBuilder(r),
         r.fa = alloc(b.fa), r.root = b.root,
         r.frames = Append(b.frames, alloc_ppn(b.fa)), r.areas = b.areas
  PROVE  Holds(others, r)
<1> DEFINE p == alloc_ppn(b.fa)
<1>1. /\ r.fa \in Allocator /\ p \in Int /\ p \notin Owned(b) /\ p \notin others
      /\ Exact(r.fa, EKERNEL, Owned(b) \cup others \cup {p})
  BY FrameAlloc, ZenonT(30)
<1>2. b.frames \in Seq(Int) /\ b.areas \in Seq(Area) /\ b.root \in Int
  BY DEF Holds, BuilderType
<1>3. /\ r.frames \in Seq(Int)
      /\ Range(r.frames) = Range(b.frames) \cup {p}
      /\ IsInjective(b.frames) /\ p \notin Range(b.frames) => IsInjective(r.frames)
  BY <1>1, <1>2, RangeAppend, AppendProperties
<1> HIDE DEF p
<1>4. Owned(r) = Owned(b) \cup {p}
  BY <1>3 DEF Owned
<1>5. OwnedOnce(r)
  <2>1. OwnedOnce(b)
    BY DEF Holds
  <2>2. p \notin Range(b.frames) /\ \A k \in DOMAIN b.areas : p \notin DataFrames(b.areas[k])
    BY <1>1 DEF Owned
  <2> QED BY <1>3, <2>1, <2>2, Zenon DEF OwnedOnce
<1>6. Owned(r) \cap others = {} /\ Owned(r) \cup others = Owned(b) \cup others \cup {p}
  BY <1>1, <1>4 DEF Holds
<1> QED BY <1>1, <1>2, <1>3, <1>5, <1>6, Zenon DEF Holds, BuilderType

(* A frame just allocated joins the frames of an area. *)
LEMMA JoinsArea ==
  ASSUME NEW others, NEW b, Holds(others, b), can_alloc(b.fa), NEW r, IsBuilder(r),
         r.fa = alloc(b.fa), r.root = b.root, r.frames = b.frames,
         r.areas \in Seq(Area), DOMAIN r.areas = DOMAIN b.areas, NEW n \in DOMAIN b.areas,
         r.areas[n].data_frames = Append(b.areas[n].data_frames, alloc_ppn(b.fa)),
         \A k \in DOMAIN b.areas : k # n => r.areas[k] = b.areas[k]
  PROVE  Holds(others, r)
<1> DEFINE p == alloc_ppn(b.fa)
           old == b.areas[n]
           new == r.areas[n]
<1>1. /\ r.fa \in Allocator /\ p \in Int /\ p \notin Owned(b) /\ p \notin others
      /\ Exact(r.fa, EKERNEL, Owned(b) \cup others \cup {p})
  BY FrameAlloc, ZenonT(30)
<1>2. b.frames \in Seq(Int) /\ b.areas \in Seq(Area) /\ b.root \in Int
  BY DEF Holds, BuilderType
<1>3. old.data_frames \in Seq(Int)
  <2>1. n \in 1 .. Len(b.areas)
    BY <1>2, LenProperties
  <2>2. b.areas[n] \in Area
    BY <1>2, <2>1, ElementOfSeq
  <2> QED BY <2>2 DEF Area
<1> HIDE DEF p
<1>4. /\ Range(new.data_frames) = Range(old.data_frames) \cup {p}
      /\ IsInjective(old.data_frames) /\ p \notin Range(old.data_frames) =>
           IsInjective(new.data_frames)
  <2>1. new.data_frames = Append(old.data_frames, p)
    BY DEF p
  <2> HIDE DEF new, old
  <2> QED BY <1>1, <1>3, <2>1, RangeAppend
<1> DEFINE before(k) == DataFrames(b.areas[k])
           after(k) == DataFrames(r.areas[k])
           K == DOMAIN b.areas
<1>5. /\ after(n) = before(n) \cup {p}
      /\ \A k \in K : k # n => after(k) = before(k)
  BY <1>4 DEF DataFrames
<1>6. /\ Owned(b) = Range(b.frames) \cup UNION {before(k) : k \in K}
      /\ Owned(r) = Range(b.frames) \cup UNION {after(k) : k \in K}
  BY DEF Owned
<1>7. OwnedOnce(b)
  BY DEF Holds
<1>8. /\ IsInjective(new.data_frames)
      /\ \A k \in K : k # n => IsInjective(r.areas[k].data_frames)
  <2>1. p \notin Range(old.data_frames)
    BY <1>1, <1>6 DEF DataFrames
  <2>2. \A k \in K : IsInjective(b.areas[k].data_frames)
    BY <1>7 DEF OwnedOnce
  <2> QED BY <1>4, <2>1, <2>2, ZenonT(30)
<1>9. /\ \A k \in K : p \notin before(k) /\ before(k) \cap Range(b.frames) = {}
      /\ p \notin Range(b.frames)
      /\ \A j, k \in K : j # k => before(j) \cap before(k) = {}
  BY <1>1, <1>6, <1>7, ZenonT(30) DEF OwnedOnce
<1> HIDE DEF before, after
<1>10. Owned(r) = Owned(b) \cup {p}
  BY <1>5, <1>6
<1>11. /\ \A k \in K : after(k) \cap Range(b.frames) = {}
       /\ \A j, k \in K : j # k => after(j) \cap after(k) = {}
  BY <1>5, <1>9
<1>12. OwnedOnce(r)
  BY <1>7, <1>8, <1>11, ZenonT(30) DEF OwnedOnce, after
<1>13. Owned(r) \cap others = {} /\ Owned(r) \cup others = Owned(b) \cup others \cup {p}
  BY <1>1, <1>10 DEF Holds
<1> QED BY <1>1, <1>2, <1>12, <1>13, Zenon DEF Holds, BuilderType

(* find_pte_create, one level: the tracker of a new table joins frames. *)
LEMMA NextLevel ==
  ASSUME NEW others, NEW b, Holds(others, b), b.panicked = "no", NEW idx
  PROVE  Holds(others, next_level(b, idx)) /\ next_level(b, idx).areas = b.areas
<1> DEFINE c == frame_alloc(b)
           p == alloc_ppn(b.fa)
           r == next_level(b, idx)
<1>1. IsBuilder(b)
  BY DEF Holds, BuilderType
<1>2. CASE is_valid(b.mem[b.at][idx])
  <2>1. r = [b EXCEPT !.at = b.mem[b.at][idx].ppn]
    BY <1>2 DEF next_level
  <2> HIDE DEF r
  <2>2. SameTrackers(b, r)
    BY <1>1, <2>1 DEF IsBuilder, SameTrackers
  <2> QED BY <2>2, HoldsSame DEF SameTrackers, r
<1>3. CASE ~is_valid(b.mem[b.at][idx]) /\ ~can_alloc(b.fa)
  <2>1. SameTrackers(b, c) /\ c.panicked # "no"
    BY <1>3, FrameAlloc, Zenon
  <2>2. r = c
    BY <1>3, <2>1 DEF next_level, Then
  <2> QED BY <2>1, <2>2, HoldsSame DEF SameTrackers
<1>4. CASE ~is_valid(b.mem[b.at][idx]) /\ can_alloc(b.fa)
  <2>1. /\ IsBuilder(c) /\ c.fa = alloc(b.fa) /\ c.panicked = "no"
        /\ c.root = b.root /\ c.frames = b.frames /\ c.areas = b.areas
    BY <1>4, FrameAlloc, ZenonT(30)
  <2>2. r = [c EXCEPT !.mem[b.at][idx] = [ppn |-> p, flags |-> {"V"}],
                      !.frames = Append(@, p), !.at = p]
    BY <1>4, <2>1, Zenon DEF next_level, Then
  <2> HIDE DEF r, c, p
  <2>3. /\ IsBuilder(r) /\ r.fa = c.fa /\ r.root = c.root
        /\ r.frames = Append(c.frames, p) /\ r.areas = c.areas
    BY <2>1, <2>2, Zenon DEF IsBuilder
  <2> QED BY <1>4, <2>1, <2>3, JoinsTable DEF p, r
<1> QED BY <1>2, <1>3, <1>4

(* PageTable::map keeps the books, and touches no area. *)
LEMMA MapHolds ==
  ASSUME NEW others, NEW b, Holds(others, b), b.panicked = "no",
         NEW vpn, NEW ppn, NEW flags
  PROVE  Holds(others, map(b, vpn, ppn, flags)) /\ map(b, vpn, ppn, flags).areas = b.areas
<1> DEFINE start == [b EXCEPT !.at = b.root]
           level1 == next_level(start, indexes(vpn)[1])
           c == find_pte_create(b, vpn)
           r == map(b, vpn, ppn, flags)
<1>1. Holds(others, start) /\ start.areas = b.areas /\ start.panicked = "no"
  <2>1. IsBuilder(b)
    BY DEF Holds, BuilderType
  <2>2. SameTrackers(b, start) /\ start.panicked = "no"
    BY <2>1 DEF IsBuilder, SameTrackers
  <2> HIDE DEF start
  <2> QED BY <2>2, HoldsSame DEF SameTrackers
<1> HIDE DEF start
<1>2. Holds(others, level1) /\ level1.areas = b.areas
  BY <1>1, NextLevel
<1>3. Holds(others, c) /\ c.areas = b.areas
  <2>1. c = Then(level1, next_level(level1, indexes(vpn)[2]))
    BY Zenon DEF find_pte_create, start
  <2> HIDE DEF level1, c
  <2>2. CASE level1.panicked = "no"
    <3>1. c = next_level(level1, indexes(vpn)[2])
      BY <2>1, <2>2 DEF Then
    <3> QED BY <1>2, <2>2, <3>1, NextLevel
  <2>3. CASE level1.panicked # "no"
    BY <1>2, <2>1, <2>3 DEF Then
  <2> QED BY <2>2, <2>3
<1>4. IsBuilder(c)
  BY <1>3 DEF Holds, BuilderType
<1>5. \/ r = c
      \/ r = [c EXCEPT !.panicked = "mapped before mapping"]
      \/ r = [c EXCEPT !.mem[c.at][indexes(vpn)[3]] = [ppn |-> ppn, flags |-> flags \cup {"V"}]]
  BY Zenon DEF map, Then
<1> HIDE DEF r, c
<1>6. SameTrackers(c, r)
  BY <1>4, <1>5, Zenon DEF IsBuilder, SameTrackers
<1> QED BY <1>3, <1>6, HoldsSame DEF SameTrackers, r

(* r has the areas of b, with the same ranges of pages. *)
SameRanges(b, r) ==
  /\ Len(r.areas) = Len(b.areas)
  /\ \A k \in 1 .. Len(b.areas) : r.areas[k].start = b.areas[k].start

(* MapArea::map_one: the tracker of a framed page joins the last area. *)
LEMMA MapOneHolds ==
  ASSUME NEW others, NEW b, Holds(others, b), b.panicked = "no", b.areas # <<>>, NEW vpn
  PROVE  Holds(others, map_one(b, vpn)) /\ SameRanges(b, map_one(b, vpn))
<1> DEFINE n == Len(b.areas)
           p == alloc_ppn(b.fa)
           c == frame_alloc(b)
           framed == [c EXCEPT !.areas[n].data_frames = Append(@, p)]
           r == map_one(b, vpn)
<1>1. b.areas \in Seq(Area) /\ IsBuilder(b)
  BY DEF Holds, BuilderType
<1>2. n \in 1 .. n /\ n \in Nat /\ DOMAIN b.areas = 1 .. n
  BY <1>1, LenProperties, EmptySeq
<1>3. CASE b.areas[n].map_type = "Identical"
  <2>1. r = map(b, vpn, vpn, b.areas[n].map_perm)
    BY <1>3, Zenon DEF map_one
  <2> HIDE DEF r
  <2>2. Holds(others, r) /\ r.areas = b.areas
    BY <2>1, MapHolds
  <2> QED BY <2>2 DEF SameRanges, r
<1>4. CASE b.areas[n].map_type # "Identical" /\ ~can_alloc(b.fa)
  <2>1. SameTrackers(b, c) /\ c.panicked # "no"
    BY <1>4, FrameAlloc, Zenon
  <2>2. r = c
    BY <1>4, <2>1 DEF map_one, Then
  <2> QED BY <2>1, <2>2, HoldsSame DEF SameTrackers, SameRanges
<1>5. CASE b.areas[n].map_type # "Identical" /\ can_alloc(b.fa)
  <2>1. /\ IsBuilder(c) /\ c.fa = alloc(b.fa) /\ c.panicked = "no" /\ p \in Int
        /\ c.root = b.root /\ c.frames = b.frames /\ c.areas = b.areas
    BY <1>5, FrameAlloc, ZenonT(30)
  <2>2. r = map(framed, vpn, p, b.areas[n].map_perm)
    BY <1>5, <2>1, Zenon DEF map_one, Then
  <2> DEFINE new == [b.areas[n] EXCEPT !.data_frames = Append(@, p)]
  <2>3. /\ IsBuilder(framed) /\ framed.fa = c.fa /\ framed.root = c.root
        /\ framed.frames = c.frames /\ framed.panicked = c.panicked
        /\ framed.areas = [b.areas EXCEPT ![n] = new]
    <3> DEFINE areas == [b.areas EXCEPT ![n] = new]
    <3>1. framed = [c EXCEPT !.areas = areas]
      BY <2>1
    <3> HIDE DEF c, n, p, areas, framed
    <3> QED BY <2>1, <3>1, Zenon DEF IsBuilder, areas
  <2>4. /\ new \in Area /\ new.start = b.areas[n].start
        /\ new.data_frames = Append(b.areas[n].data_frames, p)
    <3>1. b.areas[n] \in Area
      BY <1>1, <1>2, ElementOfSeq
    <3> DEFINE old == b.areas[n]
    <3>2. Append(old.data_frames, p) \in Seq(Int)
      BY <2>1, <3>1, AppendProperties DEF Area
    <3> HIDE DEF old, p
    <3> QED BY <3>1, <3>2, ZenonT(30) DEF Area, old
  <2> HIDE DEF new
  <2>5. /\ framed.areas \in Seq(Area) /\ DOMAIN framed.areas = DOMAIN b.areas
        /\ framed.areas[n] = new /\ \A k \in DOMAIN b.areas : k # n => framed.areas[k] = b.areas[k]
    <3> DEFINE s == b.areas
    <3> HIDE DEF n, s, framed
    <3> QED BY <1>1, <1>2, <2>3, <2>4, ExceptKeepsSeq DEF s
  <2> HIDE DEF framed, r, c
  <2>6. Holds(others, framed)
    <3>1. /\ IsBuilder(framed) /\ framed.fa = alloc(b.fa) /\ framed.root = b.root
          /\ framed.frames = b.frames
      BY <2>1, <2>3
    <3>2. framed.areas[n].data_frames = Append(b.areas[n].data_frames, alloc_ppn(b.fa))
      BY <2>4, <2>5
    <3>3. n \in DOMAIN b.areas
      BY <1>2
    <3> HIDE DEF n, p
    <3> QED BY <1>5, <2>5, <3>1, <3>2, <3>3, JoinsArea
  <2>7. Holds(others, r) /\ r.areas = framed.areas
    BY <2>1, <2>2, <2>3, <2>6, MapHolds
  <2>8. SameRanges(b, r)
    <3>1. Len(framed.areas) = n
      BY <1>1, <1>2, <2>5, LenProperties
    <3> QED BY <1>2, <2>4, <2>5, <2>7, <3>1 DEF SameRanges
  <2> QED BY <2>7, <2>8 DEF r
<1> QED BY <1>3, <1>4, <1>5

-----------------------------------------------------------------------------
(* What the loops that build a memory set keep.                            *)

(* b holds what others leave, with the ranges of pages of q.from, and has  *)
(* a last area.                                                            *)
BuildInv(q, b) == Holds(q.others, b) /\ SameRanges(q.from, b) /\ b.areas # <<>>

(* The last area stays through steps that keep the ranges. *)
LEMMA BuildStep ==
  ASSUME NEW others, NEW from, NEW b, NEW r,
         BuildInv([others |-> others, from |-> from], b), Holds(others, r), SameRanges(b, r)
  PROVE  BuildInv([others |-> others, from |-> from], r)
<1>1. Holds(others, b) /\ SameRanges(from, b) /\ b.areas # <<>>
  BY DEF BuildInv
<1>2. SameRanges(from, r)
  BY <1>1 DEF SameRanges
<1>3. r.areas # <<>>
  <2>1. b.areas \in Seq(Area) /\ r.areas \in Seq(Area)
    BY <1>1 DEF Holds, BuilderType
  <2> QED BY <1>1, <2>1, EmptySeq DEF SameRanges
<1> QED BY <1>2, <1>3 DEF BuildInv

(* The builder a loop starts from. *)
LEMMA BuildStart ==
  ASSUME NEW others, NEW b, Holds(others, b), b.areas # <<>>
  PROVE  BuildInv([others |-> others, from |-> b], b)
BY DEF BuildInv, SameRanges

(* A copy of words changes memory alone. *)
LEMMA CopyHolds ==
  ASSUME NEW others, NEW b, Holds(others, b), NEW ppn, NEW page
  PROVE  /\ Holds(others, [b EXCEPT !.mem[ppn] = page])
         /\ SameRanges(b, [b EXCEPT !.mem[ppn] = page])
<1> DEFINE r == [b EXCEPT !.mem[ppn] = page]
<1>1. IsBuilder(b)
  BY DEF Holds, BuilderType
<1>2. SameTrackers(b, r)
  BY <1>1 DEF IsBuilder, SameTrackers
<1> HIDE DEF r
<1>3. Holds(others, r) /\ SameRanges(b, r)
  BY <1>2, HoldsSame DEF SameTrackers, SameRanges
<1> QED BY <1>3 DEF r

(* MapArea::new owns no frame. *)
LEMMA MapAreaType ==
  ASSUME NEW start \in Int, NEW end \in Int, NEW map_type \in {"Identical", "Framed"},
         NEW map_perm \in SUBSET {"R", "W", "X", "U"}
  PROVE  LET area == MapArea(start, end, map_type, map_perm)
         IN area \in Area /\ area.data_frames = <<>> /\ area.start = start
<1>1. <<>> \in Seq(Int)
  OBVIOUS
<1> QED BY <1>1 DEF MapArea, Area

(* new_bare and map_trampoline: the root table is the first tracker. *)
LEMMA TrampolineHolds ==
  ASSUME NEW f \in Allocator, NEW others, Exact(f, EKERNEL, others), NEW m
  PROVE  Holds(others, with_trampoline(f, m))
<1> DEFINE root == alloc_ppn(f)
           b == [fa |-> f, mem |-> m, panicked |-> "no", at |-> root,
                 root |-> root, frames |-> <<>>, areas |-> <<>>]
           frame == frame_alloc(b)
           bare == [frame EXCEPT !.frames = <<root>>]
           r == with_trampoline(f, m)
<1>1. r = IF frame.panicked = "no" THEN map(bare, TRAMPOLINE, strampoline, {"R", "X"}) ELSE frame
  BY Zenon DEF with_trampoline, Then
<1>2. root \in Int
  <2>1. f.current \in Int /\ f.recycled \in Seq(Int)
    BY DEF Allocator
  <2>2. f.recycled # <<>> => Last(f.recycled) \in Int
    BY <2>1 DEF Last
  <2> QED BY <2>1, <2>2 DEF alloc_ppn
<1>3. Holds(others, b)
  <2>1. BuilderType(b)
    BY <1>2 DEF BuilderType, IsBuilder
  <2>2. Owned(b) = {} /\ OwnedOnce(b)
    <3>1. Range(<<>>) = {} /\ IsInjective(<<>>) /\ DOMAIN b.areas = {} /\ b.frames = <<>>
      BY RangeEmpty
    <3> HIDE DEF b
    <3> QED BY <3>1 DEF Owned, OwnedOnce
  <2>3. b.fa = f
    OBVIOUS
  <2> HIDE DEF b
  <2> QED BY <2>1, <2>2, <2>3 DEF Holds
<1>4. b.fa = f /\ b.root = root /\ b.frames = <<>> /\ b.areas = <<>> /\ b.panicked = "no"
  OBVIOUS
<1> HIDE DEF b
<1>5. CASE ~can_alloc(f)
  <2>1. SameTrackers(b, frame) /\ frame.panicked # "no"
    BY <1>3, <1>4, <1>5, FrameAlloc, ZenonT(30)
  <2> QED BY <1>1, <1>3, <2>1, HoldsSame
<1>6. CASE can_alloc(f)
  <2>1. /\ IsBuilder(frame) /\ frame.fa = alloc(f) /\ frame.panicked = "no"
        /\ frame.root = root /\ frame.areas = <<>>
    BY <1>3, <1>4, <1>6, FrameAlloc, ZenonT(30)
  <2> HIDE DEF frame, root
  <2>2. /\ IsBuilder(bare) /\ bare.fa = alloc(f) /\ bare.panicked = "no"
        /\ bare.root = root /\ bare.areas = <<>> /\ bare.frames = Append(<<>>, root)
    BY <2>1 DEF IsBuilder
  <2> HIDE DEF bare
  <2>3. Holds(others, bare)
    BY <1>3, <1>4, <1>6, <2>2, JoinsTable, Zenon DEF root
  <2> QED BY <1>1, <2>1, <2>2, <2>3, MapHolds
<1> QED BY <1>5, <1>6

(* The areas of a program own no frame yet. *)
LEMMA UserAreasType ==
  ASSUME NEW elf \in Program
  PROVE  /\ user_areas(elf) \in Seq([area : {a \in Area : a.data_frames = <<>>}, data : Seq(Entry)])
<1> DEFINE stack == Last(elf).end + 1
           Fresh == {a \in Area : a.data_frames = <<>>}
           UA == [area : Fresh, data : Seq(Entry)]
           seg(k) == [area |-> MapArea(elf[k].start, elf[k].end, "Framed", elf[k].flags \cup {"U"}),
                      data |-> elf[k].data]
           segs == [k \in DOMAIN elf |-> seg(k)]
           stk == [area |-> MapArea(stack, stack + STACK_PAGES, "Framed", {"R", "W", "U"}), data |-> <<>>]
           cx == [area |-> MapArea(TRAP_CONTEXT, TRAMPOLINE, "Framed", {"R", "W"}), data |-> <<>>]
<1>1. user_areas(elf) = segs \o <<stk, cx>>
  BY Zenon DEF user_areas
<1>2. elf \in Seq(Segment) /\ elf # <<>> /\ STACK_PAGES \in Nat
  BY MemoryAssumption
<1>3. DOMAIN elf = 1 .. Len(elf) /\ Len(elf) \in Nat /\ Len(elf) # 0
  BY <1>2, LenProperties, EmptySeq
<1>4. ASSUME NEW k \in DOMAIN elf
      PROVE  seg(k) \in UA
  <2>1. elf[k] \in Segment
    BY <1>2, <1>3, ElementOfSeq
  <2>2. /\ elf[k].start \in Int /\ elf[k].end \in Int /\ elf[k].data \in Seq(Entry)
        /\ elf[k].flags \cup {"U"} \in SUBSET {"R", "W", "X", "U"}
    BY <2>1 DEF Segment
  <2>3. MapArea(elf[k].start, elf[k].end, "Framed", elf[k].flags \cup {"U"}) \in Fresh
    BY <2>2, MapAreaType
  <2> QED BY <2>2, <2>3
<1>5. segs \in Seq(UA)
  <2> HIDE DEF UA, seg
  <2> QED BY <1>3, <1>4
<1>6. stack \in Int
  <2>1. Last(elf) = elf[Len(elf)] /\ Len(elf) \in 1 .. Len(elf)
    BY <1>3 DEF Last
  <2>2. elf[Len(elf)] \in Segment
    BY <1>2, <2>1, ElementOfSeq
  <2> QED BY <2>1, <2>2 DEF Segment
<1>7. stk \in UA
  <2>1. MapArea(stack, stack + STACK_PAGES, "Framed", {"R", "W", "U"}) \in Fresh
    <3> HIDE DEF stack
    <3> QED BY <1>2, <1>6, MapAreaType
  <2> QED BY <2>1
<1>8. cx \in UA
  <2>1. TRAP_CONTEXT \in Int /\ TRAMPOLINE \in Int
    BY MemoryAssumption DEF TRAP_CONTEXT, TRAMPOLINE
  <2>2. MapArea(TRAP_CONTEXT, TRAMPOLINE, "Framed", {"R", "W"}) \in Fresh
    BY <2>1, MapAreaType
  <2> QED BY <2>2
<1> HIDE DEF UA, segs, stk, cx
<1>9. <<stk, cx>> \in Seq(UA)
  BY <1>7, <1>8
<1>10. segs \o <<stk, cx>> \in Seq(UA)
  BY <1>5, <1>9
<1> QED BY <1>1, <1>10 DEF UA

-----------------------------------------------------------------------------
(* What the loops that give frames out and back keep.                      *)

(* The elements of seq behind the first k. *)
Rest(seq, k) == {seq[j] : j \in k + 1 .. Len(seq)}

(* Unless b panicked, its allocator agrees with the trackers of owned. *)
Books(b, owned) == b.panicked = "no" => Exact(b.fa, EKERNEL, owned)

(* r differs from b in allocator and memory, and perhaps by a panic. *)
Dropped(b, r) ==
  /\ IsBuilder(r) /\ r.fa \in Allocator
  /\ r.root = b.root /\ r.frames = b.frames /\ r.areas = b.areas

FramesInv(q, k, b) == Dropped(q.from, b) /\ Books(b, q.keep \cup Rest(q.frames, k))
AreasInv(q, k, b) ==
  /\ Dropped(q.from, b)
  /\ Books(b, q.keep \cup UNION {DataFrames(q.areas[j]) : j \in k + 1 .. Len(q.areas)})

(* One element fewer. *)
LEMMA RestStep ==
  ASSUME NEW S, NEW seq \in Seq(S)
  PROVE  /\ Rest(seq, 0) = Range(seq)
         /\ Rest(seq, Len(seq)) = {}
         /\ \A k \in 1 .. Len(seq) :
              /\ seq[k] \in Rest(seq, k - 1)
              /\ IsInjective(seq) => Rest(seq, k - 1) \ {seq[k]} = Rest(seq, k)
<1>1. Len(seq) \in Nat /\ DOMAIN seq = 1 .. Len(seq)
  BY LenProperties
<1>2. Rest(seq, 0) = Range(seq)
  BY <1>1 DEF Rest, Range
<1>3. Rest(seq, Len(seq)) = {}
  BY <1>1 DEF Rest
<1>4. ASSUME NEW k \in 1 .. Len(seq)
      PROVE  /\ seq[k] \in Rest(seq, k - 1)
             /\ IsInjective(seq) => Rest(seq, k - 1) \ {seq[k]} = Rest(seq, k)
  <2>1. k - 1 + 1 .. Len(seq) = {k} \cup (k + 1 .. Len(seq))
    BY <1>1
  <2>2. \A j \in k + 1 .. Len(seq) : j # k /\ j \in DOMAIN seq /\ k \in DOMAIN seq
    BY <1>1
  <2>3. Rest(seq, k - 1) = {seq[k]} \cup Rest(seq, k)
    BY <2>1 DEF Rest
  <2>4. IsInjective(seq) => seq[k] \notin Rest(seq, k)
    BY <2>2 DEF Rest, IsInjective
  <2> QED BY <2>3, <2>4
<1> QED BY <1>2, <1>3, <1>4

(* The drop of one FrameTracker. *)
LEMMA FrameDealloc ==
  ASSUME NEW b, IsBuilder(b), b.fa \in Allocator, b.panicked = "no", NEW owned,
         Exact(b.fa, EKERNEL, owned), NEW ppn \in owned, ppn \in Int
  PROVE  LET r == frame_dealloc(b, ppn)
         IN /\ Dropped(b, r) /\ r.panicked = "no"
            /\ Exact(r.fa, EKERNEL, owned \ {ppn})
<1> DEFINE r == frame_dealloc(b, ppn)
<1>1. dealloc_ok(b.fa, ppn) /\ Exact(dealloc(b.fa, ppn), EKERNEL, owned \ {ppn})
  BY BaseInt, DeallocExact
<1>2. r = [b EXCEPT !.fa = dealloc(b.fa, ppn)]
  BY <1>1 DEF frame_dealloc
<1>3. dealloc(b.fa, ppn) \in Allocator
  BY AllocType
<1> HIDE DEF r
<1>4. /\ IsBuilder(r) /\ r.fa = dealloc(b.fa, ppn) /\ r.panicked = "no"
      /\ r.root = b.root /\ r.frames = b.frames /\ r.areas = b.areas
  BY <1>2 DEF IsBuilder
<1> QED BY <1>1, <1>3, <1>4 DEF Dropped, r

(* No frame is in two of the areas, and none of theirs in keep. *)
Apart(areas, keep) ==
  \A k \in DOMAIN areas :
    /\ IsInjective(areas[k].data_frames)
    /\ DataFrames(areas[k]) \cap keep = {}
    /\ \A j \in DOMAIN areas : j # k => DataFrames(areas[j]) \cap DataFrames(areas[k]) = {}

AllFrames(areas) == UNION {DataFrames(areas[k]) : k \in DOMAIN areas}

(* unmap changes memory or panics. *)
LEMMA UnmapSame ==
  ASSUME NEW b, IsBuilder(b), NEW vpn
  PROVE  SameTrackers(b, unmap(b, vpn))
<1> DEFINE at == CHOOSE a \in find_pte(b.mem, b.root, vpn) : TRUE
           i == at[1]
           j == at[2]
           c == [b EXCEPT !.mem[i][j] = Value(0)]
           d == [b EXCEPT !.panicked = "invalid before unmapping"]
<1>1. unmap(b, vpn) = c \/ unmap(b, vpn) = d
  BY Zenon DEF unmap
<1>2. c = [b EXCEPT !.mem[i][j] = Value(0)] /\ d = [b EXCEPT !.panicked = "invalid before unmapping"]
  OBVIOUS
<1> HIDE DEF i, j, c, d
<1>3. SameTrackers(b, c)
  BY <1>2, Zenon DEF SameTrackers, IsBuilder
<1>4. SameTrackers(b, d)
  BY <1>2, ZenonT(30) DEF SameTrackers, IsBuilder
<1> QED BY <1>1, <1>3, <1>4

(* Fewer areas own fewer frames. *)
LEMMA RemoveArea ==
  ASSUME NEW s, s.areas \in Seq(Area), OwnedOnce(s), NEW i \in DOMAIN s.areas,
         NEW r, r.frames = s.frames, r.areas = RemoveAt(s.areas, i)
  PROVE  /\ r.areas \in Seq(Area)
         /\ OwnedOnce(r)
         /\ Owned(s) = Owned(r) \cup DataFrames(s.areas[i])
         /\ Owned(r) \cap DataFrames(s.areas[i]) = {}
         /\ \A k \in DOMAIN s.areas : k # i => \E j \in DOMAIN r.areas : r.areas[j] = s.areas[k]
<1> DEFINE n == Len(s.areas)
           old(j) == IF j < i THEN j ELSE j + 1
<1>1. n \in Nat /\ DOMAIN s.areas = 1 .. n /\ i \in 1 .. n
  BY LenProperties
<1>2. r.areas \in Seq(Area) /\ Len(r.areas) = n - 1
  BY <1>1, RemoveAtProperties, Zenon
<1>3. DOMAIN r.areas = 1 .. n - 1
  BY <1>2, LenProperties
<1>4. \A j \in DOMAIN r.areas : r.areas[j] = s.areas[old(j)]
  BY <1>1, <1>3, RemoveAtProperties, ZenonT(30)
<1>5. \A j \in DOMAIN r.areas : old(j) \in DOMAIN s.areas /\ old(j) # i
  BY <1>1, <1>3
<1>6. \A j, k \in DOMAIN r.areas : j # k => old(j) # old(k)
  BY <1>1, <1>3
<1>7. \A k \in DOMAIN s.areas : k # i => \E j \in DOMAIN r.areas : old(j) = k
  <2> SUFFICES ASSUME NEW k \in DOMAIN s.areas, k # i
               PROVE  \E j \in DOMAIN r.areas : old(j) = k
    OBVIOUS
  <2>1. CASE k < i
    <3>1. k \in DOMAIN r.areas /\ old(k) = k
      BY <1>1, <1>3, <2>1
    <3> QED BY <3>1
  <2>2. CASE ~(k < i)
    <3>1. k - 1 \in DOMAIN r.areas /\ old(k - 1) = k
      BY <1>1, <1>3, <2>2
    <3> QED BY <3>1
  <2> QED BY <2>1, <2>2
<1> HIDE DEF old
<1>8. OwnedOnce(r)
  BY <1>4, <1>5, <1>6, ZenonT(30) DEF OwnedOnce
<1>9. Owned(s) = Owned(r) \cup DataFrames(s.areas[i])
  BY <1>4, <1>5, <1>7 DEF Owned
<1>10. Owned(r) \cap DataFrames(s.areas[i]) = {}
  <2>1. \A j \in DOMAIN r.areas : DataFrames(r.areas[j]) \cap DataFrames(s.areas[i]) = {}
    BY <1>4, <1>5, ZenonT(30) DEF OwnedOnce
  <2>2. Range(r.frames) \cap DataFrames(s.areas[i]) = {}
    BY DEF OwnedOnce
  <2> QED BY <2>1, <2>2 DEF Owned
<1> QED BY <1>2, <1>4, <1>7, <1>8, <1>9, <1>10

(* An area begins at the page. *)
HasArea(b, page) == \E k \in DOMAIN b.areas : b.areas[k].start = page

(* The state of dma_alloc's loop; others own the other frames. *)
QueueInv(others, k, b) ==
  /\ b = [fa |-> b.fa, mem |-> b.mem, panicked |-> b.panicked, queue |-> b.queue]
  /\ b.fa \in Allocator
  /\ b.queue \in Seq(Int) /\ IsInjective(b.queue) /\ Range(b.queue) \cap others = {}
  /\ Exact(b.fa, EKERNEL, others \cup Range(b.queue))

(* One more page of the queue, or a panic. *)
LEMMA QueueStep ==
  ASSUME NEW others, NEW b, QueueInv(others, 0, b), b.panicked = "no", NEW i
  PROVE  QueueInv(others, 0, next_queue_page(b, i))
<1> DEFINE p == alloc_ppn(b.fa)
           f == frame_alloc(b)
           c == [f EXCEPT !.queue = Append(@, p)]
           d == [c EXCEPT !.panicked = "queue"]
           owned == others \cup Range(b.queue)
<1>1. /\ f.panicked = "no" => next_queue_page(b, i) \in {c, d}
      /\ f.panicked # "no" => next_queue_page(b, i) = f
  BY DEF next_queue_page, Then
<1>2. /\ b = [fa |-> b.fa, mem |-> b.mem, panicked |-> b.panicked, queue |-> b.queue]
      /\ b.fa \in Allocator /\ b.queue \in Seq(Int) /\ IsInjective(b.queue)
      /\ Range(b.queue) \cap others = {} /\ Exact(b.fa, EKERNEL, owned)
  BY DEF QueueInv
<1>3. CASE ~can_alloc(b.fa)
  <2>1. f = [b EXCEPT !.panicked = "out of frames"]
    BY <1>3 DEF frame_alloc
  <2> HIDE DEF f
  <2>2. /\ f = [fa |-> f.fa, mem |-> f.mem, panicked |-> f.panicked, queue |-> f.queue]
        /\ f.fa = b.fa /\ f.queue = b.queue /\ f.panicked # "no"
    BY <1>2, <2>1, Zenon
  <2>3. next_queue_page(b, i) = f
    BY <1>1, <2>2
  <2> QED BY <1>2, <2>2, <2>3, Zenon DEF QueueInv
<1>4. CASE can_alloc(b.fa)
  <2>1. f = [b EXCEPT !.fa = alloc(@), !.mem[p] = ZeroPage]
    BY <1>4 DEF frame_alloc
  <2>2. /\ p \in EKERNEL .. b.fa.end - 1 /\ p \notin owned
        /\ Exact(alloc(b.fa), EKERNEL, owned \cup {p})
    <3> HIDE DEF owned, p
    <3>1. /\ alloc_ppn(b.fa) \in EKERNEL .. b.fa.end - 1 /\ alloc_ppn(b.fa) \notin owned
          /\ Exact(alloc(b.fa), EKERNEL, owned \cup {alloc_ppn(b.fa)})
      <4>1. EKERNEL \in Int
        BY BaseInt
      <4> QED BY <1>2, <1>4, <4>1, AllocFresh
    <3> QED BY <3>1 DEF p
  <2>3. p \in Int /\ alloc(b.fa) \in Allocator
    <3>1. b.fa.end \in Int
      BY <1>2 DEF Allocator
    <3>2. p \in Int
      BY <2>2, <3>1, BaseInt
    <3>3. alloc(b.fa) \in Allocator
      BY <1>2, <3>2, AllocType
    <3> QED BY <3>2, <3>3
  <2> DEFINE longer == Append(b.queue, p)
  <2>4. longer \in Seq(Int) /\ Range(longer) = Range(b.queue) \cup {p} /\ IsInjective(longer)
    BY <1>2, <2>2, <2>3, RangeAppend
  <2> HIDE DEF p
  <2>5. c = [f EXCEPT !.queue = Append(f.queue, p)] /\ d = [c EXCEPT !.panicked = "queue"]
    OBVIOUS
  <2> HIDE DEF f, c, d
  <2>6. /\ f = [fa |-> f.fa, mem |-> f.mem, panicked |-> f.panicked, queue |-> f.queue]
        /\ f.fa = alloc(b.fa) /\ f.queue = b.queue /\ f.panicked = b.panicked
    BY <1>2, <2>1, Zenon
  <2>7. /\ c = [fa |-> c.fa, mem |-> c.mem, panicked |-> c.panicked, queue |-> c.queue]
        /\ c.fa = alloc(b.fa) /\ c.queue = longer
    BY <2>5, <2>6, Zenon
  <2>8. /\ d = [fa |-> d.fa, mem |-> d.mem, panicked |-> d.panicked, queue |-> d.queue]
        /\ d.fa = alloc(b.fa) /\ d.queue = longer
    BY <2>5, <2>7, ZenonT(30)
  <2> HIDE DEF longer
  <2>9. owned \cup {p} = others \cup Range(longer) /\ Range(longer) \cap others = {}
    BY <1>2, <2>2, <2>4
  <2>10. QueueInv(others, 0, c)
    BY <2>2, <2>3, <2>4, <2>7, <2>9, Zenon DEF QueueInv
  <2>11. QueueInv(others, 0, d)
    BY <2>2, <2>3, <2>4, <2>8, <2>9, ZenonT(30) DEF QueueInv
  <2> QED BY <1>1, <2>6, <2>10, <2>11
<1> QED BY <1>3, <1>4

-----------------------------------------------------------------------------
(* The invariant.                                                          *)

(* FramesExact of any allocator, kernel space, queue and user spaces. *)
Parts(f, k, q, sp) ==
  /\ OwnedOnce(k) /\ IsInjective(q)
  /\ \A t \in Pid : OwnedOnce(sp[t])
  /\ Owned(k) \cap Range(q) = {}
  /\ (UNION {Owned(sp[t]) : t \in Pid}) \cap (Owned(k) \cup Range(q)) = {}
  /\ \A t, u \in Pid : t # u => Owned(sp[t]) \cap Owned(sp[u]) = {}
  /\ Exact(f, EKERNEL, Owned(k) \cup Range(q) \cup UNION {Owned(sp[t]) : t \in Pid})

(* The frames of the driver and of every TCB but t's. *)
Others(q, sp, t) == Range(q) \cup UNION {Owned(sp[u]) : u \in Pid \ {t}}

(* Every TCB has its kernel stack among the areas of the kernel. *)
StacksMapped ==
  panicked = "no" =>
    \A t \in Pid : task[t] # "free" => HasArea(kernel, kernel_stack_bottom(t))

(* The inductive invariant: FramesExact, that a free slot owns nothing,    *)
(* and that the area the drop of a kernel stack looks for exists.          *)
MemoryInv ==
  /\ fa \in Allocator /\ kernel \in Space /\ queue_frames \in Seq(Int)
  /\ space \in [Pid -> Space]
  /\ task \in [Pid -> {"free", "live", "zombie"}]
  /\ \A t \in Pid : task[t] = "free" => space[t] = NoSpace
  /\ StacksMapped
  /\ FramesExact

(* FramesExact is about the variables. *)
LEMMA FramesExactParts == FramesExact <=> Parts(fa, kernel, queue_frames, space)
BY Zenon DEF FramesExact, Parts, TaskFrames

(* What FramesExact says of one TCB. *)
LEMMA Split ==
  ASSUME NEW f, NEW k, NEW q, NEW sp, NEW t \in Pid, Parts(f, k, q, sp)
  PROVE  /\ OwnedOnce(k) /\ OwnedOnce(sp[t])
         /\ Owned(k) \cap Others(q, sp, t) = {}
         /\ Owned(sp[t]) \cap Others(q, sp, t) = {}
         /\ Owned(k) \cap Owned(sp[t]) = {}
         /\ Exact(f, EKERNEL, Owned(k) \cup Owned(sp[t]) \cup Others(q, sp, t))
<1> DEFINE tasks == UNION {Owned(sp[u]) : u \in Pid}
           rest == UNION {Owned(sp[u]) : u \in Pid \ {t}}
<1>1. tasks = Owned(sp[t]) \cup rest
  OBVIOUS
<1>2. Owned(sp[t]) \cap rest = {}
  BY DEF Parts
<1>3. /\ OwnedOnce(k) /\ OwnedOnce(sp[t]) /\ Owned(k) \cap Range(q) = {}
      /\ tasks \cap (Owned(k) \cup Range(q)) = {}
      /\ Exact(f, EKERNEL, Owned(k) \cup Range(q) \cup tasks)
  BY DEF Parts
<1>4. Others(q, sp, t) = Range(q) \cup rest
  BY DEF Others
<1> HIDE DEF tasks, rest
<1>5. Owned(k) \cup Range(q) \cup tasks = Owned(k) \cup Owned(sp[t]) \cup Others(q, sp, t)
  BY <1>1, <1>4
<1> QED BY <1>1, <1>2, <1>3, <1>4, <1>5

(* New trackers for the kernel and one TCB that fit with the others. *)
LEMMA Join ==
  ASSUME NEW f, NEW k, NEW q, NEW sp, DOMAIN sp = Pid, NEW t \in Pid, Parts(f, k, q, sp),
         NEW g, NEW l, NEW s, OwnedOnce(l), OwnedOnce(s),
         Owned(l) \cap Others(q, sp, t) = {},
         Owned(s) \cap Others(q, sp, t) = {},
         Owned(l) \cap Owned(s) = {},
         Exact(g, EKERNEL, Owned(l) \cup Owned(s) \cup Others(q, sp, t))
  PROVE  Parts(g, l, q, [sp EXCEPT ![t] = s])
<1> DEFINE new == [sp EXCEPT ![t] = s]
           tasks == UNION {Owned(new[u]) : u \in Pid}
           rest == UNION {Owned(sp[u]) : u \in Pid \ {t}}
<1>1. new[t] = s /\ \A u \in Pid \ {t} : new[u] = sp[u]
  OBVIOUS
<1> HIDE DEF new
<1>2. tasks = Owned(s) \cup rest
  BY <1>1
<1>3. Others(q, sp, t) = Range(q) \cup rest
  BY DEF Others
<1>4. \A u \in Pid : OwnedOnce(new[u])
  BY <1>1 DEF Parts
<1>5. \A u \in Pid \ {t} : Owned(sp[u]) \subseteq rest /\ Owned(s) \cap Owned(sp[u]) = {}
  BY <1>3
<1>6. \A u, v \in Pid : u # v => Owned(new[u]) \cap Owned(new[v]) = {}
  <2> SUFFICES ASSUME NEW u \in Pid, NEW v \in Pid, u # v
               PROVE  Owned(new[u]) \cap Owned(new[v]) = {}
    OBVIOUS
  <2>1. CASE u = t
    BY <1>1, <1>5, <2>1
  <2>2. CASE v = t
    BY <1>1, <1>5, <2>2
  <2>3. CASE u # t /\ v # t
    BY <1>1, <2>3 DEF Parts
  <2> QED BY <2>1, <2>2, <2>3
<1>7. IsInjective(q) /\ Range(q) \cap rest = {}
  <2>1. IsInjective(q) /\ \A u \in Pid : Owned(sp[u]) \cap Range(q) = {}
    BY DEF Parts
  <2> QED BY <2>1
<1> HIDE DEF tasks, rest
<1>8. Owned(l) \cup Range(q) \cup tasks = Owned(l) \cup Owned(s) \cup Others(q, sp, t)
  BY <1>2, <1>3
<1>9. Owned(l) \cap Range(q) = {} /\ tasks \cap (Owned(l) \cup Range(q)) = {}
  BY <1>2, <1>3, <1>7
<1>10. Exact(g, EKERNEL, Owned(l) \cup Range(q) \cup tasks)
  BY <1>8
<1> QED BY <1>4, <1>6, <1>7, <1>9, <1>10 DEF Parts, tasks, new

(* A builder that goes on with a memory set. *)
LEMMA ResumeType ==
  ASSUME NEW b, b.fa \in Allocator, NEW s \in Space
  PROVE  LET r == Resume(b, s)
         IN /\ BuilderType(r) /\ r.fa = b.fa /\ r.panicked = b.panicked /\ r.areas = s.areas
            /\ Owned(r) = Owned(s) /\ OwnedOnce(r) = OwnedOnce(s)
<1> DEFINE r == Resume(b, s)
<1>1. s.root \in Int /\ s.frames \in Seq(Int) /\ s.areas \in Seq(Area)
  BY DEF Space
<1>2. /\ r.fa = b.fa /\ r.panicked = b.panicked /\ r.root = s.root
      /\ r.frames = s.frames /\ r.areas = s.areas /\ IsBuilder(r)
  BY DEF Resume, IsBuilder
<1> HIDE DEF r
<1>3. Owned(r) = Owned(s) /\ OwnedOnce(r) = OwnedOnce(s)
  BY <1>2 DEF Owned, OwnedOnce
<1> QED BY <1>1, <1>2, <1>3 DEF BuilderType, r

(* The memory set of a builder. *)
LEMMA SpaceOfType ==
  ASSUME NEW b, BuilderType(b)
  PROVE  LET s == SpaceOf(b)
         IN s \in Space /\ s.areas = b.areas /\ Owned(s) = Owned(b) /\ OwnedOnce(s) = OwnedOnce(b)
<1> DEFINE s == SpaceOf(b)
<1>1. s.root = b.root /\ s.frames = b.frames /\ s.areas = b.areas
  BY DEF SpaceOf
<1>2. s \in Space
  BY DEF SpaceOf, Space, BuilderType
<1> HIDE DEF s
<1>3. Owned(s) = Owned(b) /\ OwnedOnce(s) = OwnedOnce(b)
  BY <1>1 DEF Owned, OwnedOnce
<1> QED BY <1>1, <1>2, <1>3 DEF s

(* A free slot. *)
LEMMA NoSpaceOwns == NoSpace \in Space /\ Owned(NoSpace) = {} /\ OwnedOnce(NoSpace)
<1>1. NoSpace.frames = <<>> /\ NoSpace.areas = <<>> /\ DOMAIN NoSpace.areas = {}
  BY DEF NoSpace
<1>2. Range(NoSpace.frames) = {} /\ IsInjective(NoSpace.frames)
  BY <1>1, RangeEmpty
<1>3. NoSpace \in Space
  BY DEF NoSpace, Space
<1> QED BY <1>1, <1>2, <1>3 DEF Owned, OwnedOnce

(* Two kernel stacks do not begin at the same page. *)
LEMMA BottomInjective ==
  ASSUME NEW t \in Pid, NEW u \in Pid, kernel_stack_bottom(t) = kernel_stack_bottom(u)
  PROVE  t = u
<1> DEFINE n == STACK_PAGES + 1
<1>1. t \in Nat /\ u \in Nat /\ STACK_PAGES \in Nat /\ ENTRIES \in Nat /\ n \in Nat \ {0}
  BY MemoryAssumption
<1>2. TRAMPOLINE \in Int
  BY <1>1 DEF TRAMPOLINE
<1>3. t * n \in Nat /\ u * n \in Nat
  BY <1>1
<1>4. t * n = u * n
  BY <1>1, <1>2, <1>3 DEF kernel_stack_bottom
<1>5. (t * n + 0) \div n = t /\ (u * n + 0) \div n = u
  <2> HIDE DEF n
  <2> QED BY <1>1, DivModUnique
<1> QED BY <1>3, <1>4, <1>5

(* A panic leaves the trackers and the allocator as they were. *)
LEMMA PanicKeeps ==
  ASSUME MemoryInv, NEW b, b.panicked # "no", Panic(b), Step
  PROVE  MemoryInv'
<1>1. UNCHANGED <<fa, kernel, queue_frames, space, task>> /\ panicked' # "no"
  BY DEF Panic, Step
<1>2. FramesExact'
  BY <1>1 DEF MemoryInv, FramesExact, TaskFrames
<1>3. StacksMapped'
  BY <1>1 DEF StacksMapped
<1> QED BY <1>1, <1>2, <1>3 DEF MemoryInv

(* A step after which the kernel and one TCB have these trackers. *)
LEMMA NewTrackers ==
  ASSUME MemoryInv, NEW t \in Pid, Step, NEW l \in Space, NEW s \in Space, OwnedOnce(l), OwnedOnce(s),
         Owned(l) \cap Others(queue_frames, space, t) = {},
         Owned(s) \cap Others(queue_frames, space, t) = {},
         Owned(l) \cap Owned(s) = {},
         fa' \in Allocator,
         Exact(fa', EKERNEL, Owned(l) \cup Owned(s) \cup Others(queue_frames, space, t)),
         kernel' = l, space' = [space EXCEPT ![t] = s],
         NEW x \in {"free", "live", "zombie"}, task' = [task EXCEPT ![t] = x],
         x = "free" => s = NoSpace,
         StacksMapped'
  PROVE  MemoryInv'
<1>1. /\ kernel \in Space /\ queue_frames \in Seq(Int) /\ space \in [Pid -> Space]
      /\ task \in [Pid -> {"free", "live", "zombie"}]
      /\ \A u \in Pid : task[u] = "free" => space[u] = NoSpace
      /\ FramesExact /\ queue_frames' = queue_frames
  BY DEF MemoryInv, Step
<1>2. Parts(fa, kernel, queue_frames, space)
  BY <1>1, FramesExactParts
<1>3. Parts(fa', l, queue_frames, [space EXCEPT ![t] = s])
  <2>1. DOMAIN space = Pid
    BY <1>1
  <2> QED BY <1>2, <2>1, Join, ZenonT(30)
<1>4. FramesExact'
  <2>1. Parts(fa', kernel', queue_frames', space')
    BY <1>1, <1>3
  <2>2. Parts(fa', kernel', queue_frames', space') <=> FramesExact'
    BY Zenon DEF FramesExact, Parts, TaskFrames
  <2> QED BY <2>1, <2>2
<1>5. space' \in [Pid -> Space] /\ task' \in [Pid -> {"free", "live", "zombie"}]
  BY <1>1
<1>6. \A u \in Pid : task'[u] = "free" => space'[u] = NoSpace
  BY <1>1
<1> QED BY <1>1, <1>4, <1>5, <1>6 DEF MemoryInv

-----------------------------------------------------------------------------
(* The loops that build a memory set.                                      *)

MapLoop == INSTANCE LoopProofs WITH op <- LAMBDA p, b, vpn : map_one(b, vpn),
                                    Inv <- LAMBDA q, k, b : BuildInv(q, b)

(* MapArea::map on the last area. *)
LEMMA MapPagesHolds ==
  ASSUME NEW others, NEW b, Holds(others, b), b.areas # <<>>, NEW S, NEW pages \in Seq(S)
  PROVE  LET r == ForEach(map_one, b, pages)
         IN Holds(others, r) /\ SameRanges(b, r) /\ r.areas # <<>>
<1> DEFINE q == [others |-> others, from |-> b]
           r == MapLoop!ForEachOp(0, b, pages)
<1>1. r = ForEach(map_one, b, pages)
  BY Zenon DEF MapLoop!ForEachOp, MapLoop!ForEach, MapLoop!Loop, MapLoop!Then, MapLoop!Chunks,
               ForEach, Loop, Then, Chunks
<1>2. ASSUME NEW k \in 1 .. Len(pages), NEW c, BuildInv(q, c)
      PROVE  BuildInv(q, MapLoop!Then(c, map_one(c, pages[k])))
  <2>1. Holds(others, c) /\ c.areas # <<>>
    BY <1>2 DEF BuildInv
  <2>2. CASE c.panicked = "no"
    BY <1>2, <2>1, <2>2, MapOneHolds, BuildStep DEF MapLoop!Then
  <2>3. CASE c.panicked # "no"
    BY <1>2, <2>3 DEF MapLoop!Then
  <2> QED BY <2>2, <2>3
<1>3. BuildInv(q, r)
  <2>1. BuildInv(q, b)
    BY BuildStart
  <2> HIDE DEF q
  <2> QED BY <1>2, <2>1, LeastNumber, MapLoop!ForEachInv
<1> HIDE DEF r
<1> QED BY <1>1, <1>3 DEF BuildInv

CopyLoop == INSTANCE LoopProofs WITH op <- copy_words,
                                     Inv <- LAMBDA q, k, b : BuildInv(q, b)

(* MapArea::copy_data. *)
LEMMA CopyDataHolds ==
  ASSUME NEW others, NEW b, Holds(others, b), b.areas # <<>>, NEW data, Len(data) \in Nat
  PROVE  LET r == copy_data(b, data)
         IN Holds(others, r) /\ SameRanges(b, r) /\ r.areas # <<>>
<1> DEFINE q == [others |-> others, from |-> b]
           pages == Upto(0, (Len(data) + ENTRIES - 1) \div ENTRIES)
           r == CopyLoop!ForEachOp(data, b, pages)
<1>1. copy_data(b, data) = IF b.panicked = "no" THEN r ELSE b
  BY Zenon DEF CopyLoop!ForEachOp, CopyLoop!ForEach, CopyLoop!Loop, CopyLoop!Then, CopyLoop!Chunks,
               ForEach, Loop, Then, Chunks, copy_data
<1>2. pages \in Seq(Int)
  <2>1. (Len(data) + ENTRIES - 1) \div ENTRIES \in Int
    BY MemoryAssumption
  <2> QED BY <2>1, UptoSeq
<1>3. ASSUME NEW k \in 1 .. Len(pages), NEW c, BuildInv(q, c)
      PROVE  BuildInv(q, CopyLoop!Then(c, copy_words(data, c, pages[k])))
  <2>1. Holds(others, c) /\ c.areas # <<>>
    BY <1>3 DEF BuildInv
  <2>2. PICK ppn, page : copy_words(data, c, pages[k]) = [c EXCEPT !.mem[ppn] = page]
    BY Zenon DEF copy_words
  <2> DEFINE d == copy_words(data, c, pages[k])
  <2>3. /\ Holds(others, [c EXCEPT !.mem[ppn] = page])
        /\ SameRanges(c, [c EXCEPT !.mem[ppn] = page])
    BY <2>1, CopyHolds, Zenon
  <2> HIDE DEF d
  <2>4. Holds(others, d) /\ SameRanges(c, d)
    BY <2>2, <2>3, Zenon DEF d
  <2>5. BuildInv(q, d)
    BY <1>3, <2>4, BuildStep
  <2> QED BY <1>3, <2>5 DEF CopyLoop!Then, d
<1>4. BuildInv(q, r)
  <2>1. BuildInv(q, b)
    BY BuildStart
  <2> HIDE DEF q, pages
  <2> QED BY <1>2, <1>3, <2>1, LeastNumber, CopyLoop!ForEachInv, ZenonT(30)
<1> HIDE DEF r
<1>5. BuildInv(q, copy_data(b, data))
  BY <1>1, <1>4, BuildStart
<1> QED BY <1>5 DEF BuildInv

(* MemorySet::push of an area that owns no frame yet. *)
LEMMA PushHolds ==
  ASSUME NEW others, NEW b, Holds(others, b), NEW area \in Area, area.data_frames = <<>>,
         NEW data, Len(data) \in Nat
  PROVE  LET r == push(b, area, data)
         IN /\ Holds(others, r)
            /\ Len(r.areas) = Len(b.areas) + 1
            /\ \A k \in 1 .. Len(b.areas) : r.areas[k].start = b.areas[k].start
            /\ r.areas[Len(b.areas) + 1].start = area.start
<1> DEFINE longer == Append(b.areas, area)
           c == [b EXCEPT !.areas = longer]
           d == ForEach(map_one, c, Pages(area))
           r == copy_data(d, data)
<1>1. r = push(b, area, data)
  BY Zenon DEF push
<1>2. IsBuilder(b) /\ b.areas \in Seq(Area) /\ BuilderType(b) /\ OwnedOnce(b)
  BY DEF Holds, BuilderType
<1>3. /\ longer \in Seq(Area) /\ Len(longer) = Len(b.areas) + 1 /\ Len(b.areas) \in Nat
      /\ DOMAIN longer = 1 .. Len(b.areas) + 1 /\ DOMAIN b.areas = 1 .. Len(b.areas)
      /\ \A k \in 1 .. Len(b.areas) : longer[k] = b.areas[k]
      /\ longer[Len(b.areas) + 1] = area
  BY <1>2, AppendProperties, LenProperties
<1>4. longer # <<>>
  <2>1. Len(<<>>) = 0
    OBVIOUS
  <2> HIDE DEF longer
  <2> QED BY <1>3, <2>1
<1> HIDE DEF longer
<1>5. /\ IsBuilder(c) /\ c.fa = b.fa /\ c.root = b.root /\ c.frames = b.frames /\ c.areas = longer
  BY <1>2 DEF IsBuilder
<1> HIDE DEF c
<1>6. Holds(others, c)
  <2> DEFINE n == Len(b.areas)
             K == DOMAIN b.areas
  <2>1. DataFrames(longer[n + 1]) = {} /\ IsInjective(longer[n + 1].data_frames)
    <3>1. Range(<<>>) = {} /\ IsInjective(<<>>)
      BY RangeEmpty
    <3> QED BY <1>3, <3>1 DEF DataFrames
  <2>2. DOMAIN longer = K \cup {n + 1} /\ \A k \in K : longer[k] = b.areas[k]
    BY <1>3
  <2> HIDE DEF K, n
  <2>3. Owned(c) = Owned(b)
    BY <1>5, <2>1, <2>2 DEF Owned, K
  <2>4. OwnedOnce(c)
    BY <1>2, <1>5, <2>1, <2>2, ZenonT(30) DEF OwnedOnce, K
  <2> QED BY <1>2, <1>3, <1>5, <2>3, <2>4 DEF Holds, BuilderType
<1>7. Pages(area) \in Seq(Int)
  <2>1. area.start \in Int /\ area.end - area.start \in Int
    BY DEF Area
  <2> QED BY <2>1 DEF Pages
<1>8. Holds(others, d) /\ SameRanges(c, d) /\ d.areas # <<>>
  BY <1>4, <1>5, <1>6, <1>7, MapPagesHolds
<1> HIDE DEF d
<1>9. Holds(others, r) /\ SameRanges(d, r)
  BY <1>8, CopyDataHolds
<1> HIDE DEF r
<1>10. SameRanges(c, r)
  BY <1>8, <1>9 DEF SameRanges
<1>11. /\ Len(r.areas) = Len(b.areas) + 1
       /\ \A k \in 1 .. Len(b.areas) : r.areas[k].start = b.areas[k].start
       /\ r.areas[Len(b.areas) + 1].start = area.start
  BY <1>3, <1>5, <1>10 DEF SameRanges
<1> QED BY <1>1, <1>9, <1>11

SegmentLoop == INSTANCE LoopProofs WITH op <- LAMBDA p, b, ua : push(b, ua.area, ua.data),
                                        Inv <- LAMBDA q, k, b : Holds(q, b)

(* MemorySet::from_elf. *)
LEMMA FromElfHolds ==
  ASSUME NEW f \in Allocator, NEW others, Exact(f, EKERNEL, others), NEW m, NEW elf \in Program
  PROVE  Holds(others, from_elf(f, m, elf))
<1> DEFINE b == with_trampoline(f, m)
           ua == user_areas(elf)
           UA == [area : {a \in Area : a.data_frames = <<>>}, data : Seq(Entry)]
           r == SegmentLoop!ForEachOp(0, b, ua)
<1>1. r = from_elf(f, m, elf)
  BY Zenon DEF SegmentLoop!ForEachOp, SegmentLoop!ForEach, SegmentLoop!Loop, SegmentLoop!Then,
               SegmentLoop!Chunks, ForEach, Loop, Then, Chunks, from_elf
<1>2. Holds(others, b)
  BY TrampolineHolds
<1>3. ua \in Seq(UA)
  BY UserAreasType
<1> HIDE DEF ua, b
<1>4. ASSUME NEW k \in 1 .. Len(ua), NEW c, Holds(others, c)
      PROVE  Holds(others, SegmentLoop!Then(c, push(c, ua[k].area, ua[k].data)))
  <2>1. ua[k] \in UA
    BY <1>3, ElementOfSeq, Zenon
  <2>2. ua[k].area \in Area /\ ua[k].area.data_frames = <<>> /\ Len(ua[k].data) \in Nat
    BY <2>1
  <2>3. Holds(others, push(c, ua[k].area, ua[k].data))
    BY <1>4, <2>2, PushHolds
  <2> QED BY <1>4, <2>3 DEF SegmentLoop!Then
<1>5. Holds(others, r)
  <2> HIDE DEF UA
  <2> QED BY <1>2, <1>3, <1>4, LeastNumber, SegmentLoop!ForEachInv
<1> QED BY <1>1, <1>5

KernelLoop == INSTANCE LoopProofs WITH op <- LAMBDA p, b, area : push(b, area, <<>>),
                                       Inv <- LAMBDA q, k, b : Holds(q, b)

(* MemorySet::new_kernel. *)
LEMMA NewKernelHolds ==
  ASSUME NEW f \in Allocator, NEW others, Exact(f, EKERNEL, others), NEW m
  PROVE  Holds(others, new_kernel(f, m))
<1> DEFINE b == with_trampoline(f, m)
           Fresh == {a \in Area : a.data_frames = <<>>}
           text == MapArea(0, strampoline + 1, "Identical", {"R", "X"})
           data == MapArea(strampoline + 1, EKERNEL, "Identical", {"R", "W"})
           rest == MapArea(EKERNEL, MEMORY_END, "Identical", {"R", "W"})
           areas == <<text, data, rest>>
           r == KernelLoop!ForEachOp(0, b, areas)
<1>1. r = new_kernel(f, m)
  BY Zenon DEF KernelLoop!ForEachOp, KernelLoop!ForEach, KernelLoop!Loop, KernelLoop!Then,
               KernelLoop!Chunks, ForEach, Loop, Then, Chunks, new_kernel
<1>2. Holds(others, b)
  BY TrampolineHolds
<1>3. text \in Fresh /\ data \in Fresh /\ rest \in Fresh
  <2>1. strampoline + 1 \in Int /\ EKERNEL \in Int /\ MEMORY_END \in Int
    BY MemoryAssumption
  <2> QED BY <2>1, MapAreaType
<1> HIDE DEF text, data, rest, b
<1>4. areas \in Seq(Fresh)
  BY <1>3
<1> HIDE DEF areas
<1>5. ASSUME NEW k \in 1 .. Len(areas), NEW c, Holds(others, c)
      PROVE  Holds(others, KernelLoop!Then(c, push(c, areas[k], <<>>)))
  <2>1. areas[k] \in Fresh
    BY <1>4, ElementOfSeq
  <2>2. areas[k] \in Area /\ areas[k].data_frames = <<>> /\ Len(<<>>) \in Nat
    BY <2>1
  <2>3. Holds(others, push(c, areas[k], <<>>))
    BY <1>5, <2>2, PushHolds
  <2> QED BY <1>5, <2>3 DEF KernelLoop!Then
<1>6. Holds(others, r)
  <2> HIDE DEF Fresh
  <2> QED BY <1>2, <1>4, <1>5, LeastNumber, KernelLoop!ForEachInv
<1> QED BY <1>1, <1>6

ForkLoop == INSTANCE LoopProofs WITH op <- copy_page,
                                     Inv <- LAMBDA q, k, b : BuildInv(q, b)

(* The page copies of from_existed_user. *)
LEMMA CopyAreaHolds ==
  ASSUME NEW others, NEW b, Holds(others, b), NEW old, NEW area \in Area
  PROVE  Holds(others, copy_area(old, b, area))
<1> DEFINE pushed == push(b, from_another(area), <<>>)
           q == [others |-> others, from |-> pushed]
           r == ForkLoop!ForEachOp(old, pushed, Pages(area))
<1>1. copy_area(old, b, area) = IF pushed.panicked = "no" THEN r ELSE pushed
  BY Zenon DEF ForkLoop!ForEachOp, ForkLoop!ForEach, ForkLoop!Loop, ForkLoop!Then,
               ForkLoop!Chunks, ForEach, Loop, Then, Chunks, copy_area
<1>2. Holds(others, pushed) /\ pushed.areas # <<>>
  <2>1. /\ area.start \in Int /\ area.end \in Int /\ area.map_type \in {"Identical", "Framed"}
        /\ area.map_perm \in SUBSET {"R", "W", "X", "U"}
    BY DEF Area
  <2>2. from_another(area) \in Area /\ from_another(area).data_frames = <<>> /\ Len(<<>>) = 0
    BY <2>1, MapAreaType DEF from_another
  <2>3. Holds(others, pushed) /\ Len(pushed.areas) = Len(b.areas) + 1
    BY <2>2, PushHolds
  <2>4. Len(b.areas) \in Nat
    BY LenProperties DEF Holds, BuilderType
  <2> HIDE DEF pushed
  <2> QED BY <2>2, <2>3, <2>4
<1> HIDE DEF pushed
<1>3. Pages(area) \in Seq(Int)
  <2>1. area.start \in Int /\ area.end - area.start \in Int
    BY DEF Area
  <2> QED BY <2>1 DEF Pages
<1>4. ASSUME NEW k \in 1 .. Len(Pages(area)), NEW c, BuildInv(q, c)
      PROVE  BuildInv(q, ForkLoop!Then(c, copy_page(old, c, Pages(area)[k])))
  <2>1. Holds(others, c) /\ c.areas # <<>>
    BY <1>4 DEF BuildInv
  <2>2. PICK ppn, page : copy_page(old, c, Pages(area)[k]) = [c EXCEPT !.mem[ppn] = page]
    BY Zenon DEF copy_page
  <2> DEFINE d == copy_page(old, c, Pages(area)[k])
  <2> HIDE DEF d
  <2>5. /\ Holds(others, [c EXCEPT !.mem[ppn] = page])
        /\ SameRanges(c, [c EXCEPT !.mem[ppn] = page])
    BY <2>1, CopyHolds, Zenon
  <2>4. Holds(others, d) /\ SameRanges(c, d)
    BY <2>2, <2>5, Zenon DEF d
  <2>3. BuildInv(q, d)
    BY <1>4, <2>4, BuildStep
  <2> QED BY <1>4, <2>3 DEF ForkLoop!Then, d
<1>5. BuildInv(q, r)
  <2>1. BuildInv(q, pushed)
    BY <1>2, BuildStart
  <2> HIDE DEF q
  <2> QED BY <1>3, <1>4, <2>1, LeastNumber, ForkLoop!ForEachInv
<1> HIDE DEF r
<1> QED BY <1>1, <1>2, <1>5 DEF BuildInv

AreaLoop == INSTANCE LoopProofs WITH op <- copy_area,
                                     Inv <- LAMBDA q, k, b : Holds(q, b)

(* MemorySet::from_existed_user. *)
LEMMA FromExistedUserHolds ==
  ASSUME NEW f \in Allocator, NEW others, Exact(f, EKERNEL, others), NEW m, NEW old \in Space
  PROVE  Holds(others, from_existed_user(f, m, old))
<1> DEFINE b == with_trampoline(f, m)
           r == AreaLoop!ForEachOp(old, b, old.areas)
<1>1. r = from_existed_user(f, m, old)
  BY Zenon DEF AreaLoop!ForEachOp, AreaLoop!ForEach, AreaLoop!Loop, AreaLoop!Then,
               AreaLoop!Chunks, ForEach, Loop, Then, Chunks, from_existed_user
<1>2. Holds(others, b)
  BY TrampolineHolds
<1>3. old.areas \in Seq(Area)
  BY DEF Space
<1> HIDE DEF b
<1>4. ASSUME NEW k \in 1 .. Len(old.areas), NEW c, Holds(others, c)
      PROVE  Holds(others, AreaLoop!Then(c, copy_area(old, c, old.areas[k])))
  <2>1. old.areas[k] \in Area
    BY <1>3, ElementOfSeq
  <2>2. Holds(others, copy_area(old, c, old.areas[k]))
    BY <1>4, <2>1, CopyAreaHolds
  <2> QED BY <1>4, <2>2 DEF AreaLoop!Then
<1>5. Holds(others, r)
  BY <1>2, <1>3, <1>4, LeastNumber, AreaLoop!ForEachInv
<1> QED BY <1>1, <1>5

-----------------------------------------------------------------------------
(* The loops that drop trackers.                                           *)

FramesLoop == INSTANCE LoopProofs WITH op <- LAMBDA p, b, ppn : frame_dealloc(b, ppn), Inv <- FramesInv

(* The drop of a vector of trackers gives back exactly their frames. *)
LEMMA DropFrames ==
  ASSUME NEW b, IsBuilder(b), b.fa \in Allocator, NEW keep, NEW frames \in Seq(Int),
         IsInjective(frames), Range(frames) \cap keep = {}, Books(b, keep \cup Range(frames))
  PROVE  LET r == drop_frames(b, frames) IN Dropped(b, r) /\ Books(r, keep)
<1> DEFINE q == [from |-> b, frames |-> frames, keep |-> keep]
           r == FramesLoop!ForEachOp(0, b, frames)
<1>1. r = drop_frames(b, frames)
  BY Zenon DEF FramesLoop!ForEachOp, FramesLoop!ForEach, FramesLoop!Loop, FramesLoop!Then,
               FramesLoop!Chunks, ForEach, Loop, Then, Chunks, drop_frames
<1>2. /\ Rest(frames, 0) = Range(frames) /\ Rest(frames, Len(frames)) = {}
      /\ \A k \in 1 .. Len(frames) :
           frames[k] \in Rest(frames, k - 1) /\ Rest(frames, k - 1) \ {frames[k]} = Rest(frames, k)
  BY RestStep
<1>3. \A k \in 1 .. Len(frames) : frames[k] \notin keep /\ frames[k] \in Int
  BY ElementOfSeq, LenProperties DEF Range
<1>4. FramesInv(q, 0, b)
  BY <1>2, ZenonT(30) DEF FramesInv, Dropped
<1>5. ASSUME NEW k \in 1 .. Len(frames), NEW c, FramesInv(q, k - 1, c)
      PROVE  FramesInv(q, k, FramesLoop!Then(c, frame_dealloc(c, frames[k])))
  <2>1. Dropped(b, c) /\ Books(c, keep \cup Rest(frames, k - 1))
    BY <1>5 DEF FramesInv
  <2>2. CASE c.panicked = "no"
    <3> DEFINE d == frame_dealloc(c, frames[k])
               owned == keep \cup Rest(frames, k - 1)
    <3>1. owned \ {frames[k]} = keep \cup Rest(frames, k) /\ frames[k] \in owned /\ frames[k] \in Int
      BY <1>2, <1>3
    <3>2. Exact(c.fa, EKERNEL, owned) /\ IsBuilder(c) /\ c.fa \in Allocator
      BY <2>1, <2>2 DEF Books, Dropped
    <3> HIDE DEF owned
    <3>3. Dropped(c, d) /\ Exact(d.fa, EKERNEL, owned \ {frames[k]})
      BY <2>2, <3>1, <3>2, FrameDealloc, Zenon
    <3> HIDE DEF d
    <3>4. FramesInv(q, k, d)
      BY <2>1, <3>1, <3>3, ZenonT(30) DEF FramesInv, Books, Dropped
    <3> QED BY <2>2, <3>4 DEF FramesLoop!Then, d
  <2>3. CASE c.panicked # "no"
    BY <2>1, <2>3 DEF FramesLoop!Then, FramesInv, Books
  <2> QED BY <2>2, <2>3
<1>6. ASSUME NEW j \in 0 .. Len(frames), NEW k \in 0 .. Len(frames), NEW c,
             c.panicked # "no", FramesInv(q, j, c)
      PROVE  FramesInv(q, k, c)
  BY <1>6 DEF FramesInv, Books
<1>7. FramesInv(q, Len(frames), r)
  <2> HIDE DEF q
  <2> QED BY <1>4, <1>5, <1>6, LeastNumber, FramesLoop!ForEachInv
<1> HIDE DEF r
<1>8. keep \cup Rest(frames, Len(frames)) = keep
  BY <1>2
<1>9. Dropped(b, r) /\ Books(r, keep \cup Rest(frames, Len(frames)))
  BY <1>7 DEF FramesInv
<1> QED BY <1>1, <1>8, <1>9, Zenon

AreasLoop == INSTANCE LoopProofs WITH op <- LAMBDA p, b, area : drop_frames(b, area.data_frames),
                                      Inv <- AreasInv

(* The drop of a vector of areas gives back exactly their frames. *)
LEMMA DropAreas ==
  ASSUME NEW b, IsBuilder(b), b.fa \in Allocator, NEW keep, NEW areas \in Seq(Area),
         Apart(areas, keep), Books(b, keep \cup AllFrames(areas))
  PROVE  LET r == drop_areas(b, areas) IN Dropped(b, r) /\ Books(r, keep)
<1> DEFINE q == [from |-> b, areas |-> areas, keep |-> keep]
           n == Len(areas)
           Left(k) == UNION {DataFrames(areas[j]) : j \in k + 1 .. n}
           r == AreasLoop!ForEachOp(0, b, areas)
<1>1. r = drop_areas(b, areas)
  BY Zenon DEF AreasLoop!ForEachOp, AreasLoop!ForEach, AreasLoop!Loop, AreasLoop!Then,
               AreasLoop!Chunks, ForEach, Loop, Then, Chunks, drop_areas
<1>2. n \in Nat /\ DOMAIN areas = 1 .. n
  BY LenProperties
<1>3. \A k \in 1 .. n : areas[k].data_frames \in Seq(Int)
  <2>1. \A k \in 1 .. n : areas[k] \in Area
    BY ElementOfSeq
  <2> QED BY <2>1 DEF Area
<1>4. Left(0) = AllFrames(areas) /\ Left(n) = {}
  BY <1>2 DEF AllFrames
<1>5. ASSUME NEW k \in 1 .. n
      PROVE  /\ Left(k - 1) = DataFrames(areas[k]) \cup Left(k)
             /\ DataFrames(areas[k]) \cap (keep \cup Left(k)) = {}
  <2>1. k - 1 + 1 .. n = {k} \cup (k + 1 .. n)
    BY <1>2
  <2>2. \A j \in k + 1 .. n : j # k /\ j \in DOMAIN areas
    BY <1>2
  <2> HIDE DEF n
  <2>3. Left(k - 1) = DataFrames(areas[k]) \cup Left(k)
    BY <2>1
  <2>4. DataFrames(areas[k]) \cap Left(k) = {} /\ DataFrames(areas[k]) \cap keep = {}
    BY <1>2, <2>2 DEF Apart
  <2> QED BY <2>3, <2>4
<1>6. \A c, k : AreasInv(q, k, c) <=> Dropped(b, c) /\ Books(c, keep \cup Left(k))
  BY Zenon DEF AreasInv
<1>7. AreasInv(q, 0, b)
  BY <1>4, <1>6 DEF Dropped
<1> HIDE DEF Left, q
<1>8. ASSUME NEW k \in 1 .. n, NEW c, AreasInv(q, k - 1, c)
      PROVE  AreasInv(q, k, AreasLoop!Then(c, drop_frames(c, areas[k].data_frames)))
  <2>1. Dropped(b, c) /\ Books(c, keep \cup Left(k - 1))
    BY <1>6, <1>8
  <2>2. CASE c.panicked = "no"
    <3> DEFINE d == drop_frames(c, areas[k].data_frames)
               frames == areas[k].data_frames
               kept == keep \cup Left(k)
    <3>1. frames \in Seq(Int) /\ IsInjective(frames) /\ Range(frames) \cap kept = {}
      BY <1>2, <1>3, <1>5 DEF Apart, DataFrames
    <3>2. keep \cup Left(k - 1) = kept \cup Range(frames)
      BY <1>5 DEF DataFrames
    <3>3. IsBuilder(c) /\ c.fa \in Allocator /\ Books(c, kept \cup Range(frames))
      BY <2>1, <3>2, ZenonT(30) DEF Dropped
    <3> HIDE DEF frames, kept
    <3>4. Dropped(c, drop_frames(c, frames)) /\ Books(drop_frames(c, frames), kept)
      BY <3>1, <3>3, DropFrames
    <3>5. Dropped(c, d) /\ Books(d, kept)
      BY <3>4 DEF frames
    <3> HIDE DEF d
    <3>6. AreasInv(q, k, d)
      BY <1>6, <2>1, <3>5 DEF kept, Dropped
    <3> QED BY <2>2, <3>6 DEF AreasLoop!Then, d
  <2>3. CASE c.panicked # "no"
    BY <1>6, <2>1, <2>3, Zenon DEF AreasLoop!Then, Books
  <2> QED BY <2>2, <2>3
<1>9. ASSUME NEW j \in 0 .. n, NEW k \in 0 .. n, NEW c, c.panicked # "no", AreasInv(q, j, c)
      PROVE  AreasInv(q, k, c)
  BY <1>6, <1>9, ZenonT(30) DEF Books
<1>10. AreasInv(q, n, r)
  BY <1>7, <1>8, <1>9, LeastNumber, AreasLoop!ForEachInv
<1> HIDE DEF r
<1>11. keep \cup Left(n) = keep
  BY <1>4
<1>12. Dropped(b, r) /\ Books(r, keep \cup Left(n))
  BY <1>6, <1>10
<1> QED BY <1>1, <1>11, <1>12, Zenon

(* The drop of a memory set gives back exactly its frames. *)
LEMMA DropSpace ==
  ASSUME NEW b, IsBuilder(b), b.fa \in Allocator, NEW keep, NEW s \in Space, OwnedOnce(s),
         Owned(s) \cap keep = {}, Books(b, keep \cup Owned(s))
  PROVE  LET r == drop_space(b, s) IN Dropped(b, r) /\ Books(r, keep)
<1> DEFINE c == drop_frames(b, s.frames)
           r == drop_areas(c, s.areas)
           all == AllFrames(s.areas)
<1>1. r = drop_space(b, s)
  BY DEF drop_space
<1>2. s.frames \in Seq(Int) /\ s.areas \in Seq(Area)
  BY DEF Space
<1>3. Owned(s) = Range(s.frames) \cup all
  BY DEF Owned, AllFrames
<1>4. Apart(s.areas, keep)
  <2>1. \A k \in DOMAIN s.areas : DataFrames(s.areas[k]) \subseteq Owned(s)
    BY DEF Owned
  <2> QED BY <2>1 DEF Apart, OwnedOnce
<1>5. Range(s.frames) \cap (keep \cup all) = {} /\ IsInjective(s.frames)
  <2>1. Range(s.frames) \cap all = {}
    BY DEF AllFrames, OwnedOnce
  <2> QED BY <1>3, <2>1 DEF OwnedOnce
<1>6. keep \cup Owned(s) = (keep \cup all) \cup Range(s.frames)
  BY <1>3
<1> HIDE DEF all
<1>7. Dropped(b, c) /\ Books(c, keep \cup all)
  BY <1>2, <1>5, <1>6, DropFrames
<1> HIDE DEF c
<1>8. Dropped(c, r) /\ Books(r, keep)
  BY <1>2, <1>4, <1>7, DropAreas DEF Dropped, all
<1> HIDE DEF r
<1> QED BY <1>1, <1>7, <1>8 DEF Dropped

UnmapLoop == INSTANCE LoopProofs WITH op <- unmap_one, Inv <- FramesInv

(* unmap_one for every page of an area gives back exactly its frames. *)
LEMMA UnmapPages ==
  ASSUME NEW b, IsBuilder(b), b.fa \in Allocator, NEW keep, NEW area,
         area.data_frames \in Seq(Int), IsInjective(area.data_frames),
         DataFrames(area) \cap keep = {}, Books(b, keep \cup DataFrames(area))
  PROVE  LET r == ForEach(LAMBDA c, k : unmap_one(area, c, k), b, Upto(1, Len(area.data_frames) + 1))
         IN Dropped(b, r) /\ Books(r, keep)
<1> DEFINE frames == area.data_frames
           n == Len(frames)
           q == [from |-> b, frames |-> frames, keep |-> keep]
           pages == Upto(1, n + 1)
           r == UnmapLoop!ForEachOp(area, b, pages)
<1>1. r = ForEach(LAMBDA c, k : unmap_one(area, c, k), b, pages)
  BY Zenon DEF UnmapLoop!ForEachOp, UnmapLoop!ForEach, UnmapLoop!Loop, UnmapLoop!Then,
               UnmapLoop!Chunks, ForEach, Loop, Then, Chunks
<1>2. n \in Nat /\ DOMAIN frames = 1 .. n
  BY LenProperties
<1>3. pages \in Seq(Int) /\ Len(pages) = n /\ \A k \in 1 .. n : pages[k] = k
  <2>1. pages = [k \in 1 .. n |-> 1 + k - 1]
    BY <1>2 DEF Upto
  <2>2. \A k \in 1 .. n : 1 + k - 1 = k
    BY <1>2
  <2> HIDE DEF n, pages
  <2> QED BY <1>2, <2>1, <2>2
<1>4. /\ Rest(frames, 0) = Range(frames) /\ Rest(frames, n) = {}
      /\ \A k \in 1 .. n : frames[k] \in Rest(frames, k - 1) /\ Rest(frames, k - 1) \ {frames[k]} = Rest(frames, k)
  BY RestStep
<1>5. \A k \in 1 .. n : frames[k] \notin keep /\ frames[k] \in Int
  BY <1>2, ElementOfSeq DEF Range, DataFrames
<1>6. \A c, k : FramesInv(q, k, c) <=> Dropped(b, c) /\ Books(c, keep \cup Rest(frames, k))
  BY Zenon DEF FramesInv
<1>7. FramesInv(q, 0, b)
  BY <1>4, <1>6 DEF Dropped, DataFrames
<1> HIDE DEF q, pages
<1>8. ASSUME NEW k \in 1 .. n, NEW c, FramesInv(q, k - 1, c)
      PROVE  FramesInv(q, k, UnmapLoop!Then(c, unmap_one(area, c, pages[k])))
  <2>1. Dropped(b, c) /\ Books(c, keep \cup Rest(frames, k - 1)) /\ pages[k] = k
    BY <1>3, <1>6, <1>8, ZenonT(30)
  <2>2. CASE c.panicked = "no"
    <3> DEFINE d == frame_dealloc(c, frames[k])
               e == unmap(d, area.start + k - 1)
               owned == keep \cup Rest(frames, k - 1)
    <3>1. owned \ {frames[k]} = keep \cup Rest(frames, k) /\ frames[k] \in owned /\ frames[k] \in Int
      BY <1>4, <1>5
    <3>2. Exact(c.fa, EKERNEL, owned) /\ IsBuilder(c) /\ c.fa \in Allocator
      BY <2>1, <2>2 DEF Books, Dropped
    <3> HIDE DEF owned
    <3>3. Dropped(c, d) /\ Exact(d.fa, EKERNEL, owned \ {frames[k]}) /\ d.panicked = "no"
      BY <2>2, <3>1, <3>2, FrameDealloc, ZenonT(30)
    <3> HIDE DEF d
    <3>4. SameTrackers(d, e)
      BY <3>3, UnmapSame DEF Dropped
    <3>5. unmap_one(area, c, k) = e
      BY <3>3 DEF unmap_one, Then, d
    <3> HIDE DEF e
    <3>6. Dropped(b, e) /\ Books(e, keep \cup Rest(frames, k))
      BY <2>1, <3>1, <3>3, <3>4, Zenon DEF Books, Dropped, SameTrackers
    <3> QED BY <1>6, <2>1, <2>2, <3>5, <3>6 DEF UnmapLoop!Then
  <2>3. CASE c.panicked # "no"
    BY <1>6, <2>1, <2>3, Zenon DEF UnmapLoop!Then, Books
  <2> QED BY <2>2, <2>3
<1>9. ASSUME NEW j \in 0 .. n, NEW k \in 0 .. n, NEW c, c.panicked # "no", FramesInv(q, j, c)
      PROVE  FramesInv(q, k, c)
  BY <1>6, <1>9, Zenon DEF Books
<1>10. FramesInv(q, n, r)
  <2>1. FramesInv(q, Len(pages), r)
    <3>1. \A k \in 1 .. Len(pages) : \A c :
            FramesInv(q, k - 1, c) => FramesInv(q, k, UnmapLoop!Then(c, unmap_one(area, c, pages[k])))
      BY <1>3, <1>8
    <3>2. \A j, k \in 0 .. Len(pages) : \A c :
            j <= k /\ c.panicked # "no" /\ FramesInv(q, j, c) => FramesInv(q, k, c)
      BY <1>3, <1>9
    <3> HIDE DEF n, frames
    <3> QED BY <1>3, <1>7, <3>1, <3>2, LeastNumber, UnmapLoop!ForEachInv
  <2> QED BY <1>3, <2>1
<1> HIDE DEF r
<1>11. keep \cup Rest(frames, n) = keep
  BY <1>4
<1>12. Dropped(b, r) /\ Books(r, keep \cup Rest(frames, n))
  BY <1>6, <1>10
<1> QED BY <1>1, <1>11, <1>12, Zenon DEF pages

(* The drop of a KernelStack: its area goes, with exactly its frames. *)
LEMMA KernelStackDrop ==
  ASSUME NEW others, NEW b, Holds(others, b), NEW pid,
         HasArea(b, kernel_stack_bottom(pid))
  PROVE  LET r == kernel_stack_drop(b, pid)
         IN /\ BuilderType(r) /\ OwnedOnce(r) /\ Owned(r) \subseteq Owned(b)
            /\ Books(r, Owned(r) \cup others)
            /\ \A page : page # kernel_stack_bottom(pid) /\ HasArea(b, page) => HasArea(r, page)
<1> DEFINE i == CHOOSE k \in DOMAIN b.areas : b.areas[k].start = kernel_stack_bottom(pid)
           area == b.areas[i]
           c == ForEach(LAMBDA e, k : unmap_one(area, e, k), b, Upto(1, Len(area.data_frames) + 1))
           left == RemoveAt(c.areas, i)
           r == [c EXCEPT !.areas = left]
<1>1. r = kernel_stack_drop(b, pid)
  BY Zenon DEF kernel_stack_drop
<1>2. /\ IsBuilder(b) /\ b.fa \in Allocator /\ b.areas \in Seq(Area) /\ b.frames \in Seq(Int) /\ b.root \in Int
      /\ OwnedOnce(b) /\ Owned(b) \cap others = {} /\ Exact(b.fa, EKERNEL, Owned(b) \cup others)
  BY DEF Holds, BuilderType
<1>3. i \in DOMAIN b.areas /\ area.start = kernel_stack_bottom(pid)
  BY Zenon DEF HasArea
<1> HIDE DEF i
<1>4. area.data_frames \in Seq(Int) /\ IsInjective(area.data_frames) /\ i \in 1 .. Len(b.areas)
  <2>1. area \in Area /\ i \in 1 .. Len(b.areas)
    BY <1>2, <1>3, ElementOfSeq, LenProperties
  <2>2. IsInjective(area.data_frames)
    BY <1>2, <1>3 DEF OwnedOnce
  <2> HIDE DEF area
  <2> QED BY <2>1, <2>2 DEF Area
<1> DEFINE s == [frames |-> b.frames, areas |-> RemoveAt(b.areas, i)]
<1>5. s.frames = b.frames /\ s.areas = RemoveAt(b.areas, i)
  OBVIOUS
<1> HIDE DEF s
<1>6. /\ s.areas \in Seq(Area) /\ OwnedOnce(s)
      /\ Owned(b) = Owned(s) \cup DataFrames(area)
      /\ Owned(s) \cap DataFrames(area) = {}
      /\ \A k \in DOMAIN b.areas : k # i => \E j \in DOMAIN s.areas : s.areas[j] = b.areas[k]
  BY <1>2, <1>3, <1>5, RemoveArea
<1> DEFINE rest == others \cup Owned(s)
<1>7. DataFrames(area) \cap rest = {} /\ Owned(b) \cup others = rest \cup DataFrames(area)
  BY <1>2, <1>6
<1> HIDE DEF rest, area
<1>8. Books(b, rest \cup DataFrames(area))
  BY <1>2, <1>7, Zenon DEF Books
<1>9. Dropped(b, c) /\ Books(c, rest)
  BY <1>2, <1>4, <1>7, <1>8, UnmapPages, Zenon
<1> HIDE DEF c
<1>10. /\ IsBuilder(r) /\ r.fa = c.fa /\ r.root = c.root /\ r.frames = c.frames
       /\ r.panicked = c.panicked /\ r.areas = left
  <2>1. r = [c EXCEPT !.areas = left] /\ IsBuilder(c)
    BY <1>9 DEF Dropped
  <2> HIDE DEF r, left
  <2> QED BY <2>1 DEF IsBuilder
<1> HIDE DEF r
<1>11. r.areas = s.areas /\ r.frames = s.frames
  BY <1>5, <1>9, <1>10 DEF Dropped
<1>12. Owned(r) = Owned(s) /\ OwnedOnce(r)
  <2>1. Owned(r) = Owned(s) /\ OwnedOnce(r) = OwnedOnce(s)
    BY <1>11 DEF Owned, OwnedOnce
  <2> QED BY <1>6, <2>1
<1>13. BuilderType(r)
  BY <1>2, <1>5, <1>6, <1>9, <1>10, <1>11 DEF BuilderType, Dropped
<1>14. Books(r, Owned(r) \cup others)
  <2>1. Owned(r) \cup others = rest
    BY <1>12 DEF rest
  <2> QED BY <1>9, <1>10, <2>1, ZenonT(30) DEF Books
<1>15. \A page : page # kernel_stack_bottom(pid) /\ HasArea(b, page) => HasArea(r, page)
  <2>1. \A k \in DOMAIN b.areas : b.areas[k].start # kernel_stack_bottom(pid) => k # i
    BY <1>3 DEF area
  <2> QED BY <1>6, <1>11, <2>1 DEF HasArea
<1> QED BY <1>1, <1>6, <1>12, <1>13, <1>14, <1>15

-----------------------------------------------------------------------------
(* The loop of dma_alloc, and the kernel stack of a new process.           *)

QueueLoop == INSTANCE LoopProofs WITH op <- LAMBDA p, b, i : next_queue_page(b, i), Inv <- QueueInv

(* dma_alloc: the driver owns the frames it was given. *)
LEMMA DmaAlloc ==
  ASSUME NEW others, NEW b, b.fa \in Allocator, Exact(b.fa, EKERNEL, others), NEW pages \in Nat
  PROVE  QueueInv(others, 0, dma_alloc(b, pages))
<1> DEFINE c == [fa |-> b.fa, mem |-> b.mem, panicked |-> b.panicked, queue |-> <<>>]
           seq == Upto(0, pages)
           r == QueueLoop!ForEachOp(0, c, seq)
<1>1. r = dma_alloc(b, pages)
  BY Zenon DEF QueueLoop!ForEachOp, QueueLoop!ForEach, QueueLoop!Loop, QueueLoop!Then,
               QueueLoop!Chunks, ForEach, Loop, Then, Chunks, dma_alloc
<1>2. seq \in Seq(Int)
  BY UptoSeq
<1>3. QueueInv(others, 0, c)
  <2>1. Range(<<>>) = {} /\ IsInjective(<<>>) /\ <<>> \in Seq(Int)
    BY RangeEmpty
  <2>2. others \cup {} = others
    OBVIOUS
  <2>3. c.queue = <<>> /\ c.fa = b.fa /\ c.panicked = b.panicked /\ c.mem = b.mem
    OBVIOUS
  <2>4. c = [fa |-> c.fa, mem |-> c.mem, panicked |-> c.panicked, queue |-> c.queue]
    OBVIOUS
  <2> HIDE DEF c
  <2> QED BY <2>1, <2>2, <2>3, <2>4, Zenon DEF QueueInv
<1>4. \A j, k, e : QueueInv(others, j, e) <=> QueueInv(others, k, e)
  BY Zenon DEF QueueInv
<1> HIDE DEF c, seq
<1>5. ASSUME NEW k \in 1 .. Len(seq), NEW e, QueueInv(others, k - 1, e)
      PROVE  QueueInv(others, k, QueueLoop!Then(e, next_queue_page(e, seq[k])))
  <2>1. QueueInv(others, 0, e)
    BY <1>4, <1>5
  <2>2. e.panicked = "no" => QueueInv(others, 0, next_queue_page(e, seq[k]))
    BY <2>1, QueueStep
  <2> QED BY <1>4, <2>1, <2>2 DEF QueueLoop!Then
<1>6. QueueInv(others, Len(seq), r)
  BY <1>2, <1>3, <1>4, <1>5, LeastNumber, QueueLoop!ForEachInv
<1> HIDE DEF r
<1> QED BY <1>1, <1>4, <1>6

(* KernelStack::new: an area more, at the stack's bottom, unless it panics. *)
LEMMA KernelStackNew ==
  ASSUME NEW others, NEW b, Holds(others, b), NEW pid \in Pid
  PROVE  LET r == kernel_stack_new(b, pid)
         IN /\ Holds(others, r)
            /\ r.panicked = "no" =>
                 /\ b.panicked = "no"
                 /\ HasArea(r, kernel_stack_bottom(pid))
                 /\ \A page : HasArea(b, page) => HasArea(r, page)
<1> DEFINE bottom == kernel_stack_bottom(pid)
           top == kernel_stack_top(pid)
           area == MapArea(bottom, top, "Framed", {"R", "W"})
           c == push(b, area, <<>>)
           r == kernel_stack_new(b, pid)
<1>1. r = IF b.panicked = "no" THEN c ELSE b
  BY DEF kernel_stack_new, Then
<1>2. bottom \in Int /\ top \in Int
  <2>1. pid \in Nat /\ STACK_PAGES \in Nat /\ ENTRIES \in Nat
    BY MemoryAssumption
  <2>2. pid * (STACK_PAGES + 1) \in Nat /\ ENTRIES * ENTRIES * ENTRIES \in Nat
    BY <2>1
  <2> QED BY <2>1, <2>2 DEF kernel_stack_bottom, kernel_stack_top, TRAMPOLINE
<1> HIDE DEF bottom, top
<1>3. area \in Area /\ area.data_frames = <<>> /\ area.start = bottom
  BY <1>2, MapAreaType
<1>4. Len(<<>>) \in Nat /\ Len(b.areas) \in Nat /\ DOMAIN b.areas = 1 .. Len(b.areas)
  BY LenProperties DEF Holds, BuilderType
<1> HIDE DEF area
<1>5. /\ Holds(others, c)
      /\ Len(c.areas) = Len(b.areas) + 1
      /\ \A k \in 1 .. Len(b.areas) : c.areas[k].start = b.areas[k].start
      /\ c.areas[Len(b.areas) + 1].start = area.start
  BY <1>3, <1>4, PushHolds
<1> HIDE DEF c, r
<1>6. DOMAIN c.areas = 1 .. Len(b.areas) + 1
  BY <1>5, LenProperties DEF Holds, BuilderType
<1>7. HasArea(c, bottom)
  BY <1>3, <1>4, <1>5, <1>6 DEF HasArea
<1>8. \A page : HasArea(b, page) => HasArea(c, page)
  <2>1. \A k \in DOMAIN b.areas : k \in DOMAIN c.areas /\ c.areas[k].start = b.areas[k].start
    BY <1>4, <1>5, <1>6
  <2> QED BY <2>1 DEF HasArea
<1> QED BY <1>1, <1>5, <1>7, <1>8 DEF r, bottom

-----------------------------------------------------------------------------
(* The operations.                                                         *)

(* sys_fork. *)
LEMMA ForkKeeps ==
  ASSUME MemoryInv, NEW t \in Pid, NEW c \in Pid, fork(t, c)
  PROVE  MemoryInv'
<1> DEFINE user == from_existed_user(fa, mem, space[t])
           start == Resume(user, kernel)
           b == kernel_stack_new(start, c)
           others == Others(queue_frames, space, c)
<1>1. /\ fa \in Allocator /\ kernel \in Space /\ space \in [Pid -> Space] /\ space[t] \in Space
      /\ task \in [Pid -> {"free", "live", "zombie"}] /\ space[c] = NoSpace
      /\ Parts(fa, kernel, queue_frames, space) /\ StacksMapped /\ panicked = "no" /\ Step
  BY FramesExactParts DEF MemoryInv, fork, Running
<1>2. /\ OwnedOnce(kernel) /\ Owned(kernel) \cap others = {}
      /\ Exact(fa, EKERNEL, Owned(kernel) \cup others)
  <2>1. /\ OwnedOnce(kernel) /\ Owned(kernel) \cap others = {}
        /\ Exact(fa, EKERNEL, Owned(kernel) \cup Owned(space[c]) \cup others)
    BY <1>1, Split, ZenonT(30)
  <2>2. Owned(space[c]) = {}
    BY <1>1, NoSpaceOwns
  <2>3. Owned(kernel) \cup Owned(space[c]) \cup others = Owned(kernel) \cup others
    BY <2>2
  <2> QED BY <2>1, <2>3
<1> HIDE DEF others
<1>3. Holds(Owned(kernel) \cup others, user)
  BY <1>1, <1>2, FromExistedUserHolds
<1> HIDE DEF user
<1>4. /\ BuilderType(user) /\ OwnedOnce(user) /\ Owned(user) \cap Owned(kernel) = {}
      /\ Owned(user) \cap others = {} /\ user.fa \in Allocator
      /\ Exact(user.fa, EKERNEL, Owned(user) \cup (Owned(kernel) \cup others))
  BY <1>3 DEF Holds, BuilderType
<1>5. /\ BuilderType(start) /\ start.fa = user.fa /\ start.panicked = user.panicked
      /\ start.areas = kernel.areas /\ Owned(start) = Owned(kernel)
      /\ OwnedOnce(start) = OwnedOnce(kernel)
  BY <1>1, <1>4, ResumeType
<1> HIDE DEF start
<1>6. Holds(Owned(user) \cup others, start)
  <2>1. Owned(start) \cup (Owned(user) \cup others) = Owned(user) \cup (Owned(kernel) \cup others)
    BY <1>5
  <2>2. Owned(start) \cap (Owned(user) \cup others) = {}
    BY <1>2, <1>4, <1>5
  <2>3. Exact(start.fa, EKERNEL, Owned(start) \cup (Owned(user) \cup others))
    BY <1>4, <1>5, <2>1
  <2> QED BY <1>2, <1>5, <2>2, <2>3 DEF Holds
<1>7. /\ Holds(Owned(user) \cup others, b)
      /\ b.panicked = "no" =>
           /\ HasArea(b, kernel_stack_bottom(c))
           /\ \A page : HasArea(start, page) => HasArea(b, page)
  BY <1>6, KernelStackNew
<1> HIDE DEF b
<1>8. /\ BuilderType(b) /\ b.fa \in Allocator /\ OwnedOnce(b)
      /\ Owned(b) \cap (Owned(user) \cup others) = {}
      /\ Exact(b.fa, EKERNEL, Owned(b) \cup (Owned(user) \cup others))
  BY <1>7 DEF Holds, BuilderType
<1>9. CASE b.panicked # "no"
  <2>1. Panic(b)
    BY <1>9 DEF fork, b, start, user
  <2> QED BY <1>1, <1>9, <2>1, PanicKeeps
<1>10. CASE b.panicked = "no"
  <2> DEFINE l == SpaceOf(b)
             s == SpaceOf(user)
  <2>1. /\ fa' = b.fa /\ kernel' = l /\ space' = [space EXCEPT ![c] = s]
        /\ task' = [task EXCEPT ![c] = "live"] /\ panicked' = panicked
    BY <1>10 DEF fork, b, start, user
  <2>2. l \in Space /\ l.areas = b.areas /\ Owned(l) = Owned(b) /\ OwnedOnce(l)
    BY <1>8, SpaceOfType
  <2>3. s \in Space /\ Owned(s) = Owned(user) /\ OwnedOnce(s)
    BY <1>4, SpaceOfType
  <2> HIDE DEF l, s
  <2>4. StacksMapped'
    <3> SUFFICES ASSUME NEW u \in Pid, task'[u] # "free"
                 PROVE  HasArea(l, kernel_stack_bottom(u))
      BY <2>1 DEF StacksMapped
    <3>1. CASE u = c
      BY <1>7, <1>10, <2>2, <3>1 DEF HasArea
    <3>2. CASE u # c
      <4>1. task[u] # "free"
        BY <1>1, <2>1, <3>2
      <4>2. HasArea(start, kernel_stack_bottom(u))
        BY <1>1, <1>5, <4>1, ZenonT(30) DEF StacksMapped, HasArea
      <4> QED BY <1>7, <1>10, <2>2, <4>2 DEF HasArea
    <3> QED BY <3>1, <3>2
  <2>5. Owned(l) \cup (Owned(user) \cup others) = Owned(l) \cup Owned(s) \cup others
    BY <2>3
  <2>6. Exact(fa', EKERNEL, Owned(l) \cup Owned(s) \cup others) /\ fa' \in Allocator
    BY <1>8, <2>1, <2>2, <2>5
  <2>7. Owned(l) \cap others = {} /\ Owned(s) \cap others = {} /\ Owned(l) \cap Owned(s) = {}
    BY <1>4, <1>8, <2>2, <2>3
  <2> QED BY <1>1, <2>1, <2>2, <2>3, <2>4, <2>6, <2>7, NewTrackers, ZenonT(30) DEF others
<1> QED BY <1>9, <1>10

(* exec: the trackers of the old space go when the new ones are there. *)
LEMMA ExecKeeps ==
  ASSUME MemoryInv, NEW t \in Pid, NEW elf \in Program, exec(t, elf)
  PROVE  MemoryInv'
<1> DEFINE user == from_elf(fa, mem, elf)
           b == drop_space(user, space[t])
           others == Others(queue_frames, space, t)
           kept == Owned(kernel) \cup others
<1>1. /\ fa \in Allocator /\ kernel \in Space /\ space \in [Pid -> Space] /\ space[t] \in Space
      /\ task \in [Pid -> {"free", "live", "zombie"}] /\ task[t] = "live"
      /\ Parts(fa, kernel, queue_frames, space) /\ StacksMapped /\ Step
  BY FramesExactParts, ZenonT(30) DEF MemoryInv, exec, Running
<1>2. /\ OwnedOnce(kernel) /\ OwnedOnce(space[t]) /\ Owned(kernel) \cap others = {}
      /\ Owned(space[t]) \cap others = {} /\ Owned(kernel) \cap Owned(space[t]) = {}
      /\ Exact(fa, EKERNEL, Owned(kernel) \cup Owned(space[t]) \cup others)
  BY <1>1, Split, ZenonT(30)
<1> HIDE DEF others
<1>3. Holds(Owned(kernel) \cup Owned(space[t]) \cup others, user)
  BY <1>1, <1>2, FromElfHolds
<1> HIDE DEF user
<1>4. /\ BuilderType(user) /\ IsBuilder(user) /\ user.fa \in Allocator /\ OwnedOnce(user)
      /\ Owned(user) \cap (kept \cup Owned(space[t])) = {}
      /\ Books(user, Owned(user) \cup kept \cup Owned(space[t]))
  <2>1. Owned(user) \cup (Owned(kernel) \cup Owned(space[t]) \cup others)
          = Owned(user) \cup kept \cup Owned(space[t])
    OBVIOUS
  <2> QED BY <1>3, <2>1, ZenonT(30) DEF Holds, BuilderType, Books
<1>5. Owned(space[t]) \cap (Owned(user) \cup kept) = {}
  BY <1>2, <1>4
<1>6. Dropped(user, b) /\ Books(b, Owned(user) \cup kept)
  <2> HIDE DEF kept
  <2> QED BY <1>1, <1>2, <1>4, <1>5, DropSpace
<1> HIDE DEF b
<1>7. CASE b.panicked # "no"
  <2>1. Panic(b)
    BY <1>7, ZenonT(30) DEF exec, b, user
  <2> QED BY <1>1, <1>7, <2>1, PanicKeeps
<1>8. CASE b.panicked = "no"
  <2> DEFINE s == SpaceOf(user)
  <2>1. /\ fa' = b.fa /\ space' = [space EXCEPT ![t] = s]
        /\ kernel' = kernel /\ task' = task /\ panicked' = panicked
    BY <1>8, ZenonT(30) DEF exec, b, user
  <2>2. s \in Space /\ Owned(s) = Owned(user) /\ OwnedOnce(s)
    BY <1>4, SpaceOfType
  <2> HIDE DEF s
  <2>3. StacksMapped'
    BY <1>1, <2>1 DEF StacksMapped
  <2>4. Owned(user) \cup kept = Owned(kernel) \cup Owned(s) \cup others
    BY <2>2
  <2>5. Exact(fa', EKERNEL, Owned(kernel) \cup Owned(s) \cup others) /\ fa' \in Allocator
    BY <1>6, <1>8, <2>1, <2>4, ZenonT(30) DEF Books, Dropped
  <2>6. Owned(s) \cap others = {} /\ Owned(kernel) \cap Owned(s) = {}
    BY <1>4, <2>2
  <2>7. task' = [task EXCEPT ![t] = "live"]
    BY <1>1, <2>1
  <2> QED BY <1>1, <1>2, <2>1, <2>2, <2>3, <2>5, <2>6, <2>7, NewTrackers, ZenonT(30) DEF others
<1> QED BY <1>7, <1>8

(* exit: the areas of the task go, its page table stays. *)
LEMMA ExitKeeps ==
  ASSUME MemoryInv, NEW t \in Pid, exit(t)
  PROVE  MemoryInv'
<1> DEFINE old == space[t]
           now == [fa |-> fa, mem |-> mem, panicked |-> "no"]
           start == Resume(now, old)
           b == drop_areas(start, old.areas)
           s == recycle_data_pages(old)
           others == Others(queue_frames, space, t)
           keep == Owned(kernel) \cup others \cup Range(old.frames)
<1>1. /\ fa \in Allocator /\ kernel \in Space /\ space \in [Pid -> Space] /\ old \in Space
      /\ task \in [Pid -> {"free", "live", "zombie"}]
      /\ Parts(fa, kernel, queue_frames, space) /\ StacksMapped /\ Step
  BY FramesExactParts DEF MemoryInv, exit, Running
<1>2. /\ OwnedOnce(kernel) /\ OwnedOnce(old) /\ Owned(kernel) \cap others = {}
      /\ Owned(old) \cap others = {} /\ Owned(kernel) \cap Owned(old) = {}
      /\ Exact(fa, EKERNEL, Owned(kernel) \cup Owned(old) \cup others)
  BY <1>1, Split, ZenonT(30)
<1> HIDE DEF others, old
<1>3. now.fa = fa
  OBVIOUS
<1>4. BuilderType(start) /\ IsBuilder(start) /\ start.fa = fa
  <2> HIDE DEF now
  <2> QED BY <1>1, <1>3, ResumeType, ZenonT(30) DEF BuilderType
<1> HIDE DEF start
<1>5. Owned(old) = Range(old.frames) \cup AllFrames(old.areas)
  BY DEF Owned, AllFrames
<1>6. Apart(old.areas, keep)
  <2>1. \A k \in DOMAIN old.areas : DataFrames(old.areas[k]) \subseteq Owned(old)
    BY DEF Owned
  <2>2. \A k \in DOMAIN old.areas : DataFrames(old.areas[k]) \cap keep = {}
    BY <1>2, <2>1, ZenonT(30) DEF OwnedOnce
  <2> QED BY <1>2, <2>2, ZenonT(30) DEF Apart, OwnedOnce
<1>7. Books(start, keep \cup AllFrames(old.areas)) /\ old.areas \in Seq(Area)
  <2>1. Owned(kernel) \cup Owned(old) \cup others = keep \cup AllFrames(old.areas)
    BY <1>5
  <2> QED BY <1>1, <1>2, <1>4, <2>1, ZenonT(30) DEF Books, Space
<1>8. Dropped(start, b) /\ Books(b, keep)
  <2> HIDE DEF keep
  <2> QED BY <1>1, <1>4, <1>6, <1>7, DropAreas, ZenonT(30)
<1> HIDE DEF b
<1>9. CASE b.panicked # "no"
  <2>1. Panic(b)
    BY <1>9 DEF exit, b, start, old
  <2> QED BY <1>1, <1>9, <2>1, PanicKeeps
<1>10. CASE b.panicked = "no"
  <2>1. /\ fa' = b.fa /\ space' = [space EXCEPT ![t] = s]
        /\ kernel' = kernel /\ task' = [task EXCEPT ![t] = "zombie"] /\ panicked' = panicked
    BY <1>1, <1>10 DEF exit, b, start, old
  <2>2. s \in Space /\ s.frames = old.frames /\ s.areas = <<>>
    <3>1. s = [old EXCEPT !.areas = <<>>] /\ <<>> \in Seq(Area)
      BY DEF recycle_data_pages
    <3> HIDE DEF s
    <3> QED BY <1>1, <3>1, ZenonT(30) DEF Space
  <2> HIDE DEF s
  <2>3. Owned(s) = Range(old.frames) /\ OwnedOnce(s)
    BY <1>2, <2>2 DEF Owned, OwnedOnce
  <2>4. StacksMapped'
    <3> SUFFICES ASSUME panicked = "no", NEW u \in Pid, task'[u] # "free"
                 PROVE  HasArea(kernel, kernel_stack_bottom(u))
      BY <2>1 DEF StacksMapped
    <3>1. task[u] # "free"
      BY <1>1, <2>1, ZenonT(30) DEF exit, Running
    <3> QED BY <1>1, <3>1 DEF StacksMapped
  <2>5. keep = Owned(kernel) \cup Owned(s) \cup others
    BY <2>3
  <2>6. Exact(fa', EKERNEL, Owned(kernel) \cup Owned(s) \cup others) /\ fa' \in Allocator
    BY <1>8, <1>10, <2>1, <2>5, ZenonT(30) DEF Books, Dropped
  <2>7. Owned(s) \cap others = {} /\ Owned(kernel) \cap Owned(s) = {}
    BY <1>2, <1>5, <2>3
  <2> QED BY <1>1, <1>2, <2>1, <2>2, <2>3, <2>4, <2>6, <2>7, NewTrackers, ZenonT(30) DEF others
<1> QED BY <1>9, <1>10

(* The drop of a TCB: its kernel stack, its page table, areas it has none. *)
LEMMA DropTcbKeeps ==
  ASSUME MemoryInv, NEW t \in Pid, drop_tcb(t)
  PROVE  MemoryInv'
<1> DEFINE old == space[t]
           now == [fa |-> fa, mem |-> mem, panicked |-> "no"]
           start == Resume(now, kernel)
           stack == kernel_stack_drop(start, t)
           b == drop_space(stack, old)
           others == Others(queue_frames, space, t)
<1>1. /\ fa \in Allocator /\ kernel \in Space /\ space \in [Pid -> Space] /\ old \in Space
      /\ task \in [Pid -> {"free", "live", "zombie"}] /\ task[t] # "free" /\ panicked = "no"
      /\ Parts(fa, kernel, queue_frames, space) /\ StacksMapped /\ Step
  BY FramesExactParts DEF MemoryInv, drop_tcb
<1>2. /\ OwnedOnce(kernel) /\ OwnedOnce(old) /\ Owned(kernel) \cap others = {}
      /\ Owned(old) \cap others = {} /\ Owned(kernel) \cap Owned(old) = {}
      /\ Exact(fa, EKERNEL, Owned(kernel) \cup Owned(old) \cup others)
  BY <1>1, Split, ZenonT(30)
<1> HIDE DEF others, old
<1>3. now.fa = fa
  OBVIOUS
<1>4. /\ BuilderType(start) /\ start.fa = fa /\ start.areas = kernel.areas
      /\ Owned(start) = Owned(kernel) /\ OwnedOnce(start)
  <2> HIDE DEF now
  <2> QED BY <1>1, <1>2, <1>3, ResumeType, Zenon
<1> HIDE DEF start
<1>5. Holds(Owned(old) \cup others, start)
  <2>1. Owned(kernel) \cup Owned(old) \cup others = Owned(start) \cup (Owned(old) \cup others)
    BY <1>4
  <2>2. Owned(start) \cap (Owned(old) \cup others) = {}
    BY <1>2, <1>4
  <2> QED BY <1>2, <1>4, <2>1, <2>2 DEF Holds
<1>6. HasArea(start, kernel_stack_bottom(t))
  BY <1>1, <1>4 DEF StacksMapped, HasArea
<1>7. /\ BuilderType(stack) /\ OwnedOnce(stack) /\ Owned(stack) \subseteq Owned(start)
      /\ Books(stack, Owned(stack) \cup (Owned(old) \cup others))
      /\ \A page : page # kernel_stack_bottom(t) /\ HasArea(start, page) => HasArea(stack, page)
  BY <1>5, <1>6, KernelStackDrop
<1> HIDE DEF stack
<1>8. Dropped(stack, b) /\ Books(b, Owned(stack) \cup others)
  <2>1. Owned(stack) \cup (Owned(old) \cup others) = (Owned(stack) \cup others) \cup Owned(old)
    OBVIOUS
  <2>2. Owned(old) \cap (Owned(stack) \cup others) = {}
    BY <1>2, <1>4, <1>7
  <2>3. IsBuilder(stack) /\ stack.fa \in Allocator
    BY <1>7 DEF BuilderType
  <2>4. Books(stack, (Owned(stack) \cup others) \cup Owned(old))
    BY <1>7, <2>1
  <2> QED BY <1>1, <1>2, <2>2, <2>3, <2>4, DropSpace, ZenonT(30)
<1> HIDE DEF b
<1>9. CASE b.panicked # "no"
  <2>1. Panic(b)
    BY <1>9 DEF drop_tcb, b, stack, start, old
  <2> QED BY <1>1, <1>9, <2>1, PanicKeeps
<1>10. CASE b.panicked = "no"
  <2> DEFINE l == SpaceOf(stack)
  <2>1. /\ fa' = b.fa /\ kernel' = l /\ space' = [space EXCEPT ![t] = NoSpace]
        /\ task' = [task EXCEPT ![t] = "free"] /\ panicked' = panicked
    BY <1>10 DEF drop_tcb, b, stack, start, old
  <2>2. l \in Space /\ l.areas = stack.areas /\ Owned(l) = Owned(stack) /\ OwnedOnce(l)
    BY <1>7, SpaceOfType
  <2> HIDE DEF l
  <2>3. NoSpace \in Space /\ Owned(NoSpace) = {} /\ OwnedOnce(NoSpace)
    BY NoSpaceOwns
  <2>4. StacksMapped'
    <3> SUFFICES ASSUME NEW u \in Pid, task'[u] # "free"
                 PROVE  HasArea(l, kernel_stack_bottom(u))
      BY <2>1 DEF StacksMapped
    <3>1. u # t /\ task[u] # "free"
      BY <1>1, <2>1
    <3>2. HasArea(start, kernel_stack_bottom(u))
      BY <1>1, <1>4, <3>1 DEF StacksMapped, HasArea
    <3>3. kernel_stack_bottom(u) # kernel_stack_bottom(t)
      BY <3>1, BottomInjective, ZenonT(30)
    <3> QED BY <1>7, <2>2, <3>2, <3>3 DEF HasArea
  <2>5. Owned(stack) \cup others = Owned(l) \cup Owned(NoSpace) \cup others
    BY <2>2, <2>3
  <2>6. Exact(fa', EKERNEL, Owned(l) \cup Owned(NoSpace) \cup others) /\ fa' \in Allocator
    BY <1>8, <1>10, <2>1, <2>5, ZenonT(30) DEF Books, Dropped
  <2>7. Owned(l) \cap others = {} /\ Owned(NoSpace) \cap others = {} /\ Owned(l) \cap Owned(NoSpace) = {}
    BY <1>2, <1>4, <1>7, <2>2, <2>3
  <2> QED BY <1>1, <2>1, <2>2, <2>3, <2>4, <2>6, <2>7, NewTrackers, ZenonT(30) DEF others
<1> QED BY <1>9, <1>10

(* rust_main establishes the invariant, whether or not it panics. *)
LEMMA InitHolds == Init => MemoryInv
<1> SUFFICES ASSUME Init PROVE MemoryInv
  OBVIOUS
<1> DEFINE empty == [p \in 0 .. MEMORY_END - 1 |-> ZeroPage]
           kern == new_kernel(init(EKERNEL, MEMORY_END), empty)
           dma == dma_alloc(kern, QUEUE_PAGES)
<1>1. PICK elf \in Program :
        LET user == from_elf(dma.fa, dma.mem, elf)
            b == kernel_stack_new(Resume(user, SpaceOf(kern)), 0)
        IN /\ fa = b.fa /\ kernel = SpaceOf(b) /\ queue_frames = dma.queue
           /\ space = [p \in Pid |-> IF p = 0 THEN SpaceOf(user) ELSE NoSpace]
           /\ task = [p \in Pid |-> IF p = 0 THEN "live" ELSE "free"]
           /\ panicked = Then(dma, b).panicked
  BY ZenonT(30) DEF Init
<1> DEFINE user == from_elf(dma.fa, dma.mem, elf)
           start == Resume(user, SpaceOf(kern))
           b == kernel_stack_new(start, 0)
<1>2. /\ fa = b.fa /\ kernel = SpaceOf(b) /\ queue_frames = dma.queue
      /\ space = [p \in Pid |-> IF p = 0 THEN SpaceOf(user) ELSE NoSpace]
      /\ task = [p \in Pid |-> IF p = 0 THEN "live" ELSE "free"]
      /\ panicked = Then(dma, b).panicked
  BY <1>1, Zenon
<1>3. 0 \in Pid /\ QUEUE_PAGES \in Nat /\ EKERNEL \in Int /\ MEMORY_END \in Int /\ EKERNEL <= MEMORY_END
  BY MemoryAssumption
<1>4. Holds({}, kern)
  <2>1. Exact(init(EKERNEL, MEMORY_END), EKERNEL, {})
    BY <1>3, InitExact
  <2>2. init(EKERNEL, MEMORY_END) \in Allocator
    BY <1>3 DEF init, Allocator
  <2> HIDE DEF empty
  <2> QED BY <2>1, <2>2, NewKernelHolds
<1> HIDE DEF kern
<1>5. /\ BuilderType(kern) /\ OwnedOnce(kern) /\ kern.fa \in Allocator
      /\ Exact(kern.fa, EKERNEL, Owned(kern))
  <2>1. Owned(kern) \cup {} = Owned(kern)
    OBVIOUS
  <2> QED BY <1>4, <2>1 DEF Holds, BuilderType
<1>6. QueueInv(Owned(kern), 0, dma)
  BY <1>3, <1>5, DmaAlloc
<1> HIDE DEF dma
<1> DEFINE Q == Range(dma.queue)
<1>7. /\ dma.fa \in Allocator /\ dma.queue \in Seq(Int) /\ IsInjective(dma.queue)
      /\ Q \cap Owned(kern) = {} /\ Exact(dma.fa, EKERNEL, Owned(kern) \cup Q)
  BY <1>6 DEF QueueInv
<1>8. Holds(Owned(kern) \cup Q, user)
  <2> HIDE DEF Q
  <2> QED BY <1>7, FromElfHolds
<1> HIDE DEF user, Q
<1>9. /\ BuilderType(user) /\ OwnedOnce(user) /\ user.fa \in Allocator
      /\ Owned(user) \cap (Owned(kern) \cup Q) = {}
      /\ Exact(user.fa, EKERNEL, Owned(user) \cup (Owned(kern) \cup Q))
  BY <1>8 DEF Holds, BuilderType
<1>10. SpaceOf(kern) \in Space /\ Owned(SpaceOf(kern)) = Owned(kern) /\ OwnedOnce(SpaceOf(kern))
  BY <1>5, SpaceOfType
<1>11. /\ BuilderType(start) /\ start.fa = user.fa
       /\ Owned(start) = Owned(kern) /\ OwnedOnce(start)
  BY <1>9, <1>10, ResumeType
<1> HIDE DEF start
<1>12. Holds(Owned(user) \cup Q, start)
  <2>1. Owned(user) \cup (Owned(kern) \cup Q) = Owned(start) \cup (Owned(user) \cup Q)
    BY <1>11
  <2>2. Owned(start) \cap (Owned(user) \cup Q) = {}
    BY <1>7, <1>9, <1>11, ZenonT(30)
  <2> QED BY <1>9, <1>11, <2>1, <2>2 DEF Holds
<1>13. /\ Holds(Owned(user) \cup Q, b)
       /\ b.panicked = "no" => HasArea(b, kernel_stack_bottom(0))
  BY <1>3, <1>12, KernelStackNew
<1> HIDE DEF b
<1>14. /\ BuilderType(b) /\ OwnedOnce(b) /\ b.fa \in Allocator
       /\ Owned(b) \cap (Owned(user) \cup Q) = {}
       /\ Exact(b.fa, EKERNEL, Owned(b) \cup (Owned(user) \cup Q))
  BY <1>13 DEF Holds, BuilderType
<1>15. kernel \in Space /\ kernel.areas = b.areas /\ Owned(kernel) = Owned(b) /\ OwnedOnce(kernel)
  BY <1>2, <1>14, SpaceOfType
<1>16. SpaceOf(user) \in Space /\ Owned(SpaceOf(user)) = Owned(user) /\ OwnedOnce(SpaceOf(user))
  BY <1>9, SpaceOfType
<1>17. NoSpace \in Space /\ Owned(NoSpace) = {} /\ OwnedOnce(NoSpace)
  BY NoSpaceOwns
<1>18. /\ space \in [Pid -> Space] /\ task \in [Pid -> {"free", "live", "zombie"}]
       /\ \A t \in Pid : task[t] = "free" => space[t] = NoSpace
       /\ \A t \in Pid : OwnedOnce(space[t]) /\ Owned(space[t]) = IF t = 0 THEN Owned(user) ELSE {}
       /\ \A t \in Pid : task[t] # "free" => t = 0
  BY <1>2, <1>16, <1>17
<1>19. StacksMapped
  <2>1. panicked = "no" => b.panicked = "no"
    BY <1>2 DEF Then
  <2> QED BY <1>13, <1>15, <1>18, <2>1 DEF StacksMapped, HasArea
<1>20. FramesExact
  <2>1. TaskFrames = Owned(user)
    BY <1>3, <1>18 DEF TaskFrames
  <2>2. Owned(kernel) \cup Range(queue_frames) \cup TaskFrames = Owned(b) \cup (Owned(user) \cup Q)
    BY <1>2, <1>15, <2>1 DEF Q
  <2>3. Exact(fa, EKERNEL, Owned(kernel) \cup Range(queue_frames) \cup TaskFrames)
    BY <1>2, <1>14, <2>2
  <2>4. /\ Owned(kernel) \cap Range(queue_frames) = {}
        /\ TaskFrames \cap (Owned(kernel) \cup Range(queue_frames)) = {}
    BY <1>2, <1>9, <1>14, <1>15, <2>1 DEF Q
  <2>5. \A t, u \in Pid : t # u => Owned(space[t]) \cap Owned(space[u]) = {}
    BY <1>18
  <2>6. IsInjective(queue_frames)
    BY <1>2, <1>7
  <2> QED BY <1>15, <1>18, <2>3, <2>4, <2>5, <2>6 DEF FramesExact
<1> QED BY <1>2, <1>7, <1>14, <1>15, <1>18, <1>19, <1>20, ZenonT(30) DEF MemoryInv

(* Through any sequence of fork, exec, exit, reap and stores, no frame has *)
(* two owners, none is lost and none is free while owned: drops undo what  *)
(* the builders did, however the page tables look (FrameTracker's RAII).   *)
THEOREM FramesNeverLeak == Spec => []FramesExact
<1>1. ASSUME MemoryInv, [Next]_vars
      PROVE  MemoryInv'
  <2>1. ASSUME NEW t \in Pid, NEW vpn, NEW w, store(t, vpn, w)
        PROVE  MemoryInv'
    <3>1. UNCHANGED <<fa, kernel, queue_frames, space, task, panicked>>
      BY <2>1 DEF store, Step
    <3> QED BY <1>1, <3>1 DEF MemoryInv, FramesExact, TaskFrames, StacksMapped
  <2>2. CASE UNCHANGED vars
    BY <1>1, <2>2 DEF vars, MemoryInv, FramesExact, TaskFrames, StacksMapped
  <2>3. CASE Halted
    BY <2>2, <2>3 DEF Halted
  <2> QED BY <1>1, <2>1, <2>2, <2>3, ForkKeeps, ExecKeeps, ExitKeeps, DropTcbKeeps DEF Next
<1>2. MemoryInv => FramesExact
  BY DEF MemoryInv
<1> QED BY InitHolds, <1>1, <1>2, PTL DEF Spec
=============================================================================

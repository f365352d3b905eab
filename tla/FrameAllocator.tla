--------------------------- MODULE FrameAllocator ---------------------------
(***************************************************************************)
(* StackFrameAllocator (os/src/mm/frame_allocator.rs) as operators on a    *)
(* record [current, end, recycled]: the frames from current up to end were *)
(* never handed out, recycled is the stack of those that came back.        *)
(***************************************************************************)
EXTENDS Lists

init(l, r) == [current |-> l, end |-> r, recycled |-> <<>>]

(* alloc() returns Some. *)
can_alloc(fa) == fa.recycled # <<>> \/ fa.current # fa.end

(* The frame alloc() returns, and the allocator after it. *)
alloc_ppn(fa) == IF fa.recycled # <<>> THEN Last(fa.recycled) ELSE fa.current

alloc(fa) ==
  IF fa.recycled # <<>>
  THEN [fa EXCEPT !.recycled = Front(@)]
  ELSE [fa EXCEPT !.current = @ + 1]

(* The validity check of dealloc. *)
dealloc_ok(fa, ppn) == ppn < fa.current /\ ppn \notin Range(fa.recycled)

dealloc(fa, ppn) == [fa EXCEPT !.recycled = Append(@, ppn)]

(* The owned and the recycled frames partition what was ever handed out.   *)
Exact(fa, base, owned) ==
  /\ fa.current \in base .. fa.end
  /\ IsInjective(fa.recycled)
  /\ Range(fa.recycled) \cap owned = {}
  /\ Range(fa.recycled) \cup owned = base .. fa.current - 1
============================================================================

----------------------------- MODULE UserBuffer -----------------------------
(***************************************************************************)
(* How the kernel reaches a buffer of an application (os/src/mm:           *)
(* translated_byte_buffer, UserBuffer and its iterator, the conversions of *)
(* address.rs): the loop that cuts the buffer at page boundaries, then the *)
(* iterator that walks the slices byte by byte.  An address is a number    *)
(* below USIZE; a masking with a power of two is a remainder.              *)
(***************************************************************************)
EXTENDS Integers, Sequences

CONSTANTS
  PAGE_SIZE,      \* bytes of a page (4096)
  USER_PAGES,     \* pages of the lower half of the address space (2^26)
  USIZE,          \* number of addresses (2^64)
  Ppn             \* physical page numbers

ASSUME UserBufferAssumption ==
  /\ PAGE_SIZE \in Nat \ {0} /\ USER_PAGES \in Nat \ {0} /\ USIZE \in Nat
  /\ 2 * (USER_PAGES * PAGE_SIZE) <= USIZE

VARIABLES
  page_table,     \* from pages to frames, for the pages applications may use
  ptr, len,       \* the arguments
  start, v,       \* the locals of translated_byte_buffer
  current_buffer, current_idx,    \* the fields of UserBufferIterator
  out,            \* the pointers it has returned
  pc

vars == <<page_table, ptr, len, start, v, current_buffer, current_idx, out, pc>>

VA_HALF == USER_PAGES * PAGE_SIZE
VA_SIZE == 2 * VA_HALF

(* VirtAddr from usize masks; VirtAddr to usize extends the sign. *)
virt_addr(a) == a % VA_SIZE
to_usize(va) == IF va >= VA_HALF THEN (va % VA_SIZE) + (USIZE - VA_SIZE) ELSE va
floor(va) == va \div PAGE_SIZE
page_offset(va) == va % PAGE_SIZE

(* A pointer of the kernel: a frame and a byte in it. *)
Pointer(ppn, offset) == [ppn |-> ppn, offset |-> offset]

(* One address on its own, as translated_refmut and translated_str do it. *)
translate_va(a) == Pointer(page_table[floor(virt_addr(a))], page_offset(virt_addr(a)))

end == ptr + len

(* A buffer that an application may pass: its pages are mapped for it,     *)
(* which only pages of the lower half are.                                 *)
Init ==
  /\ page_table \in [0 .. USER_PAGES - 1 -> Ppn]
  /\ ptr \in 0 .. VA_HALF - 1
  /\ len \in 0 .. VA_HALF - ptr
  /\ start = ptr
  /\ v = <<>>
  /\ current_buffer = 0 /\ current_idx = 0
  /\ out = <<>>
  /\ pc = "translate"

(* The end of the page, or of the buffer. *)
end_va ==
  LET page_end == (floor(virt_addr(start)) + 1) * PAGE_SIZE
  IN IF virt_addr(end) < page_end THEN virt_addr(end) ELSE page_end

(* Fault: an end at a page boundary is not told from one at its start. *)
slice_end_masked == page_offset(end_va)

slice_end == IF page_offset(end_va) = 0 THEN PAGE_SIZE ELSE page_offset(end_va)

(* One turn of the loop; a slice that ends before it starts is a panic. *)
translate_page ==
  LET from == page_offset(virt_addr(start))
  IN /\ pc = "translate" /\ start < end
     /\ start' = to_usize(end_va)
     /\ v' = Append(v, [ppn |-> page_table[floor(virt_addr(start))], from |-> from, to |-> slice_end])
     /\ pc' = IF from <= slice_end THEN pc ELSE "panicked"
     /\ UNCHANGED <<page_table, ptr, len, current_buffer, current_idx, out>>

(* The loop ends; into_iter. *)
into_iter ==
  /\ pc = "translate" /\ ~(start < end)
  /\ pc' = "iterate"
  /\ UNCHANGED <<page_table, ptr, len, start, v, current_buffer, current_idx, out>>

slice == v[current_buffer + 1]
slice_len == slice.to - slice.from

(* Fault: the iterator stops a slice too late. *)
exhausted_late == current_buffer > Len(v)

exhausted == current_buffer >= Len(v)

(* next() returns Some; an index outside the slice is a panic. *)
next ==
  /\ pc = "iterate" /\ ~exhausted
  /\ IF current_buffer >= Len(v) \/ current_idx >= slice_len
     THEN pc' = "panicked" /\ UNCHANGED <<out, current_buffer, current_idx>>
     ELSE /\ out' = Append(out, Pointer(slice.ppn, slice.from + current_idx))
          /\ IF current_idx + 1 = slice_len
             THEN current_idx' = 0 /\ current_buffer' = current_buffer + 1
             ELSE current_idx' = current_idx + 1 /\ UNCHANGED current_buffer
          /\ UNCHANGED pc
  /\ UNCHANGED <<page_table, ptr, len, start, v>>

(* next() returns None. *)
finish ==
  /\ pc = "iterate" /\ exhausted
  /\ pc' = "done"
  /\ UNCHANGED <<page_table, ptr, len, start, v, current_buffer, current_idx, out>>

(* The call has returned, or the kernel has panicked. *)
Halted == pc \in {"done", "panicked"} /\ UNCHANGED vars

Next == translate_page \/ into_iter \/ next \/ finish \/ Halted

Spec == Init /\ [][Next]_vars /\ WF_vars(Next)

-----------------------------------------------------------------------------
(* Properties. *)

(* The iterator returns the bytes of the buffer, every one once and in     *)
(* order, each where translating its own address finds it; no slice is     *)
(* empty or reversed, wherever the buffer starts and ends in its pages     *)
(* (translated_byte_buffer, UserBufferIterator::next).                     *)
BytesInOrder ==
  /\ \A k \in 1 .. Len(out) : out[k] = translate_va(ptr + k - 1)
  /\ pc = "done" => Len(out) = len
  /\ pc # "panicked"

(* Cutting and walking a buffer comes to an end, also for one that ends at *)
(* a page boundary or where addresses change their sign.                   *)
Terminates == <>(pc = "done")
============================================================================

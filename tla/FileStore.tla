----------------------------- MODULE FileStore -----------------------------
(***************************************************************************)
(* What easy-fs promises its users: named files, each a sequence of units. *)
(* A write behind the end of a file fills the gap with zeros.              *)
(***************************************************************************)
EXTENDS Integers, Sequences

CONSTANT Zero   \* a unit that was never written

VARIABLES
  files,      \* from the names of the files that exist to their contents
  request,    \* the last operation that was asked for
  panicked    \* whether it stopped the system

vars == <<files, request, panicked>>

Init == files = [n \in {} |-> <<>>]

Written(old, pos, buf) ==
  [k \in 1 .. IF Len(old) > pos + Len(buf) THEN Len(old) ELSE pos + Len(buf) |->
     IF k \in pos + 1 .. pos + Len(buf) THEN buf[k - pos]
     ELSE IF k \in DOMAIN old THEN old[k] ELSE Zero]

ReadOut(data, pos, len) ==
  SubSeq(data, pos + 1, IF pos + len < Len(data) THEN pos + len ELSE Len(data))

(* Creating a file that exists changes nothing. *)
Create ==
  /\ request'.op = "create" /\ panicked' = "no"
  /\ files' = [n \in DOMAIN files \cup {request'.name} |->
                 IF n \in DOMAIN files THEN files[n] ELSE <<>>]

Write ==
  /\ request'.op = "write" /\ panicked' = "no"
  /\ files' = [files EXCEPT ![request'.name] = Written(@, request'.pos, request'.buf)]

Clear ==
  /\ request'.op = "clear" /\ panicked' = "no"
  /\ files' = [files EXCEPT ![request'.name] = <<>>]

Read ==
  /\ request'.op = "read" /\ panicked' = "no"
  /\ request'.buf = ReadOut(files[request'.name], request'.pos, request'.len)
  /\ UNCHANGED files

Idle == request'.op = "none" /\ UNCHANGED files

(* A device that is full stops everything; what was there stays. *)
Fail == panicked' # "no" /\ UNCHANGED files

Next == Create \/ Write \/ Clear \/ Read \/ Idle \/ Fail

Spec == Init /\ [][Next]_vars
============================================================================

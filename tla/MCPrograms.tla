----------------------------- MODULE MCPrograms -----------------------------
(* An instance of Programs for TLC: usertests runs one test that must exit *)
(* with 0 and one that must be killed by a page fault.                     *)
EXTENDS Programs

MCTests == <<0, PageFaultCode>>

(* The heap places a new TCB at an address that only depends on which are  *)
(* free, so that histories which differ in names alone are taken once.     *)
SameHeap ==
  \A t \in Task : status[t] = "Free" /\ status'[t] = "Ready" =>
    t = CHOOSE u \in Task : status[u] = "Free"
============================================================================

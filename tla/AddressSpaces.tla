--------------------------- MODULE AddressSpaces ---------------------------
(***************************************************************************)
(* What the memory system promises to processes: each has a memory of its  *)
(* own, a function from its mapped pages to permissions and words.  fork   *)
(* copies it, exec replaces it by the program image, a store changes one   *)
(* word of one process.                                                    *)
(***************************************************************************)
CONSTANTS
  Task, Program, Word,
  Loaded(_, _),     \* memory of a task that starts a program
  Forked(_, _),     \* memory of the child of a fork, from the parent's
  Returned(_, _),   \* memory after a system call returned a value
  Stored(_, _, _)   \* memory after a store to a word

VARIABLE memory     \* of every task, empty when it has none

None == [v \in {} |-> 0]

Init == \E t \in Task, p \in Program : memory = [u \in Task |-> IF u = t THEN Loaded(t, p) ELSE None]

Live(m) == {t \in Task : m[t] # None}

Fork(m, t, c) == [m EXCEPT ![t] = Returned(m[t], c), ![c] = Forked(m[t], c)]

Exec(m, t, p) == [m EXCEPT ![t] = Returned(Loaded(t, p), 0)]

Store(m, t, v, w) == [m EXCEPT ![t] = Stored(m[t], v, w)]

Exit(m, t) == [m EXCEPT ![t] = None]

(* The memories one step leads to. *)
After(m) ==
  UNION {{Fork(m, t, c) : c \in Task \ Live(m)}
         \cup {Exec(m, t, p) : p \in Program}
         \cup {Store(m, t, v, w) : v \in DOMAIN m[t], w \in Word}
         \cup {Exit(m, t)} : t \in Live(m)}

Next == \E m \in {memory} : memory' \in After(m)

Spec == Init /\ [][Next]_memory
============================================================================

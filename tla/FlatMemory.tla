----------------------------- MODULE FlatMemory -----------------------------
(***************************************************************************)
(* What the virtual memory promises: every running process has an address  *)
(* space of its own, all zero when it starts, in which a read returns the  *)
(* byte last written at its address.  There are no frames, no page tables, *)
(* no evictions and no swap.                                               *)
(***************************************************************************)
CONSTANTS Pids, Addresses, Byte, Zero, Null

VARIABLES
  running,   \* the processes that run
  contents,  \* the address space of each process
  result     \* what the last access returned

vars == <<running, contents, result>>

Init ==
  /\ running = {}
  /\ contents = [p \in Pids |-> [a \in Addresses |-> Zero]]
  /\ result = Null

Start(p) ==
  /\ p \notin running
  /\ running' = running \cup {p}
  /\ UNCHANGED <<contents, result>>

Stop(p) ==
  /\ p \in running
  /\ running' = running \ {p}
  /\ contents' = [contents EXCEPT ![p] = [a \in Addresses |-> Zero]]
  /\ UNCHANGED result

Read(p, a) ==
  /\ p \in running
  /\ result' = contents[p][a]
  /\ UNCHANGED <<running, contents>>

Write(p, a, b) ==
  /\ p \in running
  /\ contents' = [contents EXCEPT ![p][a] = b]
  /\ result' = b
  /\ UNCHANGED running

Next ==
  \E p \in Pids :
    \/ Start(p) \/ Stop(p)
    \/ \E a \in Addresses : Read(p, a) \/ \E b \in Byte : Write(p, a, b)

Spec == Init /\ [][Next]_vars
=============================================================================

----------------------------- MODULE ReadyQueue -----------------------------
(***************************************************************************)
(* The ready queue of the CPU scheduler (student.c, push_to_queue and      *)
(* pop_from_queue): a list of PCBs linked through pcb->next, walked and    *)
(* modified under ready_mutex, hence one atomic step per call.             *)
(*                                                                         *)
(* The list is represented by the sequence of the processes met when it is *)
(* walked from head.  The representation is exact even when a process that *)
(* is already queued is pushed again: the walk ends at the old tail, whose *)
(* next becomes the process, and the process's own next becomes NULL, so   *)
(* everything that followed it falls off the list.                         *)
(***************************************************************************)
EXTENDS Integers, SequencesExt

VARIABLE queue   \* the ready list

(* push_to_queue *)
Push(p) ==
  \/ /\ p \notin ToSet(queue)
     /\ queue' = Append(queue, p)
  \/ \E i \in DOMAIN queue :
       /\ queue[i] = p
       /\ \A j \in 1 .. i - 1 : queue[j] # p
       /\ queue' = SubSeq(queue, 1, i)

(* Variant: LRTF takes the process with the least time remaining. *)
IsShortest(i, lrtf, remaining) ==
  IF lrtf
  THEN \A j \in DOMAIN queue :
         /\ remaining[queue[j]] >= remaining[queue[i]]
         /\ remaining[queue[j]] = remaining[queue[i]] => i <= j
  ELSE i = 1

(***************************************************************************)
(* The process pop_from_queue takes: FIFO and round robin the head, LRTF   *)
(* the first of those with the largest time_remaining in the list.         *)
(***************************************************************************)
IsNext(i, lrtf, remaining) ==
  IF lrtf
  THEN \A j \in DOMAIN queue :
         /\ remaining[queue[j]] <= remaining[queue[i]]
         /\ remaining[queue[j]] = remaining[queue[i]] => i <= j
  ELSE i = 1

=============================================================================

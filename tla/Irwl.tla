-------------------------------- MODULE Irwl --------------------------------
(***************************************************************************)
(* The inverted readers-writers lock of os-sim.c: any number of writers    *)
(* (CPU threads inside the scheduler's handlers) or one reader (the        *)
(* supervisor printing a Gantt line).  The four macros are the actions.    *)
(*                                                                         *)
(* IRWL_READER_LOCK keeps the inner mutex until IRWL_READER_UNLOCK, so     *)
(* reader = "in" also stands for "the inner mutex is taken" and disables   *)
(* the writers' macros; every other use of the mutex is a single step.     *)
(***************************************************************************)
EXTENDS Integers

VARIABLES
  writers,   \* the writers field; the macros do not check who unlocks
  reader     \* "out", "blocked" in pthread_cond_wait(no_writers), "woken", "in"

irwlVars == <<writers, reader>>

IrwlType ==
  /\ writers \in Int
  /\ reader \in {"out", "blocked", "woken", "in"}

IrwlInit ==
  /\ writers = 0
  /\ reader = "out"

WriterLock ==
  /\ reader # "in"
  /\ writers' = writers + 1
  /\ UNCHANGED reader

(* The last writer signals no_writers, which wakes the reader if it waits. *)
WriterUnlock ==
  /\ reader # "in"
  /\ writers' = writers - 1
  /\ reader' = IF writers = 1 /\ reader = "blocked" THEN "woken" ELSE reader

(* The reader tests the count when it arrives and again when it is woken. *)
ReaderLock ==
  /\ reader \in {"out", "woken"}
  /\ reader' = IF writers > 0 THEN "blocked" ELSE "in"
  /\ UNCHANGED writers

ReaderUnlock ==
  /\ reader = "in"
  /\ reader' = "out"
  /\ UNCHANGED writers

=============================================================================

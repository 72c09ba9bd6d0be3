---------------------------- MODULE OsSimSpurious ---------------------------
(***************************************************************************)
(* OsSim on threads whose waits may return without a signal, as POSIX lets *)
(* pthread_cond_wait do.  The waits of the CPU threads and of idle() are   *)
(* loops that test again; the supervisor's are not (os-sim.c:485, 506,     *)
(* 517, 421): it goes on with the tick before the CPU thread it posted an  *)
(* event to has run the scheduler.                                         *)
(***************************************************************************)
EXTENDS OsSimProperties

(* A CPU thread that was not waited for is behind the supervisor, as one   *)
(* is whose event was lost: lost records both.                             *)
SupervisorWakes ==
  /\ \/ SupGo("await", "reacquire")
     \/ SupGo("fpAwait", "fpReacquire")
  /\ lost' = TRUE
  /\ UNCHANGED <<schedVars, simVars, tickVars, supN, supProc, supRet, cpuVars,
                 irwlVars>>

SNext == SupervisorWakes \/ Next

SSpec == Init /\ [][SNext]_vars
=============================================================================

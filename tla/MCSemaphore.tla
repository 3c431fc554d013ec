----------------------------- MODULE MCSemaphore -----------------------------
(***************************************************************************)
(* An instance of Semaphore: two routines share a thread and race with the *)
(* routine of another one.                                                 *)
(***************************************************************************)
EXTENDS Semaphore, TLC

CONSTANTS t1, t2, r1, r2, r3

MCThreads == {t1, t2}
MCRoutines == {r1, r2, r3}
MCHome == (r1 :> t1) @@ (r2 :> t1) @@ (r3 :> t2)

=============================================================================

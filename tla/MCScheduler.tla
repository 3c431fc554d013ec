---------------------------- MODULE MCScheduler ----------------------------
(***************************************************************************)
(* Instances of Scheduler.  In MCShared two routines wait for the same     *)
(* semaphore, without timeout; besides, a may sleep or wait for a          *)
(* descriptor, and b for a semaphore of its own with a timeout, alone or   *)
(* in a select_any.  In MCTimeouts both wait for the same semaphore, with  *)
(* or without timeout.                                                     *)
(***************************************************************************)
EXTENDS Scheduler

MCRoutines == {"a", "b"}
MCSemaphores == {"shared", "own"}
MCFiles == {"f", "g"}
MCDates == {1, 2}

MCShared(r) ==
  IF r = "a" THEN {WaitSemaphore("shared", FALSE), WaitReadiness("f", TRUE), Sleep}
  ELSE {Lock("shared", FALSE), WaitSemaphore("own", TRUE), <<EventLock("own"), EventSyscall("g"), EventTimer>>}

MCSharedCalls(r) == IF r = "a" THEN 1 ELSE 2

MCTimeouts(r) == {WaitSemaphore("shared", limited) : limited \in BOOLEAN}

MCOneCall(r) == 1
MCOneSemaphore == {"shared"}
MCNoFile == {}
MCOneDate == {1}
=============================================================================

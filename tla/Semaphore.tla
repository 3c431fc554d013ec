------------------------------ MODULE Semaphore ------------------------------
(***************************************************************************)
(* boson::semaphore and the part of internal::routine that waits on it.    *)
(*                                                                         *)
(* The tickets are one atomic integer.  A routine that finds none writes   *)
(* itself into a queue of waiters, gives back what it subtracted, and      *)
(* suspends; whoever adds to a counter that is not negative pops a waiter  *)
(* and sends its thread a schedule_waiting_routine command.  The thread    *)
(* turns the command into a candidacy, which subtracts again and may fail. *)
(* Nothing but the counter, the queue and the commands is shared, and each *)
(* access to one of them is a step of its own: every interleaving of the   *)
(* threads between two accesses is a behaviour of this module.             *)
(*                                                                         *)
(* Waits have no timeout here (the default of wait, lock, read and write). *)
(***************************************************************************)
EXTENDS Integers, Sequences, FiniteSets

CONSTANTS Threads,    \* the engine's threads
          Routines,   \* the routines that use the semaphore
          Home,       \* the thread each routine runs on, for its whole life
          Capacity,   \* tickets at construction
          MaxPosts    \* bound: successful posts in a behaviour

\* semaphore.h:56-57.  A counter above the threshold is a disabled semaphore.
disabling_threshold == 1073741824
disabled_standpoint == 1610612736

ASSUME RoutinesAssumption ==
  /\ IsFiniteSet(Routines)
  /\ Home \in [Routines -> Threads]

\* The counter is a 32-bit int split in two ranges.  The tickets must fit
\* under the threshold, and the subtractions and additions that are under
\* way at one time must fit between the threshold and the standpoint.
ASSUME RangeAssumption ==
  /\ Capacity \in Nat
  /\ MaxPosts \in Nat
  /\ Capacity + MaxPosts <= disabling_threshold
  /\ 2 * Cardinality(Routines) < disabled_standpoint - disabling_threshold

VARIABLES
  counter,    \* counter_
  waiters,    \* waiters_, by routine: the head is read first
  notified,   \* routines with a schedule_waiting_routine command in flight
  pc,         \* where each routine is in the code below
  taken,      \* history: waits that returned ok
  given       \* history: posts that returned ok

vars == <<counter, waiters, notified, pc, taken, given>>

(***************************************************************************)
(* Places in the code.                                                     *)
(*   running       user code, outside the semaphore                        *)
(*   wait_restore  before the fetch_add that undoes a wait on a disabled   *)
(*                 semaphore                                               *)
(*   enqueue       found no ticket, before semaphore::write                *)
(*   release       in the queue, before the fetch_add                      *)
(*   wait_pop      the fetch_add found a ticket, before pop_a_waiter       *)
(*   suspended     status wait_events                                      *)
(*   candidate     status sema_event_candidate                             *)
(*   post_restore  before the fetch_sub that undoes a post on a disabled   *)
(*                 semaphore                                               *)
(*   post_pop      posted, before pop_a_waiter                             *)
(*   drain         in the loop of disable                                  *)
(***************************************************************************)
Idle == {"running", "suspended", "candidate"}
Busy == {"wait_restore", "enqueue", "release", "wait_pop",
         "post_restore", "post_pop", "drain"}

GoTo(r, place) == pc' = [pc EXCEPT ![r] = place]

\* A thread runs one thing at a time: nothing starts on it while one of its
\* routines is inside the semaphore.
ThreadIsFree(r) == \A o \in Routines : Home[o] = Home[r] => pc[o] \in Idle

Init == /\ counter = Capacity
        /\ waiters = <<>>
        /\ notified = {}
        /\ pc = [r \in Routines |-> "running"]
        /\ taken = 0
        /\ given = 0

\* Mutant: the last ticket but none counts as a ticket.
TakeTicketOffByOne(r) ==
  /\ counter' = counter - 1
  /\ \/ /\ disabling_threshold < counter
        /\ GoTo(r, "wait_restore")
        /\ UNCHANGED taken
     \/ /\ counter < 0
        /\ GoTo(r, "enqueue")
        /\ UNCHANGED taken
     \/ /\ counter \in 0 .. disabling_threshold
        /\ GoTo(r, "running")
        /\ taken' = taken + 1
  /\ UNCHANGED <<waiters, notified, given>>

\* Mutant: the disabled state is not looked at.
TakeTicketUnchecked(r) ==
  /\ counter' = counter - 1
  /\ \/ /\ counter <= 0
        /\ GoTo(r, "enqueue")
        /\ UNCHANGED taken
     \/ /\ 0 < counter
        /\ GoTo(r, "running")
        /\ taken' = taken + 1
  /\ UNCHANGED <<waiters, notified, given>>

\* counter_.fetch_sub, then the three outcomes of wait and of a candidacy.
TakeTicket(r) ==
  /\ counter' = counter - 1
  /\ \/ /\ disabling_threshold < counter
        /\ GoTo(r, "wait_restore")
        /\ UNCHANGED taken
     \/ /\ counter <= 0
        /\ GoTo(r, "enqueue")
        /\ UNCHANGED taken
     \/ /\ counter \in 1 .. disabling_threshold
        /\ GoTo(r, "running")
        /\ taken' = taken + 1
  /\ UNCHANGED <<waiters, notified, given>>

\* semaphore::wait, up to its first access to the counter.
Wait(r) == /\ pc[r] = "running"
           /\ ThreadIsFree(r)
           /\ TakeTicket(r)

\* Mutant: the subtraction is not undone.
WaitNotRestored(r) == /\ pc[r] = "wait_restore"
                      /\ GoTo(r, "running")
                      /\ UNCHANGED <<counter, waiters, notified, taken, given>>

\* The wait or the candidacy found the semaphore disabled and returns so.
WaitRestore(r) == /\ pc[r] = "wait_restore"
                  /\ counter' = counter + 1
                  /\ GoTo(r, "running")
                  /\ UNCHANGED <<waiters, notified, taken, given>>

\* semaphore::write, from add_semaphore_wait or a failed candidacy.
Enqueue(r) == /\ pc[r] = "enqueue"
              /\ waiters' = Append(waiters, r)
              /\ GoTo(r, "release")
              /\ UNCHANGED <<counter, notified, taken, given>>

\* Mutant: the unit is given back only when a ticket came.
ReleaseForgets(r) == /\ pc[r] = "release"
                     /\ counter' = IF 0 <= counter THEN counter + 1 ELSE counter
                     /\ GoTo(r, IF 0 <= counter THEN "wait_pop" ELSE "suspended")
                     /\ UNCHANGED <<waiters, notified, taken, given>>

\* Mutant: the second look misses a counter that was just brought to zero.
ReleaseStrict(r) == /\ pc[r] = "release"
                    /\ counter' = counter + 1
                    /\ GoTo(r, IF 0 < counter THEN "wait_pop" ELSE "suspended")
                    /\ UNCHANGED <<waiters, notified, taken, given>>

\* Gives the subtracted unit back and looks whether a ticket came meanwhile.
Release(r) == /\ pc[r] = "release"
              /\ counter' = counter + 1
              /\ GoTo(r, IF 0 <= counter THEN "wait_pop" ELSE "suspended")
              /\ UNCHANGED <<waiters, notified, taken, given>>

\* Mutant: the waiter is read and no command is sent.
PopWaiterDropped ==
  \/ waiters # <<>> /\ waiters' = Tail(waiters) /\ UNCHANGED notified
  \/ waiters = <<>> /\ UNCHANGED <<waiters, notified>>

\* Mutant: a failed read is not told from a waiter.
PopWaiterUnchecked ==
  \/ /\ waiters # <<>>
     /\ waiters' = Tail(waiters)
     /\ notified' = notified \union {Head(waiters)}
  \/ /\ waiters = <<>>
     /\ notified' = notified \union {"null"}
     /\ UNCHANGED waiters

\* semaphore::read under the queue's lock, and the command to the waiter's
\* thread.  Nothing happens when the queue is empty.
PopWaiter ==
  \/ /\ waiters # <<>>
     /\ waiters' = Tail(waiters)
     /\ notified' = notified \union {Head(waiters)}
  \/ /\ waiters = <<>>
     /\ UNCHANGED <<waiters, notified>>

\* pop_a_waiter, called by a routine about to suspend or by post.
Pop(r) == /\ \/ pc[r] = "wait_pop" /\ GoTo(r, "suspended")
             \/ pc[r] = "post_pop" /\ GoTo(r, "running")
          /\ PopWaiter
          /\ UNCHANGED <<counter, taken, given>>

\* handle_engine_event receives schedule_waiting_routine: the routine
\* becomes a candidate and is scheduled.
Notify(r) == /\ r \in notified
             /\ pc[r] = "suspended"
             /\ ThreadIsFree(r)
             /\ notified' = notified \ {r}
             /\ GoTo(r, "candidate")
             /\ UNCHANGED <<counter, waiters, taken, given>>

\* event_happened on the semaphore event of a scheduled candidate.
Candidacy(r) == /\ pc[r] = "candidate"
                /\ ThreadIsFree(r)
                /\ TakeTicket(r)

\* Mutant: a post that brings the counter to one wakes nobody.
PostStrict(r) ==
  /\ pc[r] = "running"
  /\ ThreadIsFree(r)
  /\ counter' = counter + 1
  /\ \/ /\ disabling_threshold < counter
        /\ GoTo(r, "post_restore")
        /\ UNCHANGED given
     \/ /\ counter <= disabling_threshold
        /\ given < MaxPosts
        /\ GoTo(r, IF 0 < counter THEN "post_pop" ELSE "running")
        /\ given' = given + 1
  /\ UNCHANGED <<waiters, notified, taken>>

\* semaphore::post, up to its first access to the counter.
Post(r) ==
  /\ pc[r] = "running"
  /\ ThreadIsFree(r)
  /\ counter' = counter + 1
  /\ \/ /\ disabling_threshold < counter
        /\ GoTo(r, "post_restore")
        /\ UNCHANGED given
     \/ /\ counter <= disabling_threshold
        /\ given < MaxPosts
        /\ GoTo(r, IF 0 <= counter THEN "post_pop" ELSE "running")
        /\ given' = given + 1
  /\ UNCHANGED <<waiters, notified, taken>>

\* The post found the semaphore disabled and returns so.
PostRestore(r) == /\ pc[r] = "post_restore"
                  /\ counter' = counter - 1
                  /\ GoTo(r, "running")
                  /\ UNCHANGED <<waiters, notified, taken, given>>

\* semaphore::disable: the store, then one step per waiter read.
Disable(r) == /\ pc[r] = "running"
              /\ ThreadIsFree(r)
              /\ counter' = disabled_standpoint
              /\ GoTo(r, "drain")
              /\ UNCHANGED <<waiters, notified, taken, given>>

\* Mutant: disable wakes one waiter only.
DrainOnce(r) == /\ pc[r] = "drain"
                /\ PopWaiter
                /\ GoTo(r, "running")
                /\ UNCHANGED <<counter, taken, given>>

Drain(r) == /\ pc[r] = "drain"
            /\ PopWaiter
            /\ GoTo(r, IF waiters = <<>> THEN "running" ELSE "drain")
            /\ UNCHANGED <<counter, taken, given>>

\* What a thread does on its own once a call was made or a command arrived.
Progress(r) == \/ WaitRestore(r) \/ Enqueue(r) \/ Release(r) \/ Pop(r)
               \/ PostRestore(r) \/ Drain(r)

Next == \E r \in Routines :
          \/ Wait(r) \/ Post(r) \/ Disable(r)
          \/ Notify(r) \/ Candidacy(r) \/ Progress(r)

Spec == Init /\ [][Next]_vars

\* A thread never stops in the middle of a call; it reads its commands and
\* tries every scheduled candidate again and again, in order, whatever its
\* other routines do.  Calls are the user's choice and are not fair.
Fairness == \A r \in Routines : /\ WF_vars(Progress(r))
                                /\ SF_vars(Notify(r))
                                /\ SF_vars(Candidacy(r))

FairSpec == Spec /\ Fairness
-----------------------------------------------------------------------------
(***************************************************************************)
(* Counting.                                                               *)
(***************************************************************************)
\* The routines at one place of the code, and how many they are.
At(f, place) == {r \in Routines : f[r] = place}
Count(f, place) == Cardinality(At(f, place))

NbRoutines == Cardinality(Routines)

Disabled == disabling_threshold < counter

\* Routines that subtracted a unit they will give back.
Borrowed == Count(pc, "enqueue") + Count(pc, "release")

\* Wake-ups on their way: each will subtract from the counter once.
Wakes == Cardinality(notified) + Count(pc, "candidate")

\* Entries of the queue.
Queued == Len(waiters)

\* Calls of pop_a_waiter that are decided but not made.
Pops == Count(pc, "wait_pop") + Count(pc, "post_pop")

(***************************************************************************)
(* Safety.                                                                 *)
(***************************************************************************)
\* Every variable has its type; the queue and the commands hold routines only.
TypeOK == /\ counter \in Int
          /\ waiters \in Seq(Routines)
          /\ notified \in SUBSET Routines
          /\ pc \in [Routines -> Idle \union Busy]
          /\ taken \in Nat
          /\ given \in 0 .. MaxPosts

\* The semaphore or a command in flight knows that the routine waits.
HasEntry(r) == r \in notified \/ \E i \in 1 .. Len(waiters) : waiters[i] = r

\* A routine that suspends, or is about to, has exactly one entry in the
\* queue or one command in flight, and nobody else has: no waiter is dropped
\* between the queue, the commands and the scheduler, and none is resumed
\* twice for one wait.
OneEntryPerWaiter ==
  /\ \A i, j \in 1 .. Len(waiters) : waiters[i] = waiters[j] => i = j
  /\ \A i \in 1 .. Len(waiters) : waiters[i] \notin notified
  /\ \A r \in Routines :
       HasEntry(r) <=> pc[r] \in {"release", "wait_pop", "suspended"}

\* The counter is exactly the tickets left, minus what the routines that
\* failed to get one have yet to give back: no ticket is lost or made by a
\* wait, a failed candidacy or a post, whatever the interleaving.
TicketConservation ==
  ~Disabled => counter + Borrowed + taken = Capacity + given

\* What makes CounterInRange and the permanence of disable inductive.  On an
\* enabled semaphore no correction is pending and the books balance.  On a
\* disabled one the pending corrections account for the distance from the
\* standpoint, up to what each call of disable overwrote.
Ledger ==
  /\ ~Disabled => /\ Count(pc, "wait_restore") = 0
                  /\ Count(pc, "post_restore") = 0
                  /\ 0 <= counter + Borrowed
  /\ Disabled =>
       /\ disabled_standpoint - NbRoutines
            <= counter + Count(pc, "wait_restore") - Count(pc, "post_restore")
       /\ counter + Count(pc, "wait_restore") - Count(pc, "post_restore") + Borrowed
            <= disabled_standpoint + NbRoutines

\* The argument for wake-ups, in any state: every ticket in the counter is
\* matched by a wake-up or a pop under way, or every entry of the queue by a
\* routine that will look at the counter again or a pop, or disable is about
\* to read the whole queue.
WakeupsMatch == \/ counter <= Wakes + Pops
                \/ Queued <= Count(pc, "release") + Pops
                \/ Count(pc, "drain") > 0

\* Nothing is under way: no routine is inside the semaphore, no command is
\* in flight, no candidate is scheduled.
Quiet == notified = {} /\ \A r \in Routines : pc[r] \in {"running", "suspended"}

\* semaphore.h:94-96: a wait suspends the routine "until a ticker is
\* available".  Once everything has settled, a routine is suspended only if
\* there is neither a ticket for it nor a disabled semaphore to report.
NoStrandedWaiter ==
  Quiet /\ 0 < counter => \A r \in Routines : pc[r] # "suspended"

\* The corrections of waits and posts that find a disabled semaphore race
\* with each other and with other calls of disable, but the counter stays a
\* 32-bit int, and what the tickets use stays apart from what means disabled.
CounterInRange ==
  /\ counter <= 2147483647
  /\ -NbRoutines <= counter
  /\ Disabled => counter \in (disabled_standpoint - 2 * NbRoutines)
                          .. (disabled_standpoint + 2 * NbRoutines)
  /\ ~Disabled => counter <= Capacity + MaxPosts

(***************************************************************************)
(* The semaphore is a ticket pool.                                         *)
(***************************************************************************)
Pool == INSTANCE TicketPool WITH closed <- Disabled

\* A wait succeeds only on a ticket that is left, a post adds one, and once
\* disabled the semaphore stays disabled and deals in no more tickets.
ImplementsPool == Pool!PoolSpec

(***************************************************************************)
(* Liveness.                                                               *)
(***************************************************************************)
\* After disable no wait blocks (semaphore.h:87-91): every suspended routine
\* returns, also one that was on its way into the queue during the drain.
DisableReleasesWaiters ==
  \A r \in Routines : (Disabled /\ pc[r] = "suspended") ~> (pc[r] = "running")

\* A ticket and a suspended routine do not ignore each other forever.
TicketReachesWaiter ==
  \A r \in Routines : []<>(pc[r] # "suspended" \/ counter <= 0)

=============================================================================

----------------------------- MODULE Scheduler -----------------------------
(***************************************************************************)
(* One thread of boson: the loop of src/internal/thread.cc, the event      *)
(* rounds of src/internal/routine.cc, and the waits built on them:         *)
(* semaphores with and without timeout, sleeps, timed reads and writes,    *)
(* select_any.  Every wait opens an event round, subscribes to one event   *)
(* after another, and either finds one that is already there (the round is *)
(* cancelled) or suspends the routine until the first of them happens.     *)
(*                                                                         *)
(* The other threads act through what is shared: they post to semaphores,  *)
(* take tickets, and so push wake-up commands on this thread's queue.  A   *)
(* call on a semaphore is one step (Semaphore.tla splits it).  The waiters *)
(* are those of this thread.  The clock is nondeterministic: a date is     *)
(* chosen when a timer is added, and dates expire in order.                *)
(*                                                                         *)
(* A shared pointer to a routine (local_ptr) is the routine, or Nobody     *)
(* once every reference to it was invalidated.  A failed assertion stops   *)
(* the program.                                                            *)
(***************************************************************************)
EXTENDS Integers, Sequences, FiniteSets, SequencesExt, FiniteSetsExt, SparseVector

CONSTANTS Routines,     \* the routines this thread runs
          Semaphores,   \* the semaphores they wait for
          Files,        \* the file descriptors (and direction) they wait for
          Dates,        \* the dates of timers
          RoundsOf(_),  \* the event rounds a routine may open: sequences of events
          MaxCalls(_),  \* bound: calls a routine makes before it returns
          MaxPosts,     \* bound: tickets posted by other threads
          MaxTakes      \* bound: tickets taken by other threads

ASSUME SchedulerAssumption ==
  /\ Dates \subseteq Nat
  /\ \A r \in Routines : MaxCalls(r) \in Nat
  /\ MaxPosts \in Nat /\ MaxTakes \in Nat

Nobody == "nobody"

VARIABLES
  counter,      \* semaphore::counter_
  waiters,      \* semaphore::waiters_: its entries, oldest first, and its free cells
  commands,     \* thread::engine_queue_: the schedule_waiting_routine commands
  slots,        \* thread::suspended_slots_
  timed,        \* thread::timed_routines_, by date
  nb_suspended, \* thread::nb_suspended_routines_
  scheduled,    \* thread::scheduled_routines_
  next,         \* next_scheduled_routines, of the current pass
  watched,      \* the slot of each enabled registration of the event loop
  phase,        \* where the loop is
  repeat,       \* timeout_ms = 0: the next wait must not block
  fire,         \* fire_timed_out_routines
  running,      \* thread::running_routine_
  request,      \* the events the running routine has yet to subscribe to
  status,       \* routine::status_
  events,       \* routine::events_
  failed,       \* the assertion that failed
  calls, posts, takes  \* what is left of the bounds

semas == <<counter, waiters, commands>>
pass == <<repeat, fire>>
bounds == <<calls, posts, takes>>
vars == <<counter, waiters, commands, slots, timed, nb_suspended, scheduled, next, watched,
          phase, repeat, fire, running, request, status, events, failed, calls, posts, takes>>

-----------------------------------------------------------------------------
\* The events a round may hold, and the entries of the thread's queues.
Sema(s) == [type |-> "sema_wait", on |-> s]
Timer == [type |-> "timer", on |-> Nobody]
Io(f) == [type |-> "io", on |-> f]

\* The calls that wait, as the events of the round they open, in this order.
\* A read, write, accept, send or recv that would block, and a connect, wait
\* for the readiness of a descriptor; select_any waits for any events.
Within(limited) == IF limited THEN <<Timer>> ELSE <<>>

Sleep == <<Timer>>
WaitSemaphore(s, limited) == <<Sema(s)>> \o Within(limited)
Lock(s, limited) == WaitSemaphore(s, limited)
WaitReadiness(f, limited) == <<Io(f)>> \o Within(limited)

\* The events select_any is given.
EventTimer == Timer
EventLock(m) == Sema(m)
EventSyscall(f) == Io(f)

Slot(r, e) == [ptr |-> r, event_index |-> e]
Owned(r) == [ptr |-> r, event_index |-> 0]

\* The queue of a semaphore: it gives its cells out again last freed first,
\* and says in which cell an entry was written.
EmptyQueue == [entries |-> <<>>, free |-> <<>>]

CellFor(q) == IF q.free # <<>> THEN Head(q.free) ELSE Len(q.entries) + 1

\* Mutant: the cell stays in the list of free ones.
WrittenTwice(q, slot) == [entries |-> Append(q.entries, [cell |-> CellFor(q), slot |-> slot]),
                          free |-> q.free]

Written(q, slot) == [entries |-> Append(q.entries, [cell |-> CellFor(q), slot |-> slot]),
                     free |-> IF q.free # <<>> THEN Tail(q.free) ELSE <<>>]

InQueue(q, cell) == \E i \in DOMAIN q.entries : q.entries[i].cell = cell

Withdrawn(q, cell) ==
  IF InQueue(q, cell)
  THEN [entries |-> SelectSeq(q.entries, LAMBDA e : e.cell # cell), free |-> <<cell>> \o q.free]
  ELSE q

\* pop_a_waiter: the oldest entry becomes a command to its thread.
Popped(q) == IF q.entries = <<>> THEN q ELSE Withdrawn(q, Head(q.entries).cell)

WakeUp(s, q) == IF q.entries = <<>> THEN <<>> ELSE <<[sema |-> s, slot |-> Head(q.entries).slot]>>

-----------------------------------------------------------------------------
\* The end of a round: every event but "kept" is undone.  A timer only stops
\* counting and a registration with the event loop stays; a semaphore wait
\* leaves the queue, and gives its slot back if it was still queued there.
Undone(r, kept) == SelectSeq([i \in DOMAIN events[r] |-> i], LAMBDA i : i # kept)

\* Mutant: the slot is given back even if a wake-up has taken its index.
UndoneWaitsAll(r, kept) ==
  SelectSeq(Undone(r, kept), LAMBDA i : events[r][i].type = "sema_wait")

UndoneWaits(r, kept) ==
  SelectSeq(Undone(r, kept),
            LAMBDA i : /\ events[r][i].type = "sema_wait"
                       /\ InQueue(waiters[events[r][i].on], events[r][i].cell))

QueuesAfter(r, kept) ==
  FoldLeft(LAMBDA q, i : [q EXCEPT ![events[r][i].on] = Withdrawn(@, events[r][i].cell)],
           waiters, UndoneWaits(r, kept))

SlotsAfter(v, r, kept) ==
  FoldLeft(LAMBDA w, i : Freed(w, events[r][i].slot), v, UndoneWaits(r, kept))

\* Mutant: reads and writes are not uncounted.
CountedSemaphores(r) == Cardinality({i \in DOMAIN events[r] : events[r][i].type = "sema_wait"})

\* A waiting routine counts once for each event that is not a timer.
Counted(r) == Cardinality({i \in DOMAIN events[r] : events[r][i].type # "timer"})

TimedAfter(t, r, kept) ==
  [d \in DOMAIN t |->
     [t[d] EXCEPT !.nb_active = @ - Cardinality({i \in ToSet(Undone(r, kept)) :
                                                      /\ events[r][i].type = "timer"
                                                      /\ events[r][i].on = d})]]

\* local_ptr::invalidate_all on the pointer of the round.
Invalidated(v, r) ==
  [v EXCEPT !.data = [i \in DOMAIN @ |-> IF @[i].ptr = r THEN Owned(Nobody) ELSE @[i]]]

\* Mutant: the candidates of the round that ended stay scheduled.
DroppedNone(queue, r) == queue

Dropped(queue, r) ==
  [i \in DOMAIN queue |-> IF queue[i].ptr = r /\ queue[i].event_index # 0
                          THEN Owned(Nobody) ELSE queue[i]]

\* What event_happened and cancel_event_round do to all the events of a round
\* when "kept" happened (0: none did).  "t" is the timers at that moment.
EndRound(r, kept, t) ==
  /\ waiters' = QueuesAfter(r, kept)
  /\ timed' = TimedAfter(t, r, kept)
  /\ nb_suspended' = nb_suspended - Counted(r)
  /\ events' = [events EXCEPT ![r] = <<>>]

\* event_happened for a timer or a descriptor, whose slot i is then given
\* back: the thread owns the routine again and schedules it.
Happened(r, e, i, t) ==
  /\ EndRound(r, e, t)
  /\ slots' = Freed(Invalidated(SlotsAfter(slots, r, e), r), i)
  /\ status' = [status EXCEPT ![r] = "yielding"]
  /\ scheduled' = Append(Dropped(scheduled, r), Owned(r))

\* A failed assertion, or a slot that was given to another event meanwhile.
Fail(assertion) ==
  /\ failed' = assertion
  /\ phase' = "aborted"
  /\ UNCHANGED <<semas, slots, timed, nb_suspended, scheduled, next, watched, pass,
                 running, request, status, events, bounds>>

SlotHolds(i, type) == events[slots.data[i].ptr][slots.data[i].event_index].type = type

-----------------------------------------------------------------------------
\* The loop.  Waiting ends at once when the last pass asked for it, and
\* otherwise for a command, an event or the first date.
WaitReturns ==
  /\ phase = "wait"
  /\ repeat \/ commands # <<>> \/ \E f \in Files : watched[f] # NoCell
  /\ repeat' = FALSE
  /\ phase' = "io"
  /\ UNCHANGED <<semas, slots, timed, nb_suspended, scheduled, next, watched, fire,
                 running, request, status, events, failed, bounds>>

FirstDateReached ==
  /\ phase = "wait"
  /\ ~repeat
  /\ DOMAIN timed # {}
  /\ fire' = TRUE
  /\ phase' = "io"
  /\ UNCHANGED <<semas, slots, timed, nb_suspended, scheduled, next, watched, repeat,
                 running, request, status, events, failed, bounds>>

\* An event on a descriptor (dispatchRead, dispatchWrite, thread::read and
\* thread::write); the events found are dispatched in any order.
IoEvent(f) ==
  LET i == watched[f] IN
  /\ phase = "io"
  /\ i # NoCell
  /\ IF Has(slots, i) /\ slots.data[i].ptr # Nobody
     THEN LET r == slots.data[i].ptr  e == slots.data[i].event_index IN
          IF events[r][e].type = "io" /\ events[r][e].on = f
          THEN /\ Happened(r, e, i, timed)
               /\ watched' = [watched EXCEPT ![f] = NoCell]
               /\ UNCHANGED <<counter, commands, next, phase, pass, running, request, failed, bounds>>
          ELSE Fail("event_is_a_fd_wait")
     ELSE /\ watched' = [watched EXCEPT ![f] = NoCell]
          /\ UNCHANGED <<semas, slots, timed, nb_suspended, scheduled, next, phase, pass,
                         running, request, status, events, failed, bounds>>

EventsDispatched ==
  /\ phase = "io"
  /\ phase' = "handle"
  /\ UNCHANGED <<semas, slots, timed, nb_suspended, scheduled, next, watched, pass,
                 running, request, status, events, failed, bounds>>

PassOn(s) ==
  /\ waiters' = [waiters EXCEPT ![s] = Popped(@)]
  /\ commands' = Tail(commands) \o WakeUp(s, waiters[s])

\* handle_engine_event: the routine of the slot becomes a candidate for the
\* ticket; if its round ended meanwhile, the wake-up goes to another waiter.
HandleCommand ==
  /\ phase = "handle"
  /\ commands # <<>>
  /\ LET i == Head(commands).slot  s == Head(commands).sema IN
     IF ~Has(slots, i) THEN Fail("sparse_vector::has")
     ELSE IF slots.data[i].ptr = Nobody
     THEN /\ PassOn(s)
          /\ slots' = Freed(slots, i)
          /\ UNCHANGED <<counter, timed, nb_suspended, scheduled, next, watched, phase, pass,
                         running, request, status, events, failed, bounds>>
     ELSE /\ commands' = Tail(commands)
          /\ status' = [status EXCEPT ![slots.data[i].ptr] = "sema_event_candidate"]
          /\ scheduled' = Append(scheduled, slots.data[i])
          /\ UNCHANGED <<counter, waiters, slots, timed, nb_suspended, next, watched, phase, pass,
                         running, request, events, failed, bounds>>

CommandsHandled ==
  /\ phase = "handle"
  /\ commands = <<>>
  /\ phase' = IF fire THEN "fire" ELSE "run"
  /\ UNCHANGED <<semas, slots, timed, nb_suspended, scheduled, next, watched, pass,
                 running, request, status, events, failed, bounds>>

\* The timers of the first date fire one after the other, then the date is
\* erased.
FireTimer ==
  LET d == Min(DOMAIN timed)  i == Head(timed[d].slots)
      t == [timed EXCEPT ![d].slots = Tail(@)] IN
  /\ phase = "fire"
  /\ timed[d].slots # <<>>
  /\ IF ~Has(slots, i) THEN Fail("sparse_vector::has")
     ELSE IF slots.data[i].ptr = Nobody
     THEN /\ slots' = Freed(slots, i)
          /\ timed' = t
          /\ UNCHANGED <<semas, nb_suspended, scheduled, next, watched, phase, pass,
                         running, request, status, events, failed, bounds>>
     ELSE IF ~SlotHolds(i, "timer") THEN Fail("slot reused")
     ELSE /\ Happened(slots.data[i].ptr, slots.data[i].event_index, i, t)
          /\ UNCHANGED <<counter, commands, next, watched, phase, pass, running, request, failed, bounds>>

DateErased ==
  LET d == Min(DOMAIN timed) IN
  /\ phase = "fire"
  /\ timed[d].slots = <<>>
  /\ timed' = [e \in DOMAIN timed \ {d} |-> timed[e]]
  /\ fire' = FALSE
  /\ phase' = "run"
  /\ UNCHANGED <<semas, slots, nb_suspended, scheduled, next, watched, repeat,
                 running, request, status, events, failed, bounds>>

-----------------------------------------------------------------------------
\* execute_scheduled_routines: the first entry of the schedule.
SkipInvalid ==
  /\ phase = "run"
  /\ scheduled # <<>>
  /\ Head(scheduled).ptr = Nobody
  /\ scheduled' = Tail(scheduled)
  /\ UNCHANGED <<semas, slots, timed, nb_suspended, next, watched, phase, pass,
                 running, request, status, events, failed, bounds>>

Resume ==
  LET r == Head(scheduled).ptr IN
  /\ phase = "run"
  /\ scheduled # <<>>
  /\ r # Nobody
  /\ status[r] # "sema_event_candidate"
  /\ IF status[r] \in {"is_new", "yielding"}
     THEN /\ scheduled' = Tail(scheduled)
          /\ running' = r
          /\ status' = [status EXCEPT ![r] = "running"]
          /\ phase' = "user"
          /\ UNCHANGED <<semas, slots, timed, nb_suspended, next, watched, pass,
                         request, events, failed, bounds>>
     ELSE Fail("scheduled status")

\* A candidate tries to get the ticket.  It runs if it does; if another took
\* the ticket it queues again, in the slot it just gave back.
Candidate ==
  LET r == Head(scheduled).ptr  e == Head(scheduled).event_index
      s == events[r][e].on      i == events[r][e].slot IN
  /\ phase = "run"
  /\ scheduled # <<>>
  /\ r # Nobody
  /\ status[r] = "sema_event_candidate"
  /\ IF events[r][e].type # "sema_wait" THEN Fail("slot reused")
     ELSE IF counter[s] > 0
     THEN /\ counter' = [counter EXCEPT ![s] = @ - 1]
          /\ EndRound(r, e, timed)
          /\ slots' = Invalidated(SlotsAfter(Freed(slots, i), r, e), r)
          /\ scheduled' = Dropped(Tail(scheduled), r)
          /\ running' = r
          /\ status' = [status EXCEPT ![r] = "running"]
          /\ phase' = "user"
          /\ UNCHANGED <<commands, next, watched, pass, request, failed, bounds>>
     ELSE /\ events' = [events EXCEPT ![r][e].cell = CellFor(waiters[s])]
          /\ slots' = Stored(Freed(slots, i), Slot(r, e))
          /\ waiters' = [waiters EXCEPT ![s] = Written(@, Allocated(Freed(slots, i)))]
          /\ status' = [status EXCEPT ![r] = "wait_events"]
          /\ scheduled' = Tail(scheduled)
          /\ UNCHANGED <<counter, commands, timed, nb_suspended, next, watched, phase, pass,
                         running, request, failed, bounds>>

\* The end of a pass: what yielded is scheduled again, the first dates are
\* erased if no timer of theirs counts, and the next timeout is decided.
\* (Mutant: a date whose last timer still counts is erased.)
StaleEarly == {d \in DOMAIN timed : \A e \in DOMAIN timed : e <= d => timed[e].nb_active <= 1}

Stale == {d \in DOMAIN timed : \A e \in DOMAIN timed : e <= d => timed[e].nb_active = 0}

PassEnds ==
  /\ phase = "run"
  /\ scheduled = <<>>
  /\ scheduled' = next
  /\ next' = <<>>
  /\ timed' = [d \in DOMAIN timed \ Stale |-> timed[d]]
  /\ slots' = FoldLeft(Freed, slots,
                       FlattenSeq([i \in 1 .. Cardinality(Stale) |->
                                     timed[SetToSortSeq(Stale, <)[i]].slots]))
  /\ repeat' = (next # <<>> \/ commands # <<>>)
  /\ phase' = "wait"
  /\ UNCHANGED <<semas, nb_suspended, watched, fire, running, request, status, events, failed, bounds>>

-----------------------------------------------------------------------------
\* What a routine does while it runs.  A call opens a round ...
StartRound(round) ==
  /\ phase = "user"
  /\ calls[running] > 0
  /\ calls' = [calls EXCEPT ![running] = @ - 1]
  /\ request' = round
  /\ phase' = "subscribe"
  /\ UNCHANGED <<semas, slots, timed, nb_suspended, scheduled, next, watched, pass,
                 running, status, events, failed, posts, takes>>

\* ... that ends at once when an event it subscribes to is already there ...
CancelRound ==
  /\ EndRound(running, 0, timed)
  /\ slots' = Invalidated(SlotsAfter(slots, running, 0), running)
  /\ request' = <<>>
  /\ phase' = "user"

\* ... and otherwise adds the event to its round.
AddEvent(event) ==
  /\ events' = [events EXCEPT ![running] = Append(@, event)]
  /\ slots' = Stored(slots, Slot(running, Len(events[running]) + 1))
  /\ request' = Tail(request)
  /\ UNCHANGED phase

\* No ticket can come meanwhile: the call on the semaphore is one step.
AddSemaphoreWait(s) ==
  /\ AddEvent([type |-> "sema_wait", on |-> s,
               cell |-> CellFor(waiters[s]), slot |-> Allocated(slots)])
  /\ waiters' = [waiters EXCEPT ![s] = Written(@, Allocated(slots))]
  /\ nb_suspended' = nb_suspended + 1

SubscribeSemaphore ==
  LET s == Head(request).on IN
  /\ phase = "subscribe"
  /\ request # <<>>
  /\ Head(request).type = "sema_wait"
  /\ IF counter[s] > 0
     THEN /\ counter' = [counter EXCEPT ![s] = @ - 1]
          /\ CancelRound
     ELSE /\ AddSemaphoreWait(s)
          /\ UNCHANGED <<counter, timed>>
  /\ UNCHANGED <<commands, scheduled, next, watched, pass, running, status, failed, bounds>>

AddTimer(d) ==
  /\ AddEvent([type |-> "timer", on |-> d])
  /\ timed' = [e \in DOMAIN timed \cup {d} |->
                 IF e # d THEN timed[e]
                 ELSE IF d \in DOMAIN timed
                 THEN [slots |-> Append(timed[d].slots, Allocated(slots)),
                       nb_active |-> timed[d].nb_active + 1]
                 ELSE [slots |-> <<Allocated(slots)>>, nb_active |-> 1]]

SubscribeTimer ==
  /\ phase = "subscribe"
  /\ request # <<>>
  /\ Head(request).type = "timer"
  /\ \E d \in Dates : AddTimer(d)
  /\ UNCHANGED <<semas, nb_suspended, scheduled, next, watched, pass,
                 running, status, failed, bounds>>

AddIo(f) ==
  /\ AddEvent([type |-> "io", on |-> f])
  /\ watched' = [watched EXCEPT ![f] = Allocated(slots)]
  /\ nb_suspended' = nb_suspended + 1

SubscribeIo ==
  /\ phase = "subscribe"
  /\ request # <<>>
  /\ Head(request).type = "io"
  /\ \/ CancelRound /\ UNCHANGED watched   \* the system call went through
     \/ AddIo(Head(request).on) /\ UNCHANGED <<waiters, timed>>
  /\ UNCHANGED <<counter, commands, scheduled, next, pass, running, status, failed, bounds>>

CommitRound ==
  /\ phase = "subscribe"
  /\ request = <<>>
  /\ status' = [status EXCEPT ![running] = "wait_events"]
  /\ running' = Nobody
  /\ phase' = "run"
  /\ UNCHANGED <<semas, slots, timed, nb_suspended, scheduled, next, watched, pass,
                 request, events, failed, bounds>>

\* A call that waits: select_any, and those that wait for one or two events.
SelectAny == phase = "user" /\ \E round \in RoundsOf(running) : StartRound(round)

Yield ==
  /\ phase = "user"
  /\ calls[running] > 0
  /\ calls' = [calls EXCEPT ![running] = @ - 1]
  /\ status' = [status EXCEPT ![running] = "yielding"]
  /\ next' = Append(next, Owned(running))
  /\ running' = Nobody
  /\ phase' = "run"
  /\ UNCHANGED <<semas, slots, timed, nb_suspended, scheduled, watched, pass,
                 request, events, failed, posts, takes>>

Finish ==
  /\ phase = "user"
  /\ status' = [status EXCEPT ![running] = "finished"]
  /\ running' = Nobody
  /\ phase' = "run"
  /\ UNCHANGED <<semas, slots, timed, nb_suspended, scheduled, next, watched, pass,
                 request, events, failed, bounds>>

\* semaphore::post, from a routine of this thread or of another.
Post(s) ==
  /\ counter' = [counter EXCEPT ![s] = @ + 1]
  /\ waiters' = [waiters EXCEPT ![s] = Popped(@)]
  /\ commands' = commands \o WakeUp(s, waiters[s])
  /\ UNCHANGED <<slots, timed, nb_suspended, scheduled, next, watched, phase, pass,
                 running, request, status, events, failed, takes>>

PostHere(s) ==
  /\ phase = "user"
  /\ calls[running] > 0
  /\ calls' = [calls EXCEPT ![running] = @ - 1]
  /\ Post(s)
  /\ UNCHANGED posts

PostElsewhere(s) ==
  /\ phase # "aborted"
  /\ posts > 0
  /\ posts' = posts - 1
  /\ Post(s)
  /\ UNCHANGED calls

\* A routine of another thread takes a ticket it finds.
TakeElsewhere(s) ==
  /\ phase # "aborted"
  /\ takes > 0
  /\ counter[s] > 0
  /\ takes' = takes - 1
  /\ counter' = [counter EXCEPT ![s] = @ - 1]
  /\ UNCHANGED <<waiters, commands, slots, timed, nb_suspended, scheduled, next, watched, phase, pass,
                 running, request, status, events, failed, calls, posts>>

-----------------------------------------------------------------------------
ThreadInit ==
  /\ commands = <<>>
  /\ slots = EmptyVector
  /\ timed = [d \in {} |-> 0]
  /\ nb_suspended = 0
  /\ \E order \in SetToSeqs(Routines) : scheduled = [i \in DOMAIN order |-> Owned(order[i])]
  /\ next = <<>>
  /\ watched = [f \in Files |-> NoCell]
  /\ phase = "run"
  /\ repeat = FALSE
  /\ fire = FALSE
  /\ running = Nobody

RoutineInit ==
  /\ request = <<>>
  /\ status = [r \in Routines |-> "is_new"]
  /\ events = [r \in Routines |-> <<>>]

\* The routines were started and their add_routine commands handled.
Init ==
  /\ counter = [s \in Semaphores |-> 0]
  /\ waiters = [s \in Semaphores |-> EmptyQueue]
  /\ ThreadInit
  /\ RoutineInit
  /\ failed = "none"
  /\ calls = [r \in Routines |-> MaxCalls(r)]
  /\ posts = MaxPosts
  /\ takes = MaxTakes

Loop ==
  \/ WaitReturns \/ FirstDateReached
  \/ \E f \in Files : IoEvent(f)
  \/ EventsDispatched \/ HandleCommand \/ CommandsHandled
  \/ FireTimer \/ DateErased
  \/ SkipInvalid \/ Resume \/ Candidate \/ PassEnds

Routine ==
  \/ SelectAny \/ SubscribeSemaphore \/ SubscribeTimer \/ SubscribeIo \/ CommitRound
  \/ Yield \/ Finish
  \/ \E s \in Semaphores : PostHere(s)

Elsewhere == \E s \in Semaphores : PostElsewhere(s) \/ TakeElsewhere(s)

Next == Loop \/ Routine \/ Elsewhere

Spec == Init /\ [][Next]_vars

\* The thread keeps running, its routines come to their next call, and every
\* date is reached: once it has passed, the next wait that may block returns
\* with it.
FairSpec ==
  /\ Spec
  /\ WF_vars(Loop \/ Routine)
  /\ SF_vars(FirstDateReached)

-----------------------------------------------------------------------------
\* No assertion of the scheduler fails and no slot is given to another event
\* while its index is still in a command, a timer or a registration: the
\* checks of thread.cc:170 and 215 and of sparse_vector::operator[].
AssertionsHold == failed = "none"

\* A routine has one owner: an entry of the schedule, the running call or the
\* round it waits in.  A wake-up that comes after the end of the round never
\* takes the routine a second time.
OwnersOf(r) ==
  Cardinality({i \in DOMAIN scheduled : scheduled[i] = Owned(r)})
  + Cardinality({i \in DOMAIN next : next[i] = Owned(r)})
  + Cardinality({x \in {running} : x = r})
  + Cardinality({x \in {"wait_events", "sema_event_candidate"} : x = status[r]})

OneOwner == failed = "none" =>
  \A r \in Routines : OwnersOf(r) = IF status[r] = "finished" THEN 0 ELSE 1

\* Every event a suspended routine waits for still leads to it: the index that
\* the semaphore, a command, the timers or the event loop keep is that of a
\* live slot of this very event, whatever ended other rounds meanwhile.
Leads(i, r, e) == Has(slots, i) /\ slots.data[i] = Slot(r, e)

Reaches(r, e) ==
  LET ev == events[r][e] IN
  \/ /\ ev.type = "timer"
     /\ ev.on \in DOMAIN timed
     /\ \E i \in ToSet(timed[ev.on].slots) : Leads(i, r, e)
  \/ /\ ev.type = "io"
     /\ Leads(watched[ev.on], r, e)
  \/ /\ ev.type = "sema_wait"
     /\ Leads(ev.slot, r, e)
     /\ \/ \E i \in DOMAIN waiters[ev.on].entries :
             waiters[ev.on].entries[i] = [cell |-> ev.cell, slot |-> ev.slot]
        \/ [sema |-> ev.on, slot |-> ev.slot] \in ToSet(commands)
        \/ Slot(r, e) \in ToSet(scheduled)

EventsReachWaiter == failed = "none" =>
  \A r \in Routines : status[r] \in {"wait_events", "sema_event_candidate"} =>
    \A e \in DOMAIN events[r] : Reaches(r, e)

\* The thread reports itself idle exactly when its routines are done: neither
\* the timers nor the count of suspended routines forget one that waits, and
\* the rounds that ended early leave nothing counted.
NoMoreRoutines == scheduled = <<>> /\ DOMAIN timed = {} /\ nb_suspended = 0

IdleIffFinished == phase = "wait" =>
  (NoMoreRoutines <=> \A r \in Routines : status[r] = "finished")

\* boson/semaphore.h:95: wait "takes a semaphore ticker if it could, otherwise
\* suspend the routine until a ticker is available": no ticket is left beside a
\* queued waiter with nothing on its way to wake one up.
NobodyStranded ==
  \A s \in Semaphores : counter[s] > 0 /\ waiters[s].entries # <<>> =>
    \/ \E i \in DOMAIN commands : commands[i].sema = s
    \/ \E i \in DOMAIN scheduled :
         LET x == scheduled[i] IN
         /\ x.ptr # Nobody /\ x.event_index # 0
         /\ events[x.ptr][x.event_index].on = s

\* A wait with a timeout ends.
TimedWaitEnds ==
  \A r \in Routines :
    (/\ status[r] \in {"wait_events", "sema_event_candidate"}
     /\ \E e \in DOMAIN events[r] : events[r][e].type = "timer")
    ~> status[r] \notin {"wait_events", "sema_event_candidate"}

=============================================================================

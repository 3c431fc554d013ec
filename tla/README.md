# A verification of boson

TLA+ models of boson's runtime, checked with TLC on small instances and, for the
semaphore, the channel, the engine, the netpoller, the mailbox and the three queues
that are modelled (mpsc, vectorized_queue, lcrq), proved with TLAPS for every
instance. Paths below are relative to the repository, sources to `src/boson/`.

## The system

boson runs *routines* (fibers) on the threads of an *engine*. A routine runs
until it yields or waits; everything else is messages and atomics:

| part | code | what it does |
|---|---|---|
| engine | `src/engine.cc`, `boson/engine.h` | places routines on threads, detects that all is done, stops the threads |
| thread | `src/internal/thread.cc` | event loop, commands from the engine and from semaphores, scheduling, timers, suspended slots |
| routine | `src/internal/routine.cc` | event rounds: what a suspended routine waits for, and what woke it |
| semaphore | `src/semaphore.cc` | tickets in one atomic int, a queue of waiters, wake-ups by commands |
| mutex | `boson/mutex.h` | a semaphore of one ticket |
| channel | `boson/channel.h` | a ring between two semaphores |
| select | `boson/select.h` | one event round over several events |
| netpoller, io_event_loop | `boson/internal/netpoller.h`, `src/linux/io_event_loop_impl.cc` | epoll, interrupts through a flag or an eventfd, fd waiters |
| queues | `boson/queues/` | mpsc (commands), vectorized_queue (waiters), weakrb, lcrq, simple, mpmc |
| memory | `boson/memory/` | sparse_vector (suspended slots), local_ptr (shared invalidation), allocators |
| system calls | `src/syscalls.cc`, `src/syscall_shim.cc`, `src/net/` | non-blocking calls retried after a wait for readiness; sleeps; close |
| the rest | stacks, contexts, logger, exceptions, variant | no state of interest |

How they interact: a wait on a semaphore suspends the routine and leaves
`(thread, slot)` in the semaphore's queue. Whoever posts pops it and pushes a
`schedule_waiting_routine` command to that thread, through an mpsc queue and an
interrupt of the thread's event loop. The thread makes the routine a candidate,
which tries for its ticket again. Channels, mutexes and select are built on
this. Routines are started by commands to the engine, which forwards them;
threads report idleness and their end the same way.

`PROJECT.json` lists every part with its status, and the hazards (what can go
wrong at which line and is hard to test) with the properties that cover them.

## Modules

| module | models | state and actions |
|---|---|---|
| `TicketPool` | what a semaphore promises | `Take`, `Give`, `Close` on numbers of tickets |
| `Semaphore` | `semaphore`, the semaphore events of `routine`, the thread's part of a wake-up | `counter`, `waiters`, `notified` (commands in flight), `pc` of each routine; one action per access to shared state |
| `SemaphoreProofs` | | theorems on `Semaphore` |
| `Channel` | `channel_impl` | two `TicketPool`s, `head`, `tail`, `buffer`; one action per atomic or cell access |
| `ChannelProofs` | | theorems on `Channel`: its close, and the values in its ring |
| `Engine` | `engine`, life of `thread` and `routine` | command queues, the engine's counts, each thread's phase in its loop |
| `EngineProofs` | | theorems on `Engine` |
| `Mailbox` | `thread::push_command`, `netpoller::interrupt` and `wait`, `io_event_loop::wait`, `thread::loop` | queue, pending count, mutex, flag, eventfd, epoll's edge |
| `MailboxProofs` | | theorems on `Mailbox` |
| `LinkedFifo` | what `mpsc` promises | items ordered by the first step of a write, readable after the second |
| `Mpsc` | `queues::mpsc` | nodes, their links and their allocation; `order`, a history of the exchanges |
| `MpscProofs` | | theorems on `Mpsc` |
| `IndexedFifo` | what a semaphore's queue of waiters promises | entries read in order or withdrawn by index |
| `VectorizedQueue` | `queues::vectorized_queue` | the array of cells with its two lists; `occupied` and `unused`, histories of what is in them |
| `VectorizedQueueProofs` | | theorems on `VectorizedQueue` |
| `SparseVector` | `memory::sparse_vector` | operators on the cells and the list of free ones |
| `Scheduler` | `thread::loop` with slots, timers and commands; the event rounds of `routine`; `select_any`; timed waits, sleeps | one action per stage of the loop, per command, timer or descriptor that is handled, and per event subscribed to |
| `Netpoller` | system calls with their retry loop, `netpoller`, `io_event_loop`, `close` | what is ready and what epoll watches (the kernel), registrations and close commands, the state of each call; hang-ups and the eventfd's signal |
| `NetpollerProofs` | | theorems on `Netpoller` |
| `Lcrq` | `queues::lcrq` | rings linked to rings, a cell of which is changed by a double-word compare and swap; one action per atomic access |
| `LcrqProofs` | | theorems on `Lcrq` |
| `MC...` | | model values and instances for TLC |

Definitions named `...OffByOne`, `...Unchecked` and the like, marked *Mutant*,
are wrong variants of the action below them. No specification uses them; each
was put in place of its original to see a property fail.

Composition is by abstraction. `Semaphore` implements `TicketPool`, and
`Channel` is built on `TicketPool`; `Mpsc` implements `LinkedFifo`, which is how
`Mailbox` has its queue; `Mailbox` justifies that in `Engine` and `Semaphore` a
command that was pushed reaches its thread; `VectorizedQueue` implements
`IndexedFifo`, of which `Semaphore` uses the part without withdrawals, and whose
reuse of indexes `Scheduler` repeats in `Written` and `Withdrawn`. `Scheduler`
takes a call on a semaphore as one step: the interleavings inside a call are in
`Semaphore` only. `Netpoller` keeps of the slots and timers of `Scheduler` whether
the round of a registration has ended, and `Scheduler` of the kernel that an
enabled registration may report in any pass.

Faithfulness, in short:

* **Semaphore.** Each `fetch_add`, `fetch_sub`, `store` and each access to the
  queue (under its lock) is a step; between two of them any other thread may
  run. Routines of one thread exclude each other (`ThreadIsFree`). A failed
  candidacy (`routine.cc:150-163`) goes through the same `enqueue` and `release`
  places as `add_semaphore_wait`. The thresholds are the code's numbers.
* **Channel.** The order of the two loads in `head_.load() - tail_.load()` is
  unspecified, so both are allowed. The result of a writer's post is ignored, as
  in the code. Which of the two templates it is, `holds` says: a channel of
  nothing goes from its ticket straight to the post. A call that times out leaves
  no trace and has no step.
* **Engine.** `command_pushers_.fetch_add(std::memory_order_release)` passes the
  memory order as the amount. `fetch_sub` does the same, the counter is only
  compared with 0, and the model counts in units. A thread's decision at the end
  of a pass is one step because `nb_pending_commands_` is read once and all else
  belongs to the thread. The loop that tells the threads to finish sends one
  command per step (`SendFinish`, with `view` for the loop's place), for each push
  can interleave with the threads. Suspension is folded into `resident`: a suspended
  routine is one whose event may come.
* **Mailbox.** epoll's edge is a flag that a write to the eventfd raises and a
  report, or a look that finds the eventfd empty, lowers. `PollReturns` is any
  other reason for `epoll_wait` to come back.
* **Mpsc.** A deleted node may be handed out by the next allocation, which is
  how a use after free would show. `order` lists the nodes from the tail in the
  order in which producers put them at the head; no step depends on it, and it
  says which queue the nodes stand for while some of them are not linked yet.
* **VectorizedQueue.** `occupied` lists the cells in the order of their writes,
  without those read or withdrawn, and `unused` the others, last freed first. No
  step depends on them; the properties compare the links in the array with them.
* **Scheduler.** A call that waits is the sequence of events of its round
  (`WaitSemaphore`, `Lock`, `Sleep`, `WaitReadiness`, or any sequence for
  `select_any`). `EndRound` is the loop over the events of the round in
  `routine::event_happened` and `cancel_event_round`, `Invalidated` and `Dropped`
  are `local_ptr::invalidate_all`: a `local_ptr` is the routine or `Nobody`. An
  assertion of the code that fails, and a slot whose event is not the one its
  index was kept for, set `failed` and stop the program. A date is any of `Dates`, so timers of one date and of
  several occur; a wait that may block may always come back with the first date.
  The semaphores are never disabled, and the waiters in their queues are those of
  this thread: other threads post and take tickets.
* **Netpoller.** Registration is edge-triggered for both directions at once, so
  one report serves and uses up both. `ready` is EPOLLIN and EPOLLOUT; `hungup` is
  a direction whose peer is gone, which an end of a pipe shows as EPOLLHUP or
  EPOLLERR alone. `io_event_loop::wait` looks at EPOLLIN and EPOLLOUT only, so
  `Wait` uses up such an event and wakes nobody. `epoll_wait` blocks: `Wait` needs
  an edge to report or the eventfd signalled (`signal`, raised by the interrupt of
  `signal_fd_closed`). It may also come back with nothing to report
  (`WaitReturns`), for the thread's other work or a timeout, and after a timeout
  the commands are not read; a return with EINTR is no step of its own, because a
  command that is queued has raised the signal. The interrupt and the command of a
  close are one step; how they interleave with the loop when another thread closes
  is what `Mailbox` shows for commands, in the same order of queue, then eventfd.
  `displaced` is a history: who waits without a registration since another routine
  registered for the same direction. `thread::read` hides the status it is given
  (`thread.cc:168`), so readers are never told of an error, and `Dispatch` keeps
  this. A call of `select_any` is tried once after its wait, whatever the status,
  and `connect` asks for the socket's error instead of trying again.
* **Lcrq.** `RING_SIZE`, the number of tries before a ring is closed and the
  positions are small constants; rings are never freed. `local[p].there` is what
  was written when a read began, `overtaken` what a read that returned passed
  over, and `local[p].gone` what was overtaken when a read began: histories for
  `FifoOrder`.

## Runs

| run | instance | shows |
|---|---|---|
| `semaphore` | 3 routines on 2 threads, 1 ticket, 2 posts | all properties of `Semaphore`: the inductive invariant's parts, refinement of `TicketPool`, disable releases all waiters, tickets reach waiters |
| `engine` | 2 threads, 3 routines that start each other in any order | `run()` returns; after all routines have finished if the main one starts them; orderly shutdown in any case |
| `engine_nested` | the same | **fails**: `run()` may return too early |
| `mailbox` | 2 pushers, 2 commands each | no lost interrupt; every command handled |
| `mpsc` | 3 producers, 2 writes each, 4 nodes | FIFO, no use after free |
| `channel` | 2 writers, 2 readers, 1 closer, 1 cell or nothing, 2 writes each | values, cell exclusion, close |
| `channel_race` | 2 writers, 1 reader, 2 cells | **fails**: a reader overtakes a writer |
| `vectorized_queue` | 5 cells, 2 values | FIFO with withdrawals, no cell lost |
| `scheduler` | 2 routines, 2 semaphores, 2 descriptors, 2 dates, a foreign post and take | assertions, one owner per routine, events lead to their waiter, idleness, timed waits end |
| `scheduler_timeouts` | 2 routines that wait for one semaphore, with or without timeout | **fails**: a wake-up is dropped beside a waiter |
| `netpoller` | 2 routines, a pipe and a socket, a shared direction, hang-ups, closes, one reuse of either | no lost edge, no stale registration, late events find no other call, unblocked calls run |
| `lcrq` | 3 processes, 2 writes and 2 reads, rings of 2 cells | FIFO, nothing lost or read twice |

**Bounds.** The semaphore needs two routines of one thread (a thread excludes
its own) and one of another; two posts allow a ticket to be taken before the
candidate it was posted for, and another to follow. For larger instances there
are the theorems. The engine needs one thread that
is idle while another one is not, and three routines for two levels of starts.
Two pushers suffice for the mailbox: one whose write is half done, one whose
interrupt comes at the wrong time; a second command each repeats that with flag,
edge and eventfd in every state. The mpsc has fewer nodes than writes, so nodes
are reused. One cell and two writers make each pair of accesses to a cell race.
Five cells give lists with a middle of three and free lists in every order. The
scheduler has two routines that race for a ticket that a third party may take, so
candidacies fail; one of them makes two calls, so slots, queue cells and dates
left by its first round meet its second. Nobody waits for the shared semaphore
with a timeout, and each `select_any` has one semaphore: beyond this the code
does not keep these properties (see the findings). The netpoller has a socket both routines use, for different
directions and for the same one, an end of a pipe that can hang up, and a reader
with two calls, so that registrations left by a timeout meet the next call; either
number may be opened again, for readers and writers. Rings of two cells wrap around within the five
positions, and a full one is closed and followed by another. Each bound is a constant with a guard that uses it
(`MaxPosts`, `MaxPushes`, `MaxWrites`, `MaxCells`, `MaxCalls`, `MaxTakes`,
`MaxOpens`, `MaxPuts`, `MaxGets`, `MaxPosition`) or the size of a set. The run
`lcrq` uses the symmetry of the processes; it checks invariants only.

**Deadlock** is checked where the modelled code never stops (`Mailbox`,
`VectorizedQueue`). The semaphore's and the channel's routines may all wait for
a post nobody makes, an engine ends, producers stop writing, a thread whose
routines wait for nothing sleeps in `epoll_wait`.

**Fairness.** Threads run (weak fairness of the steps inside a call, of loops and
of the engine): the OS schedules them. `Semaphore` assumes strong fairness of
`Notify` and `Candidacy`: a thread runs its scheduled routines in order and reads
its commands after each pass, so a step that is enabled whenever the thread is
free is taken, although other routines of the thread disable it now and then.
`Engine` assumes strong fairness of `FinishRoutine`: programs whose routines do
not finish need not stop. `Channel` assumes that readers go on reading and that
a waiting reader with a ticket left takes it (`TicketReachesWaiter`). `Scheduler`
assumes that the thread keeps running, routines included, and strong fairness of
`FirstDateReached`: dates pass, and a wait that may block comes back with the
first one. A routine makes finitely many calls in the model; one that yields for
ever keeps the loop from its timers (`thread.cc:319`). `Netpoller` assumes that the
loop runs, that resumed routines do, and that a close that began ends. Nothing is
assumed of the peers, nor that a wait with nothing to report returns
(`WaitReturns`): that a close reaches its waiters rests on the interrupt of
`netpoller.h:139`, and `UnblockedCallRuns` fails without it
(`SignalClosedUninterrupted`). Calls by user code are never fair.

## Findings

* **`run()` can return before every routine has finished**
  (`engine_nested`, `src/engine.cc:37`). A thread decides it is idle while the
  engine has counted a routine for it and not pushed it yet; the `notify_idle`
  then sets the count to 0, and `finish` follows the routine into the thread's
  queue. The routine itself still runs, but one it starts is sent to a thread
  that leaves its loop. `FlatRunWaitsForAll` in `engine` shows that programs
  whose main routine starts all the others are safe, its other properties that
  the shutdown itself is orderly.
* **A channel of two or more cells can return a value nobody wrote**
  (`channel_race`, `boson/channel.h:60`). Tickets for readers are counted, not
  tied to cells: the post of a fast writer admits a reader to the cell of a slow
  one. `channel` shows that one cell is safe; the theorems `OneRoutinePerCell` and
  `ReadsAreWrites`, that any routines may share one cell, and one writer and one
  reader any number of cells.
* **A timeout can drop a wake-up** (`scheduler_timeouts`,
  `src/internal/thread.cc:349`). A command makes a routine a candidate for a
  ticket; when its timer fires in the same pass, its round ends, the candidacy is
  skipped, and the ticket stays in the counter beside the next waiter. Had the
  timer fired before the command was handled, `thread.cc:68` would have passed
  the wake-up on.
* **A disabled semaphore refuses posts** (`semaphore`,
  `src/semaphore.cc:100-103`). The comment on `disable` says "Posts will be
  accepted, no wait will be allowed anymore" (`semaphore.h:90`); `post` takes its
  addition back and returns `disabled`. `TicketPool` states the contract of the
  code, with no `Give` once closed, and `ImplementsPool` that it is kept whatever
  posts race with `disable`.

Further observations, each with its line among the hazards. They have no run of
their own: most are cases no doc speaks of, or that a run or a theorem leaves out
by an assumption.

* With a `select_any` over two semaphores, two wake-ups of one pass meet the
  assertion at `thread.cc:215` (`AssertionsHold` fails), and a round may withdraw
  the queue entry of another routine that was given the same cell
  (`routine.cc:94`; `EventsReachWaiter` fails).
* A close by another thread may come between the test of `registered` and the
  registration (`netpoller.h:150`): the number stays marked and unwatched
  (`RegisteredIsWatched` and `NoLostEdge` fail with `CloseHere = FALSE`).
* An event with EPOLLHUP or EPOLLERR and neither EPOLLIN nor EPOLLOUT is dispatched
  to nobody (`io_event_loop_impl.cc:117-123`), and its edge is used up: a `read`
  without timeout on an empty pipe whose writers are gone stays suspended, although
  `syscalls.h:36` says of the wait "Suspends the routine until the fd is ready for a
  syscall". `NoLostEdge` and `UnblockedCallRuns` are about what is readable,
  writable or closed; both fail once what hung up counts as `ready` in them.
* A close command that is read after its number was reused fails a write or a
  connect on the new descriptor with EBADF (`netpoller.h:103-106`).
* Two routines that wait for one direction of a descriptor overwrite each other's
  registration (`netpoller.h:152`), and the first one is forgotten: it is
  `displaced`, and out of `NoLostEdge` and `UnblockedCallRuns`.
* A wait for a descriptor that times out never gives its slot back
  (`thread.cc:122`).

## Proofs

`SemaphoreProofs` proves, for every finite set of routines, every placement on
threads, every capacity and number of posts allowed by `RangeAssumption` (tickets
fit below the threshold, twice the routines fit between threshold and standpoint):

| theorem | property |
|---|---|
| `TypeCorrect` | `TypeOK` |
| `WaitersKept` | `OneEntryPerWaiter` |
| `TicketsConserved` | `TicketConservation` |
| `NoLostWakeup` | `NoStrandedWaiter` |
| `CounterStaysInRange` | `CounterInRange` |
| `SemaphoreIsPool` | `ImplementsPool` |
| `BooksBalance` | `Ledger` |
| `WakeupsAreMatched` | `WakeupsMatch` |

The inductive invariant is
`IInv == TypeOK /\ OneEntryPerWaiter /\ Books /\ WakeupsMatch`.

* `Books` is `Ledger` with `TicketConservation`: on an enabled semaphore no
  correction is pending and the counter is the tickets left minus what routines
  have borrowed; on a disabled one the distance from the standpoint is what is
  pending, up to what calls of `disable` overwrote (at most one unit per routine
  either way). This is what keeps the two ranges of the counter apart.
* `WakeupsMatch` is the reason why no wake-up is lost, stated for states in
  which things are under way: the tickets in the counter are covered by wake-ups
  and pops, or the entries of the queue by routines that will look again, or
  `disable` is draining. Neither half alone is inductive: a wait that steals a
  ticket moves the state from one to the other.

The argument counts routines per place of the code. `Moved` and `MovedGrows`
say what a step of one routine does to all the counts; each action then has a
lemma (`TakeTicketIInv` ... `DrainIInv`) that is arithmetic on counts, and
`NextIInv` joins them. `NoLostWakeup` instantiates `WakeupsMatch` in a quiet
state, `CounterStaysInRange` bounds the counts by the number of routines, and
`SemaphoreIsPool` adds that a disabled counter has room for every correction
(`RoomBelow`), so disabled is for good (`DisabledForGood`).

`ChannelProofs` is about any writers, readers and closers
(the first two finite), any number of cells and any number of writes:

| theorem | property | assumes |
|---|---|---|
| `EarlyWritesAreRead` | `EarlyWritesDelivered` | |
| `ReadersAreReleased` | `ClosedAndEmptyReleases` | |
| `OneRoutinePerCell` | `CellsNotShared` | `Exclusive` |
| `ReadsAreWrites` | `ReadsWhatWasWritten` | `Exclusive` |

`Exclusive` is a channel of one cell, or of any number of cells between one writer
and one reader. `channel_race` is the counterexample with two writers and two
cells, so this is the use for which the ring is right, and not a convenience of
the proof.

The first two rest on `IInv == TypeOK /\ NoRing /\ Delivery /\ Counting /\
Release`. `Delivery` says what the two loads of the test for emptiness have
seen, in either order: every early value is behind what was loaded. `Counting`
ties the tickets of the two semaphores to the counters of the ring and to the
routines that hold a ticket; after a close it is an inequality, for posts are then
dropped. `Release` says that after a close somebody is left who will find the ring
empty: it is the part that must not be lost when close and the last reader test at
the same time. The last two add `RingInv`: one writer and one reader are at the
ends of the ring (`Ends`), what lies between them is in its cell (`Stored`), and
positions less than a turn apart have different cells (`CellsApart`). `Counting`
gives the room between the ends (`RoomHolds`).

`EngineProofs` is about any ring of threads and any set of routines, wherever they
are placed:

| theorem | property |
|---|---|
| `NoCommandIsForgotten` | `NoForgottenCommand` |
| `FinishIsSentOnce` | `OneFinishPerThread` |
| `EngineIsDrained` | `EngineDrained` |
| `FlatProgramsAreWaitedFor` | `FlatRunWaitsForAll` |

The first three rest on `IInv == TypeOK /\ Asleep /\ Balance /\ Ends`.
`Balance` counts `finish` in the places it may be in: the engine's hand, the
thread's queue, the thread's status; together they are what the engine remembers
having sent. `Ends` says that a thread announces its end once and then nothing
more, and that `nb_active_threads` is the number of threads whose announcement has
not been executed. The fourth adds `FInv == Placed /\ MainPlaced /\ Closing /\
LeftEmpty`. A routine that was started is in a queue, in a push or on a thread
(`Placed`). The argument is about the routine given to `run()`: from its placement
to its end one thread holds it, that thread is counted as busy, and no
`notify_idle` of it is on its way (`Hosts`), so the engine cannot find every count
at zero. When it does, that routine has finished; in a flat program nobody else
starts routines, every start has been executed because the engine also found
nobody pushing, and nothing follows `finish` into a queue (`Closing`). A thread
that leaves its loop then leaves nothing behind (`LeftEmpty`). `nested` is a
history of whether another routine than that one has started a routine:
`engine_nested` shows that the hypothesis is needed.

`NetpollerProofs` is about any routines, descriptors and calls, with any bounds:

| theorem | property | assumes |
|---|---|---|
| `NetpollerTypes` | `TypeOK` | |
| `RegisteredStaysWatched` | `RegisteredIsWatched` | `CloseHere` |
| `EventsFindTheirCalls` | `EventsFindTheirCall` | |
| `NoEdgeIsLost` | `NoLostEdge` | `CloseHere` |
| `NobodyIsDisplaced` | `displaced = {}` | `OneWaiterPerDirection` |

`CloseHere` says that the closes are made by routines of the poller's own thread,
`OneWaiterPerDirection` that no two routines wait for one direction of a
descriptor. Without them the code does not have the properties (see the
observations above), so they describe the programs that are safe: under both, no
waiting call is forgotten.

The invariant has a part for each theorem, on top of `TypeOK`. `Turns` says that
a running routine, or a close, excludes the loop: it is why a close cannot come
between the test of `registered` and the registration. `Kept` is about the window
between the call that would block and its registration: a change in it is in the
edge that epoll holds, or epoll will look when the number is added. `Covered` is
`NoLostEdge` with a queued command where that asks for one the loop cannot sleep
over; `Woken` adds that a queued command has the loop past its wait, or the eventfd
signalled. `EventsFindTheirCall` is inductive by itself, and with it
`OnlySharersAreDisplaced`: who is displaced waits, holds no registration, and has
another routine with a call for its direction. The lemmas `TypeStep`, `WatchStep`,
`KeptStep`, `WokenStep`, `CallStep` and `DisplacedStep` go through the actions; the
`Queued...` lemmas say what a command that is appended or taken does to the set of
queued closes.

`MailboxProofs` and `MpscProofs` need nothing but what a queue is used with: a
finite set of pushers, and a null pointer that is not a node.

| theorem | property |
|---|---|
| `PendingIsExact` | `PendingMatches` |
| `NoInterruptIsLost` | `NoSleepingCommand` |
| `NodesInUseAllocated` | `NoUseAfterFree` |
| `MpscIsFifo` | `ImplementsFifo` |

For the mailbox, `Covered` lists what may stand between a queued command and a
thread that sleeps on it: a pusher on its way, the flag, a wait that does not
block, the eventfd, or a loop that has yet to count its commands. `Exclusion`
(who holds the mutex, and that the flag is down during a poll) rules out two of
these when the thread is asleep, and `PendingMatches` makes the decision to sleep
right. For the queue, the invariant is local: a node has at most one predecessor,
the tail has none, a node is known to its producer only until its exchange, and
what an exchange returned (`Gaps`) has no successor, so it cannot be the tail that
the consumer leaves. `Line` adds the history `order`: it begins with the tail, ends
with the head, holds each node once, and a link goes from a node to the next one in
it, or is missing while that node's producer has yet to write it. With it `Queue`,
the value of `fifo` in `LinkedFifo`, is a function of the state (`QueueIs`), and
`FifoStep` shows that an exchange is `Enter`, the write of a link is `Link`, the
move of the tail is `Take` and every other step leaves the queue alone.

`VectorizedQueueProofs` is about any values and any size of the array:

| theorem | property |
|---|---|
| `ListIsAlwaysSymmetric` | `ListIsSymmetric` |
| `CellsAlwaysAccountedFor` | `CellsAccountedFor` |
| `ImplementsTheQueue` | `ImplementsQueue` |

The inductive invariant is
`Inv == TypeOK /\ ListIsSymmetric /\ Filled /\ Chained /\ Apart /\ Covered`: both
directions of the list agree with `occupied`, whose cells have a value (`Filled`);
the free list agrees with `unused`, whose cells are marked (`Chained`); no cell is
in two places (`Apart`) and each is in one (`Covered`). `ListIsSymmetric` alone is
not inductive: a write into a cell that the free list shares with the queue would
break it. `FreeIs` says what `free` leaves in the links around the cell, in its
four cases (first, last, both, in the middle); `FreeKeeps` and `WriteKeeps` carry
the invariant over, with lemmas on the places of a list from which an element was
taken or to which one was added. For the refinement, a write is `QueueWrite`, a
withdrawal `QueueFree` or a stutter, and a read `QueueRead` of the oldest entry.

`LcrqProofs` is about any processes, any size of the rings, any number of tries
before a ring is closed, and any number of calls:

| theorem | property | rests on |
|---|---|---|
| `NothingIsReadTwice` | `ReadOnce` | `Kind` |
| `NothingIsLost` | `NothingLost` | `Safe` |
| `AlwaysFifo` | `FifoOrder` | `Ordered` |

The three invariants contain one another.

* `Kind == TypeOK /\ Shaped /\ AllPlaced /\ Valued`. The rings are a chain in which
  only the last may be open, and a cell has a value only at a position that a
  writer reserved (`Shaped`). A process is at a ring that `head` or `tail` has
  named and at a position that was reserved, and went on because of what it read
  in its cell (`AllPlaced`). A value is with its writer, in one cell, or read
  (`Valued`).
* `Safe` adds why nothing is left behind. The readers are past everything in a ring
  that `head` has left or that a reader is about to swing away from
  (`LeftBehind`): this is what the second look at the tail, `GetRecheck`
  (`lcrq.cc:330`), is for. A position that readers have reserved is still watched by
  one, or its cell refuses a store at it (`NoneMissed`): it stands for a later
  position, or is unsafe. A writer may make an unsafe cell safe again if it saw the
  readers' head before its position; the readers who reserved one since are still
  looking (`Reopened`), which holds because the compare and swap fails if one of
  them has given up.
* `Ordered` adds where values are. What was written before a value is in an earlier
  ring or at an earlier position than the one its writer holds, and so than the
  value (`InOrder`), because a write that returned leaves `tail` at its ring or
  beyond (`Reached`). What was passed over lies behind the readers' head
  (`Overtaken`) and not at the position a later read waits for (`Considered`).
  `FifoOrder` follows when a value is taken.

The actions are looked at once, in `StepDoes`: each is shown to be one of the
changes `Effect` and `Turns` allow, namely what may happen to a cell, a ring, `head`
and `tail`, the histories and the place of the process. The invariants are then
carried over from `Effect` and `Turns` (`StepValued`, `StillSafe`,
`StillOrdered`), without the actions. The facts that serve one of these proofs
only are steps of it.

Each module of proofs proves its type invariant first. The lemmas about `Next` have
one step per action; in `LcrqProofs`, `StepDoes` is the one that has. What is assumed
of the constants is named in the modules that declare them, and
TLC evaluates it in the runs; a theorem that needs more says so in its statement.

Only model-checked: liveness under fairness (`DisableReleasesWaiters`,
`TicketReachesWaiter`, `RunReturns`, `EveryCommandHandled`, `ReadersTold`,
`TimedWaitEnds`, `UnblockedCallRuns`), which is out of the prover's reach; and the
invariants of `Scheduler` (`AssertionsHold`, `OneOwner`, `EventsReachWaiter`,
`IdleIffFinished`). The end of a round there is a fold over the events of the
routine that withdraws queue entries, frees slots and counts, and what a fold leaves
for events of any number is a fact by induction over data, which the prover lacks.

## Not modelled

* The events of `select_any` on channels, and disabled semaphores in a round with
  other events: `Scheduler`'s semaphores are never disabled, and `Semaphore` and
  `Channel` have no rounds of several events.
* The ticket a mutex starts with (semaphores of `Scheduler` start with none), and
  the result that `lock` with a timeout drops (`mutex.h:35`).
* Reclamation of the rings of `lcrq`, which hashes the byte a hazard pointer points
  at instead of the pointer (`lcrq.cc:88`), and its destructor. `weakrb`: no component
  uses it and its subject is the memory order. `simple` and `mpmc`: a `std::queue`
  under a mutex, and an unused wrapper.
* The system call shim and the socket helpers, which forward; the thread's shared
  buffers, a map that only grows; `engine::read` and `write`, dead code; the
  reference count of `local_ptr`; the containers of `memory/`.
* The constructor of `vectorized_queue` with an initial size: only tests use it,
  and it breaks the convention of the comment on `struct cell`: it makes one cell
  less than asked and marks the last free one as occupied.
* Exceptions thrown by failing system calls, except when a closed number is
  registered.
* Weak memory beyond the interleaving of the accesses: the modelled parts share
  data through locks, read-modify-writes of one atomic, and acquire and release
  accesses; `CellsNotShared` is about the one exception, the cells of a channel.
* Context switching, stacks, logging.

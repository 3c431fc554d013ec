----------------------------- MODULE Netpoller -----------------------------
(***************************************************************************)
(* System calls of routines, the netpoller of their thread                 *)
(* (internal/netpoller.h) and the epoll instance under it                  *)
(* (src/linux/io_event_loop_impl.cc).  A call is tried first; when the     *)
(* kernel says it would block, the routine registers for the descriptor    *)
(* and direction, waits, and tries again.  Registration is edge-triggered: *)
(* the kernel reports a change once.  Closing a descriptor removes it from *)
(* epoll, queues a command and signals the loop's eventfd, so that the     *)
(* loop wakes up and tells the waiters.                                    *)
(*                                                                         *)
(* The routines and the loop are one thread: a routine runs until it       *)
(* waits, then the loop.  The kernel (what the peers of the descriptors    *)
(* do) runs beside them, and so does a close, when another thread makes    *)
(* it.  Slots, timers and schedule are those of Scheduler: here a          *)
(* registration holds the routine, or Stale once its round has ended.      *)
(***************************************************************************)
EXTENDS Integers, Sequences

CONSTANTS Routines,
          Fds,           \* descriptor numbers
          CallsOf(_),    \* the system calls a routine may make
          CloseHere,     \* TRUE if it is a routine of this thread that closes
          WaysOf(_),     \* the directions of a descriptor, one for an end of a pipe
          Reused,        \* the numbers that are opened again after a close
          MaxCalls(_),   \* bound: calls of a routine
          MaxOpens       \* bound: times a number is opened again

Directions == {"read", "write"}
Disabled == "disabled"
Stale == "stale"
None == "none"

\* A system call: what it waits for when it would block, what it does after
\* the wait, whether it has a timeout, and whether it is an event of a
\* select_any.  It is made again until it does not block; connect asks for the
\* outcome instead.
Call == [fd : Fds, dir : Directions, then : {"retry", "outcome"},
         timed : BOOLEAN, selected : BOOLEAN]

Plain(fd, dir, then) ==
  [fd |-> fd, dir |-> dir, then |-> then, timed |-> FALSE, selected |-> FALSE]

Reading(fd) == Plain(fd, "read", "retry")
Writing(fd) == Plain(fd, "write", "retry")
Connecting(fd) == Plain(fd, "write", "outcome")

Timed(c) == [c EXCEPT !.timed = TRUE]
Selected(c) == [c EXCEPT !.selected = TRUE]

ASSUME NetpollerAssumption ==
  /\ Reused \subseteq Fds /\ CloseHere \in BOOLEAN
  /\ \A fd \in Fds : WaysOf(fd) \subseteq Directions
  /\ None \notin Fds /\ Routines \cap {Disabled, Stale} = {}
  /\ \A r \in Routines : CallsOf(r) # {} /\ CallsOf(r) \subseteq Call
  /\ MaxOpens \in Nat /\ \A r \in Routines : MaxCalls(r) \in Nat

VARIABLES
  open, ready,    \* kernel: the number is open, and EPOLLIN, EPOLLOUT as directions
  hungup,         \* kernel: EPOLLHUP or EPOLLERR, the peer of the direction is gone
  interest, edge, \* kernel: the number is in the epoll set, with a change to report
  signal,         \* kernel: the eventfd loop_breaker_event_ has a change to report
  registered,     \* fd_data::registered
  waiter,         \* fd_data::read_enabled / write_enabled and their data
  commands,       \* io_event_loop::pending_commands_
  found,          \* io_event_loop::events_: what epoll_wait returned, not yet dispatched
  phase,          \* where the loop is
  state, call,    \* of a routine: what it does, in which call
  rc,             \* routine::happened_rc_, then the result of the call
  displaced,      \* history: who waits, but was overwritten by a later registration
  closing,        \* the descriptor being closed
  calls, opens    \* what is left of the bounds

kernel == <<open, ready, hungup, interest, edge, signal>>
poller == <<registered, waiter, commands, found>>
routine == <<state, call, rc, displaced>>
bounds == <<calls, opens>>
vars == <<kernel, poller, phase, routine, closing, bounds>>

\* The thread is not in the middle of a close of its own.
Free == CloseHere => closing = None

\* The routine that runs, if any: no other does anything meanwhile.
Running == {r \in Routines : state[r] \in {"try", "once", "would_block"}}

-----------------------------------------------------------------------------
\* A call begins, and returns.
Begin(r) ==
  /\ Free
  /\ phase = "run"
  /\ Running = {}
  /\ state[r] = "idle"
  /\ calls[r] > 0
  /\ calls' = [calls EXCEPT ![r] = @ - 1]
  /\ \E c \in CallsOf(r) : call' = [call EXCEPT ![r] = c]
  /\ state' = [state EXCEPT ![r] = "try"]
  /\ rc' = [rc EXCEPT ![r] = "ok"]
  /\ UNCHANGED <<kernel, poller, phase, displaced, closing, opens>>

Return(r, code) ==
  /\ state' = [state EXCEPT ![r] = "idle"]
  /\ rc' = [rc EXCEPT ![r] = code]

\* What does not block in the kernel: what is ready, and what would wait for a
\* peer that is gone.
Unblocking(fd) == ready[fd] \cup hungup[fd]

\* The kernel's answer; a call that goes through may use up what was ready.
Try(r) ==
  LET fd == call[r].fd  d == call[r].dir IN
  /\ Free
  /\ state[r] \in {"try", "once"}
  /\ \/ /\ ~open[fd]
        /\ Return(r, "EBADF")
        /\ UNCHANGED ready
     \/ /\ open[fd] /\ d \in Unblocking(fd)
        /\ Return(r, "ok")
        /\ \E left \in {ready[fd], ready[fd] \ {d}} : ready' = [ready EXCEPT ![fd] = left]
     \/ /\ open[fd] /\ d \notin Unblocking(fd)
        /\ IF state[r] = "once" THEN Return(r, "EAGAIN")
           ELSE state' = [state EXCEPT ![r] = "would_block"] /\ UNCHANGED rc
        /\ UNCHANGED ready
  /\ UNCHANGED <<open, hungup, interest, edge, signal, poller, phase, call, displaced, closing, bounds>>

\* io_event_loop::register_fd: epoll adds a number, and reports at once what
\* is ready or hung up.
RegisterFd(fd) ==
  /\ interest' = [interest EXCEPT ![fd] = TRUE]
  /\ edge' = [edge EXCEPT ![fd] = @ \/ Unblocking(fd) # {}]

\* wait_readiness: register_read or register_write.  The first registration
\* of a number adds it to epoll; that fails, and the call throws, when the
\* number is no longer open.  There is one registration per direction: it takes
\* the place of that of another routine, if any.
Register(r) ==
  LET fd == call[r].fd IN
  /\ Free
  /\ state[r] = "would_block"
  /\ IF registered[fd] \/ open[fd]
     THEN /\ registered' = [registered EXCEPT ![fd] = TRUE]
          /\ IF registered[fd] THEN UNCHANGED <<interest, edge>> ELSE RegisterFd(fd)
          /\ waiter' = [waiter EXCEPT ![fd][call[r].dir] = r]
          /\ displaced' = displaced \cup ({waiter[fd][call[r].dir]} \cap Routines)
          /\ state' = [state EXCEPT ![r] = "waiting"]
          /\ UNCHANGED rc
     ELSE /\ Return(r, "throw")
          /\ UNCHANGED <<registered, interest, edge, waiter, displaced>>
  /\ UNCHANGED <<open, ready, hungup, signal, commands, found, phase, call, closing, bounds>>

\* The routine runs again.  An error ends the call, unless select_any made it:
\* that one only tells a timeout from the rest, and tries once more.
GoesOn(r) == IF call[r].selected THEN rc[r] # "ETIMEDOUT" ELSE rc[r] = "ok"

Resume(r) ==
  /\ Free
  /\ phase = "run"
  /\ Running = {}
  /\ state[r] = "resumed"
  /\ \/ /\ ~GoesOn(r)
        /\ Return(r, rc[r])
     \/ /\ GoesOn(r) /\ call[r].then = "retry"
        /\ state' = [state EXCEPT ![r] = IF call[r].selected THEN "once" ELSE "try"]
        /\ rc' = [rc EXCEPT ![r] = "ok"]
     \/ /\ GoesOn(r) /\ call[r].then = "outcome"
        /\ Return(r, IF open[call[r].fd] THEN "ok" ELSE "throw")
  /\ UNCHANGED <<kernel, poller, phase, call, displaced, closing, bounds>>

-----------------------------------------------------------------------------
\* io_event_loop::unregister: the number leaves the epoll set, and a command
\* is queued for the loop.
Unregister(fd) ==
  /\ interest' = [interest EXCEPT ![fd] = FALSE]
  /\ edge' = [edge EXCEPT ![fd] = FALSE]
  /\ commands' = Append(commands, fd)

\* Mutants: the netpoller goes on to believe that epoll watches the number,
\* queues no command for those who wait, or does not wake the loop up.
SignalClosedKept(fd) ==
  /\ closing = None
  /\ CloseHere => phase = "run" /\ Running = {}
  /\ open[fd]
  /\ closing' = fd
  /\ IF registered[fd]
     THEN Unregister(fd) /\ signal' = TRUE
     ELSE UNCHANGED <<interest, edge, commands, signal>>
  /\ UNCHANGED <<open, ready, hungup, registered, waiter, found, phase, routine, bounds>>

SignalClosedSilent(fd) ==
  /\ closing = None
  /\ CloseHere => phase = "run" /\ Running = {}
  /\ open[fd]
  /\ closing' = fd
  /\ registered' = [registered EXCEPT ![fd] = FALSE]
  /\ interest' = [interest EXCEPT ![fd] = FALSE]
  /\ edge' = [edge EXCEPT ![fd] = FALSE]
  /\ UNCHANGED <<open, ready, hungup, signal, waiter, commands, found, phase, routine, bounds>>

SignalClosedUninterrupted(fd) ==
  /\ closing = None
  /\ CloseHere => phase = "run" /\ Running = {}
  /\ open[fd]
  /\ closing' = fd
  /\ IF registered[fd]
     THEN /\ registered' = [registered EXCEPT ![fd] = FALSE]
          /\ Unregister(fd)
     ELSE UNCHANGED <<registered, interest, edge, commands>>
  /\ UNCHANGED <<open, ready, hungup, signal, waiter, found, phase, routine, bounds>>

\* close(): the netpoller is told, and interrupts its loop; then the descriptor
\* is closed.
SignalClosed(fd) ==
  /\ closing = None
  /\ CloseHere => phase = "run" /\ Running = {}
  /\ open[fd]
  /\ closing' = fd
  /\ IF registered[fd]
     THEN /\ registered' = [registered EXCEPT ![fd] = FALSE]
          /\ Unregister(fd)
          /\ signal' = TRUE
     ELSE UNCHANGED <<registered, interest, edge, commands, signal>>
  /\ UNCHANGED <<open, ready, hungup, waiter, found, phase, routine, bounds>>

\* The kernel forgets the number, and removes it from epoll.
SysClose ==
  /\ closing # None
  /\ open' = [open EXCEPT ![closing] = FALSE]
  /\ ready' = [ready EXCEPT ![closing] = {}]
  /\ hungup' = [hungup EXCEPT ![closing] = {}]
  /\ interest' = [interest EXCEPT ![closing] = FALSE]
  /\ edge' = [edge EXCEPT ![closing] = FALSE]
  /\ closing' = None
  /\ UNCHANGED <<signal, poller, phase, routine, bounds>>

\* A later open, socket, pipe or accept is given the number again.
Open(fd) ==
  /\ fd \in Reused
  /\ ~open[fd]
  /\ closing = None
  /\ opens > 0
  /\ opens' = opens - 1
  /\ open' = [open EXCEPT ![fd] = TRUE]
  /\ UNCHANGED <<ready, hungup, interest, edge, signal, poller, phase, routine, closing, calls>>

\* The peer of a descriptor: a direction becomes ready, or is so once more.
BecomesReady(fd, d) ==
  /\ d \in WaysOf(fd)
  /\ open[fd]
  /\ d \notin hungup[fd]
  /\ ready' = [ready EXCEPT ![fd] = @ \cup {d}]
  /\ edge' = [edge EXCEPT ![fd] = interest[fd]]
  /\ UNCHANGED <<open, hungup, interest, signal, poller, phase, routine, closing, bounds>>

\* The peer is gone: a pipe with nothing to read shows EPOLLHUP without EPOLLIN,
\* a full one EPOLLERR without EPOLLOUT.
HangsUp(fd, d) ==
  /\ WaysOf(fd) = {d}
  /\ open[fd]
  /\ d \notin hungup[fd]
  /\ hungup' = [hungup EXCEPT ![fd] = @ \cup {d}]
  /\ edge' = [edge EXCEPT ![fd] = interest[fd]]
  /\ UNCHANGED <<open, ready, interest, signal, poller, phase, routine, closing, bounds>>

-----------------------------------------------------------------------------
\* What epoll_wait returns: the changes not yet reported on which there still
\* is something to report.
Reports == {fd \in Fds : edge[fd] /\ Unblocking(fd) # {}}

\* The loop: epoll_wait blocks until it has something to report, and returns all
\* of it.  An event is looked at for EPOLLIN and EPOLLOUT only: one with neither
\* is used up and wakes nobody.  The eventfd is read before the commands are.
Wait ==
  /\ Free
  /\ phase = "wait"
  /\ Reports # {} \/ signal
  /\ found' = [fd \in Fds |-> IF fd \in Reports THEN ready[fd] ELSE {}]
  /\ edge' = [fd \in Fds |-> FALSE]
  /\ signal' = FALSE
  /\ phase' = "dispatch"
  /\ UNCHANGED <<open, ready, hungup, interest, registered, waiter, commands, routine, closing, bounds>>

\* epoll_wait returns with nothing to report, because other work of the thread
\* had the timeout set to 0, or interrupted it, or because a timeout ran out:
\* then the commands are not looked at.
WaitReturns ==
  /\ Free
  /\ phase = "wait"
  /\ Reports = {} /\ ~signal
  /\ phase' \in {"dispatch", "timers"}
  /\ UNCHANGED <<kernel, poller, routine, closing, bounds>>

\* dispatchRead and dispatchWrite with the status of each direction: a waiter
\* whose round has not ended runs again with it.
Dispatch(fd, dirs, status) ==
  /\ waiter' = [waiter EXCEPT ![fd] = [d \in Directions |-> IF d \in dirs THEN Disabled ELSE @[d]]]
  /\ LET told == {waiter[fd][d] : d \in dirs} \cap Routines IN
     /\ state' = [r \in Routines |-> IF r \in told THEN "resumed" ELSE state[r]]
     /\ rc' = [r \in Routines |-> IF r \in told THEN status[call[r].dir] ELSE rc[r]]

\* thread::read replaces the status it is given: a reader is never told of an
\* error.  EINTR stands for a hang-up or an error of the descriptor.
DispatchEvent(fd) ==
  /\ phase = "dispatch"
  /\ found[fd] # {}
  /\ \E e \in {"ok", "EINTR"} : Dispatch(fd, found[fd], [read |-> "ok", write |-> e])
  /\ found' = [found EXCEPT ![fd] = {}]
  /\ UNCHANGED <<kernel, registered, commands, phase, call, displaced, closing, bounds>>

DispatchClosed ==
  /\ phase = "dispatch"
  /\ \A fd \in Fds : found[fd] = {}
  /\ commands # <<>>
  /\ Dispatch(Head(commands), Directions, [read |-> "ok", write |-> "EBADF"])
  /\ commands' = Tail(commands)
  /\ UNCHANGED <<kernel, registered, found, phase, call, displaced, closing, bounds>>

Dispatched ==
  /\ phase = "dispatch"
  /\ \A fd \in Fds : found[fd] = {}
  /\ commands = <<>>
  /\ phase' = "timers"
  /\ UNCHANGED <<kernel, poller, routine, closing, bounds>>

\* Mutant: the round of a call that timed out stays reachable from the poller.
ExpireKept(r) ==
  /\ phase = "timers"
  /\ state[r] = "waiting"
  /\ call[r].timed
  /\ state' = [state EXCEPT ![r] = "resumed"]
  /\ rc' = [rc EXCEPT ![r] = "ETIMEDOUT"]
  /\ displaced' = displaced \ {r}
  /\ UNCHANGED <<kernel, poller, phase, call, closing, bounds>>

\* A timeout ends the round and leaves the registration, if it is still there,
\* with a slot that no longer leads to the routine.
Expire(r) ==
  /\ phase = "timers"
  /\ state[r] = "waiting"
  /\ call[r].timed
  /\ waiter' = [waiter EXCEPT ![call[r].fd][call[r].dir] = IF @ = r THEN Stale ELSE @]
  /\ state' = [state EXCEPT ![r] = "resumed"]
  /\ rc' = [rc EXCEPT ![r] = "ETIMEDOUT"]
  /\ displaced' = displaced \ {r}
  /\ UNCHANGED <<kernel, registered, commands, found, phase, call, closing, bounds>>

TimersFired ==
  /\ phase = "timers"
  /\ phase' = "run"
  /\ UNCHANGED <<kernel, poller, routine, closing, bounds>>

PassEnds ==
  /\ Free
  /\ phase = "run"
  /\ \A r \in Routines : state[r] \in {"idle", "waiting"}
  /\ phase' = "wait"
  /\ UNCHANGED <<kernel, poller, routine, closing, bounds>>

-----------------------------------------------------------------------------
Init ==
  /\ open = [fd \in Fds |-> TRUE]
  /\ ready = [fd \in Fds |-> {}]
  /\ hungup = [fd \in Fds |-> {}]
  /\ interest = [fd \in Fds |-> FALSE]
  /\ edge = [fd \in Fds |-> FALSE]
  /\ signal = FALSE
  /\ registered = [fd \in Fds |-> FALSE]
  /\ waiter = [fd \in Fds |-> [d \in Directions |-> Disabled]]
  /\ commands = <<>>
  /\ found = [fd \in Fds |-> {}]
  /\ phase = "run"
  /\ state = [r \in Routines |-> "idle"]
  /\ call = [r \in Routines |-> CHOOSE c \in CallsOf(r) : TRUE]
  /\ rc = [r \in Routines |-> "ok"]
  /\ displaced = {}
  /\ closing = None
  /\ calls = [r \in Routines |-> MaxCalls(r)]
  /\ opens = MaxOpens

Loop ==
  \/ Wait \/ Dispatched \/ DispatchClosed \/ TimersFired \/ PassEnds
  \/ \E fd \in Fds : DispatchEvent(fd)

Next ==
  \/ \E r \in Routines : Begin(r) \/ Try(r) \/ Register(r) \/ Resume(r) \/ Expire(r)
  \/ \E fd \in Fds : SignalClosed(fd) \/ Open(fd)
  \/ SysClose
  \/ \E fd \in Fds, d \in Directions : BecomesReady(fd, d) \/ HangsUp(fd, d)
  \/ WaitReturns
  \/ Loop

Spec == Init /\ [][Next]_vars

\* The thread keeps running: its loop, and the routines it resumed.  A close
\* that began ends.  Nothing makes a wait return that has nothing to report.
FairSpec ==
  /\ Spec
  /\ WF_vars(Loop)
  /\ \A r \in Routines : WF_vars(Try(r) \/ Register(r) \/ Resume(r))
  /\ WF_vars(SysClose)

-----------------------------------------------------------------------------
Queued == {commands[i] : i \in DOMAIN commands}

\* The loop is going to look at the command of the number: it is past the wait,
\* or the wait cannot block.
Told(fd) == fd \in Queued /\ (signal \/ phase = "dispatch")

\* A waiting call is never forgotten, unless another routine registered for the
\* same direction: its registration is its own, what became readable or writable
\* is still to be reported by epoll or to be dispatched, and a close is on its
\* way to it, even if the change came between try and registration.
NoLostEdge ==
  \A r \in Routines \ displaced : state[r] = "waiting" =>
    LET fd == call[r].fd  d == call[r].dir IN
    /\ waiter[fd][d] = r
    /\ d \in ready[fd] => edge[fd] \/ d \in found[fd] \/ Told(fd)
    /\ ~open[fd] => Told(fd)

\* The calls that could go on: what they wait for is readable or writable, or
\* was closed.
Unblocked(r) ==
  /\ state[r] = "waiting"
  /\ call[r].dir \in ready[call[r].fd] \/ ~open[call[r].fd]

\* Nothing is left for the call to be told of: another one used it up.
UsedUp(r) ==
  LET fd == call[r].fd IN open[fd] /\ call[r].dir \notin ready[fd] /\ fd \notin Queued

\* A waiting call whose descriptor becomes readable or writable, or is closed,
\* runs again, though the loop sleeps until it is woken up: the edge is never
\* reported while nobody is registered for it, whatever other calls, timeouts,
\* closes, hang-ups and registrations happened on the number before, unless
\* another routine uses it up or registers for the same direction.
UnblockedCallRuns ==
  \A r \in Routines :
    Unblocked(r) ~> state[r] # "waiting" \/ r \in displaced \/ UsedUp(r)

\* The netpoller never believes that epoll watches a number it does not
\* watch, so a descriptor that reuses the number is added when it is waited for.
RegisteredIsWatched ==
  \A fd \in Fds : registered[fd] <=> interest[fd]

\* A registration that leads to a routine is of the call in which it waits now:
\* an event that comes late, after a timeout or for a reused number, is never
\* taken for one of another call (the assertions of thread::read and write).
EventsFindTheirCall ==
  \A fd \in Fds, d \in Directions, r \in Routines :
    waiter[fd][d] = r => state[r] = "waiting" /\ call[r].fd = fd /\ call[r].dir = d

=============================================================================

------------------------------- MODULE Mailbox -------------------------------
(***************************************************************************)
(* How a command reaches a thread that may be asleep: thread::push_command *)
(* on one side, thread::loop with netpoller::wait and io_event_loop::wait  *)
(* on the other.                                                           *)
(*                                                                         *)
(* A pusher counts its command, writes it, and interrupts the event loop:  *)
(* if it can take the loop's mutex the loop is not polling and a flag is   *)
(* enough, otherwise it writes to an eventfd that epoll watches edge       *)
(* triggered.  The queue is the one of Mpsc, at the level of LinkedFifo:   *)
(* a command that was exchanged into it cannot be read before it, and all  *)
(* the ones ahead of it, are linked.                                       *)
(***************************************************************************)
EXTENDS Integers, Sequences, FiniteSets

CONSTANTS Pushers,    \* threads that push commands to this one
          MaxPushes   \* bound: commands each of them pushes

ASSUME MailboxAssumption ==
  IsFiniteSet(Pushers) /\ MaxPushes \in Nat /\ Pushers \cap {"free", "loop"} = {}

VARIABLES
  queue,       \* engine_queue_: who pushed each command, and is it linked
  nb_pending,  \* nb_pending_commands_
  mutex,       \* loop_mutex_: "free" or its owner
  force,       \* force_next_loop_immediate_exit_
  signals,     \* the eventfd's value
  edge,        \* epoll has an event of the eventfd to report
  lpc,         \* place of the thread in its loop
  timeout,     \* timeout_ms of the next wait: 0 or -1
  pc,          \* place of each pusher in push_command
  pushed,      \* history: commands each pusher began to push
  handled      \* history: commands of each pusher the thread handled

vars == <<queue, nb_pending, mutex, force, signals, edge, lpc, timeout, pc, pushed, handled>>
loopVars == <<force, lpc, timeout>>
queueVars == <<queue, nb_pending, handled>>

Init == /\ queue = <<>>
        /\ nb_pending = 0
        /\ mutex = "free"
        /\ force = FALSE
        /\ signals = 0
        /\ edge = FALSE
        /\ lpc = "lock"
        /\ timeout = -1
        /\ pc = [p \in Pushers |-> "idle"]
        /\ pushed = [p \in Pushers |-> 0]
        /\ handled = [p \in Pushers |-> 0]
-----------------------------------------------------------------------------
(***************************************************************************)
(* push_command.                                                           *)
(***************************************************************************)
GoTo(p, place) == pc' = [pc EXCEPT ![p] = place]

Count(p) == /\ pc[p] = "idle"
            /\ pushed[p] < MaxPushes
            /\ nb_pending' = nb_pending + 1
            /\ pushed' = [pushed EXCEPT ![p] = @ + 1]
            /\ GoTo(p, "exchange")
            /\ UNCHANGED <<queue, mutex, signals, edge, loopVars, handled>>

\* mpsc::write: the exchange of the head, then the link from the old one.
Exchange(p) == /\ pc[p] = "exchange"
               /\ queue' = Append(queue, [from |-> p, linked |-> FALSE])
               /\ GoTo(p, "link")
               /\ UNCHANGED <<nb_pending, mutex, signals, edge, loopVars, pushed, handled>>

Link(p) == /\ pc[p] = "link"
           /\ \E i \in 1 .. Len(queue) :
                /\ queue[i] = [from |-> p, linked |-> FALSE]
                /\ queue' = [queue EXCEPT ![i] = [from |-> p, linked |-> TRUE]]
           /\ GoTo(p, "try_lock")
           /\ UNCHANGED <<nb_pending, mutex, signals, edge, loopVars, pushed, handled>>

\* Mutant: a loop that holds its mutex is taken for one that is awake.
TryLockOnly(p) == /\ pc[p] = "try_lock"
                  /\ \/ mutex = "free" /\ mutex' = p /\ GoTo(p, "set_flag")
                     \/ mutex # "free" /\ GoTo(p, "idle") /\ UNCHANGED mutex
                  /\ UNCHANGED <<queueVars, signals, edge, loopVars, pushed>>

\* netpoller::interrupt.
TryLock(p) == /\ pc[p] = "try_lock"
              /\ \/ mutex = "free" /\ mutex' = p /\ GoTo(p, "set_flag")
                 \/ mutex # "free" /\ GoTo(p, "write_event") /\ UNCHANGED mutex
              /\ UNCHANGED <<queueVars, signals, edge, loopVars, pushed>>

SetFlag(p) == /\ pc[p] = "set_flag"
              /\ force' = TRUE
              /\ mutex' = "free"
              /\ GoTo(p, "idle")
              /\ UNCHANGED <<queueVars, signals, edge, lpc, timeout, pushed>>

\* io_event_loop::interrupt.
WriteEvent(p) == /\ pc[p] = "write_event"
                 /\ signals' = signals + 1
                 /\ edge' = TRUE
                 /\ GoTo(p, "idle")
                 /\ UNCHANGED <<queueVars, mutex, loopVars, pushed>>

PusherStep(p) == \/ Exchange(p) \/ Link(p) \/ TryLock(p) \/ SetFlag(p) \/ WriteEvent(p)
-----------------------------------------------------------------------------
(***************************************************************************)
(* The loop.                                                               *)
(***************************************************************************)
unpushed == <<pc, pushed>>

\* Mutant: the flag is cleared without a look at it.
LockDeaf == /\ lpc = "lock"
            /\ mutex = "free"
            /\ mutex' = "loop"
            /\ force' = FALSE
            /\ lpc' = "poll"
            /\ UNCHANGED <<queueVars, signals, edge, timeout, unpushed>>

\* netpoller::wait takes the mutex and the flag.
Lock == /\ lpc = "lock"
        /\ mutex = "free"
        /\ mutex' = "loop"
        /\ timeout' = IF force THEN 0 ELSE timeout
        /\ force' = FALSE
        /\ lpc' = "poll"
        /\ UNCHANGED <<queueVars, signals, edge, unpushed>>

Readable == edge /\ 0 < signals

\* epoll_wait reports the eventfd.
PollReports == /\ lpc = "poll"
               /\ Readable
               /\ edge' = FALSE
               /\ lpc' = "read_event"
               /\ UNCHANGED <<queueVars, mutex, force, signals, timeout, unpushed>>

\* epoll_wait has nothing to report and may not block, or reports an event
\* of another fd or the end of a timer's wait.
PollReturns == /\ lpc = "poll"
               /\ ~Readable
               /\ edge' = FALSE
               /\ lpc' = "unlock"
               /\ UNCHANGED <<queueVars, mutex, force, signals, timeout, unpushed>>

ReadEvent == /\ lpc = "read_event"
             /\ signals' = 0
             /\ lpc' = "unlock"
             /\ UNCHANGED <<queueVars, mutex, force, edge, timeout, unpushed>>

Unlock == /\ lpc = "unlock"
          /\ mutex' = "free"
          /\ lpc' = "check"
          /\ UNCHANGED <<queueVars, force, signals, edge, timeout, unpushed>>

\* thread::loop looks for commands only if some are counted.
Check == /\ lpc = "check"
         /\ lpc' = IF 0 < nb_pending THEN "handle" ELSE "decide"
         /\ UNCHANGED <<queueVars, mutex, force, signals, edge, timeout, unpushed>>

\* Mutant: the count is cleared.
HandleClears == /\ lpc = "handle"
                /\ \/ /\ queue # <<>> /\ Head(queue).linked
                      /\ queue' = Tail(queue)
                      /\ nb_pending' = 0
                      /\ handled' = [handled EXCEPT ![Head(queue).from] = @ + 1]
                      /\ UNCHANGED lpc
                   \/ /\ queue # <<>> => ~Head(queue).linked
                      /\ lpc' = "decide"
                      /\ UNCHANGED queueVars
                /\ UNCHANGED <<mutex, force, signals, edge, timeout, unpushed>>

\* handle_engine_event, one command at a time until a read fails.
Handle == /\ lpc = "handle"
          /\ \/ /\ queue # <<>> /\ Head(queue).linked
                /\ queue' = Tail(queue)
                /\ nb_pending' = nb_pending - 1
                /\ handled' = [handled EXCEPT ![Head(queue).from] = @ + 1]
                /\ UNCHANGED lpc
             \/ /\ queue # <<>> => ~Head(queue).linked
                /\ lpc' = "decide"
                /\ UNCHANGED queueVars
          /\ UNCHANGED <<mutex, force, signals, edge, timeout, unpushed>>

\* The end of execute_scheduled_routines: the next wait blocks if there is
\* neither a routine to run nor a command counted; in one of the other
\* cases the loop interrupts itself too.
Decide == /\ lpc = "decide"
          /\ \/ /\ nb_pending = 0
                /\ timeout' \in {0, -1}
                /\ lpc' = "lock"
             \/ /\ nb_pending # 0
                /\ timeout' = 0
                /\ lpc' \in {"lock", "self_interrupt"}
          /\ UNCHANGED <<queueVars, mutex, force, signals, edge, unpushed>>

SelfInterrupt == /\ lpc = "self_interrupt"
                 /\ \/ mutex = "free" /\ force' = TRUE /\ UNCHANGED <<signals, edge>>
                    \/ mutex # "free" /\ signals' = signals + 1 /\ edge' = TRUE /\ UNCHANGED force
                 /\ lpc' = "lock"
                 /\ UNCHANGED <<queueVars, mutex, timeout, unpushed>>

\* What the loop does whatever the other events of its epoll set are.
LoopStep == \/ Lock \/ PollReports \/ (timeout = 0 /\ PollReturns) \/ ReadEvent \/ Unlock
            \/ Check \/ Handle \/ Decide \/ SelfInterrupt

Next == \/ LoopStep \/ PollReturns
        \/ \E p \in Pushers : Count(p) \/ PusherStep(p)

Spec == Init /\ [][Next]_vars

\* The loop and the pushers run.
Fairness == /\ WF_vars(LoopStep)
            /\ \A p \in Pushers : WF_vars(PusherStep(p))

FairSpec == Spec /\ Fairness
-----------------------------------------------------------------------------

\* The commands counted are the ones in the queue and the ones about to be.
PendingMatches ==
  nb_pending = Len(queue) + Cardinality({p \in Pushers : pc[p] = "exchange"})

\* The thread is in epoll_wait, without a timeout and with nothing to report.
Asleep == lpc = "poll" /\ timeout = -1 /\ ~Readable

\* No lost wake-up: a thread that sleeps on a command has a pusher that has
\* not interrupted it yet.
NoSleepingCommand ==
  Asleep /\ queue # <<>> => \E p \in Pushers : pc[p] \in {"exchange", "link", "try_lock", "write_event"}

\* Every command is handled, in spite of the window between the exchange and
\* the link of another one.
EveryCommandHandled ==
  \A p \in Pushers : \A n \in 1 .. MaxPushes : (pushed[p] = n) ~> (handled[p] >= n)

=============================================================================

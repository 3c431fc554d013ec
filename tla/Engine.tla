------------------------------- MODULE Engine -------------------------------
(***************************************************************************)
(* boson::engine and the life of its threads: how routines are started and *)
(* placed, and how the engine finds out that it can stop.                  *)
(*                                                                         *)
(* Routines are started by commands to the engine, which forwards them to  *)
(* a thread and counts them there.  A thread that has no routine left and  *)
(* no command pending tells the engine it is idle; when every count is     *)
(* zero the engine sends finish to every thread, and a thread that leaves  *)
(* its loop says so.  Each of these messages takes time, and the counts    *)
(* are what the engine believes, not what is.                              *)
(*                                                                         *)
(* A command is pushed in two steps, the counter of pending commands, and  *)
(* then the write with the interrupt.                                      *)
(***************************************************************************)
EXTENDS Integers, Sequences, FiniteSets, Functions

CONSTANTS Ring,        \* the engine's threads, in the order of their ids
          Routines,    \* the routines a program may start
          MainRoutine  \* the one given to run()

Threads == Range(Ring)

ASSUME EngineAssumption ==
  /\ Ring \in Seq(Threads)
  /\ Ring # <<>>
  /\ IsInjective(Ring)
  /\ MainRoutine \in Routines

\* The thread id that leaves the choice to the engine, max_nb_cores_.
Anywhere == "anywhere"

VARIABLES
  main,               \* place in wait_all_routines
  command_queue,      \* commands to the engine
  nb_routines,        \* thread_view_t::nb_routines
  sent_end_request,   \* thread_view_t::sent_end_request
  nb_active_threads,
  next_thread,        \* next_scheduled_thread_
  view,               \* the thread, by its place in Ring, to be told to finish next
  sending,            \* the push of the engine under way, if any
  engine_queue,       \* commands to each thread
  kicked,             \* interrupts that a thread's event loop has not seen
  resident,           \* routines scheduled or suspended on each thread
  status,             \* thread_status
  phase,              \* place in thread::loop
  pushing,            \* the command a thread has counted and not written
  life,               \* of each routine: unborn, started or finished
  nested              \* history: a routine other than run()'s has started one

engineVars == <<main, nb_routines, sent_end_request, nb_active_threads, next_thread, view>>
threadVars == <<resident, status, phase, pushing, life, nested>>
vars == <<engineVars, threadVars, command_queue, sending, engine_queue, kicked>>

AddRoutine(r, target) == [type |-> "add_routine", routine |-> r, target |-> target]
NotifyIdle(t) == [type |-> "notify_idle", from |-> t]
NotifyEnd(t) == [type |-> "notify_end_of_thread", from |-> t]
Schedule(r) == [type |-> "add_routine", routine |-> r]
Finish == [type |-> "finish"]
Push(t, command, counted) == [to |-> t, command |-> command, counted |-> counted]

\* nb_pending_commands_: raised before the write, lowered after the read.
NbPending(t) == Len(engine_queue[t])
                + (IF sending # <<>> /\ sending[1].to = t /\ sending[1].counted THEN 1 ELSE 0)

\* command_pushers_, likewise.
CommandPushers == Len(command_queue) + Cardinality({t \in Threads : pushing[t] # <<>>})

EngineInit ==
  /\ nb_routines = [t \in Threads |-> 0]
  /\ sent_end_request = [t \in Threads |-> FALSE]
  /\ nb_active_threads = Len(Ring)
  /\ next_thread = 0
  /\ view = 1
  /\ sending = <<>>

ThreadsInit ==
  /\ engine_queue = [t \in Threads |-> <<>>]
  /\ kicked = [t \in Threads |-> FALSE]
  /\ resident = [t \in Threads |-> {}]
  /\ status = [t \in Threads |-> "running"]
  /\ phase = [t \in Threads |-> "wait"]
  /\ pushing = [t \in Threads |-> <<>>]

\* The engine is built with its threads entering their loops, and run()'s
\* routine is pushed before anybody waits.
Init ==
  /\ EngineInit
  /\ ThreadsInit
  /\ main = "execute"
  /\ command_queue = <<AddRoutine(MainRoutine, Anywhere)>>
  /\ life = [r \in Routines |-> IF r = MainRoutine THEN "started" ELSE "unborn"]
  /\ nested = FALSE

-----------------------------------------------------------------------------
(***************************************************************************)
(* The engine, in the thread that destroys it.                             *)
(***************************************************************************)

\* thread::push_command, called by the engine.
PushCounts == /\ sending # <<>>
              /\ ~sending[1].counted
              /\ sending' = <<Push(sending[1].to, sending[1].command, TRUE)>>
              /\ UNCHANGED <<engineVars, threadVars, command_queue, engine_queue, kicked>>

\* Mutant: the thread is not woken up.
PushWritesQuiet == /\ sending # <<>>
                   /\ sending[1].counted
                   /\ LET t == sending[1].to IN
                        engine_queue' = [engine_queue EXCEPT ![t] = Append(@, sending[1].command)]
                   /\ sending' = <<>>
                   /\ UNCHANGED <<engineVars, threadVars, command_queue, kicked>>

PushWrites == /\ sending # <<>>
              /\ sending[1].counted
              /\ LET t == sending[1].to IN
                   /\ engine_queue' = [engine_queue EXCEPT ![t] = Append(@, sending[1].command)]
                   /\ kicked' = [kicked EXCEPT ![t] = TRUE]
              /\ sending' = <<>>
              /\ UNCHANGED <<engineVars, threadVars, command_queue>>

\* execute_commands reads a command: what is common to its three cases.
Executes(type) == /\ main = "execute"
                  /\ sending = <<>>
                  /\ command_queue # <<>>
                  /\ Head(command_queue).type = type
                  /\ command_queue' = Tail(command_queue)
                  /\ UNCHANGED <<main, sent_end_request, view, threadVars, engine_queue, kicked>>

\* Mutant: the routine is not counted.
ExecuteAddUncounted ==
  /\ Executes("add_routine")
  /\ LET c == Head(command_queue)
         t == IF c.target = Anywhere THEN Ring[next_thread + 1] ELSE c.target
     IN  /\ sending' = <<Push(t, Schedule(c.routine), FALSE)>>
         /\ next_thread' = IF c.target = Anywhere THEN (next_thread + 1) % Len(Ring)
                                                  ELSE next_thread
  /\ UNCHANGED <<nb_routines, nb_active_threads>>

ExecuteAdd ==
  /\ Executes("add_routine")
  /\ LET c == Head(command_queue)
         t == IF c.target = Anywhere THEN Ring[next_thread + 1] ELSE c.target
     IN  /\ nb_routines' = [nb_routines EXCEPT ![t] = @ + 1]
         /\ sending' = <<Push(t, Schedule(c.routine), FALSE)>>
         /\ next_thread' = IF c.target = Anywhere THEN (next_thread + 1) % Len(Ring)
                                                  ELSE next_thread
  /\ UNCHANGED nb_active_threads

ExecuteIdle ==
  /\ Executes("notify_idle")
  /\ nb_routines' = [nb_routines EXCEPT ![Head(command_queue).from] = 0]
  /\ UNCHANGED <<nb_active_threads, next_thread, sending>>

ExecuteEnd ==
  /\ Executes("notify_end_of_thread")
  /\ nb_active_threads' = nb_active_threads - 1
  /\ UNCHANGED <<nb_routines, next_thread, sending>>

\* execute_commands returns when nothing is counted any more, and the counts
\* of the threads decide whether to finish.
Check ==
  /\ main = "execute"
  /\ sending = <<>>
  /\ CommandPushers = 0
  /\ main' = IF \A t \in Threads : nb_routines[t] = 0 THEN "finish" ELSE "wait"
  /\ view' = 1
  /\ UNCHANGED <<nb_routines, sent_end_request, nb_active_threads, next_thread, threadVars,
                 command_queue, sending, engine_queue, kicked>>

\* Mutant: finish is sent again to a thread that was told.
SendFinishAgain ==
  /\ main = "finish"
  /\ sending = <<>>
  /\ LET t == Ring[view] IN
       /\ sending' = <<Push(t, Finish, FALSE)>>
       /\ sent_end_request' = [sent_end_request EXCEPT ![t] = TRUE]
  /\ main' = IF view = Len(Ring) THEN "wait" ELSE "finish"
  /\ view' = view + 1
  /\ UNCHANGED <<nb_routines, nb_active_threads, next_thread, threadVars,
                 command_queue, engine_queue, kicked>>

\* The next thread is told to finish, unless it was.
SendFinish ==
  /\ main = "finish"
  /\ sending = <<>>
  /\ LET t == Ring[view] IN
       /\ sending' = IF sent_end_request[t] THEN <<>> ELSE <<Push(t, Finish, FALSE)>>
       /\ sent_end_request' = [sent_end_request EXCEPT ![t] = TRUE]
  /\ main' = IF view = Len(Ring) THEN "wait" ELSE "finish"
  /\ view' = view + 1
  /\ UNCHANGED <<nb_routines, nb_active_threads, next_thread, threadVars,
                 command_queue, engine_queue, kicked>>

\* Sleeps in its event loop until a command is counted.
Wake == /\ main = "wait"
        /\ sending = <<>>
        /\ nb_active_threads # 0
        /\ CommandPushers # 0
        /\ main' = "execute"
        /\ UNCHANGED <<nb_routines, sent_end_request, nb_active_threads, next_thread, view, threadVars,
                       command_queue, sending, engine_queue, kicked>>

\* Mutant: returns when every thread was told to finish.
ReturnEarly == /\ main = "wait"
               /\ sending = <<>>
               /\ \A t \in Threads : sent_end_request[t]
               /\ main' = "done"
               /\ UNCHANGED <<nb_routines, sent_end_request, nb_active_threads, next_thread, view,
                              threadVars, command_queue, sending, engine_queue, kicked>>

\* No active thread is left: joins the threads, and run() returns.
Return == /\ main = "wait"
          /\ sending = <<>>
          /\ nb_active_threads = 0
          /\ main' = "done"
          /\ UNCHANGED <<nb_routines, sent_end_request, nb_active_threads, next_thread, view, threadVars,
                         command_queue, sending, engine_queue, kicked>>

EngineStep == \/ PushCounts \/ PushWrites \/ ExecuteAdd \/ ExecuteIdle \/ ExecuteEnd
              \/ Check \/ SendFinish \/ Wake \/ Return
-----------------------------------------------------------------------------
(***************************************************************************)
(* A thread.                                                               *)
(***************************************************************************)
At(t, place) == phase[t] = place /\ pushing[t] = <<>>
GoTo(t, place) == phase' = [phase EXCEPT ![t] = place]

\* engine::push_command, called by a thread: counted with the decision that
\* leads to it, written later.
Pushes(t, command) == pushing' = [pushing EXCEPT ![t] = <<command>>]

WriteCommand(t) ==
  /\ pushing[t] # <<>>
  /\ command_queue' = Append(command_queue, pushing[t][1])
  /\ pushing' = [pushing EXCEPT ![t] = <<>>]
  /\ UNCHANGED <<engineVars, resident, status, phase, life, nested, sending, engine_queue, kicked>>

\* event_loop_.wait returns: at once after a pass that has to be repeated,
\* otherwise on an interrupt or on an event of a suspended routine.
WaitReturns(t) ==
  /\ At(t, "poll") \/ (At(t, "wait") /\ (kicked[t] \/ resident[t] # {}))
  /\ kicked' = [kicked EXCEPT ![t] = FALSE]
  /\ GoTo(t, "handle")
  /\ UNCHANGED <<engineVars, resident, status, pushing, life, nested,
                 command_queue, sending, engine_queue>>

\* handle_engine_event, one command at a time.
HandleCommand(t) ==
  /\ At(t, "handle")
  /\ engine_queue[t] # <<>>
  /\ LET c == Head(engine_queue[t]) IN
       \/ /\ c.type = "add_routine"
          /\ resident' = [resident EXCEPT ![t] = @ \union {c.routine}]
          /\ UNCHANGED status
       \/ /\ c.type = "finish"
          /\ status' = [status EXCEPT ![t] = "finishing"]
          /\ UNCHANGED resident
  /\ engine_queue' = [engine_queue EXCEPT ![t] = Tail(@)]
  /\ UNCHANGED <<engineVars, phase, pushing, life, nested, command_queue, sending, kicked>>

HandleReturns(t) ==
  /\ At(t, "handle")
  /\ engine_queue[t] = <<>>
  /\ GoTo(t, "run")
  /\ UNCHANGED <<engineVars, resident, status, pushing, life, nested,
                 command_queue, sending, engine_queue, kicked>>

\* A routine starts another one.
StartRoutine(t, r, new, target) ==
  /\ At(t, "run")
  /\ r \in resident[t]
  /\ life[new] = "unborn"
  /\ life' = [life EXCEPT ![new] = "started"]
  /\ nested' = (nested \/ r # MainRoutine)
  /\ Pushes(t, AddRoutine(new, target))
  /\ UNCHANGED <<engineVars, resident, status, phase,
                 command_queue, sending, engine_queue, kicked>>

Start(t, r, new) == StartRoutine(t, r, new, Anywhere)
StartExplicit(t, r, new) == \E target \in Threads : StartRoutine(t, r, new, target)

FinishRoutine(t, r) ==
  /\ At(t, "run")
  /\ r \in resident[t]
  /\ resident' = [resident EXCEPT ![t] = @ \ {r}]
  /\ life' = [life EXCEPT ![r] = "finished"]
  /\ UNCHANGED <<engineVars, status, phase, pushing, nested,
                 command_queue, sending, engine_queue, kicked>>

\* Mutant: a thread that has nothing to do does not tell.
PassEndsSilent(t) ==
  /\ At(t, "run")
  /\ \/ /\ resident[t] = {} /\ NbPending(t) = 0 /\ status[t] = "finishing"
        /\ status' = [status EXCEPT ![t] = "finished"]
        /\ GoTo(t, "left")
        /\ Pushes(t, NotifyEnd(t))
     \/ /\ status[t] = "running" \/ NbPending(t) # 0 \/ resident[t] # {}
        /\ GoTo(t, IF NbPending(t) # 0 THEN "poll" ELSE "wait")
        /\ UNCHANGED <<status, pushing>>
  /\ UNCHANGED <<engineVars, resident, life, nested, command_queue, sending, engine_queue, kicked>>

\* The end of execute_scheduled_routines.  A thread without routines and
\* without commands leaves if it was told to finish and is idle otherwise.
PassEnds(t) ==
  /\ At(t, "run")
  /\ \/ /\ resident[t] = {} /\ NbPending(t) = 0 /\ status[t] = "finishing"
        /\ status' = [status EXCEPT ![t] = "finished"]
        /\ GoTo(t, "left")
        /\ Pushes(t, NotifyEnd(t))
     \/ /\ resident[t] = {} /\ NbPending(t) = 0 /\ status[t] = "running"
        /\ GoTo(t, "wait")
        /\ Pushes(t, NotifyIdle(t))
        /\ UNCHANGED status
     \/ /\ NbPending(t) # 0
        /\ GoTo(t, "poll")
        /\ UNCHANGED <<status, pushing>>
     \/ /\ resident[t] # {} /\ NbPending(t) = 0
        /\ GoTo(t, "wait")
        /\ UNCHANGED <<status, pushing>>
  /\ UNCHANGED <<engineVars, resident, life, nested, command_queue, sending, engine_queue, kicked>>

ThreadStep(t) == \/ WriteCommand(t) \/ WaitReturns(t) \/ HandleCommand(t)
                 \/ HandleReturns(t) \/ PassEnds(t)

Next == \/ EngineStep
        \/ \E t \in Threads :
             \/ ThreadStep(t)
             \/ \E r \in Routines : FinishRoutine(t, r)
             \/ \E r, new \in Routines : Start(t, r, new) \/ StartExplicit(t, r, new)

Spec == Init /\ [][Next]_vars

\* The engine and the threads run, and every routine finishes if it is
\* scheduled again and again: a program whose routines do not is not
\* expected to stop.
Fairness == /\ WF_vars(EngineStep)
            /\ \A t \in Threads :
                 /\ WF_vars(ThreadStep(t))
                 /\ \A r \in Routines : SF_vars(FinishRoutine(t, r))

FairSpec == Spec /\ Fairness
-----------------------------------------------------------------------------
\* docs/md/manual.md:73: run() "blocks until every routine has finished execution".
RunWaitsForAll == main = "done" => \A r \in Routines : life[r] # "started"

\* It does for a program in which run()'s routine starts all the others,
\* wherever they are placed and however late their commands arrive.
FlatRunWaitsForAll == ~nested => RunWaitsForAll

\* When run() returns, every thread has left its loop and nobody has a
\* command for the engine any more: the engine can be destroyed.
EngineDrained ==
  main = "done" => /\ \A t \in Threads : phase[t] = "left" /\ pushing[t] = <<>>
                   /\ command_queue = <<>>

\* A thread sleeps only if nothing is left for it to do: no command that was
\* written is forgotten between the handling and the end of the pass.
NoForgottenCommand ==
  \A t \in Threads :
    At(t, "wait") /\ ~kicked[t] => engine_queue[t] = <<>>

\* A thread never leaves its loop on its own: finish was sent, once.
OneFinishPerThread ==
  \A t \in Threads :
    Cardinality({i \in 1 .. Len(engine_queue[t]) : engine_queue[t][i] = Finish})
      + Cardinality({i \in 1 .. Len(sending) : sending[i].to = t /\ sending[i].command = Finish})
      + (IF status[t] = "running" THEN 0 ELSE 1)
    = (IF sent_end_request[t] THEN 1 ELSE 0)

\* run() returns, when every routine finishes.
RunReturns == <>(main = "done")

=============================================================================

---------------------------- MODULE EngineProofs ----------------------------
(***************************************************************************)
(* What Engine promises for any threads and routines: first where commands *)
(* and routines are and how a step moves them, then what needs counting.   *)
(***************************************************************************)
EXTENDS Engine, FiniteSetTheorems, TLAPS

\* Leaves are proved by Zenon, unless they name another prover.
USE ZenonT(30)

Commands == {AddRoutine(r, target) : r \in Routines, target \in Threads \union {Anywhere}}
            \union {NotifyIdle(t) : t \in Threads} \union {NotifyEnd(t) : t \in Threads}
ThreadCommands == {Schedule(r) : r \in Routines} \union {Finish}

TypeOK ==
  /\ main \in {"execute", "finish", "wait", "done"}
  /\ command_queue \in Seq(Commands)
  /\ nb_routines \in [Threads -> Nat]
  /\ sent_end_request \in [Threads -> BOOLEAN]
  /\ nb_active_threads \in Int
  /\ next_thread \in 0 .. Len(Ring) - 1
  /\ view \in 1 .. Len(Ring) + 1 /\ (main = "finish" => view <= Len(Ring))
  /\ \/ sending = <<>>
     \/ \E t \in Threads, c \in ThreadCommands, b \in BOOLEAN : sending = <<Push(t, c, b)>>
  /\ engine_queue \in [Threads -> Seq(ThreadCommands)]
  /\ kicked \in [Threads -> BOOLEAN]
  /\ resident \in [Threads -> SUBSET Routines]
  /\ status \in [Threads -> {"running", "finishing", "finished"}]
  /\ phase \in [Threads -> {"wait", "poll", "handle", "run", "left"}]
  /\ pushing \in [Threads -> {<<>>} \union {<<c>> : c \in Commands}]
  /\ life \in [Routines -> {"unborn", "started", "finished"}]
  /\ nested \in BOOLEAN

\* A thread that waits without an interrupt has no command.
Asleep == \A t \in Threads : phase[t] = "wait" /\ ~kicked[t] => engine_queue[t] = <<>>

In(c, queue) == \E i \in 1 .. Len(queue) : queue[i] = c
AtMostOnce(c, queue) == \A i, j \in 1 .. Len(queue) : queue[i] = c /\ queue[j] = c => i = j

Queued(c) == In(c, command_queue)
QueuedTo(t, c) == In(c, engine_queue[t])
Sends(c) == sending # <<>> /\ sending[1].command = c

\* The engine is built and no thread has been given anything yet.
Fresh == \A t \in Threads : /\ phase[t] = "wait" /\ ~kicked[t] /\ pushing[t] = <<>>
                            /\ engine_queue[t] = <<>> /\ resident[t] = {}

\* run()'s routine is on thread t, which the engine believes busy: the thread
\* has sent no notify_idle that is still on its way.
Hosts(t) ==
  /\ nb_routines[t] > 0
  /\ ~Queued(NotifyIdle(t))
  /\ \A u \in Threads : pushing[u] # <<NotifyIdle(t)>>
  /\ MainRoutine \in resident[t] \/ QueuedTo(t, Schedule(MainRoutine))
  /\ AtMostOnce(Schedule(MainRoutine), engine_queue[t])
  /\ ~(MainRoutine \in resident[t] /\ QueuedTo(t, Schedule(MainRoutine)))

Absent(t) == MainRoutine \notin resident[t] /\ ~QueuedTo(t, Schedule(MainRoutine))

Unsent ==
  /\ ~Sends(Schedule(MainRoutine))
  /\ \A target \in Threads \union {Anywhere} : ~Queued(AddRoutine(MainRoutine, target))

Unpushed == \A t \in Threads, target \in Threads \union {Anywhere} :
              pushing[t] # <<AddRoutine(MainRoutine, target)>>

\* The life of run()'s routine: in the queue of the engine, being sent, on one
\* thread, nowhere.
Waiting == /\ Fresh /\ main = "execute" /\ sending = <<>>
           /\ command_queue = <<AddRoutine(MainRoutine, Anywhere)>>
BeingSent == /\ Fresh /\ main = "execute" /\ command_queue = <<>>
             /\ Sends(Schedule(MainRoutine)) /\ nb_routines[sending[1].to] > 0
Settled == Unsent /\ \E t \in Threads : Hosts(t) /\ \A u \in Threads \ {t} : Absent(u)
Nowhere == Unsent /\ \A t \in Threads : Absent(t)

MainPlaced ==
  /\ life[MainRoutine] # "unborn"
  /\ Unpushed
  /\ life[MainRoutine] = "finished" => Nowhere
  /\ life[MainRoutine] = "started" => Waiting \/ BeingSent \/ Settled

Keeps ==
  /\ Unpushed' /\ Unsent'
  /\ life'[MainRoutine] = life[MainRoutine]
  /\ \A t \in Threads : (Absent(t) => Absent(t)') /\ (Hosts(t) => Hosts(t)')

\* run()'s routine has finished and no start is on its way.
Closed ==
  /\ life[MainRoutine] = "finished"
  /\ \A r \in Routines : ~Sends(Schedule(r))
  /\ \A r \in Routines, target \in Threads \union {Anywhere} :
       /\ ~Queued(AddRoutine(r, target))
       /\ \A t \in Threads : pushing[t] # <<AddRoutine(r, target)>>

\* In a flat program finish is sent after the last start: nothing follows it.
Closing == (main = "finish" \/ \E t \in Threads : sent_end_request[t]) /\ ~nested => Closed

\* The engine counts no pusher only when its queue is empty and nobody pushes.
PushersSeen == CommandPushers = 0 => /\ command_queue = <<>>
                                     /\ \A t \in Threads : pushing[t] = <<>>
-----------------------------------------------------------------------------
(***************************************************************************)
(* Commands and queues of commands.                                        *)
(***************************************************************************)

\* Every command is one of its kinds, and tells what it was made from.
LEMMA Kinds ==
  /\ \A c \in Commands :
       \/ \E r \in Routines, target \in Threads \union {Anywhere} : c = AddRoutine(r, target)
       \/ \E t \in Threads : c = NotifyIdle(t)
       \/ \E t \in Threads : c = NotifyEnd(t)
  /\ \A r \in Routines, target \in Threads \union {Anywhere} :
       /\ AddRoutine(r, target) \in Commands
       /\ AddRoutine(r, target).type = "add_routine"
       /\ AddRoutine(r, target).routine = r
       /\ AddRoutine(r, target).target = target
  /\ \A t \in Threads :
       /\ NotifyIdle(t) \in Commands /\ NotifyEnd(t) \in Commands
       /\ NotifyIdle(t).type = "notify_idle" /\ NotifyIdle(t).from = t
       /\ NotifyEnd(t).type = "notify_end_of_thread" /\ NotifyEnd(t).from = t
<1>1. \A r, target :
        /\ AddRoutine(r, target).type = "add_routine"
        /\ AddRoutine(r, target).routine = r
        /\ AddRoutine(r, target).target = target
  BY DEF AddRoutine
<1>2. \A t : /\ NotifyIdle(t).type = "notify_idle" /\ NotifyIdle(t).from = t
             /\ NotifyEnd(t).type = "notify_end_of_thread" /\ NotifyEnd(t).from = t
  BY DEF NotifyIdle, NotifyEnd
<1>. QED
  BY SMTT(30), <1>1, <1>2 DEF Commands

LEMMA ThreadKinds ==
  /\ \A c \in ThreadCommands : c = Finish \/ \E r \in Routines : c = Schedule(r)
  /\ Finish \in ThreadCommands /\ Finish.type = "finish"
  /\ \A r \in Routines :
       Schedule(r) \in ThreadCommands /\ Schedule(r).type = "add_routine" /\ Schedule(r).routine = r
BY DEF ThreadCommands, Schedule, Finish

\* What a queue holds when a command is written to it.
LEMMA Appended ==
  ASSUME NEW S, NEW queue \in Seq(S), NEW c \in S
  PROVE  /\ Append(queue, c) \in Seq(S)
         /\ Append(queue, c) # <<>>
         /\ \A d : In(d, Append(queue, c)) <=> In(d, queue) \/ d = c
         /\ \A d : AtMostOnce(d, queue) /\ (d = c => ~In(d, queue)) => AtMostOnce(d, Append(queue, c))
<1>1. /\ Append(queue, c) \in Seq(S) /\ Len(Append(queue, c)) = Len(queue) + 1 /\ Len(queue) \in Nat
      /\ Append(queue, c)[Len(queue) + 1] = c
      /\ \A i \in 1 .. Len(queue) : Append(queue, c)[i] = queue[i]
  BY SMTT(30)
<1>2. \A d : In(d, Append(queue, c)) <=> In(d, queue) \/ d = c
  BY SMTT(30), <1>1 DEF In
<1>3. \A d : AtMostOnce(d, queue) /\ (d = c => ~In(d, queue)) => AtMostOnce(d, Append(queue, c))
  BY SMTT(30), <1>1 DEF In, AtMostOnce
<1>4. Append(queue, c) # <<>>
  BY SMTT(30), <1>1
<1>. QED
  BY <1>1, <1>2, <1>3, <1>4

\* What it holds when the first one is read.
LEMMA Taken ==
  ASSUME NEW S, NEW queue \in Seq(S), queue # <<>>
  PROVE  /\ Tail(queue) \in Seq(S)
         /\ Head(queue) \in S
         /\ \A d : In(d, queue) <=> In(d, Tail(queue)) \/ d = Head(queue)
         /\ \A d : AtMostOnce(d, queue) => AtMostOnce(d, Tail(queue))
         /\ \A d : AtMostOnce(d, queue) /\ d = Head(queue) => ~In(d, Tail(queue))
<1> DEFINE n == Len(queue)
<1>1. /\ Tail(queue) \in Seq(S) /\ Len(Tail(queue)) = n - 1 /\ n \in Nat \ {0}
      /\ Head(queue) = queue[1] /\ Head(queue) \in S
      /\ \A i \in 1 .. n - 1 : Tail(queue)[i] = queue[i + 1]
  BY SMTT(30)
<1>2. ASSUME NEW d PROVE In(d, queue) <=> In(d, Tail(queue)) \/ d = Head(queue)
  <2>1. ASSUME NEW i \in 1 .. n, queue[i] = d, i # 1 PROVE In(d, Tail(queue))
    <3>1. i - 1 \in 1 .. n - 1 /\ Tail(queue)[i - 1] = queue[i]
      BY SMTT(30), <1>1, <2>1
    <3>. QED
      BY <1>1, <2>1, <3>1 DEF In
  <2>2. ASSUME NEW i \in 1 .. n - 1, Tail(queue)[i] = d PROVE In(d, queue)
    BY SMTT(30), <1>1, <2>2 DEF In
  <2>3. 1 \in 1 .. n
    BY SMTT(30), <1>1
  <2>. QED
    BY <1>1, <2>1, <2>2, <2>3 DEF In
<1>3. ASSUME NEW d, AtMostOnce(d, queue) PROVE AtMostOnce(d, Tail(queue))
  BY SMTT(30), <1>1, <1>3 DEF AtMostOnce
<1>4. ASSUME NEW d, AtMostOnce(d, queue), d = Head(queue) PROVE ~In(d, Tail(queue))
  BY SMTT(30), <1>1, <1>4 DEF AtMostOnce, In
<1>. QED
  BY <1>1, <1>2, <1>3, <1>4
-----------------------------------------------------------------------------
(***************************************************************************)
(* What the types say of a step.                                           *)
(***************************************************************************)

\* What the types say of the pushes under way and of the ring of threads.
LEMMA Typed ==
  ASSUME TypeOK
  PROVE  /\ Len(Ring) \in Nat \ {0}
         /\ Ring[next_thread + 1] \in Threads
         /\ main = "finish" => Ring[view] \in Threads
         /\ sending # <<>> => /\ sending = <<sending[1]>>
                              /\ sending[1].to \in Threads
                              /\ sending[1].command \in ThreadCommands
                              /\ sending[1].counted \in BOOLEAN
         /\ \A t \in Threads : pushing[t] # <<>> =>
              pushing[t][1] \in Commands /\ pushing[t] = <<pushing[t][1]>>
<1>1. Len(Ring) \in Nat \ {0} /\ \A i \in 1 .. Len(Ring) : Ring[i] \in Threads
  BY SMTT(30), EngineAssumption
<1>2. next_thread + 1 \in 1 .. Len(Ring) /\ (main = "finish" => view \in 1 .. Len(Ring))
  BY SMTT(30), <1>1 DEF TypeOK
<1>3. sending # <<>> => /\ sending = <<sending[1]>>
                        /\ sending[1].to \in Threads
                        /\ sending[1].command \in ThreadCommands
                        /\ sending[1].counted \in BOOLEAN
  BY SMTT(30) DEF TypeOK, Push
<1>4. \A t \in Threads : pushing[t] # <<>> =>
        pushing[t][1] \in Commands /\ pushing[t] = <<pushing[t][1]>>
  <2> SUFFICES ASSUME NEW t \in Threads, pushing[t] # <<>>
               PROVE  pushing[t][1] \in Commands /\ pushing[t] = <<pushing[t][1]>>
    OBVIOUS
  <2>1. PICK c \in Commands : pushing[t] = <<c>>
    BY DEF TypeOK
  <2>. QED
    BY SMTT(30), <2>1
<1>. QED
  BY <1>1, <1>2, <1>3, <1>4

\* The command the engine executes.
LEMMA Executed ==
  ASSUME TypeOK, NEW type, Executes(type)
  PROVE  /\ command_queue # <<>> /\ command_queue' = Tail(command_queue)
         /\ Head(command_queue) \in Commands
         /\ type = "add_routine" =>
              \E r \in Routines, target \in Threads \union {Anywhere} :
                Head(command_queue) = AddRoutine(r, target)
         /\ type = "notify_idle" => \E t \in Threads : Head(command_queue) = NotifyIdle(t)
         /\ type = "notify_end_of_thread" => \E t \in Threads : Head(command_queue) = NotifyEnd(t)
<1>1. /\ command_queue # <<>> /\ command_queue' = Tail(command_queue)
      /\ Head(command_queue).type = type /\ command_queue \in Seq(Commands)
  BY DEF Executes, TypeOK
<1>2. Head(command_queue) \in Commands
  BY SMTT(30), <1>1
<1> DEFINE c == Head(command_queue)
<1> HIDE DEF c
<1>3. \/ \E r \in Routines, target \in Threads \union {Anywhere} : c = AddRoutine(r, target)
      \/ \E t \in Threads : c = NotifyIdle(t)
      \/ \E t \in Threads : c = NotifyEnd(t)
  BY <1>2, Kinds DEF c
<1>4. c.type = type
  BY <1>1 DEF c
<1>5. /\ type = "add_routine" =>
           \E r \in Routines, target \in Threads \union {Anywhere} : c = AddRoutine(r, target)
      /\ type = "notify_idle" => \E t \in Threads : c = NotifyIdle(t)
      /\ type = "notify_end_of_thread" => \E t \in Threads : c = NotifyEnd(t)
  BY SMTT(30), <1>3, <1>4, Kinds
<1>. QED
  BY <1>1, <1>2, <1>5 DEF c

\* What execute_commands does with a start: it chooses a thread, counts the
\* routine there and begins a push.
LEMMA Placing ==
  ASSUME TypeOK, ExecuteAdd
  PROVE  \E r \in Routines, target \in Threads \union {Anywhere}, t \in Threads :
           /\ Head(command_queue) = AddRoutine(r, target)
           /\ nb_routines' = [nb_routines EXCEPT ![t] = @ + 1]
           /\ sending' = <<Push(t, Schedule(r), FALSE)>>
<1>1. PICK r \in Routines, target \in Threads \union {Anywhere} :
        Head(command_queue) = AddRoutine(r, target)
  BY Executed DEF ExecuteAdd
<1> DEFINE c == Head(command_queue)
           t == IF c.target = Anywhere THEN Ring[next_thread + 1] ELSE c.target
<1>2. c.routine = r /\ c.target = target
  BY SMTT(30), <1>1, Kinds
<1>3. t \in Threads
  BY <1>2, Typed
<1>4. /\ nb_routines' = [nb_routines EXCEPT ![t] = @ + 1]
      /\ sending' = <<Push(t, Schedule(c.routine), FALSE)>>
  BY DEF ExecuteAdd
<1> HIDE DEF t
<1>. QED
  BY <1>1, <1>2, <1>3, <1>4

\* The command a thread handles.
LEMMA Handled ==
  ASSUME TypeOK, NEW t \in Threads, HandleCommand(t)
  PROVE  \/ \E r \in Routines : /\ Head(engine_queue[t]) = Schedule(r)
                                /\ resident' = [resident EXCEPT ![t] = @ \union {r}]
                                /\ status' = status
         \/ /\ Head(engine_queue[t]) = Finish
            /\ status' = [status EXCEPT ![t] = "finishing"]
            /\ resident' = resident
<1> DEFINE c == Head(engine_queue[t])
<1>1. c \in ThreadCommands
  <2>1. engine_queue[t] \in Seq(ThreadCommands) /\ engine_queue[t] # <<>>
    BY DEF TypeOK, HandleCommand
  <2>. QED
    BY SMTT(30), <2>1
<1>2. \/ /\ c.type = "add_routine"
         /\ resident' = [resident EXCEPT ![t] = @ \union {c.routine}]
         /\ status' = status
      \/ /\ c.type = "finish"
         /\ status' = [status EXCEPT ![t] = "finishing"]
         /\ resident' = resident
  BY DEF HandleCommand
<1> HIDE DEF c
<1>3. \/ \E r \in Routines : /\ c = Schedule(r)
                             /\ resident' = [resident EXCEPT ![t] = @ \union {r}]
                             /\ status' = status
      \/ /\ c = Finish
         /\ status' = [status EXCEPT ![t] = "finishing"]
         /\ resident' = resident
  <2>1. CASE c = Finish
    BY <1>2, <2>1, ThreadKinds
  <2>2. CASE \E r \in Routines : c = Schedule(r)
    BY <1>2, <2>2, ThreadKinds
  <2>. QED
    BY <1>1, <2>1, <2>2, ThreadKinds
<1>. QED
  BY <1>3 DEF c
-----------------------------------------------------------------------------
(***************************************************************************)
(* The types, and the sleep of the threads.                                *)
(***************************************************************************)

\* The types of the variables are kept by every step.
LEMMA TypeStep == TypeOK /\ [Next]_vars => TypeOK'
<1> SUFFICES ASSUME TypeOK, [Next]_vars PROVE TypeOK'
  OBVIOUS
<1>1. CASE PushCounts
  <2>1. sending' = <<Push(sending[1].to, sending[1].command, TRUE)>> /\ sending # <<>>
    BY <1>1 DEF PushCounts
  <2>2. \E t \in Threads, c \in ThreadCommands, b \in BOOLEAN : sending' = <<Push(t, c, b)>>
    BY <2>1, Typed
  <2>. QED
    BY <1>1, <2>2 DEF PushCounts, TypeOK, engineVars, threadVars
<1>2. CASE PushWrites
  <2> DEFINE t == sending[1].to
             c == sending[1].command
  <2>1. t \in Threads /\ c \in ThreadCommands
    BY <1>2, Typed DEF PushWrites
  <2>2. /\ engine_queue' = [engine_queue EXCEPT ![t] = Append(@, c)]
        /\ kicked' = [kicked EXCEPT ![t] = TRUE]
    BY <1>2 DEF PushWrites
  <2> HIDE DEF t, c
  <2>3. engine_queue' \in [Threads -> Seq(ThreadCommands)] /\ kicked' \in [Threads -> BOOLEAN]
    BY <2>1, <2>2, Appended DEF TypeOK
  <2>. QED
    BY <1>2, <2>3 DEF PushWrites, TypeOK, engineVars, threadVars
<1>3. CASE ExecuteAdd
  <2>1. command_queue' \in Seq(Commands)
    <3>1. command_queue # <<>> /\ command_queue' = Tail(command_queue)
      BY <1>3, Executed DEF ExecuteAdd
    <3>. QED
      BY <3>1, Taken DEF TypeOK
  <2>2. PICK r \in Routines, t \in Threads :
          /\ nb_routines' = [nb_routines EXCEPT ![t] = @ + 1]
          /\ sending' = <<Push(t, Schedule(r), FALSE)>>
    BY <1>3, Placing
  <2>3. nb_routines' \in [Threads -> Nat]
    BY SMTT(30), <2>2 DEF TypeOK
  <2>4. \E u \in Threads, c \in ThreadCommands, b \in BOOLEAN : sending' = <<Push(u, c, b)>>
    BY <2>2, ThreadKinds
  <2>5. next_thread' \in 0 .. Len(Ring) - 1
    <3>1. next_thread' = (next_thread + 1) % Len(Ring) \/ next_thread' = next_thread
      BY <1>3 DEF ExecuteAdd
    <3>. QED
      BY SMTT(30), <3>1, Typed DEF TypeOK
  <2>. QED
    BY <1>3, <2>1, <2>3, <2>4, <2>5 DEF ExecuteAdd, Executes, TypeOK, threadVars
<1>4. CASE ExecuteIdle
  <2>1. command_queue # <<>> /\ command_queue' = Tail(command_queue)
    BY <1>4, Executed DEF ExecuteIdle
  <2>2. command_queue' \in Seq(Commands)
    BY <2>1, Taken DEF TypeOK
  <2>3. nb_routines' \in [Threads -> Nat]
    BY <1>4 DEF ExecuteIdle, TypeOK
  <2>. QED
    BY <1>4, <2>2, <2>3 DEF ExecuteIdle, Executes, TypeOK, threadVars
<1>5. CASE ExecuteEnd
  <2>1. command_queue # <<>> /\ command_queue' = Tail(command_queue)
    BY <1>5, Executed DEF ExecuteEnd
  <2>2. command_queue' \in Seq(Commands)
    BY <2>1, Taken DEF TypeOK
  <2>. QED
    BY SMTT(30), <1>5, <2>2 DEF ExecuteEnd, Executes, TypeOK, threadVars
<1>6. CASE Check \/ Wake \/ Return
  <2>1. main' \in {"execute", "finish", "wait", "done"}
    BY <1>6 DEF Check, Wake, Return
  <2>2. view' \in 1 .. Len(Ring) + 1 /\ (main' = "finish" => view' <= Len(Ring))
    BY SMTT(30), <1>6, Typed DEF Check, Wake, Return, TypeOK
  <2>. QED
    BY <1>6, <2>1, <2>2 DEF Check, Wake, Return, TypeOK, threadVars
<1>7. CASE SendFinish
  <2> DEFINE t == Ring[view]
  <2>1. t \in Threads
    BY <1>7, Typed DEF SendFinish
  <2>2. /\ sending' = (IF sent_end_request[t] THEN <<>> ELSE <<Push(t, Finish, FALSE)>>)
        /\ sent_end_request' = [sent_end_request EXCEPT ![t] = TRUE]
    BY <1>7 DEF SendFinish
  <2> HIDE DEF t
  <2>3. \/ sending' = <<>>
        \/ \E u \in Threads, c \in ThreadCommands, b \in BOOLEAN : sending' = <<Push(u, c, b)>>
    BY <2>1, <2>2, ThreadKinds
  <2>4. sent_end_request' \in [Threads -> BOOLEAN]
    BY <2>1, <2>2 DEF TypeOK
  <2>5. /\ main' \in {"finish", "wait"}
        /\ view' \in 1 .. Len(Ring) + 1 /\ (main' = "finish" => view' <= Len(Ring))
    BY SMTT(30), <1>7, Typed DEF SendFinish, TypeOK
  <2>. QED
    BY <1>7, <2>3, <2>4, <2>5 DEF SendFinish, TypeOK, threadVars
<1>8. ASSUME NEW t \in Threads, WriteCommand(t) PROVE TypeOK'
  <2>1. command_queue' = Append(command_queue, pushing[t][1]) /\ pushing[t][1] \in Commands
    BY <1>8, Typed DEF WriteCommand
  <2>2. command_queue' \in Seq(Commands)
    BY <2>1, Appended DEF TypeOK
  <2>3. pushing' \in [Threads -> {<<>>} \union {<<c>> : c \in Commands}]
    BY <1>8 DEF WriteCommand, TypeOK
  <2>. QED
    BY <1>8, <2>2, <2>3 DEF WriteCommand, TypeOK, engineVars
<1>9. ASSUME NEW t \in Threads, WaitReturns(t) \/ HandleReturns(t) PROVE TypeOK'
  BY <1>9 DEF WaitReturns, HandleReturns, GoTo, TypeOK, engineVars
<1>10. ASSUME NEW t \in Threads, HandleCommand(t) PROVE TypeOK'
  <2>1. /\ engine_queue[t] \in Seq(ThreadCommands) /\ engine_queue[t] # <<>>
        /\ engine_queue' = [engine_queue EXCEPT ![t] = Tail(@)]
    BY <1>10 DEF HandleCommand, TypeOK
  <2>2. engine_queue' \in [Threads -> Seq(ThreadCommands)]
    BY <2>1, Taken DEF TypeOK
  <2>3. /\ resident' \in [Threads -> SUBSET Routines]
        /\ status' \in [Threads -> {"running", "finishing", "finished"}]
    <3>1. CASE status' = status /\ \E r \in Routines : resident' = [resident EXCEPT ![t] = @ \union {r}]
      BY SMTT(30), <3>1 DEF TypeOK
    <3>2. CASE resident' = resident /\ status' = [status EXCEPT ![t] = "finishing"]
      BY <3>2 DEF TypeOK
    <3>. QED
      BY <1>10, <3>1, <3>2, Handled
  <2>. QED
    BY <1>10, <2>2, <2>3 DEF HandleCommand, TypeOK, engineVars
<1>11. ASSUME NEW t \in Threads, NEW r \in Routines, FinishRoutine(t, r) PROVE TypeOK'
  BY <1>11 DEF FinishRoutine, TypeOK, engineVars
<1>12. ASSUME NEW t \in Threads, NEW r \in Routines, NEW new \in Routines,
              NEW target \in Threads \union {Anywhere}, StartRoutine(t, r, new, target)
       PROVE  TypeOK'
  <2>1. pushing' \in [Threads -> {<<>>} \union {<<c>> : c \in Commands}]
    BY SMTT(30), <1>12, Kinds DEF StartRoutine, Pushes, TypeOK
  <2>2. nested' \in BOOLEAN
    BY <1>12 DEF StartRoutine, TypeOK
  <2>3. life' \in [Routines -> {"unborn", "started", "finished"}]
    BY <1>12 DEF StartRoutine, TypeOK
  <2>. QED
    BY <1>12, <2>1, <2>2, <2>3 DEF StartRoutine, TypeOK, engineVars
<1>13. ASSUME NEW t \in Threads, PassEnds(t) PROVE TypeOK'
  <2>1. pushing' \in [Threads -> {<<>>} \union {<<c>> : c \in Commands}]
    BY SMTT(30), <1>13, Kinds DEF PassEnds, Pushes, TypeOK
  <2>2. /\ status' \in [Threads -> {"running", "finishing", "finished"}]
        /\ phase' \in [Threads -> {"wait", "poll", "handle", "run", "left"}]
    BY <1>13 DEF PassEnds, GoTo, TypeOK
  <2>. QED
    BY <1>13, <2>1, <2>2 DEF PassEnds, TypeOK, engineVars
<1>14. CASE UNCHANGED vars
  BY <1>14 DEF TypeOK, vars, engineVars, threadVars
<1>. QED
  BY <1>1, <1>2, <1>3, <1>4, <1>5, <1>6, <1>7, <1>8, <1>9, <1>10, <1>11, <1>12, <1>13, <1>14
  DEF Next, EngineStep, ThreadStep, Start, StartExplicit

\* A command is written with an interrupt, and a thread goes to sleep only
\* after it has seen that no command is counted.
LEMMA AsleepStep == TypeOK /\ Asleep /\ [Next]_vars => Asleep'
<1> SUFFICES ASSUME TypeOK, Asleep, [Next]_vars PROVE Asleep'
  OBVIOUS
<1>1. ASSUME UNCHANGED <<phase, kicked, engine_queue>> PROVE Asleep'
  BY <1>1 DEF Asleep
<1>2. CASE PushWrites
  <2> DEFINE u == sending[1].to
  <2>1. /\ \E c : engine_queue' = [engine_queue EXCEPT ![u] = Append(@, c)]
        /\ kicked' = [kicked EXCEPT ![u] = TRUE] /\ phase' = phase /\ u \in Threads
    BY <1>2, Typed DEF PushWrites, threadVars
  <2> HIDE DEF u
  <2>. QED
    BY <2>1 DEF Asleep, TypeOK
<1>3. ASSUME NEW t \in Threads, WaitReturns(t) \/ HandleReturns(t) \/ HandleCommand(t)
      PROVE  Asleep'
  <2>1. CASE WaitReturns(t)
    BY <2>1 DEF WaitReturns, At, GoTo, Asleep, TypeOK
  <2>2. CASE HandleReturns(t)
    BY <2>2 DEF HandleReturns, At, GoTo, Asleep, TypeOK
  <2>3. CASE HandleCommand(t)
    BY <2>3 DEF HandleCommand, At, Asleep, TypeOK
  <2>. QED
    BY <1>3, <2>1, <2>2, <2>3
<1>4. ASSUME NEW t \in Threads, PassEnds(t) PROVE Asleep'
  <2>1. /\ phase' = [phase EXCEPT ![t] = phase'[t]] /\ UNCHANGED <<kicked, engine_queue>>
        /\ phase'[t] = "wait" => NbPending(t) = 0
    BY <1>4 DEF PassEnds, GoTo, TypeOK
  <2>2. NbPending(t) = 0 => engine_queue[t] = <<>>
    <3>1. engine_queue[t] \in Seq(ThreadCommands)
      BY DEF TypeOK
    <3>2. \E k \in {0, 1} : NbPending(t) = Len(engine_queue[t]) + k
      BY DEF NbPending
    <3>. QED
      BY SMTT(30), <3>1, <3>2
  <2>. QED
    BY <2>1, <2>2 DEF Asleep, TypeOK
<1>5. CASE PushCounts \/ ExecuteAdd \/ ExecuteIdle \/ ExecuteEnd \/ Check \/ SendFinish \/ Wake \/ Return
  BY <1>1, <1>5 DEF PushCounts, ExecuteAdd, ExecuteIdle, ExecuteEnd, Executes, Check,
                    SendFinish,
    Wake, Return, threadVars
<1>6. ASSUME NEW t \in Threads,
             \/ WriteCommand(t)
             \/ \E r \in Routines : FinishRoutine(t, r)
             \/ \E r, new \in Routines : Start(t, r, new) \/ StartExplicit(t, r, new)
      PROVE  Asleep'
  BY <1>1, <1>6 DEF WriteCommand, FinishRoutine, Start, StartExplicit, StartRoutine
<1>7. CASE UNCHANGED vars
  BY <1>1, <1>7 DEF vars, threadVars
<1>. QED
  BY <1>2, <1>3, <1>4, <1>5, <1>6, <1>7 DEF Next, EngineStep, ThreadStep
-----------------------------------------------------------------------------
(***************************************************************************)
(* The routine given to run().                                             *)
(***************************************************************************)

\* Once it has reached a thread, run()'s routine stays there, and the engine
\* believes that thread busy until it has finished.
LEMMA HostKept ==
  ASSUME TypeOK, PushersSeen, MainPlaced, Unsent, [Next]_vars,
         \A t \in Threads : ~FinishRoutine(t, MainRoutine)
  PROVE  Keeps
<1> DEFINE Targets == Threads \union {Anywhere}
           Main == Schedule(MainRoutine)
<1>a. ASSUME UNCHANGED <<command_queue, pushing, sending, nb_routines, engine_queue, resident, life>>
      PROVE  Keeps
  BY <1>a DEF Keeps, MainPlaced, Unpushed, Unsent, Absent, Hosts, Queued, QueuedTo, Sends
<1>b. MainRoutine \in Routines /\ ~Sends(Main) /\ Unpushed
      /\ \A target \in Targets : ~Queued(AddRoutine(MainRoutine, target))
  BY EngineAssumption DEF Unsent, MainPlaced
<1>1. CASE PushCounts
  <2>1. sending' = <<Push(sending[1].to, sending[1].command, TRUE)>> /\ sending # <<>>
    BY <1>1 DEF PushCounts
  <2>2. ~Sends(Main)'
    BY <1>b, <2>1 DEF Sends, Push
  <2>3. UNCHANGED <<command_queue, pushing, nb_routines, engine_queue, resident, life>>
    BY <1>1 DEF PushCounts, engineVars, threadVars
  <2>. QED
    BY <1>b, <2>2, <2>3 DEF Keeps, Unpushed, Unsent, Absent, Hosts, Queued, QueuedTo
<1>2. CASE PushWrites
  <2>1. PICK u \in Threads, c \in ThreadCommands : u = sending[1].to /\ c = sending[1].command
    BY <1>2, Typed DEF PushWrites
  <2>2. /\ engine_queue' = [engine_queue EXCEPT ![u] = Append(@, c)] /\ sending' = <<>>
        /\ UNCHANGED <<command_queue, pushing, nb_routines, resident, life>>
        /\ c # Main
    BY <1>2, <1>b, <2>1 DEF PushWrites, engineVars, threadVars, Sends
  <2>3. \A t \in Threads : /\ QueuedTo(t, Main)' <=> QueuedTo(t, Main)
                           /\ AtMostOnce(Main, engine_queue[t]) => AtMostOnce(Main, engine_queue'[t])
    <3>1. engine_queue'[u] = Append(engine_queue[u], c) /\ engine_queue[u] \in Seq(ThreadCommands)
      BY <2>1, <2>2 DEF TypeOK
    <3>2. \A t \in Threads \ {u} : engine_queue'[t] = engine_queue[t]
      BY <2>2 DEF TypeOK
    <3>3. /\ In(Main, engine_queue'[u]) <=> In(Main, engine_queue[u])
          /\ AtMostOnce(Main, engine_queue[u]) => AtMostOnce(Main, engine_queue'[u])
      <4> HIDE DEF Main
      <4>. QED
        BY SMTT(30), <2>2, <3>1, Appended
    <3>. QED
      BY <3>2, <3>3 DEF QueuedTo
  <2>4. \A d : Queued(d)' <=> Queued(d)
    BY <2>2 DEF Queued
  <2>5. ~Sends(Main)'
    BY <2>2 DEF Sends
  <2>6. Unpushed' /\ Unsent'
    BY <1>b, <2>2, <2>4, <2>5 DEF Unpushed, Unsent
  <2>7. \A t \in Threads : (Absent(t) => Absent(t)') /\ (Hosts(t) => Hosts(t)')
    BY <2>2, <2>3, <2>4 DEF Absent, Hosts
  <2>. QED
    BY <2>2, <2>6, <2>7 DEF Keeps
<1>3. CASE ExecuteAdd \/ ExecuteIdle \/ ExecuteEnd
  <2>1. /\ sending = <<>> /\ UNCHANGED <<pushing, engine_queue, resident, life>>
        /\ command_queue # <<>> /\ command_queue' = Tail(command_queue)
        /\ command_queue \in Seq(Commands)
    BY <1>3, Executed DEF ExecuteAdd, ExecuteIdle, ExecuteEnd, Executes, threadVars, TypeOK
  <2>2. (\A d : Queued(d)' => Queued(d)) /\ Queued(Head(command_queue))
    BY <2>1, Taken DEF Queued
  <2>3. ~Sends(Main)'
    <3>1. CASE ExecuteAdd
      <4>1. PICK r \in Routines, target \in Targets, t \in Threads :
              Head(command_queue) = AddRoutine(r, target) /\ sending' = <<Push(t, Schedule(r), FALSE)>>
        BY <3>1, Placing
      <4>2. r # MainRoutine
        BY <1>b, <2>2, <4>1
      <4>3. Schedule(r) # Main
        BY <1>b, <4>2, ThreadKinds
      <4>. QED
        BY <4>1, <4>3 DEF Sends, Push
    <3>2. CASE ExecuteIdle \/ ExecuteEnd
      BY <1>b, <3>2 DEF ExecuteIdle, ExecuteEnd, Sends
    <3>. QED
      BY <1>3, <3>1, <3>2
  <2>4. Unpushed' /\ Unsent'
    BY <1>b, <2>1, <2>2, <2>3 DEF Unpushed, Unsent
  <2>5. \A t \in Threads : Hosts(t) /\ nb_routines[t] > 0 => nb_routines'[t] > 0
    <3>1. CASE ExecuteAdd
      <4>1. PICK u \in Threads : nb_routines' = [nb_routines EXCEPT ![u] = @ + 1]
        BY <3>1, Placing
      <4>. QED
        BY SMTT(30), <4>1 DEF TypeOK
    <3>2. CASE ExecuteIdle
      <4>1. PICK u \in Threads : Head(command_queue) = NotifyIdle(u)
        BY <3>2, Executed DEF ExecuteIdle
      <4>a. Head(command_queue).from = u
        BY <4>1, Kinds
      <4>2. nb_routines' = [nb_routines EXCEPT ![u] = 0]
        BY <3>2, <4>a DEF ExecuteIdle
      <4>3. ~Hosts(u)
        BY <2>2, <4>1 DEF Hosts
      <4>. QED
        BY <4>2, <4>3 DEF TypeOK
    <3>3. CASE ExecuteEnd
      BY <3>3 DEF ExecuteEnd
    <3>. QED
      BY <1>3, <3>1, <3>2, <3>3
  <2>6. \A t \in Threads : (Absent(t) => Absent(t)') /\ (Hosts(t) => Hosts(t)')
    BY <2>1, <2>2, <2>5 DEF Absent, Hosts, QueuedTo
  <2>. QED
    BY <2>1, <2>4, <2>6 DEF Keeps
<1>4. CASE Check \/ Wake \/ Return
  BY <1>4, <1>a DEF Check, Wake, Return, threadVars
<1>5. CASE SendFinish
  <2>1. /\ sending' = <<>> \/ \E t : sending' = <<Push(t, Finish, FALSE)>>
        /\ UNCHANGED <<command_queue, pushing, nb_routines, engine_queue, resident, life>>
    BY <1>5 DEF SendFinish, threadVars
  <2>2. ~Sends(Main)'
    BY SMTT(30), <1>b, <2>1, ThreadKinds DEF Sends, Push
  <2>. QED
    BY <1>b, <2>1, <2>2 DEF Keeps, Unpushed, Unsent, Absent, Hosts, Queued, QueuedTo
<1>6. ASSUME NEW t \in Threads, WriteCommand(t) PROVE Keeps
  <2>1. PICK c \in Commands : pushing[t] = <<c>> /\ c = pushing[t][1]
    BY <1>6, Typed DEF WriteCommand
  <2>2. /\ UNCHANGED <<sending, nb_routines, engine_queue, resident, life>>
        /\ command_queue' = Append(command_queue, c) /\ command_queue \in Seq(Commands)
        /\ pushing' = [pushing EXCEPT ![t] = <<>>]
    BY <1>6, <2>1 DEF WriteCommand, TypeOK, engineVars
  <2>3. \A d : Queued(d)' <=> Queued(d) \/ d = c
    BY <2>2, Appended DEF Queued
  <2>4. \A u \in Threads : pushing'[u] = pushing[u] \/ pushing'[u] = <<>>
    BY <2>2 DEF TypeOK
  <2>5. \A target \in Targets : c # AddRoutine(MainRoutine, target)
    BY <1>b, <2>1 DEF Unpushed
  <2>6. Unpushed' /\ Unsent'
    <3>1. \A d : <<d>> # <<>>
      OBVIOUS
    <3>2. Unpushed'
      BY <1>b, <2>4, <3>1 DEF Unpushed
    <3>. QED
      BY <1>b, <2>2, <2>3, <2>5, <3>2 DEF Unsent, Sends
  <2>7. ASSUME NEW u \in Threads, Hosts(u) PROVE Hosts(u)'
    <3>1. c # NotifyIdle(u)
      BY <2>1, <2>7 DEF Hosts
    <3>2. ~Queued(NotifyIdle(u))'
      BY <2>3, <2>7, <3>1 DEF Hosts
    <3>3. \A v \in Threads : pushing'[v] # <<NotifyIdle(u)>>
      <4>1. <<NotifyIdle(u)>> # <<>>
        OBVIOUS
      <4>. QED
        BY <2>4, <2>7, <4>1 DEF Hosts
    <3>. QED
      BY <2>2, <2>7, <3>2, <3>3 DEF Hosts, QueuedTo
  <2>8. \A u \in Threads : Absent(u) => Absent(u)'
    BY <2>2 DEF Absent, QueuedTo
  <2>. QED
    BY <2>2, <2>6, <2>7, <2>8 DEF Keeps
<1>7. ASSUME NEW t \in Threads, WaitReturns(t) \/ HandleReturns(t) PROVE Keeps
  BY <1>a, <1>7 DEF WaitReturns, HandleReturns, engineVars
<1>8. ASSUME NEW t \in Threads, HandleCommand(t) PROVE Keeps
  <2> DEFINE q == engine_queue[t]
  <2>1. /\ q \in Seq(ThreadCommands) /\ q # <<>>
        /\ engine_queue' = [engine_queue EXCEPT ![t] = Tail(q)]
        /\ UNCHANGED <<command_queue, pushing, sending, nb_routines, life>>
    BY <1>8 DEF HandleCommand, TypeOK, engineVars
  <2>2. engine_queue'[t] = Tail(q) /\ \A u \in Threads \ {t} : engine_queue'[u] = engine_queue[u]
    BY <2>1 DEF TypeOK
  <2>3. /\ \A u \in Threads \ {t} : resident'[u] = resident[u]
        /\ MainRoutine \in resident'[t] <=> MainRoutine \in resident[t] \/ Head(q) = Main
    <3>1. CASE Head(q) = Finish /\ resident' = resident
      BY <1>b, <3>1, ThreadKinds
    <3>2. ASSUME NEW r \in Routines, Head(q) = Schedule(r),
                 resident' = [resident EXCEPT ![t] = @ \union {r}]
          PROVE  /\ \A u \in Threads \ {t} : resident'[u] = resident[u]
                 /\ MainRoutine \in resident'[t] <=> MainRoutine \in resident[t] \/ Head(q) = Main
      <4>1. /\ resident'[t] = resident[t] \union {r}
            /\ \A u \in Threads \ {t} : resident'[u] = resident[u]
        BY <3>2 DEF TypeOK
      <4>2. Schedule(r) = Main <=> r = MainRoutine
        BY <1>b, ThreadKinds
      <4>. QED
        BY <3>2, <4>1, <4>2
    <3>. QED
      BY <1>8, <3>1, <3>2, Handled
  <2>4. /\ In(Main, q) <=> In(Main, Tail(q)) \/ Main = Head(q)
        /\ AtMostOnce(Main, q) => AtMostOnce(Main, Tail(q))
        /\ AtMostOnce(Main, q) /\ Main = Head(q) => ~In(Main, Tail(q))
    <3> HIDE DEF q, Main
    <3>. QED
      BY <2>1, Taken
  <2>5. Unpushed' /\ Unsent' /\ \A d : Queued(d)' <=> Queued(d)
    BY <1>b, <2>1 DEF Unpushed, Unsent, Sends, Queued
  <2>6. /\ QueuedTo(t, Main) <=> In(Main, q)
        /\ QueuedTo(t, Main)' <=> In(Main, Tail(q))
        /\ \A u \in Threads \ {t} : QueuedTo(u, Main)' <=> QueuedTo(u, Main)
    BY <2>2 DEF QueuedTo
  <2>7. \A u \in Threads : Absent(u) => Absent(u)'
    BY <2>3, <2>4, <2>6 DEF Absent
  <2>8. ASSUME NEW u \in Threads \ {t}, Hosts(u) PROVE Hosts(u)'
    BY <2>1, <2>2, <2>3, <2>5, <2>6, <2>8 DEF Hosts
  <2>9. ASSUME Hosts(t) PROVE Hosts(t)'
    <3>1. /\ nb_routines'[t] > 0 /\ ~Queued(NotifyIdle(t))'
          /\ \A u \in Threads : pushing'[u] # <<NotifyIdle(t)>>
      BY <2>1, <2>5, <2>9 DEF Hosts
    <3>2. /\ AtMostOnce(Main, q) /\ ~(MainRoutine \in resident[t] /\ In(Main, q))
          /\ MainRoutine \in resident[t] \/ In(Main, q)
      BY <2>6, <2>9 DEF Hosts
    <3>3. AtMostOnce(Main, engine_queue'[t])
      BY <2>2, <2>4, <3>2
    <3>4. /\ MainRoutine \in resident'[t] \/ QueuedTo(t, Main)'
          /\ ~(MainRoutine \in resident'[t] /\ QueuedTo(t, Main)')
      BY <2>3, <2>4, <2>6, <3>2
    <3>. QED
      BY <3>1, <3>3, <3>4 DEF Hosts
  <2>. QED
    BY <2>1, <2>5, <2>7, <2>8, <2>9 DEF Keeps
<1>9. ASSUME NEW t \in Threads, NEW r \in Routines, FinishRoutine(t, r) PROVE Keeps
  <2>1. /\ UNCHANGED <<command_queue, pushing, sending, nb_routines, engine_queue>>
        /\ resident' = [resident EXCEPT ![t] = @ \ {r}] /\ life' = [life EXCEPT ![r] = "finished"]
        /\ r # MainRoutine
    BY <1>9 DEF FinishRoutine, engineVars
  <2>2. /\ life'[MainRoutine] = life[MainRoutine]
        /\ \A u \in Threads : MainRoutine \in resident'[u] <=> MainRoutine \in resident[u]
    BY <1>b, <2>1 DEF TypeOK
  <2>3. Unpushed' /\ Unsent'
    BY <1>b, <2>1 DEF Unpushed, Unsent, Sends, Queued
  <2>4. \A u \in Threads : (Absent(u) => Absent(u)') /\ (Hosts(u) => Hosts(u)')
    BY <2>1, <2>2 DEF Absent, Hosts, QueuedTo, Queued
  <2>. QED
    BY <2>2, <2>3, <2>4 DEF Keeps
<1>10. ASSUME NEW t \in Threads, NEW c,
              pushing' = pushing \/ pushing' = [pushing EXCEPT ![t] = <<c>>],
              \A target \in Targets : c # AddRoutine(MainRoutine, target),
              \A u \in Threads : c = NotifyIdle(u) => ~Hosts(u),
              UNCHANGED <<command_queue, sending, nb_routines, engine_queue, resident>>,
              life'[MainRoutine] = life[MainRoutine]
       PROVE  Keeps
  <2>1. \A u \in Threads : pushing'[u] = pushing[u] \/ pushing'[u] = <<c>>
    BY <1>10 DEF TypeOK
  <2>2. Unpushed' /\ Unsent'
    <3>a. \A target \in Targets : <<c>> # <<AddRoutine(MainRoutine, target)>>
      BY <1>10
    <3>1. Unpushed'
      BY <1>b, <2>1, <3>a DEF Unpushed
    <3>. QED
      BY <1>b, <1>10, <3>1 DEF Unsent, Sends, Queued
  <2>3. \A u \in Threads : Absent(u) => Absent(u)'
    BY <1>10 DEF Absent, QueuedTo
  <2>4. ASSUME NEW u \in Threads, Hosts(u) PROVE Hosts(u)'
    <3>1. \A v \in Threads : pushing'[v] # <<NotifyIdle(u)>>
      BY SMTT(30), <1>10, <2>1, <2>4 DEF Hosts
    <3>. QED
      BY <1>10, <2>4, <3>1 DEF Hosts, QueuedTo, Queued
  <2>. QED
    BY <1>10, <2>2, <2>3, <2>4 DEF Keeps
<1>11. ASSUME NEW t \in Threads, NEW r \in Routines, NEW new \in Routines,
              NEW target \in Targets, StartRoutine(t, r, new, target)
       PROVE  Keeps
  <2>1. /\ UNCHANGED <<command_queue, sending, nb_routines, engine_queue, resident>>
        /\ pushing' = [pushing EXCEPT ![t] = <<AddRoutine(new, target)>>]
        /\ life' = [life EXCEPT ![new] = "started"] /\ new # MainRoutine
    BY <1>11 DEF StartRoutine, Pushes, engineVars, MainPlaced
  <2>2. /\ \A a \in Targets : AddRoutine(new, target) # AddRoutine(MainRoutine, a)
        /\ \A u \in Threads : AddRoutine(new, target) # NotifyIdle(u)
    BY SMTT(30), <1>b, <2>1, Kinds
  <2>3. life'[MainRoutine] = life[MainRoutine]
    BY <1>b, <2>1 DEF TypeOK
  <2>. QED
    BY <1>10, <2>1, <2>2, <2>3
<1>12. ASSUME NEW t \in Threads, PassEnds(t) PROVE Keeps
  <2>1. UNCHANGED <<command_queue, sending, nb_routines, engine_queue, resident, life>>
    BY <1>12 DEF PassEnds, engineVars
  <2>2. CASE pushing' = pushing
    BY <1>a, <2>1, <2>2
  <2>3. CASE pushing' = [pushing EXCEPT ![t] = <<NotifyEnd(t)>>]
    <3>1. /\ \A a \in Targets : NotifyEnd(t) # AddRoutine(MainRoutine, a)
          /\ \A u \in Threads : NotifyEnd(t) # NotifyIdle(u)
      BY SMTT(30), <1>b, Kinds
    <3>. QED
      BY <1>10, <2>1, <2>3, <3>1
  <2>4. CASE /\ pushing' = [pushing EXCEPT ![t] = <<NotifyIdle(t)>>]
             /\ resident[t] = {} /\ NbPending(t) = 0
    <3>1. /\ \A a \in Targets : NotifyIdle(t) # AddRoutine(MainRoutine, a)
          /\ \A u \in Threads : NotifyIdle(t) = NotifyIdle(u) => u = t
      BY SMTT(30), <1>b, Kinds
    <3>2. ~QueuedTo(t, Main)
      <4>1. \E k \in {0, 1} : NbPending(t) = Len(engine_queue[t]) + k
        BY DEF NbPending
      <4>2. engine_queue[t] \in Seq(ThreadCommands)
        BY DEF TypeOK
      <4>3. Len(engine_queue[t]) = 0
        BY SMTT(30), <2>4, <4>1, <4>2
      <4>. QED
        BY SMTT(30), <4>3 DEF QueuedTo, In
    <3>3. ~Hosts(t)
      BY <2>4, <3>2 DEF Hosts
    <3>. QED
      BY <1>10, <2>1, <2>4, <3>1, <3>3
  <2>. QED
    BY <1>12, <2>2, <2>3, <2>4 DEF PassEnds, Pushes
<1>13. CASE UNCHANGED vars
  BY <1>a, <1>13 DEF vars, engineVars, threadVars
<1>. QED
  BY <1>1, <1>2, <1>3, <1>4, <1>5, <1>6, <1>7, <1>8, <1>9, <1>11, <1>12, <1>13
  DEF Next, EngineStep, ThreadStep, Start, StartExplicit

\* Until it has finished, run()'s routine keeps one thread counted as busy.
LEMMA MainStep == TypeOK /\ PushersSeen /\ MainPlaced /\ [Next]_vars => MainPlaced'
<1> SUFFICES ASSUME TypeOK, PushersSeen, MainPlaced, [Next]_vars PROVE MainPlaced'
  OBVIOUS
<1> DEFINE Main == Schedule(MainRoutine)
<1>a. MainRoutine \in Routines /\ life[MainRoutine] \in {"started", "finished"} /\ Unpushed
  BY EngineAssumption DEF MainPlaced, TypeOK
<1>b. ASSUME Fresh, NEW t \in Threads
      PROVE  /\ ~ThreadStep(t)
             /\ \A r \in Routines : ~FinishRoutine(t, r)
             /\ \A r, new \in Routines : ~Start(t, r, new) /\ ~StartExplicit(t, r, new)
  <2>1. pushing[t] = <<>> /\ phase[t] = "wait" /\ ~kicked[t] /\ resident[t] = {}
    BY <1>b DEF Fresh
  <2>. QED
    BY <2>1 DEF ThreadStep, WriteCommand, WaitReturns, HandleCommand, HandleReturns, PassEnds,
      FinishRoutine, Start, StartExplicit, StartRoutine, At
<1>1. CASE Waiting /\ life[MainRoutine] = "started"
  <2>1. /\ Head(command_queue) = AddRoutine(MainRoutine, Anywhere) /\ Tail(command_queue) = <<>>
        /\ Len(command_queue) = 1 /\ Head(command_queue).type = "add_routine"
        /\ Head(command_queue).routine = MainRoutine
        /\ Fresh /\ main = "execute" /\ sending = <<>>
    BY SMTT(30), <1>1, <1>a, Kinds DEF Waiting
  <2>2. CommandPushers # 0
    BY SMTT(30), <2>1 DEF PushersSeen
  <2>3. CASE ExecuteAdd
    <3>1. PICK r \in Routines, target \in Threads \union {Anywhere}, t \in Threads :
            /\ Head(command_queue) = AddRoutine(r, target)
            /\ nb_routines' = [nb_routines EXCEPT ![t] = @ + 1]
            /\ sending' = <<Push(t, Schedule(r), FALSE)>>
      BY <2>3, Placing
    <3>2. r = MainRoutine
      <4>1. AddRoutine(r, target).routine = r
        BY SMTT(30), Kinds
      <4>. QED
        BY <2>1, <3>1, <4>1
    <3>3. sending' # <<>> /\ sending'[1].command = Main /\ sending'[1].to = t
      BY <3>1, <3>2 DEF Push
    <3>a. nb_routines'[t] > 0
      BY SMTT(30), <3>1 DEF TypeOK
    <3>4. nb_routines'[sending'[1].to] > 0
      BY <3>3, <3>a
    <3>5. Fresh' /\ main' = "execute" /\ command_queue' = <<>>
      BY <2>1, <2>3 DEF ExecuteAdd, Executes, threadVars, Fresh
    <3>6. UNCHANGED <<life, pushing>>
      BY <2>3 DEF ExecuteAdd, Executes, threadVars
    <3>7. BeingSent'
      BY <3>3, <3>4, <3>5 DEF BeingSent, Sends
    <3>. QED
      BY <1>1, <1>a, <3>6, <3>7 DEF MainPlaced, Unpushed
  <2>4. CASE UNCHANGED vars
    <3>1. UNCHANGED <<main, sending, command_queue, life, pushing, phase, kicked, engine_queue, resident>>
      BY <2>4 DEF vars, engineVars, threadVars
    <3>2. Waiting'
      BY <1>1, <3>1 DEF Waiting, Fresh
    <3>. QED
      BY <1>1, <1>a, <3>1, <3>2 DEF MainPlaced, Unpushed
  <2>5. ~PushCounts /\ ~PushWrites /\ ~ExecuteIdle /\ ~ExecuteEnd
    BY <2>1 DEF PushCounts, PushWrites, ExecuteIdle, ExecuteEnd, Executes
  <2>6. ~Check /\ ~SendFinish /\ ~Wake /\ ~Return
    BY <2>1, <2>2 DEF Check, SendFinish, Wake, Return
  <2>. QED
    BY <1>b, <2>1, <2>3, <2>4, <2>5, <2>6 DEF Next, EngineStep
<1>2. CASE BeingSent /\ life[MainRoutine] = "started"
  <2>1. /\ sending # <<>> /\ sending[1].command = Main /\ nb_routines[sending[1].to] > 0
        /\ Fresh /\ main = "execute" /\ command_queue = <<>>
    BY <1>2 DEF BeingSent, Sends
  <2>2. CASE PushCounts
    <3>1. sending' = <<Push(sending[1].to, sending[1].command, TRUE)>>
      BY <2>2 DEF PushCounts
    <3>2. sending' # <<>> /\ sending'[1].to = sending[1].to /\ sending'[1].command = Main
      BY <2>1, <3>1 DEF Push
    <3>3. UNCHANGED <<main, command_queue, life, pushing, phase, kicked, engine_queue, resident, nb_routines>>
      BY <2>2 DEF PushCounts, engineVars, threadVars
    <3>4. Fresh' /\ Unpushed'
      BY <1>a, <2>1, <3>3 DEF Fresh, Unpushed
    <3>5. BeingSent'
      BY <2>1, <3>2, <3>3, <3>4 DEF BeingSent, Sends
    <3>. QED
      BY <1>2, <3>3, <3>4, <3>5 DEF MainPlaced
  <2>3. CASE PushWrites
    <3>1. PICK u \in Threads : u = sending[1].to
      BY <2>1, Typed
    <3>2. /\ engine_queue' = [engine_queue EXCEPT ![u] = Append(@, Main)] /\ sending' = <<>>
          /\ UNCHANGED <<main, command_queue, life, pushing, resident, nb_routines>>
      BY <2>1, <2>3, <3>1 DEF PushWrites, engineVars, threadVars
    <3>3. engine_queue'[u] = Append(<<>>, Main) /\ \A t \in Threads \ {u} : engine_queue'[t] = <<>>
      BY <2>1, <3>2 DEF TypeOK, Fresh
    <3>4. <<>> \in Seq(ThreadCommands) /\ Main \in ThreadCommands
      BY SMTT(30), <1>a, ThreadKinds
    <3>5. \A d : ~In(d, <<>>) /\ AtMostOnce(d, <<>>)
      BY SMTT(30) DEF In, AtMostOnce
    <3>6. QueuedTo(u, Main)' /\ AtMostOnce(Main, engine_queue'[u])
      <4> HIDE DEF Main
      <4>1. In(Main, Append(<<>>, Main)) /\ AtMostOnce(Main, Append(<<>>, Main))
        BY <3>4, <3>5, Appended
      <4>2. In(Main, engine_queue'[u]) /\ AtMostOnce(Main, engine_queue'[u])
        BY <3>3, <4>1
      <4>. QED
        BY <4>2 DEF QueuedTo, Main
    <3>7. \A t \in Threads \ {u} : ~QueuedTo(t, Main)'
      BY <3>3, <3>5 DEF QueuedTo
    <3>8. (\A t \in Threads : resident'[t] = {} /\ pushing'[t] = <<>>) /\ \A d : ~Queued(d)'
      BY <2>1, <3>2, <3>5 DEF Fresh, Queued
    <3>9. Unsent' /\ Unpushed' /\ \A t \in Threads \ {u} : Absent(t)'
      BY <1>a, <3>2, <3>7, <3>8 DEF Unsent, Unpushed, Absent, Sends
    <3>10. Hosts(u)'
      <4>1. \A t \in Threads : pushing'[t] # <<NotifyIdle(u)>>
        BY SMTT(30), <3>8
      <4>2. nb_routines'[u] > 0
        BY <2>1, <3>1, <3>2
      <4>. QED
        BY <3>6, <3>8, <4>1, <4>2 DEF Hosts
    <3>11. Settled'
      BY <3>9, <3>10 DEF Settled
    <3>. QED
      BY <1>2, <3>2, <3>9, <3>11 DEF MainPlaced
  <2>4. CASE UNCHANGED vars
    <3>1. UNCHANGED <<main, sending, command_queue, life, pushing, phase, kicked, engine_queue, resident, nb_routines>>
      BY <2>4 DEF vars, engineVars, threadVars
    <3>2. BeingSent' /\ Unpushed'
      BY <1>2, <1>a, <3>1 DEF BeingSent, Fresh, Unpushed, Sends
    <3>. QED
      BY <1>2, <3>1, <3>2 DEF MainPlaced
  <2>5. ~ExecuteAdd /\ ~ExecuteIdle /\ ~ExecuteEnd /\ ~Check /\ ~SendFinish /\ ~Wake /\ ~Return
    BY <2>1 DEF ExecuteAdd, ExecuteIdle, ExecuteEnd, Executes, Check, SendFinish, Wake, Return
  <2>. QED
    BY <1>b, <2>1, <2>2, <2>3, <2>4, <2>5 DEF Next, EngineStep
<1>3. CASE Nowhere /\ life[MainRoutine] = "finished"
  <2>1. \A t \in Threads : ~FinishRoutine(t, MainRoutine)
    BY <1>3 DEF FinishRoutine, Nowhere, Absent
  <2>2. Keeps
    BY <1>3, <2>1, HostKept DEF Nowhere
  <2>. QED
    BY <1>3, <2>2 DEF Keeps, MainPlaced, Nowhere
<1>4. ASSUME Unsent, life[MainRoutine] = "started", NEW t \in Threads, Hosts(t),
             \A u \in Threads \ {t} : Absent(u)
      PROVE  MainPlaced'
  <2>1. CASE \A u \in Threads : ~FinishRoutine(u, MainRoutine)
    <3>1. Keeps
      BY <1>4, <2>1, HostKept
    <3>. QED
      BY <1>4, <3>1 DEF Keeps, MainPlaced, Settled
  <2>2. ASSUME NEW u \in Threads, FinishRoutine(u, MainRoutine) PROVE MainPlaced'
    <3>1. u = t /\ MainRoutine \in resident[t]
      BY <1>4, <2>2 DEF FinishRoutine, Absent
    <3>2. /\ UNCHANGED <<command_queue, pushing, sending, engine_queue>>
          /\ resident' = [resident EXCEPT ![t] = @ \ {MainRoutine}]
          /\ life' = [life EXCEPT ![MainRoutine] = "finished"]
      BY <2>2, <3>1 DEF FinishRoutine
    <3>3. life'[MainRoutine] = "finished" /\ Unsent' /\ Unpushed'
      BY <1>4, <1>a, <3>2 DEF TypeOK, Unsent, Unpushed, Sends, Queued
    <3>4. ~QueuedTo(t, Main)' /\ \A v \in Threads \ {t} : ~QueuedTo(v, Main)'
      BY <1>4, <3>1, <3>2 DEF Hosts, Absent, QueuedTo
    <3>5. MainRoutine \notin resident'[t] /\ \A v \in Threads \ {t} : MainRoutine \notin resident'[v]
      BY <1>4, <3>2 DEF Absent, TypeOK
    <3>6. \A v \in Threads : Absent(v)'
      BY <3>4, <3>5 DEF Absent
    <3>. QED
      BY <3>3, <3>6 DEF MainPlaced, Nowhere
  <2>. QED
    BY <2>1, <2>2
<1>. QED
  BY <1>a, <1>1, <1>2, <1>3, <1>4 DEF MainPlaced, Settled
-----------------------------------------------------------------------------
(***************************************************************************)
(* Flat programs.                                                          *)
(***************************************************************************)

\* When only run()'s routine starts others, the engine finds every count at
\* zero after the last start has been executed, never before.
LEMMA ClosingStep == TypeOK /\ PushersSeen /\ MainPlaced /\ Closing /\ [Next]_vars => Closing'
<1> SUFFICES ASSUME TypeOK, PushersSeen, MainPlaced, Closing, [Next]_vars PROVE Closing'
  OBVIOUS
<1> DEFINE Targets == Threads \union {Anywhere}
<1>a. MainRoutine \in Routines
  BY EngineAssumption
<1>b. ASSUME UNCHANGED <<main, sent_end_request, nested, life, sending, command_queue, pushing>>
      PROVE  Closing'
  BY <1>b DEF Closing, Closed, Sends, Queued
<1>1. CASE Check
  <2>1. /\ UNCHANGED <<sent_end_request, nested, life, sending, command_queue, pushing>>
        /\ sending = <<>> /\ CommandPushers = 0
        /\ main' = "finish" => \A t \in Threads : nb_routines[t] = 0
    BY <1>1 DEF Check, threadVars
  <2>2. command_queue = <<>> /\ \A t \in Threads : pushing[t] = <<>>
    BY <2>1 DEF PushersSeen
  <2>3. main' = "finish" => life[MainRoutine] = "finished"
    <3> SUFFICES ASSUME main' = "finish", life[MainRoutine] = "started" PROVE FALSE
      BY <1>a DEF MainPlaced, TypeOK
    <3>1. command_queue # <<AddRoutine(MainRoutine, Anywhere)>>
      BY <2>2
    <3>2. ~Sends(Schedule(MainRoutine))
      BY <2>1 DEF Sends
    <3>3. \A t \in Threads : ~Hosts(t)
      BY SMTT(30), <2>1 DEF Hosts
    <3>. QED
      BY <3>1, <3>2, <3>3 DEF MainPlaced, Waiting, BeingSent, Settled
  <2>4. \A d : ~Queued(d) /\ ~Sends(d)
    BY SMTT(30), <2>1, <2>2 DEF Queued, Sends, In
  <2>5. \A d, t : t \in Threads => pushing[t] # <<d>>
    <3>1. \A d : <<d>> # <<>>
      OBVIOUS
    <3>. QED
      BY <2>2, <3>1
  <2>6. (\A d : ~Queued(d)' /\ ~Sends(d)') /\ \A d, t : t \in Threads => pushing'[t] # <<d>>
    BY <2>1, <2>4, <2>5 DEF Queued, Sends
  <2>7. CASE main' = "finish"
    BY <2>1, <2>3, <2>6, <2>7 DEF Closing, Closed
  <2>8. CASE main' # "finish"
    BY <2>1, <2>6, <2>8 DEF Closing, Closed
  <2>. QED
    BY <2>7, <2>8
<1>2. CASE PushCounts
  <2>1. sending' = <<Push(sending[1].to, sending[1].command, TRUE)>> /\ sending # <<>>
    BY <1>2 DEF PushCounts
  <2>2. \A d : Sends(d)' <=> Sends(d)
    BY <2>1 DEF Sends, Push
  <2>3. UNCHANGED <<main, sent_end_request, nested, life, command_queue, pushing>>
    BY <1>2 DEF PushCounts, engineVars, threadVars
  <2>. QED
    BY <2>2, <2>3 DEF Closing, Closed, Queued
<1>3. CASE PushWrites
  <2>1. sending' = <<>> /\ UNCHANGED <<main, sent_end_request, nested, life, command_queue, pushing>>
    BY <1>3 DEF PushWrites, engineVars, threadVars
  <2>2. \A d : ~Sends(d)'
    BY <2>1 DEF Sends
  <2>. QED
    BY <2>1, <2>2 DEF Closing, Closed, Queued
<1>4. CASE ExecuteAdd \/ ExecuteIdle \/ ExecuteEnd
  <2>1. /\ UNCHANGED <<main, sent_end_request, nested, life, pushing>>
        /\ command_queue # <<>> /\ command_queue' = Tail(command_queue)
        /\ command_queue \in Seq(Commands)
    BY <1>4, Executed DEF ExecuteAdd, ExecuteIdle, ExecuteEnd, Executes, threadVars, TypeOK
  <2>2. (\A d : Queued(d)' => Queued(d)) /\ Queued(Head(command_queue))
    BY <2>1, Taken DEF Queued
  <2>3. CASE ExecuteAdd
    <3>1. \E r \in Routines, target \in Targets : Head(command_queue) = AddRoutine(r, target)
      BY <2>3, Placing
    <3>2. ~Closed
      BY <2>2, <3>1 DEF Closed
    <3>. QED
      BY <2>1, <3>2 DEF Closing
  <2>4. CASE ExecuteIdle \/ ExecuteEnd
    <3>1. sending' = sending
      BY <2>4 DEF ExecuteIdle, ExecuteEnd
    <3>2. Closed => Closed'
      BY <2>1, <2>2, <3>1 DEF Closed, Sends
    <3>. QED
      BY <2>1, <3>2 DEF Closing
  <2>. QED
    BY <1>4, <2>3, <2>4
<1>5. CASE SendFinish
  <2>1. /\ sending' = <<>> \/ \E t : sending' = <<Push(t, Finish, FALSE)>>
        /\ UNCHANGED <<nested, life, command_queue, pushing>> /\ main = "finish"
    BY <1>5 DEF SendFinish, threadVars
  <2>2. \A r \in Routines : ~Sends(Schedule(r))'
    BY SMTT(30), <2>1, ThreadKinds DEF Sends, Push
  <2>3. Closed => Closed'
    BY <2>1, <2>2 DEF Closed, Queued
  <2>. QED
    BY <2>1, <2>3 DEF Closing
<1>6. CASE Wake \/ Return
  <2>1. /\ UNCHANGED <<sent_end_request, nested, life, sending, command_queue, pushing>>
        /\ main' # "finish"
    BY <1>6 DEF Wake, Return, threadVars
  <2>2. Closed => Closed'
    BY <2>1 DEF Closed, Queued, Sends
  <2>. QED
    BY <2>1, <2>2 DEF Closing
<1>7. ASSUME NEW t \in Threads, WriteCommand(t) PROVE Closing'
  <2>1. PICK c \in Commands : pushing[t] = <<c>> /\ c = pushing[t][1]
    BY <1>7, Typed DEF WriteCommand
  <2>2. /\ UNCHANGED <<main, sent_end_request, nested, life, sending>>
        /\ command_queue' = Append(command_queue, c) /\ command_queue \in Seq(Commands)
        /\ pushing' = [pushing EXCEPT ![t] = <<>>]
    BY <1>7, <2>1 DEF WriteCommand, TypeOK, engineVars
  <2>3. \A d : Queued(d)' <=> Queued(d) \/ d = c
    BY <2>2, Appended DEF Queued
  <2>4. \A u \in Threads : pushing'[u] = pushing[u] \/ pushing'[u] = <<>>
    BY <2>2 DEF TypeOK
  <2>5. Closed => Closed'
    <3>1. \A d : <<d>> # <<>>
      OBVIOUS
    <3>2. Closed => \A r \in Routines, target \in Targets : c # AddRoutine(r, target)
      BY <2>1 DEF Closed
    <3>3. Closed => \A r \in Routines, target \in Targets, u \in Threads :
                      pushing'[u] # <<AddRoutine(r, target)>>
      BY <2>4, <3>1 DEF Closed
    <3>. QED
      BY <2>2, <2>3, <3>2, <3>3 DEF Closed, Sends
  <2>. QED
    BY <2>2, <2>5 DEF Closing
<1>8. ASSUME NEW t \in Threads, WaitReturns(t) \/ HandleReturns(t) \/ HandleCommand(t)
      PROVE  Closing'
  BY <1>b, <1>8 DEF WaitReturns, HandleReturns, HandleCommand, engineVars
<1>9. ASSUME NEW t \in Threads, NEW r \in Routines, FinishRoutine(t, r) PROVE Closing'
  <2>1. /\ UNCHANGED <<main, sent_end_request, nested, sending, command_queue, pushing>>
        /\ life' = [life EXCEPT ![r] = "finished"]
    BY <1>9 DEF FinishRoutine, engineVars
  <2>2. life[MainRoutine] = "finished" => life'[MainRoutine] = "finished"
    BY <1>a, <2>1 DEF TypeOK
  <2>3. Closed => Closed'
    BY <2>1, <2>2 DEF Closed, Sends, Queued
  <2>. QED
    BY <2>1, <2>3 DEF Closing
<1>10. ASSUME NEW t \in Threads, NEW r \in Routines, NEW new \in Routines,
              NEW target \in Targets, StartRoutine(t, r, new, target)
       PROVE  Closing'
  <2>1. /\ UNCHANGED <<main, sent_end_request>> /\ nested' = (nested \/ r # MainRoutine)
        /\ r \in resident[t]
    BY <1>10 DEF StartRoutine, engineVars
  <2>2. Closed => nested'
    BY <2>1 DEF Closed, MainPlaced, Nowhere, Absent
  <2>3. nested => nested'
    BY <2>1
  <2>. QED
    BY <2>1, <2>2, <2>3 DEF Closing
<1>11. ASSUME NEW t \in Threads, PassEnds(t) PROVE Closing'
  <2>1. /\ UNCHANGED <<main, sent_end_request, nested, life, sending, command_queue>>
        /\ \/ pushing' = pushing
           \/ pushing' = [pushing EXCEPT ![t] = <<NotifyEnd(t)>>]
           \/ pushing' = [pushing EXCEPT ![t] = <<NotifyIdle(t)>>]
    BY <1>11 DEF PassEnds, Pushes, engineVars
  <2>2. \A u \in Threads : \/ pushing'[u] = pushing[u]
                           \/ pushing'[u] = <<NotifyEnd(t)>> \/ pushing'[u] = <<NotifyIdle(t)>>
    BY <2>1 DEF TypeOK
  <2>3. \A r \in Routines, target \in Targets :
          NotifyEnd(t) # AddRoutine(r, target) /\ NotifyIdle(t) # AddRoutine(r, target)
    BY SMTT(30), Kinds
  <2>4. Closed => \A r \in Routines, target \in Targets, u \in Threads :
                    pushing'[u] # <<AddRoutine(r, target)>>
    BY SMTT(30), <2>2, <2>3 DEF Closed
  <2>5. Closed => Closed'
    BY <2>1, <2>4 DEF Closed, Sends, Queued
  <2>. QED
    BY <2>1, <2>5 DEF Closing
<1>12. CASE UNCHANGED vars
  BY <1>b, <1>12 DEF vars, engineVars, threadVars
<1>. QED
  BY <1>1, <1>2, <1>3, <1>4, <1>5, <1>6, <1>7, <1>8, <1>9, <1>10, <1>11, <1>12
  DEF Next, EngineStep, ThreadStep, Start, StartExplicit

-----------------------------------------------------------------------------
Finishes(queue) == Cardinality({i \in 1 .. Len(queue) : queue[i] = Finish})

\* The threads whose end the engine has counted.
Gone == {t \in Threads : phase[t] = "left" /\ pushing[t] = <<>> /\ ~Queued(NotifyEnd(t))}

\* A thread says once that it has left, and after that nothing more.
Farewells ==
  /\ \A t \in Threads : phase[t] = "left" /\ pushing[t] # <<>> => pushing[t] = <<NotifyEnd(t)>>
  /\ \A t, u \in Threads : pushing[t] = <<NotifyEnd(u)>> => u = t /\ phase[t] = "left"
  /\ \A t \in Threads : Queued(NotifyEnd(t)) => phase[t] = "left" /\ pushing[t] = <<>>
  /\ \A t \in Threads : AtMostOnce(NotifyEnd(t), command_queue)

Counted == nb_active_threads = Cardinality(Threads \ Gone)

\* The engine has executed every command when it finds no active thread.
Stopping ==
  /\ main # "execute" /\ nb_active_threads = 0 => command_queue = <<>>
  /\ main = "done" => nb_active_threads = 0 /\ sending = <<>>

Ends == Farewells /\ Counted /\ Stopping

\* A routine that was started and has not finished is somewhere.
Somewhere(r) ==
  \/ \E target \in Threads \union {Anywhere} : Queued(AddRoutine(r, target))
  \/ \E t \in Threads, target \in Threads \union {Anywhere} : pushing[t] = <<AddRoutine(r, target)>>
  \/ Sends(Schedule(r))
  \/ \E t \in Threads : QueuedTo(t, Schedule(r)) \/ r \in resident[t]

Placed == \A r \in Routines : life[r] = "started" => Somewhere(r)

\* In a flat program a thread leaves nothing behind.
LeftEmpty == \A t \in Threads : phase[t] = "left" =>
  /\ status[t] # "running"
  /\ ~nested => resident[t] = {} /\ \A r \in Routines : ~QueuedTo(t, Schedule(r))
-----------------------------------------------------------------------------
(***************************************************************************)
(* Each thread is told once to finish.                                     *)
(***************************************************************************)

\* How many finishes a queue holds when a command is written to it.
LEMMA FinishAppended ==
  ASSUME NEW S, NEW queue \in Seq(S), NEW c \in S
  PROVE  /\ Finishes(queue) \in Nat
         /\ Finishes(Append(queue, c)) = Finishes(queue) + (IF c = Finish THEN 1 ELSE 0)
<1>1. /\ Append(queue, c) \in Seq(S) /\ Len(Append(queue, c)) = Len(queue) + 1 /\ Len(queue) \in Nat
      /\ Append(queue, c)[Len(queue) + 1] = c
      /\ \A i \in 1 .. Len(queue) : Append(queue, c)[i] = queue[i]
  BY SMTT(30)
<1> DEFINE Old == {i \in 1 .. Len(queue) : queue[i] = Finish}
           New == {i \in 1 .. Len(Append(queue, c)) : Append(queue, c)[i] = Finish}
<1>2. IsFiniteSet(Old) /\ Cardinality(Old) \in Nat
  <2>1. IsFiniteSet(1 .. Len(queue)) /\ Old \subseteq 1 .. Len(queue)
    BY SMTT(30), <1>1, FS_Interval
  <2> HIDE DEF Old
  <2>. QED
    BY <2>1, FS_Subset, FS_CardinalityType
<1>3. New = IF c = Finish THEN Old \union {Len(queue) + 1} ELSE Old
  BY SMTT(30), <1>1
<1>4. Len(queue) + 1 \notin Old
  BY SMTT(30), <1>1
<1>5. Cardinality(New) = Cardinality(Old) + (IF c = Finish THEN 1 ELSE 0)
  <2> HIDE DEF Old, New
  <2>1. Cardinality(Old \union {Len(queue) + 1}) = Cardinality(Old) + 1
    BY <1>2, <1>4, FS_AddElement
  <2>. QED
    BY SMTT(30), <1>2, <1>3, <2>1
<1>6. Finishes(queue) = Cardinality(Old) /\ Finishes(Append(queue, c)) = Cardinality(New)
  BY DEF Finishes
<1> HIDE DEF Old, New
<1>. QED
  BY <1>2, <1>5, <1>6

\* And when the first command is read.
LEMMA FinishTaken ==
  ASSUME NEW S, NEW queue \in Seq(S), queue # <<>>
  PROVE  /\ Finishes(Tail(queue)) \in Nat
         /\ Finishes(queue) = Finishes(Tail(queue)) + (IF Head(queue) = Finish THEN 1 ELSE 0)
<1> DEFINE n == Len(queue)
<1>1. /\ Tail(queue) \in Seq(S) /\ Len(Tail(queue)) = n - 1 /\ n \in Nat \ {0}
      /\ Head(queue) = queue[1] /\ Head(queue) \in S
      /\ \A i \in 1 .. n - 1 : Tail(queue)[i] = queue[i + 1]
  BY SMTT(30)
<1> DEFINE Old == {i \in 1 .. n : queue[i] = Finish}
           New == {i \in 1 .. n - 1 : Tail(queue)[i] = Finish}
           Shift == [i \in New |-> i + 1]
<1>2. /\ IsFiniteSet(Old \ {1}) /\ IsFiniteSet(New)
      /\ Cardinality(New) \in Nat /\ Cardinality(Old \ {1}) \in Nat
  <2>1. /\ IsFiniteSet(1 .. n) /\ IsFiniteSet(1 .. n - 1)
        /\ Old \ {1} \subseteq 1 .. n /\ New \subseteq 1 .. n - 1
    BY SMTT(30), <1>1, FS_Interval
  <2> HIDE DEF Old, New
  <2>. QED
    BY <2>1, FS_Subset, FS_CardinalityType
<1>3. Shift \in Bijection(New, Old \ {1})
  <2>1. \A i \in New : i + 1 \in Old \ {1}
    BY SMTT(30), <1>1
  <2>2. \A j \in Old \ {1} : j - 1 \in New /\ Shift[j - 1] = j
    BY SMTT(30), <1>1
  <2>3. \A i, j \in New : i + 1 = j + 1 => i = j
    BY SMTT(30), <1>1
  <2>. QED
    BY <2>1, <2>2, <2>3 DEF Bijection, Injection, Surjection, IsInjective
<1>4. Cardinality(New) = Cardinality(Old \ {1})
  BY <1>2, <1>3, FS_Bijection DEF ExistsBijection
<1>5. Cardinality(Old) = Cardinality(Old \ {1}) + (IF Head(queue) = Finish THEN 1 ELSE 0)
  <2>1. CASE Head(queue) = Finish
    <3>1. 1 \in Old /\ Old = (Old \ {1}) \union {1} /\ 1 \notin Old \ {1}
      BY SMTT(30), <1>1, <2>1
    <3> HIDE DEF Old, New
    <3>2. Cardinality((Old \ {1}) \union {1}) = Cardinality(Old \ {1}) + 1
      BY <1>2, <3>1, FS_AddElement
    <3>. QED
      BY <1>2, <2>1, <3>1, <3>2
  <2>2. CASE Head(queue) # Finish
    <3>1. Old = Old \ {1}
      BY <1>1, <2>2
    <3>2. Cardinality(Old) = Cardinality(Old \ {1})
      BY ONLY Zenon, <3>1
    <3> HIDE DEF Old, New
    <3>. QED
      BY SMTT(30), <1>2, <2>2, <3>2
  <2>. QED
    BY <2>1, <2>2
<1>. QED
  BY <1>1, <1>2, <1>4, <1>5 DEF Finishes

InFlight(t) == IF sending # <<>> /\ sending[1].to = t /\ sending[1].command = Finish THEN 1 ELSE 0
Obeyed(t) == IF status[t] = "running" THEN 0 ELSE 1
Told(t) == IF sent_end_request[t] THEN 1 ELSE 0

\* OneFinishPerThread with one count for each place finish may be in.
Balance == \A t \in Threads : Finishes(engine_queue[t]) + InFlight(t) + Obeyed(t) = Told(t)

\* The engine remembers whom it has told to finish.
LEMMA BalanceStep == TypeOK /\ Balance /\ [Next]_vars => Balance'
<1> SUFFICES ASSUME TypeOK, Balance, [Next]_vars PROVE Balance'
  OBVIOUS
<1>1. ASSUME UNCHANGED <<sending, status, engine_queue, sent_end_request>> PROVE Balance'
  BY <1>1 DEF Balance, InFlight, Obeyed, Told
<1>2. CASE PushCounts
  <2>1. sending' = <<Push(sending[1].to, sending[1].command, TRUE)>> /\ sending # <<>>
    BY <1>2 DEF PushCounts
  <2>2. \A t \in Threads : InFlight(t)' = InFlight(t)
    BY <2>1 DEF InFlight, Push
  <2>. QED
    BY <1>2, <2>2 DEF Balance, PushCounts, engineVars, threadVars, Obeyed, Told
<1>3. CASE PushWrites
  <2> DEFINE u == sending[1].to
             c == sending[1].command
  <2>1. u \in Threads /\ c \in ThreadCommands /\ sending # <<>> /\ sending' = <<>>
    BY <1>3, Typed DEF PushWrites
  <2>2. engine_queue' = [engine_queue EXCEPT ![u] = Append(@, c)]
    BY <1>3 DEF PushWrites
  <2>3. \A t \in Threads : InFlight(t)' = 0
    BY <2>1 DEF InFlight
  <2>4. \A t \in Threads \ {u} : InFlight(t) = 0 /\ Finishes(engine_queue'[t]) = Finishes(engine_queue[t])
    BY <2>1, <2>2 DEF InFlight, TypeOK
  <2>5. InFlight(u) = IF c = Finish THEN 1 ELSE 0
    BY <2>1 DEF InFlight
  <2> HIDE DEF u, c
  <2>6. /\ Finishes(engine_queue'[u]) = Finishes(engine_queue[u]) + (IF c = Finish THEN 1 ELSE 0)
        /\ Finishes(engine_queue[u]) \in Nat
    <3>1. engine_queue'[u] = Append(engine_queue[u], c) /\ engine_queue[u] \in Seq(ThreadCommands)
      BY <2>1, <2>2 DEF TypeOK
    <3>. QED
      BY <2>1, <3>1, FinishAppended
  <2>7. \A t \in Threads : Obeyed(t)' = Obeyed(t) /\ Told(t)' = Told(t)
    BY <1>3 DEF PushWrites, engineVars, threadVars, Obeyed, Told
  <2>8. \A t \in Threads : Finishes(engine_queue'[t]) + 0 = Finishes(engine_queue[t]) + InFlight(t)
    BY SMTT(30), <2>4, <2>5, <2>6
  <2>9. \A t \in Threads : Finishes(engine_queue'[t]) + InFlight(t)' = Finishes(engine_queue[t]) + InFlight(t)
    BY <2>3, <2>8
  <2>. QED
    BY <2>7, <2>9 DEF Balance
<1>4. CASE ExecuteAdd
  <2>1. sending = <<>> /\ UNCHANGED <<status, engine_queue, sent_end_request>>
    BY <1>4 DEF ExecuteAdd, Executes, threadVars
  <2>2. PICK r \in Routines, t \in Threads : sending' = <<Push(t, Schedule(r), FALSE)>>
    BY <1>4, Placing
  <2>3. sending'[1].command = Schedule(r) /\ Schedule(r) # Finish
    BY <2>2, ThreadKinds DEF Push
  <2>4. \A u \in Threads : InFlight(u)' = 0 /\ InFlight(u) = 0
    BY <2>1, <2>3 DEF InFlight
  <2>. QED
    BY <2>1, <2>4 DEF Balance, Obeyed, Told
<1>5. CASE SendFinish
  <2> DEFINE u == Ring[view]
  <2>1. u \in Threads
    BY <1>5, Typed DEF SendFinish
  <2>2. /\ sending' = (IF sent_end_request[u] THEN <<>> ELSE <<Push(u, Finish, FALSE)>>)
        /\ sent_end_request' = [sent_end_request EXCEPT ![u] = TRUE]
        /\ sending = <<>> /\ UNCHANGED <<status, engine_queue>>
    BY <1>5 DEF SendFinish, threadVars
  <2> HIDE DEF u
  <2>3. \A t \in Threads : InFlight(t) = 0
    BY <2>2 DEF InFlight
  <2>4. \A t \in Threads : InFlight(t)' = IF t = u /\ ~sent_end_request[u] THEN 1 ELSE 0
    BY <2>2 DEF InFlight, Push
  <2>5. \A t \in Threads : Told(t)' = IF t = u THEN 1 ELSE Told(t)
    BY <2>1, <2>2 DEF Told, TypeOK
  <2>6. \A t \in Threads : Told(t)' = Told(t) + InFlight(t)'
    BY SMTT(30), <2>4, <2>5 DEF Told
  <2>7. \A t \in Threads : Finishes(engine_queue[t]) \in Nat /\ Obeyed(t) \in Nat
    BY FinishAppended, ThreadKinds DEF TypeOK, Obeyed
  <2>8. \A t \in Threads : /\ Finishes(engine_queue'[t]) = Finishes(engine_queue[t])
                           /\ Obeyed(t)' = Obeyed(t) /\ InFlight(t)' \in Nat
    BY SMTT(30), <2>2, <2>4 DEF Obeyed
  <2>. QED
    BY SMTT(30), <2>3, <2>6, <2>7, <2>8 DEF Balance
<1>6. ASSUME NEW t \in Threads, HandleCommand(t) PROVE Balance'
  <2> DEFINE q == engine_queue[t]
  <2>1. /\ q \in Seq(ThreadCommands) /\ q # <<>>
        /\ engine_queue' = [engine_queue EXCEPT ![t] = Tail(q)]
        /\ UNCHANGED <<sending, sent_end_request>>
    BY <1>6 DEF HandleCommand, TypeOK, engineVars
  <2>2. engine_queue'[t] = Tail(q) /\ \A u \in Threads \ {t} : engine_queue'[u] = engine_queue[u]
    BY <2>1 DEF TypeOK
  <2>3. /\ Finishes(q) = Finishes(Tail(q)) + (IF Head(q) = Finish THEN 1 ELSE 0)
        /\ Finishes(Tail(q)) \in Nat
    BY <2>1, FinishTaken
  <2>4. Finishes(q) + InFlight(t) + Obeyed(t) = Told(t) /\ Told(t) \in {0, 1} /\ InFlight(t) \in {0, 1}
    BY DEF Balance, InFlight, Told
  <2>5. \A u \in Threads \ {t} : Obeyed(u)' = Obeyed(u)
    BY <1>6, Handled DEF Obeyed, TypeOK
  <2>6. \A u \in Threads : InFlight(u)' = InFlight(u) /\ Told(u)' = Told(u)
    BY <2>1 DEF InFlight, Told
  <2>7. Finishes(Tail(q)) + InFlight(t) + Obeyed(t)' = Told(t)
    <3>1. CASE Head(q) = Finish
      <4>1. status' = [status EXCEPT ![t] = "finishing"]
        BY <1>6, <3>1, Handled, ThreadKinds
      <4>2. Obeyed(t)' = 1
        BY <4>1 DEF Obeyed, TypeOK
      <4>3. Obeyed(t) = 0 \/ Obeyed(t) = 1
        BY DEF Obeyed
      <4> HIDE DEF q
      <4>. QED
        BY SMTT(30), <2>3, <2>4, <3>1, <4>2, <4>3
    <3>2. CASE Head(q) # Finish
      <4>1. status' = status
        BY <1>6, <3>2, Handled, ThreadKinds
      <4>2. Obeyed(t)' = Obeyed(t)
        BY <4>1 DEF Obeyed, TypeOK
      <4> HIDE DEF q
      <4>. QED
        BY SMTT(30), <2>3, <2>4, <3>2, <4>2
    <3>. QED
      BY <3>1, <3>2
  <2> HIDE DEF q
  <2>. QED
    BY <2>2, <2>5, <2>6, <2>7 DEF Balance
<1>7. ASSUME NEW t \in Threads, PassEnds(t) PROVE Balance'
  <2>1. /\ UNCHANGED <<sending, sent_end_request, engine_queue>>
        /\ status' = status \/ (status[t] = "finishing" /\ status' = [status EXCEPT ![t] = "finished"])
    BY <1>7 DEF PassEnds, engineVars
  <2>2. \A u \in Threads : Obeyed(u)' = Obeyed(u)
    BY <2>1 DEF Obeyed, TypeOK
  <2>. QED
    BY <2>1, <2>2 DEF Balance, InFlight, Told
<1>8. CASE ExecuteIdle \/ ExecuteEnd \/ Check \/ Wake \/ Return
  BY <1>1, <1>8 DEF ExecuteIdle, ExecuteEnd, Executes, Check, Wake, Return, threadVars
<1>9. ASSUME NEW t \in Threads,
             \/ WriteCommand(t) \/ WaitReturns(t) \/ HandleReturns(t)
             \/ \E r \in Routines : FinishRoutine(t, r)
             \/ \E r, new \in Routines : Start(t, r, new) \/ StartExplicit(t, r, new)
      PROVE  Balance'
  BY <1>1, <1>9 DEF WriteCommand, WaitReturns, HandleReturns, FinishRoutine, Start,
                    StartExplicit,
    StartRoutine, engineVars
<1>10. CASE UNCHANGED vars
  BY <1>1, <1>10 DEF vars, engineVars, threadVars
<1>. QED
  BY <1>2, <1>3, <1>4, <1>5, <1>6, <1>7, <1>8, <1>9, <1>10
  DEF Next, EngineStep, ThreadStep
-----------------------------------------------------------------------------
(***************************************************************************)
(* The engine knows how many threads are still there.                      *)
(***************************************************************************)

\* The threads of the ring are different.
LEMMA RingSize == IsFiniteSet(Threads) /\ Cardinality(Threads) = Len(Ring)
<1>1. Len(Ring) \in Nat /\ Ring \in [1 .. Len(Ring) -> Threads]
  BY SMTT(30), EngineAssumption
<1>2. \A t \in Threads : \E i \in 1 .. Len(Ring) : Ring[i] = t
  BY <1>1 DEF Threads, Range
<1>3. \A i, j \in 1 .. Len(Ring) : Ring[i] = Ring[j] => i = j
  BY <1>1, EngineAssumption DEF IsInjective
<1>4. Ring \in Bijection(1 .. Len(Ring), Threads)
  BY <1>1, <1>2, <1>3 DEF Bijection, Injection, Surjection, IsInjective
<1>5. ExistsBijection(1 .. Len(Ring), Threads)
  BY <1>4 DEF ExistsBijection
<1>6. IsFiniteSet(1 .. Len(Ring)) /\ Cardinality(1 .. Len(Ring)) = Len(Ring)
  BY SMTT(30), <1>1, FS_Interval
<1>. QED
  BY <1>5, <1>6, FS_Bijection

\* The count of pushers is the count of the threads that push.
LEMMA PushersAreSeen == TypeOK => PushersSeen
<1> SUFFICES ASSUME TypeOK, CommandPushers = 0
             PROVE  command_queue = <<>> /\ \A t \in Threads : pushing[t] = <<>>
  BY DEF PushersSeen
<1> DEFINE P == {t \in Threads : pushing[t] # <<>>}
<1>1. IsFiniteSet(P) /\ Cardinality(P) \in Nat
  BY RingSize, FS_Subset, FS_CardinalityType
<1>2. Len(command_queue) \in Nat /\ (Len(command_queue) = 0 => command_queue = <<>>)
  BY SMTT(30) DEF TypeOK
<1>3. Len(command_queue) + Cardinality(P) = 0
  BY DEF CommandPushers
<1>4. Len(command_queue) = 0 /\ Cardinality(P) = 0
  <2> HIDE DEF P
  <2>. QED
    BY SMTT(30), <1>1, <1>2, <1>3
<1>5. P = {}
  <2> HIDE DEF P
  <2>. QED
    BY <1>1, <1>4, FS_EmptySet
<1>. QED
  BY <1>2, <1>4, <1>5

\* A thread says once that it has left, the engine counts it once, and has
\* executed every command when it has counted them all.
LEMMA EndsStep == TypeOK /\ Ends /\ [Next]_vars => Ends'
<1> SUFFICES ASSUME TypeOK, Ends, [Next]_vars PROVE Ends'
  OBVIOUS
<1>a. ASSUME UNCHANGED <<pushing, command_queue, nb_active_threads>>,
             \A t \in Threads : phase'[t] = "left" <=> phase[t] = "left"
      PROVE  Farewells' /\ Counted'
  <2>1. \A t \in Threads : Queued(NotifyEnd(t))' <=> Queued(NotifyEnd(t))
    BY <1>a DEF Queued
  <2>2. Gone' = Gone
    BY <1>a, <2>1 DEF Gone
  <2>3. Farewells'
    BY <1>a, <2>1 DEF Ends, Farewells
  <2>. QED
    BY <1>a, <2>2, <2>3 DEF Ends, Counted
<1>b. nb_active_threads = 0 => Gone = Threads
  <2>1. IsFiniteSet(Threads \ Gone)
    BY RingSize, FS_Subset
  <2>2. nb_active_threads = 0 => Threads \ Gone = {}
    BY <2>1, FS_EmptySet DEF Ends, Counted
  <2>. QED
    BY <2>2 DEF Gone
<1>1. CASE PushCounts \/ PushWrites \/ SendFinish
  <2>1. UNCHANGED <<pushing, command_queue, nb_active_threads, phase>>
    BY <1>1 DEF PushCounts, PushWrites, SendFinish, engineVars, threadVars
  <2>2. main # "done" /\ main' # "done" /\ (main = "execute" <=> main' = "execute")
    BY <1>1 DEF PushCounts, PushWrites, SendFinish, engineVars, Ends, Stopping
  <2>. QED
    BY <1>a, <2>1, <2>2 DEF Ends, Stopping
<1>2. CASE Wake \/ Return
  <2>1. UNCHANGED <<pushing, command_queue, nb_active_threads, phase, sending>>
    BY <1>2 DEF Wake, Return, threadVars
  <2>. QED
    BY <1>2, <1>a, <2>1 DEF Ends, Stopping, Wake, Return
<1>3. CASE Check
  <2>1. UNCHANGED <<pushing, command_queue, nb_active_threads, phase, sending>> /\ main' # "done"
    BY <1>3 DEF Check, threadVars
  <2>2. command_queue = <<>>
    <3>1. Cardinality({t \in Threads : pushing[t] # <<>>}) \in Nat
      BY RingSize, FS_Subset, FS_CardinalityType
    <3>2. Len(command_queue) \in Nat /\ (Len(command_queue) = 0 => command_queue = <<>>)
      BY SMTT(30) DEF TypeOK
    <3>3. CommandPushers = 0
      BY <1>3 DEF Check
    <3>. QED
      BY SMTT(30), <3>1, <3>2, <3>3 DEF CommandPushers
  <2>. QED
    BY <1>a, <2>1, <2>2 DEF Ends, Stopping
<1>4. CASE ExecuteAdd \/ ExecuteIdle
  <2>1. /\ UNCHANGED <<pushing, phase, nb_active_threads, main>> /\ main = "execute"
        /\ command_queue # <<>> /\ command_queue' = Tail(command_queue)
        /\ command_queue \in Seq(Commands)
    BY <1>4, Executed DEF ExecuteAdd, ExecuteIdle, Executes, threadVars, TypeOK
  <2>2. \A t \in Threads : Head(command_queue) # NotifyEnd(t)
    <3>1. Head(command_queue).type # "notify_end_of_thread"
      BY <1>4 DEF ExecuteAdd, ExecuteIdle, Executes
    <3>. QED
      BY SMTT(30), <3>1, Kinds
  <2>3. \A t \in Threads : Queued(NotifyEnd(t))' <=> Queued(NotifyEnd(t))
    BY <2>1, <2>2, Taken DEF Queued
  <2>4. \A t \in Threads : AtMostOnce(NotifyEnd(t), command_queue')
    BY <2>1, Taken DEF Ends, Farewells
  <2>5. Gone' = Gone
    BY <2>1, <2>3 DEF Gone
  <2>. QED
    BY <2>1, <2>3, <2>4, <2>5 DEF Ends, Farewells, Counted, Stopping
<1>5. CASE ExecuteEnd
  <2>1. /\ UNCHANGED <<pushing, phase, main>> /\ main = "execute"
        /\ command_queue # <<>> /\ command_queue' = Tail(command_queue)
        /\ command_queue \in Seq(Commands) /\ nb_active_threads' = nb_active_threads - 1
    BY <1>5, Executed DEF ExecuteEnd, Executes, threadVars, TypeOK
  <2>2. PICK t \in Threads : Head(command_queue) = NotifyEnd(t)
    BY <1>5, Executed DEF ExecuteEnd
  <2>3. Queued(NotifyEnd(t)) /\ ~Queued(NotifyEnd(t))'
    BY <2>1, <2>2, Taken DEF Queued, Ends, Farewells
  <2>4. \A u \in Threads \ {t} : Queued(NotifyEnd(u))' <=> Queued(NotifyEnd(u))
    <3>1. \A u \in Threads \ {t} : NotifyEnd(u) # NotifyEnd(t)
      BY SMTT(30), Kinds
    <3>. QED
      BY <2>1, <2>2, <3>1, Taken DEF Queued
  <2>5. \A u \in Threads : AtMostOnce(NotifyEnd(u), command_queue')
    BY <2>1, Taken DEF Ends, Farewells
  <2>6. Farewells'
    BY <2>1, <2>3, <2>4, <2>5 DEF Ends, Farewells
  <2>7. phase[t] = "left" /\ pushing[t] = <<>>
    BY <2>3 DEF Ends, Farewells
  <2>8. Threads \ Gone' = (Threads \ Gone) \ {t} /\ t \in Threads \ Gone
    BY <2>1, <2>3, <2>4, <2>7 DEF Gone
  <2>9. IsFiniteSet(Threads \ Gone)
    BY RingSize, FS_Subset
  <2>10. Cardinality((Threads \ Gone) \ {t}) = Cardinality(Threads \ Gone) - 1
    BY <2>8, <2>9, FS_RemoveElement
  <2>11. Counted'
    BY <2>1, <2>8, <2>10 DEF Ends, Counted
  <2>. QED
    BY <2>1, <2>6, <2>11 DEF Ends, Stopping
<1>6. ASSUME NEW t \in Threads, WriteCommand(t) PROVE Ends'
  <2> DEFINE c == pushing[t][1]
  <2>1. /\ UNCHANGED <<phase, nb_active_threads, main, sending>>
        /\ command_queue' = Append(command_queue, c)
        /\ pushing' = [pushing EXCEPT ![t] = <<>>] /\ pushing[t] # <<>>
    BY <1>6 DEF WriteCommand, engineVars
  <2>2. c \in Commands /\ pushing[t] = <<c>> /\ command_queue \in Seq(Commands)
    BY <2>1, Typed DEF TypeOK
  <2>3. pushing'[t] = <<>> /\ \A u \in Threads \ {t} : pushing'[u] = pushing[u]
    BY <2>1 DEF TypeOK
  <2> HIDE DEF c
  <2>4. \A u \in Threads : c = NotifyEnd(u) => u = t /\ phase[t] = "left"
    BY <2>2 DEF Ends, Farewells
  <2>5. phase[t] = "left" => c = NotifyEnd(t)
    <3>1. phase[t] = "left" => pushing[t] = <<NotifyEnd(t)>>
      BY <2>1 DEF Ends, Farewells
    <3>. QED
      BY SMTT(30), <2>2, <3>1
  <2>6. ~Queued(NotifyEnd(t))
    BY <2>1 DEF Ends, Farewells
  <2>7. \A u \in Threads : Queued(NotifyEnd(u))' <=> Queued(NotifyEnd(u)) \/ c = NotifyEnd(u)
    BY SMTT(30), <2>1, <2>2, Appended DEF Queued
  <2>8. \A u \in Threads : AtMostOnce(NotifyEnd(u), command_queue')
    <3> SUFFICES ASSUME NEW u \in Threads PROVE AtMostOnce(NotifyEnd(u), command_queue')
      OBVIOUS
    <3>1. AtMostOnce(NotifyEnd(u), command_queue) /\ (c = NotifyEnd(u) => ~In(NotifyEnd(u), command_queue))
      BY <2>4, <2>6 DEF Ends, Farewells, Queued
    <3>. QED
      BY <2>1, <2>2, <3>1, Appended
  <2>9. Farewells'
    <3>1. \A u \in Threads : phase'[u] = "left" /\ pushing'[u] # <<>> => pushing'[u] = <<NotifyEnd(u)>>
      BY <2>1, <2>3 DEF Ends, Farewells
    <3>2. \A u, v \in Threads : pushing'[u] = <<NotifyEnd(v)>> => v = u /\ phase'[u] = "left"
      BY SMTT(30), <2>1, <2>3 DEF Ends, Farewells
    <3>3. \A u \in Threads : Queued(NotifyEnd(u))' => phase'[u] = "left" /\ pushing'[u] = <<>>
      BY <2>1, <2>3, <2>4, <2>7 DEF Ends, Farewells
    <3>. QED
      BY <2>8, <3>1, <3>2, <3>3 DEF Farewells
  <2>10. Gone' = Gone
    <3>1. \A u \in Threads \ {t} : u \in Gone' <=> u \in Gone
      BY <2>1, <2>3, <2>4, <2>7 DEF Gone
    <3>2. t \notin Gone /\ t \notin Gone'
      BY <2>1, <2>5, <2>7 DEF Gone
    <3>. QED
      BY <3>1, <3>2 DEF Gone
  <2>11. nb_active_threads # 0
    BY <1>b, <2>1 DEF Gone
  <2>. QED
    BY <2>1, <2>9, <2>10, <2>11 DEF Ends, Counted, Stopping
<1>7. ASSUME NEW t \in Threads,
             \/ WaitReturns(t) \/ HandleCommand(t) \/ HandleReturns(t)
             \/ \E r \in Routines : FinishRoutine(t, r)
      PROVE  Ends'
  <2>1. UNCHANGED <<pushing, command_queue, nb_active_threads, main, sending>>
    BY <1>7 DEF WaitReturns, HandleCommand, HandleReturns, FinishRoutine, engineVars
  <2>2. \A u \in Threads : phase'[u] = "left" <=> phase[u] = "left"
    BY <1>7 DEF WaitReturns, HandleCommand, HandleReturns, FinishRoutine, At, GoTo, TypeOK
  <2>. QED
    BY <1>a, <2>1, <2>2 DEF Ends, Stopping
<1>8. ASSUME NEW t \in Threads, UNCHANGED <<command_queue, nb_active_threads, main, sending>>,
             At(t, "run"), NEW c \in Commands,
             pushing' = pushing \/ pushing' = [pushing EXCEPT ![t] = <<c>>],
             NEW place, GoTo(t, place), place = "left" <=> (c = NotifyEnd(t) /\ pushing' # pushing),
             \A u \in Threads : pushing' # pushing /\ c = NotifyEnd(u) => u = t
      PROVE  Ends'
  <2>1. /\ pushing[t] = <<>> /\ phase[t] = "run"
        /\ \A u \in Threads \ {t} : pushing'[u] = pushing[u] /\ phase'[u] = phase[u]
        /\ phase'[t] = place
        /\ pushing'[t] = <<>> \/ pushing'[t] = <<c>>
        /\ (pushing'[t] = <<>>) <=> (pushing' = pushing)
    BY SMTT(30), <1>8 DEF At, GoTo, TypeOK
  <2>2. ~Queued(NotifyEnd(t))
    BY <2>1 DEF Ends, Farewells
  <2>3. \A u \in Threads : Queued(NotifyEnd(u))' <=> Queued(NotifyEnd(u))
    BY <1>8 DEF Queued
  <2>4. Gone' = Gone
    BY <1>8, <2>1, <2>2, <2>3 DEF Gone
  <2>5. Farewells'
    <3>1. \A u \in Threads : phase'[u] = "left" /\ pushing'[u] # <<>> => pushing'[u] = <<NotifyEnd(u)>>
      BY <1>8, <2>1 DEF Ends, Farewells
    <3>2. \A u, v \in Threads : pushing'[u] = <<NotifyEnd(v)>> => v = u /\ phase'[u] = "left"
      BY SMTT(30), <1>8, <2>1 DEF Ends, Farewells
    <3>3. \A u \in Threads : Queued(NotifyEnd(u))' => phase'[u] = "left" /\ pushing'[u] = <<>>
      BY <2>1, <2>2, <2>3 DEF Ends, Farewells
    <3>. QED
      BY <1>8, <3>1, <3>2, <3>3 DEF Ends, Farewells
  <2>. QED
    BY <1>8, <2>4, <2>5 DEF Ends, Counted, Stopping
<1>9. ASSUME NEW t \in Threads, NEW r \in Routines, NEW new \in Routines,
             NEW target \in Threads \union {Anywhere}, StartRoutine(t, r, new, target)
      PROVE  Ends'
  <2>1. /\ UNCHANGED <<command_queue, nb_active_threads, main, sending, phase>> /\ At(t, "run")
        /\ pushing' = [pushing EXCEPT ![t] = <<AddRoutine(new, target)>>]
    BY <1>9 DEF StartRoutine, Pushes, engineVars
  <2>2. GoTo(t, "run")
    BY <2>1 DEF GoTo, At, TypeOK
  <2>3. AddRoutine(new, target) \in Commands /\ \A u \in Threads : AddRoutine(new, target) # NotifyEnd(u)
    BY SMTT(30), Kinds
  <2>. QED
    BY <1>8, <2>1, <2>2, <2>3
<1>10. ASSUME NEW t \in Threads, PassEnds(t) PROVE Ends'
  <2>1. UNCHANGED <<command_queue, nb_active_threads, main, sending>> /\ At(t, "run")
    BY <1>10 DEF PassEnds, engineVars
  <2>2. CASE GoTo(t, "left") /\ Pushes(t, NotifyEnd(t))
    <3>1. NotifyEnd(t) \in Commands /\ \A u \in Threads : NotifyEnd(t) = NotifyEnd(u) => u = t
      BY SMTT(30), Kinds
    <3>2. pushing' = [pushing EXCEPT ![t] = <<NotifyEnd(t)>>] /\ pushing' # pushing
      BY SMTT(30), <2>1, <2>2 DEF Pushes, At, TypeOK
    <3>. QED
      BY <1>8, <2>1, <2>2, <3>1, <3>2
  <2>3. CASE GoTo(t, "wait") /\ Pushes(t, NotifyIdle(t))
    <3>1. NotifyIdle(t) \in Commands /\ \A u \in Threads : NotifyIdle(t) # NotifyEnd(u)
      BY Kinds
    <3>2. pushing' = [pushing EXCEPT ![t] = <<NotifyIdle(t)>>]
      BY <2>3 DEF Pushes
    <3>. QED
      BY <1>8, <2>1, <2>3, <3>1, <3>2
  <2>4. CASE pushing' = pushing /\ (GoTo(t, "wait") \/ GoTo(t, "poll"))
    <3>1. NotifyIdle(t) \in Commands
      BY Kinds
    <3>. QED
      BY <1>8, <2>1, <2>4, <3>1
  <2>. QED
    BY <1>10, <2>2, <2>3, <2>4 DEF PassEnds
<1>11. CASE UNCHANGED vars
  <2>1. UNCHANGED <<pushing, command_queue, nb_active_threads, phase, main, sending>>
    BY <1>11 DEF vars, engineVars, threadVars
  <2>. QED
    BY <1>a, <2>1 DEF Ends, Stopping
<1>. QED
  BY <1>1, <1>2, <1>3, <1>4, <1>5, <1>6, <1>7, <1>9, <1>10, <1>11
  DEF Next, EngineStep, ThreadStep, Start, StartExplicit
-----------------------------------------------------------------------------
(***************************************************************************)
(* What a thread leaves behind.                                            *)
(***************************************************************************)

\* A thread leaves its loop with nothing to do, and nothing comes after.
LEMMA LeftStep == TypeOK /\ Balance /\ Closing /\ LeftEmpty /\ [Next]_vars => LeftEmpty'
<1> SUFFICES ASSUME TypeOK, Balance, Closing, LeftEmpty, [Next]_vars PROVE LeftEmpty'
  OBVIOUS
<1>a. ASSUME UNCHANGED <<phase, status, resident, engine_queue>>, nested => nested'
      PROVE  LeftEmpty'
  BY <1>a DEF LeftEmpty, QueuedTo
<1>b. ASSUME NEW t \in Threads, phase[t] # "left", phase'[t] # "left",
             \A u \in Threads \ {t} : /\ phase'[u] = phase[u] /\ status'[u] = status[u]
                                      /\ resident'[u] = resident[u]
                                      /\ engine_queue'[u] = engine_queue[u],
             nested' = nested
      PROVE  LeftEmpty'
  BY <1>b DEF LeftEmpty, QueuedTo
<1>1. CASE PushWrites
  <2>1. PICK u \in Threads, c \in ThreadCommands :
          u = sending[1].to /\ c = sending[1].command /\ sending # <<>>
    BY <1>1, Typed DEF PushWrites
  <2>2. /\ engine_queue' = [engine_queue EXCEPT ![u] = Append(@, c)]
        /\ UNCHANGED <<phase, status, resident, nested>>
    BY <1>1, <2>1 DEF PushWrites, threadVars
  <2>3. engine_queue'[u] = Append(engine_queue[u], c) /\ engine_queue[u] \in Seq(ThreadCommands)
    BY <2>1, <2>2 DEF TypeOK
  <2>4. \A r \in Routines : QueuedTo(u, Schedule(r))' <=> QueuedTo(u, Schedule(r)) \/ c = Schedule(r)
    BY SMTT(30), <2>3, Appended DEF QueuedTo
  <2>5. \A t \in Threads \ {u}, r \in Routines : QueuedTo(t, Schedule(r))' <=> QueuedTo(t, Schedule(r))
    BY <2>2 DEF QueuedTo, TypeOK
  <2>6. phase[u] = "left" /\ ~nested => \A r \in Routines : c # Schedule(r)
    <3> SUFFICES ASSUME phase[u] = "left", ~nested PROVE \A r \in Routines : c # Schedule(r)
      OBVIOUS
    <3>1. Finishes(engine_queue[u]) \in Nat /\ InFlight(u) \in Nat /\ Obeyed(u) = 1
      BY <2>3, FinishAppended DEF InFlight, Obeyed, LeftEmpty
    <3>2. Finishes(engine_queue[u]) + InFlight(u) + Obeyed(u) = Told(u)
      BY DEF Balance
    <3>3. sent_end_request[u]
      BY SMTT(30), <3>1, <3>2 DEF Told
    <3>4. Closed
      BY <3>3 DEF Closing
    <3>. QED
      BY <2>1, <3>4 DEF Closed, Sends
  <2>. QED
    BY <2>2, <2>4, <2>5, <2>6 DEF LeftEmpty
<1>2. CASE \/ PushCounts \/ ExecuteAdd \/ ExecuteIdle \/ ExecuteEnd
           \/ Check \/ SendFinish \/ Wake \/ Return
  BY <1>a, <1>2 DEF PushCounts, ExecuteAdd, ExecuteIdle, ExecuteEnd, Executes, Check,
                    SendFinish,
    Wake, Return, threadVars
<1>3. ASSUME NEW t \in Threads, WriteCommand(t) PROVE LeftEmpty'
  BY <1>a, <1>3 DEF WriteCommand
<1>4. ASSUME NEW t \in Threads, WaitReturns(t) \/ HandleReturns(t) PROVE LeftEmpty'
  BY <1>b, <1>4 DEF WaitReturns, HandleReturns, At, GoTo, TypeOK
<1>5. ASSUME NEW t \in Threads, HandleCommand(t) PROVE LeftEmpty'
  <2>1. phase[t] = "handle" /\ UNCHANGED <<phase, nested>>
        /\ engine_queue' = [engine_queue EXCEPT ![t] = Tail(@)]
    BY <1>5 DEF HandleCommand, At
  <2>2. \A u \in Threads \ {t} : resident'[u] = resident[u] /\ status'[u] = status[u]
    BY <1>5, Handled DEF TypeOK
  <2>3. \A u \in Threads \ {t} : engine_queue'[u] = engine_queue[u]
    BY <2>1 DEF TypeOK
  <2>. QED
    BY <1>b, <2>1, <2>2, <2>3
<1>6. ASSUME NEW t \in Threads, NEW r \in Routines, FinishRoutine(t, r) PROVE LeftEmpty'
  <2>1. /\ phase[t] = "run" /\ UNCHANGED <<phase, status, engine_queue, nested>>
        /\ resident' = [resident EXCEPT ![t] = @ \ {r}]
    BY <1>6 DEF FinishRoutine, At
  <2>2. \A u \in Threads \ {t} : resident'[u] = resident[u]
    BY <2>1 DEF TypeOK
  <2>. QED
    BY <1>b, <2>1, <2>2
<1>7. ASSUME NEW t \in Threads, NEW r \in Routines, NEW new \in Routines,
             NEW target \in Threads \union {Anywhere}, StartRoutine(t, r, new, target)
      PROVE  LeftEmpty'
  BY <1>a, <1>7 DEF StartRoutine
<1>8. ASSUME NEW t \in Threads, PassEnds(t) PROVE LeftEmpty'
  <2>1. /\ UNCHANGED <<resident, engine_queue, nested>> /\ phase[t] = "run"
        /\ \A u \in Threads \ {t} : phase'[u] = phase[u] /\ status'[u] = status[u]
    BY <1>8 DEF PassEnds, At, GoTo, TypeOK
  <2>2. CASE phase'[t] # "left"
    BY <1>b, <2>1, <2>2
  <2>3. CASE resident[t] = {} /\ NbPending(t) = 0 /\ status'[t] = "finished"
    <3>1. \E k \in {0, 1} : NbPending(t) = Len(engine_queue[t]) + k
      BY DEF NbPending
    <3>2. Len(engine_queue[t]) \in Nat
      BY SMTT(30) DEF TypeOK
    <3>3. Len(engine_queue'[t]) = 0
      BY SMTT(30), <2>1, <2>3, <3>1, <3>2
    <3>4. \A c : ~QueuedTo(t, c)'
      BY SMTT(30), <3>3 DEF QueuedTo, In
    <3>5. status'[t] # "running" /\ resident'[t] = {}
      BY <2>1, <2>3
    <3>6. \A u \in Threads \ {t} : /\ phase'[u] = "left" => status'[u] # "running"
                                   /\ phase'[u] = "left" /\ ~nested' => resident'[u] = {}
                                   /\ phase'[u] = "left" /\ ~nested' =>
                                        \A r \in Routines : ~QueuedTo(u, Schedule(r))'
      BY <2>1 DEF LeftEmpty, QueuedTo
    <3>7. \A u \in Threads : u = t \/ u \in Threads \ {t}
      OBVIOUS
    <3>. QED
      BY <3>4, <3>5, <3>6, <3>7 DEF LeftEmpty
  <2>4. phase'[t] # "left" \/ (resident[t] = {} /\ NbPending(t) = 0 /\ status'[t] = "finished")
    BY <1>8 DEF PassEnds, GoTo, TypeOK
  <2>. QED
    BY <2>2, <2>3, <2>4
<1>9. CASE UNCHANGED vars
  BY <1>a, <1>9 DEF vars, threadVars
<1>. QED
  BY <1>1, <1>2, <1>3, <1>4, <1>5, <1>6, <1>7, <1>8, <1>9
  DEF Next, EngineStep, ThreadStep, Start, StartExplicit
-----------------------------------------------------------------------------
(***************************************************************************)
(* No routine is lost on its way.                                          *)
(***************************************************************************)

\* A routine that was started is in a queue, in a push or on a thread.
LEMMA PlacedStep == TypeOK /\ Placed /\ [Next]_vars => Placed'
<1> SUFFICES ASSUME TypeOK, Placed, [Next]_vars, NEW r \in Routines, life'[r] = "started"
             PROVE  Somewhere(r)'
  BY DEF Placed
<1> DEFINE Targets == Threads \union {Anywhere}
<1>1. ASSUME UNCHANGED <<command_queue, pushing, sending, engine_queue, resident, life>>
      PROVE  Somewhere(r)'
  BY <1>1 DEF Placed, Somewhere, Queued, QueuedTo, Sends
<1>2. CASE PushCounts
  <2>1. sending' = <<Push(sending[1].to, sending[1].command, TRUE)>> /\ sending # <<>>
    BY <1>2 DEF PushCounts
  <2>2. Sends(Schedule(r))' <=> Sends(Schedule(r))
    BY <2>1 DEF Sends, Push
  <2>3. UNCHANGED <<command_queue, pushing, engine_queue, resident, life>>
    BY <1>2 DEF PushCounts, threadVars
  <2>. QED
    BY <2>2, <2>3 DEF Placed, Somewhere, Queued, QueuedTo
<1>3. CASE PushWrites
  <2>1. PICK u \in Threads, c \in ThreadCommands : u = sending[1].to /\ c = sending[1].command
    BY <1>3, Typed DEF PushWrites
  <2>2. /\ engine_queue' = [engine_queue EXCEPT ![u] = Append(@, c)]
        /\ UNCHANGED <<command_queue, pushing, resident, life>>
    BY <1>3, <2>1 DEF PushWrites, threadVars
  <2>3. Sends(Schedule(r)) => c = Schedule(r)
    BY <2>1 DEF Sends
  <2>4. QueuedTo(u, Schedule(r))' <=> QueuedTo(u, Schedule(r)) \/ c = Schedule(r)
    <3>1. engine_queue'[u] = Append(engine_queue[u], c) /\ engine_queue[u] \in Seq(ThreadCommands)
      BY <2>1, <2>2 DEF TypeOK
    <3>. QED
      BY SMTT(30), <2>1, <3>1, Appended DEF QueuedTo
  <2>5. \A t \in Threads \ {u} : QueuedTo(t, Schedule(r))' <=> QueuedTo(t, Schedule(r))
    BY <2>2 DEF QueuedTo, TypeOK
  <2>6. Somewhere(r)
    BY <2>2 DEF Placed
  <2>7. \A target \in Targets : Queued(AddRoutine(r, target))' <=> Queued(AddRoutine(r, target))
    BY <2>2 DEF Queued
  <2>. QED
    BY <2>1, <2>2, <2>3, <2>4, <2>5, <2>6, <2>7 DEF Somewhere
<1>4. CASE ExecuteAdd
  <2>1. /\ sending = <<>> /\ UNCHANGED <<pushing, engine_queue, resident, life>>
        /\ command_queue # <<>> /\ command_queue' = Tail(command_queue)
        /\ command_queue \in Seq(Commands)
    BY <1>4, Executed DEF ExecuteAdd, Executes, threadVars, TypeOK
  <2>2. PICK s \in Routines, target \in Targets, t \in Threads :
          Head(command_queue) = AddRoutine(s, target) /\ sending' = <<Push(t, Schedule(s), FALSE)>>
    BY <1>4, Placing
  <2>3. Sends(Schedule(s))'
    BY <2>2 DEF Sends, Push
  <2>4. \A a \in Targets : Queued(AddRoutine(r, a)) => Queued(AddRoutine(r, a))' \/ r = s
    <3>1. \A a \in Targets : AddRoutine(r, a) = AddRoutine(s, target) => r = s
      BY SMTT(30), Kinds
    <3>. QED
      BY <2>1, <2>2, <3>1, Taken DEF Queued
  <2>5. \A u \in Threads : QueuedTo(u, Schedule(r))' <=> QueuedTo(u, Schedule(r))
    BY <2>1 DEF QueuedTo
  <2>6. Somewhere(r) /\ ~Sends(Schedule(r))
    BY <2>1 DEF Placed, Sends
  <2>. QED
    BY <2>1, <2>3, <2>4, <2>5, <2>6 DEF Somewhere
<1>5. CASE ExecuteIdle \/ ExecuteEnd
  <2>1. /\ UNCHANGED <<pushing, engine_queue, resident, life, sending>>
        /\ command_queue # <<>> /\ command_queue' = Tail(command_queue)
        /\ command_queue \in Seq(Commands)
    BY <1>5, Executed DEF ExecuteIdle, ExecuteEnd, Executes, threadVars, TypeOK
  <2>2. Head(command_queue).type # "add_routine"
    BY <1>5 DEF ExecuteIdle, ExecuteEnd, Executes
  <2>3. \A target \in Targets : Queued(AddRoutine(r, target))' <=> Queued(AddRoutine(r, target))
    BY SMTT(30), <2>1, <2>2, Taken, Kinds DEF Queued
  <2>4. Somewhere(r)
    BY <2>1 DEF Placed
  <2>. QED
    BY <2>1, <2>3, <2>4 DEF Somewhere, Sends, QueuedTo
<1>6. CASE Check \/ Wake \/ Return
  BY <1>1, <1>6 DEF Check, Wake, Return, threadVars
<1>7. CASE SendFinish
  <2>1. sending = <<>> /\ UNCHANGED <<command_queue, pushing, engine_queue, resident, life>>
    BY <1>7 DEF SendFinish, threadVars
  <2>2. Somewhere(r) /\ ~Sends(Schedule(r))
    BY <2>1 DEF Placed, Sends
  <2>. QED
    BY <2>1, <2>2 DEF Somewhere, Queued, QueuedTo
<1>8. ASSUME NEW t \in Threads, WriteCommand(t) PROVE Somewhere(r)'
  <2> DEFINE c == pushing[t][1]
  <2>1. /\ UNCHANGED <<sending, engine_queue, resident, life>>
        /\ command_queue' = Append(command_queue, c)
        /\ pushing' = [pushing EXCEPT ![t] = <<>>] /\ pushing[t] # <<>>
    BY <1>8 DEF WriteCommand
  <2>2. c \in Commands /\ pushing[t] = <<c>> /\ command_queue \in Seq(Commands)
    BY <2>1, Typed DEF TypeOK
  <2>3. \A u \in Threads \ {t} : pushing'[u] = pushing[u]
    BY <2>1 DEF TypeOK
  <2> HIDE DEF c
  <2>4. \A d : Queued(d)' <=> Queued(d) \/ d = c
    BY <2>1, <2>2, Appended DEF Queued
  <2>5. \A target \in Targets : pushing[t] = <<AddRoutine(r, target)>> => Queued(AddRoutine(r, target))'
    BY SMTT(30), <2>2, <2>4
  <2>6. Somewhere(r)
    BY <2>1 DEF Placed
  <2>7. \/ \E target \in Targets : Queued(AddRoutine(r, target))'
        \/ \E u \in Threads \ {t}, target \in Targets : pushing[u] = <<AddRoutine(r, target)>>
        \/ Sends(Schedule(r))
        \/ \E u \in Threads : QueuedTo(u, Schedule(r)) \/ r \in resident[u]
    BY <2>4, <2>5, <2>6 DEF Somewhere
  <2>. QED
    BY <2>1, <2>3, <2>7 DEF Somewhere, Sends, QueuedTo
<1>9. ASSUME NEW t \in Threads, WaitReturns(t) \/ HandleReturns(t) PROVE Somewhere(r)'
  BY <1>1, <1>9 DEF WaitReturns, HandleReturns
<1>10. ASSUME NEW t \in Threads, HandleCommand(t) PROVE Somewhere(r)'
  <2>1. /\ engine_queue[t] \in Seq(ThreadCommands) /\ engine_queue[t] # <<>>
        /\ engine_queue' = [engine_queue EXCEPT ![t] = Tail(@)]
        /\ UNCHANGED <<command_queue, pushing, sending, life>>
    BY <1>10 DEF HandleCommand, TypeOK
  <2>2. /\ \A u \in Threads : resident[u] \subseteq resident'[u]
        /\ Head(engine_queue[t]) = Schedule(r) => r \in resident'[t]
    <3>1. CASE Head(engine_queue[t]) = Finish /\ resident' = resident
      BY <3>1, ThreadKinds
    <3>2. ASSUME NEW s \in Routines, Head(engine_queue[t]) = Schedule(s),
                 resident' = [resident EXCEPT ![t] = @ \union {s}]
          PROVE  /\ \A u \in Threads : resident[u] \subseteq resident'[u]
                 /\ Head(engine_queue[t]) = Schedule(r) => r \in resident'[t]
      <4>1. \A u \in Threads : resident'[u] = IF u = t THEN resident[t] \union {s} ELSE resident[u]
        BY <3>2 DEF TypeOK
      <4>2. Schedule(s) = Schedule(r) => s = r
        BY SMTT(30), ThreadKinds
      <4>. QED
        BY SMTT(30), <3>2, <4>1, <4>2
    <3>. QED
      BY <1>10, <3>1, <3>2, Handled
  <2>3. QueuedTo(t, Schedule(r)) => QueuedTo(t, Schedule(r))' \/ r \in resident'[t]
    <3>1. engine_queue'[t] = Tail(engine_queue[t])
      BY <2>1 DEF TypeOK
    <3>. QED
      BY SMTT(30), <2>1, <2>2, <3>1, Taken DEF QueuedTo
  <2>4. \A u \in Threads \ {t} : QueuedTo(u, Schedule(r)) => QueuedTo(u, Schedule(r))'
    BY <2>1 DEF QueuedTo, TypeOK
  <2>5. Somewhere(r)
    BY <2>1 DEF Placed
  <2>. QED
    BY <2>1, <2>2, <2>3, <2>4, <2>5 DEF Somewhere, Sends, Queued
<1>11. ASSUME NEW t \in Threads, NEW s \in Routines, FinishRoutine(t, s) PROVE Somewhere(r)'
  <2>1. /\ UNCHANGED <<command_queue, pushing, sending, engine_queue>>
        /\ resident' = [resident EXCEPT ![t] = @ \ {s}] /\ life' = [life EXCEPT ![s] = "finished"]
    BY <1>11 DEF FinishRoutine
  <2>2. r # s /\ life[r] = "started"
    BY <2>1 DEF TypeOK
  <2>3. \A u \in Threads : r \in resident[u] => r \in resident'[u]
    BY <2>1, <2>2 DEF TypeOK
  <2>4. Somewhere(r)
    BY <2>2 DEF Placed
  <2>. QED
    BY <2>1, <2>3, <2>4 DEF Somewhere, Sends, Queued, QueuedTo
<1>12. ASSUME NEW t \in Threads, NEW c, pushing[t] = <<>>,
              pushing' = pushing \/ pushing' = [pushing EXCEPT ![t] = <<c>>],
              UNCHANGED <<command_queue, sending, engine_queue, resident>>, life[r] = "started"
       PROVE  Somewhere(r)'
  <2>1. \A u \in Threads : pushing[u] # <<>> => pushing'[u] = pushing[u]
    BY <1>12 DEF TypeOK
  <2>2. \A u \in Threads, target \in Targets :
          pushing[u] = <<AddRoutine(r, target)>> => pushing'[u] = <<AddRoutine(r, target)>>
    <3>1. \A d : <<d>> # <<>>
      OBVIOUS
    <3>. QED
      BY <2>1, <3>1
  <2>3. Somewhere(r)
    BY <1>12 DEF Placed
  <2>. QED
    BY <1>12, <2>2, <2>3 DEF Somewhere, Sends, Queued, QueuedTo
<1>13. ASSUME NEW t \in Threads, NEW s \in Routines, NEW new \in Routines,
              NEW target \in Targets, StartRoutine(t, s, new, target)
       PROVE  Somewhere(r)'
  <2>1. /\ UNCHANGED <<command_queue, sending, engine_queue, resident>> /\ pushing[t] = <<>>
        /\ pushing' = [pushing EXCEPT ![t] = <<AddRoutine(new, target)>>]
        /\ life' = [life EXCEPT ![new] = "started"]
    BY <1>13 DEF StartRoutine, Pushes, At
  <2>2. CASE r = new
    <3>1. pushing'[t] = <<AddRoutine(r, target)>>
      BY <2>1, <2>2 DEF TypeOK
    <3>. QED
      BY <3>1 DEF Somewhere
  <2>3. CASE r # new
    <3>1. life[r] = "started"
      BY <2>1, <2>3 DEF TypeOK
    <3>. QED
      BY <1>12, <2>1, <3>1
  <2>. QED
    BY <2>2, <2>3
<1>14. ASSUME NEW t \in Threads, PassEnds(t) PROVE Somewhere(r)'
  <2>1. /\ UNCHANGED <<command_queue, sending, engine_queue, resident, life>> /\ pushing[t] = <<>>
        /\ \/ pushing' = pushing
           \/ pushing' = [pushing EXCEPT ![t] = <<NotifyEnd(t)>>]
           \/ pushing' = [pushing EXCEPT ![t] = <<NotifyIdle(t)>>]
    BY <1>14 DEF PassEnds, Pushes, At
  <2>2. life[r] = "started"
    BY <2>1
  <2>. QED
    BY <1>12, <2>1, <2>2
<1>15. CASE UNCHANGED vars
  BY <1>1, <1>15 DEF vars, threadVars
<1>. QED
  BY SMTT(30), <1>2, <1>3, <1>4, <1>5, <1>6, <1>7, <1>8, <1>9, <1>10, <1>11, <1>13, <1>14, <1>15
  DEF Next, EngineStep, ThreadStep, Start, StartExplicit
-----------------------------------------------------------------------------
(***************************************************************************)
(* The theorems.                                                           *)
(***************************************************************************)
IInv == TypeOK /\ Asleep /\ Balance /\ Ends

\* The engine is built with run()'s routine in its queue and nothing else,
\* and every step keeps what the lemmas above say.
LEMMA Invariance == Spec => []IInv
<1>1. Init => IInv
  <2> SUFFICES ASSUME Init PROVE IInv
    OBVIOUS
  <2>a. /\ MainRoutine \in Routines /\ Len(Ring) \in Nat \ {0}
        /\ AddRoutine(MainRoutine, Anywhere) \in Commands
    BY SMTT(30), EngineAssumption, Kinds
  <2>b. /\ command_queue = <<AddRoutine(MainRoutine, Anywhere)>> /\ main = "execute"
        /\ sending = <<>> /\ nb_active_threads = Len(Ring)
        /\ life[MainRoutine] = "started" /\ \A r \in Routines : life[r] = "started" => r = MainRoutine
        /\ \A t \in Threads : /\ phase[t] = "wait" /\ ~kicked[t] /\ pushing[t] = <<>>
                              /\ engine_queue[t] = <<>> /\ resident[t] = {}
                              /\ status[t] = "running" /\ ~sent_end_request[t]
    BY <2>a DEF Init, EngineInit, ThreadsInit
  <2>c. \A d : Queued(d) <=> d = AddRoutine(MainRoutine, Anywhere)
    BY SMTT(30), <2>b DEF Queued, In
  <2>1. TypeOK
    <3>1. main \in {"execute", "finish", "wait", "done"} /\ command_queue \in Seq(Commands)
      BY SMTT(30), <2>a, <2>b
    <3>2. kicked \in [Threads -> BOOLEAN] /\ sent_end_request \in [Threads -> BOOLEAN]
          /\ nested \in BOOLEAN
      BY DEF Init, EngineInit, ThreadsInit
    <3>3. /\ nb_routines \in [Threads -> Nat] /\ nb_active_threads \in Int
          /\ next_thread \in 0 .. Len(Ring) - 1 /\ view \in 1 .. Len(Ring) + 1
      BY SMTT(30), <2>a DEF Init, EngineInit
    <3>4. /\ engine_queue \in [Threads -> Seq(ThreadCommands)]
          /\ resident \in [Threads -> SUBSET Routines]
          /\ status \in [Threads -> {"running", "finishing", "finished"}]
          /\ phase \in [Threads -> {"wait", "poll", "handle", "run", "left"}]
          /\ pushing \in [Threads -> {<<>>} \union {<<c>> : c \in Commands}]
      BY SMTT(30) DEF Init, ThreadsInit
    <3>5. life \in [Routines -> {"unborn", "started", "finished"}]
      BY DEF Init
    <3>. QED
      BY <2>b, <3>1, <3>2, <3>3, <3>4, <3>5 DEF TypeOK
  <2>2. Asleep
    BY <2>b DEF Asleep
  <2>3. Balance
    <3>1. Finishes(<<>>) = 0
      BY SMTT(30), FS_EmptySet DEF Finishes
    <3>. QED
      BY SMTT(30), <2>b, <3>1 DEF Balance, InFlight, Obeyed, Told
  <2>4. Ends
    <3>1. \A t \in Threads : ~Queued(NotifyEnd(t))
      BY SMTT(30), <2>a, <2>c, Kinds
    <3>2. Farewells
      <4>1. \A t \in Threads : AtMostOnce(NotifyEnd(t), command_queue)
        BY SMTT(30), <2>b DEF AtMostOnce
      <4>2. \A t, u \in Threads : pushing[t] # <<NotifyEnd(u)>>
        BY SMTT(30), <2>b
      <4>. QED
        BY <2>b, <3>1, <4>1, <4>2 DEF Farewells
    <3>3. Threads \ Gone = Threads
      BY <2>b DEF Gone
    <3>4. Counted
      BY <2>b, <3>3, RingSize DEF Counted
    <3>. QED
      BY <2>b, <3>2, <3>4 DEF Ends, Stopping
  <2>. QED
    BY <2>1, <2>2, <2>3, <2>4 DEF IInv
<1>2. IInv /\ [Next]_vars => IInv'
  BY TypeStep, AsleepStep, BalanceStep, EndsStep DEF IInv
<1>. QED
  BY <1>1, <1>2, PTL DEF Spec

\* No command written to a thread is forgotten between the handling of its
\* commands and the end of its pass: thread::loop sleeps on an empty queue.
THEOREM NoCommandIsForgotten == Spec => []NoForgottenCommand
<1>1. IInv => NoForgottenCommand
  BY DEF IInv, Asleep, NoForgottenCommand, At
<1>. QED
  BY <1>1, Invariance, PTL

\* wait_all_routines sends finish at most once to each thread, and a thread
\* that leaves its loop was told to.
THEOREM FinishIsSentOnce == Spec => []OneFinishPerThread
<1>1. IInv => OneFinishPerThread
  <2> SUFFICES ASSUME IInv, NEW t \in Threads
               PROVE  Finishes(engine_queue[t])
                        + Cardinality({i \in 1 .. Len(sending) : sending[i].to = t
                                                                 /\ sending[i].command = Finish})
                        + Obeyed(t) = Told(t)
    BY DEF OneFinishPerThread, Finishes, Obeyed, Told
  <2> DEFINE F == {i \in 1 .. Len(sending) : sending[i].to = t /\ sending[i].command = Finish}
  <2>1. sending = <<>> \/ sending = <<sending[1]>>
    BY Typed DEF IInv
  <2>2. F = IF sending # <<>> /\ sending[1].to = t /\ sending[1].command = Finish THEN {1} ELSE {}
    <3>1. CASE sending = <<>>
      BY SMTT(30), <3>1
    <3>2. CASE sending # <<>>
      <4>1. Len(sending) = 1
        BY SMTT(30), <2>1, <3>2
      <4>. QED
        BY SMTT(30), <3>2, <4>1
    <3>. QED
      BY <3>1, <3>2
  <2>3. Cardinality({}) = 0 /\ Cardinality({1}) = 1
    BY FS_EmptySet, FS_Singleton
  <2>4. Cardinality(F) = InFlight(t)
    BY <2>2, <2>3 DEF InFlight
  <2>. QED
    BY <2>4 DEF IInv, Balance
<1>. QED
  BY <1>1, Invariance, PTL

\* When run() returns, every thread has left its loop, and no command for the
\* engine is written or being written: the engine can be destroyed.
THEOREM EngineIsDrained == Spec => []EngineDrained
<1>1. IInv => EngineDrained
  <2> SUFFICES ASSUME IInv, main = "done"
               PROVE  /\ \A t \in Threads : phase[t] = "left" /\ pushing[t] = <<>>
                      /\ command_queue = <<>>
    BY DEF EngineDrained
  <2>1. nb_active_threads = 0 /\ command_queue = <<>> /\ nb_active_threads = Cardinality(Threads \ Gone)
    BY DEF IInv, Ends, Stopping, Counted
  <2>2. IsFiniteSet(Threads \ Gone)
    BY RingSize, FS_Subset
  <2>3. Threads \ Gone = {}
    BY <2>1, <2>2, FS_EmptySet
  <2>. QED
    BY <2>1, <2>3 DEF Gone
<1>. QED
  BY <1>1, Invariance, PTL

\* What the argument for flat programs adds to the invariant.
FInv == Placed /\ MainPlaced /\ Closing /\ LeftEmpty

\* The first states satisfy what the lemmas above say, and every step keeps it.
LEMMA FlatInvariance == Spec => []FInv
<1>1. Init => FInv
  <2> SUFFICES ASSUME Init PROVE FInv
    OBVIOUS
  <2>a. /\ MainRoutine \in Routines /\ Len(Ring) \in Nat \ {0}
        /\ AddRoutine(MainRoutine, Anywhere) \in Commands
    BY SMTT(30), EngineAssumption, Kinds
  <2>b. /\ command_queue = <<AddRoutine(MainRoutine, Anywhere)>> /\ main = "execute"
        /\ sending = <<>> /\ nb_active_threads = Len(Ring)
        /\ life[MainRoutine] = "started" /\ \A r \in Routines : life[r] = "started" => r = MainRoutine
        /\ \A t \in Threads : /\ phase[t] = "wait" /\ ~kicked[t] /\ pushing[t] = <<>>
                              /\ engine_queue[t] = <<>> /\ resident[t] = {}
                              /\ status[t] = "running" /\ ~sent_end_request[t]
    BY <2>a DEF Init, EngineInit, ThreadsInit
  <2>c. \A d : Queued(d) <=> d = AddRoutine(MainRoutine, Anywhere)
    BY SMTT(30), <2>b DEF Queued, In
  <2>1. Placed
    BY <2>b, <2>c DEF Placed, Somewhere
  <2>2. MainPlaced
    <3>1. Waiting
      BY <2>b DEF Waiting, Fresh
    <3>2. Unpushed
      <4>1. \A d : <<d>> # <<>>
        OBVIOUS
      <4>. QED
        BY <2>b, <4>1 DEF Unpushed
    <3>. QED
      BY <2>b, <3>1, <3>2 DEF MainPlaced
  <2>3. Closing
    BY <2>b DEF Closing
  <2>4. LeftEmpty
    BY <2>b DEF LeftEmpty
  <2>. QED
    BY <2>1, <2>2, <2>3, <2>4 DEF FInv
<1>2. IInv /\ FInv /\ [Next]_vars => FInv'
  BY PushersAreSeen, PlacedStep, MainStep, ClosingStep, LeftStep DEF IInv, FInv
<1>. QED
  BY <1>1, <1>2, Invariance, PTL DEF Spec

\* run() waits for every routine of a program in which only its routine starts
\* others, on any number of threads, wherever the routines are placed.
THEOREM FlatProgramsAreWaitedFor == Spec => []FlatRunWaitsForAll
<1>1. IInv /\ FInv => FlatRunWaitsForAll
  <2> SUFFICES ASSUME IInv, FInv, ~nested, main = "done", NEW r \in Routines, life[r] = "started"
               PROVE  FALSE
    BY DEF FlatRunWaitsForAll, RunWaitsForAll
  <2>1. /\ nb_active_threads = 0 /\ command_queue = <<>> /\ sending = <<>>
        /\ nb_active_threads = Cardinality(Threads \ Gone)
    BY DEF IInv, Ends, Stopping, Counted
  <2>2. IsFiniteSet(Threads \ Gone)
    BY RingSize, FS_Subset
  <2>3. Threads \ Gone = {}
    BY <2>1, <2>2, FS_EmptySet
  <2>4. \A t \in Threads : phase[t] = "left" /\ pushing[t] = <<>>
    BY <2>3 DEF Gone
  <2>5. \A t \in Threads : resident[t] = {} /\ ~QueuedTo(t, Schedule(r))
    BY <2>4 DEF FInv, LeftEmpty
  <2>6. \A c : ~Queued(c) /\ ~Sends(c)
    BY SMTT(30), <2>1 DEF Queued, Sends, In
  <2>7. \A c : \A t \in Threads : pushing[t] # <<c>>
    <3>1. \A c : <<c>> # <<>>
      OBVIOUS
    <3>. QED
      BY <2>4, <3>1
  <2>8. Somewhere(r)
    BY DEF FInv, Placed
  <2>. QED
    BY <2>5, <2>6, <2>7, <2>8 DEF Somewhere
<1>. QED
  BY <1>1, Invariance, FlatInvariance, PTL

=============================================================================

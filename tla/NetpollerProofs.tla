--------------------------- MODULE NetpollerProofs ---------------------------
(***************************************************************************)
(* What Netpoller promises for any routines, descriptors and calls, when   *)
(* it is the thread itself that closes the descriptors.                    *)
(***************************************************************************)
EXTENDS Netpoller, TLAPS

\* Leaves are proved by Zenon, unless they name another prover.
USE ZenonT(30)

\* No two routines wait for the same direction of a descriptor.
OneWaiterPerDirection ==
  \A r, s \in Routines : r # s =>
    \A c \in CallsOf(r), e \in CallsOf(s) : c.fd # e.fd \/ c.dir # e.dir

States == {"idle", "try", "once", "would_block", "waiting", "resumed"}
Codes == {"ok", "EAGAIN", "EBADF", "EINTR", "ETIMEDOUT", "throw"}

TypeOK ==
  /\ open \in [Fds -> BOOLEAN] /\ ready \in [Fds -> SUBSET Directions]
  /\ hungup \in [Fds -> SUBSET Directions] /\ signal \in BOOLEAN
  /\ interest \in [Fds -> BOOLEAN] /\ edge \in [Fds -> BOOLEAN]
  /\ registered \in [Fds -> BOOLEAN]
  /\ waiter \in [Fds -> [Directions -> Routines \cup {Disabled, Stale}]]
  /\ commands \in Seq(Fds)
  /\ found \in [Fds -> SUBSET Directions]
  /\ phase \in {"wait", "dispatch", "timers", "run"}
  /\ state \in [Routines -> States]
  /\ call \in [Routines -> Call] /\ \A r \in Routines : call[r] \in CallsOf(r)
  /\ rc \in [Routines -> Codes]
  /\ displaced \in SUBSET Routines
  /\ closing \in Fds \cup {None}

\* The turns of the thread: a routine that runs, or a close, excludes the
\* loop, and what epoll returned is dispatched before anything else happens.
Turns ==
  /\ closing # None => phase = "run" /\ Running = {} /\ ~registered[closing]
  /\ Running # {} => phase = "run"
  /\ phase # "dispatch" => \A fd \in Fds : found[fd] = {}

\* A command that is queued is going to be looked at: the loop is past its wait,
\* or the eventfd makes that wait return.
Woken == commands # <<>> => signal \/ phase = "dispatch"

\* NoLostEdge without the wake-up of the loop, which is that of Woken.
Covered ==
  \A r \in Routines \ displaced : state[r] = "waiting" =>
    LET fd == call[r].fd  d == call[r].dir IN
    /\ waiter[fd][d] = r
    /\ d \in ready[fd] => edge[fd] \/ d \in found[fd] \/ fd \in Queued
    /\ ~open[fd] => fd \in Queued

\* The part of the registrations: a waiting call is in the epoll set or in
\* reach of a queued close, and one about to register has seen the descriptor
\* open, and misses no edge if epoll watches it already.
Kept ==
  /\ \A r \in Routines \ displaced : state[r] = "waiting" => registered[call[r].fd] \/ call[r].fd \in Queued
  /\ \A r \in Routines : state[r] = "would_block" =>
       /\ open[call[r].fd]
       /\ call[r].dir \in ready[call[r].fd] => edge[call[r].fd] \/ ~registered[call[r].fd]

\* A routine is displaced while it waits, and then holds no registration; who
\* displaced it has a call for the same direction of the same descriptor.
OnlySharersAreDisplaced ==
  \A r \in displaced :
    /\ state[r] = "waiting"
    /\ \A fd \in Fds, d \in Directions : waiter[fd][d] # r
    /\ \E s \in Routines \ {r} : \E c \in CallsOf(s) : c.fd = call[r].fd /\ c.dir = call[r].dir

-----------------------------------------------------------------------------
\* What is queued after a close is appended, and after one is taken.
LEMMA QueuedAppend ==
  ASSUME commands \in Seq(Fds), NEW fd \in Fds, commands' = Append(commands, fd)
  PROVE  commands' \in Seq(Fds) /\ Queued' = Queued \cup {fd}
<1>1. Len(commands) \in Nat /\ Len(commands') = Len(commands) + 1 /\ commands' \in Seq(Fds)
      /\ DOMAIN commands = 1 .. Len(commands) /\ DOMAIN commands' = 1 .. Len(commands')
      /\ commands'[Len(commands) + 1] = fd
      /\ \A i \in 1 .. Len(commands) : commands'[i] = commands[i]
  BY SMTT(30)
<1>2. ASSUME NEW x \in Queued'  PROVE x \in Queued \cup {fd}
  BY SMTT(30), <1>1, <1>2 DEF Queued
<1>3. ASSUME NEW x \in Queued \cup {fd}  PROVE x \in Queued'
  BY SMTT(30), <1>1, <1>3 DEF Queued
<1> QED
  BY <1>1, <1>2, <1>3

LEMMA QueuedTail ==
  ASSUME commands \in Seq(Fds), commands # <<>>, commands' = Tail(commands)
  PROVE  /\ Head(commands) \in Fds /\ commands' \in Seq(Fds)
         /\ Head(commands) \in Queued
         /\ Queued' \subseteq Queued
         /\ Queued \subseteq Queued' \cup {Head(commands)}
<1>1. Len(commands) \in Nat \ {0} /\ Len(commands') = Len(commands) - 1
      /\ DOMAIN commands = 1 .. Len(commands) /\ DOMAIN commands' = 1 .. Len(commands')
      /\ commands[1] = Head(commands) /\ Head(commands) \in Fds /\ commands' \in Seq(Fds)
      /\ \A i \in 1 .. Len(commands') : commands'[i] = commands[i + 1]
  BY SMTT(30)
<1>2. Head(commands) \in Queued
  BY SMTT(30), <1>1 DEF Queued
<1>3. ASSUME NEW x \in Queued'  PROVE x \in Queued
  BY SMTT(30), <1>1, <1>3 DEF Queued
<1>4. ASSUME NEW x \in Queued, x # Head(commands)  PROVE x \in Queued'
  <2>1. PICK i \in 1 .. Len(commands) : commands[i] = x
    BY <1>1, <1>4 DEF Queued
  <2>2. i - 1 \in 1 .. Len(commands') /\ commands'[i - 1] = x
    BY SMTT(30), <1>1, <1>4, <2>1
  <2> QED
    BY <1>1, <2>2 DEF Queued
<1> QED
  BY <1>1, <1>2, <1>3, <1>4

LEMMA QueuedSame ==
  ASSUME UNCHANGED commands
  PROVE  Queued' = Queued
  BY DEF Queued

\* Every step keeps the types.
LEMMA TypeStep ==
  ASSUME TypeOK, [Next]_vars
  PROVE  TypeOK'
<1> USE NetpollerAssumption DEF kernel, poller, routine, bounds
<1>1. ASSUME NEW r \in Routines, Begin(r)  PROVE TypeOK'
  BY SMTT(30), <1>1 DEF Begin, TypeOK, States, Codes, Call, Directions
<1>2. ASSUME NEW r \in Routines, Try(r)  PROVE TypeOK'
  <2>1. call[r].fd \in Fds
    BY DEF TypeOK, Call
  <2>2. ready' \in [Fds -> SUBSET Directions]
    <3>1. ready \in [Fds -> SUBSET Directions] /\ ready[call[r].fd] \in SUBSET Directions
      BY <2>1 DEF TypeOK
    <3>2. \/ UNCHANGED ready
          \/ \E left \in SUBSET Directions : ready' = [ready EXCEPT ![call[r].fd] = left]
      BY <1>2, <3>1 DEF Try
    <3> QED
      BY <2>1, <3>1, <3>2
  <2>3. state' \in [Routines -> States] /\ rc' \in [Routines -> Codes]
    BY <1>2 DEF Try, Return, TypeOK, States, Codes
  <2> QED
    BY <1>2, <2>2, <2>3 DEF Try, TypeOK
<1>3. ASSUME NEW r \in Routines, Register(r)  PROVE TypeOK'
  <2>1. call[r].fd \in Fds /\ call[r].dir \in Directions
    BY DEF TypeOK, Call
  <2>2. CASE registered[call[r].fd] \/ open[call[r].fd]
    <3>1. waiter' = [waiter EXCEPT ![call[r].fd][call[r].dir] = r]
      BY <1>3, <2>2 DEF Register, RegisterFd
    <3>2. waiter' \in [Fds -> [Directions -> Routines \cup {Disabled, Stale}]]
      BY <2>1, <3>1 DEF TypeOK
    <3>3. /\ registered' \in [Fds -> BOOLEAN] /\ interest' \in [Fds -> BOOLEAN]
          /\ edge' \in [Fds -> BOOLEAN] /\ state' \in [Routines -> States] /\ UNCHANGED rc
          /\ displaced' \in SUBSET Routines
      BY <1>3, <2>1, <2>2 DEF Register, RegisterFd, TypeOK, States
    <3> QED
      BY <1>3, <3>2, <3>3 DEF Register, RegisterFd, TypeOK
  <2>3. CASE ~(registered[call[r].fd] \/ open[call[r].fd])
    BY <1>3, <2>3 DEF Register, RegisterFd, Return, TypeOK, States, Codes
  <2> QED
    BY <2>2, <2>3
<1>4. ASSUME NEW r \in Routines, Resume(r)  PROVE TypeOK'
  BY <1>4 DEF Resume, GoesOn, Return, TypeOK, States, Codes, Call, Directions
<1>5. ASSUME NEW r \in Routines, Expire(r)  PROVE TypeOK'
  BY SMTT(30), <1>5 DEF Expire, TypeOK, States, Codes, Call, Directions
<1>6. ASSUME NEW fd \in Fds, SignalClosed(fd)  PROVE TypeOK'
  BY <1>6, QueuedAppend DEF SignalClosed, Unregister, TypeOK, States, Codes, Call,
                                        Directions
<1>7. ASSUME NEW fd \in Fds, Open(fd)  PROVE TypeOK'
  BY <1>7 DEF Open, TypeOK, States, Codes, Call, Directions
<1>8. ASSUME SysClose  PROVE TypeOK'
  BY <1>8 DEF SysClose, TypeOK, States, Codes, Call, Directions
<1>9. ASSUME NEW fd \in Fds, NEW d \in Directions, BecomesReady(fd, d)  PROVE TypeOK'
  BY <1>9 DEF BecomesReady, TypeOK, States, Codes, Call, Directions
<1>10. ASSUME Wait  PROVE TypeOK'
  BY <1>10 DEF Wait, TypeOK, States, Codes, Call, Directions
<1>11. ASSUME Dispatched  PROVE TypeOK'
  BY <1>11 DEF Dispatched, TypeOK, States, Codes, Call, Directions
<1>12. ASSUME DispatchClosed  PROVE TypeOK'
  BY SMTT(30), <1>12, QueuedTail DEF DispatchClosed, Dispatch, TypeOK, States, Codes, Call, Directions
<1>13. ASSUME TimersFired  PROVE TypeOK'
  BY <1>13 DEF TimersFired, TypeOK, States, Codes, Call, Directions
<1>14. ASSUME PassEnds  PROVE TypeOK'
  BY <1>14 DEF PassEnds, TypeOK, States, Codes, Call, Directions
<1>15. ASSUME NEW fd \in Fds, DispatchEvent(fd)  PROVE TypeOK'
  BY SMTT(30), <1>15 DEF DispatchEvent, Dispatch, TypeOK, States, Codes, Call, Directions
<1>16. ASSUME UNCHANGED vars  PROVE TypeOK'
  BY <1>16 DEF vars, TypeOK, States, Codes, Call, Directions
<1>17. ASSUME NEW fd \in Fds, NEW d \in Directions, HangsUp(fd, d)
       PROVE  TypeOK'
  BY <1>17 DEF HangsUp, TypeOK, States, Codes, Call, Directions
<1>18. ASSUME WaitReturns  PROVE TypeOK'
  BY <1>18 DEF WaitReturns, TypeOK, States, Codes, Call, Directions
<1> QED
  BY <1>1, <1>2, <1>3, <1>4, <1>5, <1>6, <1>7, <1>8, <1>9, <1>10, <1>11, <1>12, <1>13,
     <1>14, <1>15, <1>16, <1>17, <1>18 DEF Next, Loop

\* Every step keeps the turns, and the netpoller's view of the epoll set.
LEMMA WatchStep ==
  ASSUME CloseHere, TypeOK, Turns, RegisteredIsWatched, [Next]_vars
  PROVE  Turns' /\ RegisteredIsWatched'
<1> USE NetpollerAssumption DEF kernel, poller, routine, bounds
<1>1. ASSUME NEW r \in Routines, Begin(r)  PROVE Turns' /\ RegisteredIsWatched'
  BY <1>1 DEF Begin, TypeOK, Turns, RegisteredIsWatched, Running, Free
<1>2. ASSUME NEW r \in Routines, Try(r)  PROVE Turns' /\ RegisteredIsWatched'
  BY <1>2 DEF Try, Return, TypeOK, Turns, RegisteredIsWatched, Running, Free
<1>3. ASSUME NEW r \in Routines, Register(r)  PROVE Turns' /\ RegisteredIsWatched'
  <2>1. CASE registered[call[r].fd] \/ open[call[r].fd]
    <3>1. ASSUME NEW fd \in Fds  PROVE registered'[fd] <=> interest'[fd]
      <4>1. CASE fd = call[r].fd
        <5>1. registered'[fd]
          BY <1>3, <2>1, <4>1 DEF Register, TypeOK
        <5>2. CASE registered[fd]
          <6>1. interest' = interest
            BY <1>3, <4>1, <5>2 DEF Register
          <6> QED
            BY <5>1, <5>2, <6>1 DEF RegisteredIsWatched
        <5>3. CASE ~registered[fd]
          <6>1. interest' = [interest EXCEPT ![fd] = TRUE]
            BY <1>3, <2>1, <4>1, <5>3 DEF Register, RegisterFd
          <6> QED
            BY <5>1, <6>1 DEF TypeOK
        <5> QED
          BY <5>2, <5>3
      <4>2. CASE fd # call[r].fd
        BY SMTT(30), <1>3, <2>1, <4>2 DEF Register, RegisterFd, TypeOK, RegisteredIsWatched
      <4> QED
        BY <4>1, <4>2
    <3>2. Turns'
      BY <1>3, <2>1 DEF Register, RegisterFd, Turns, TypeOK, Running, Free
    <3> QED
      BY <3>1, <3>2 DEF RegisteredIsWatched
  <2>2. CASE ~(registered[call[r].fd] \/ open[call[r].fd])
    BY SMTT(30), <1>3, <2>2 DEF Register, RegisterFd, Return, Turns, TypeOK, Running, Free,
                      RegisteredIsWatched
  <2> QED
    BY <2>1, <2>2
<1>4. ASSUME NEW r \in Routines, Resume(r)  PROVE Turns' /\ RegisteredIsWatched'
  BY <1>4 DEF Resume, GoesOn, Return, TypeOK, Turns, RegisteredIsWatched, Running, Free
<1>5. ASSUME NEW r \in Routines, Expire(r)  PROVE Turns' /\ RegisteredIsWatched'
  BY <1>5 DEF Expire, TypeOK, Turns, RegisteredIsWatched, Running, Free
<1>6. ASSUME NEW fd \in Fds, SignalClosed(fd)  PROVE Turns' /\ RegisteredIsWatched'
  BY <1>6 DEF SignalClosed, Unregister, TypeOK, Turns, RegisteredIsWatched,
                          Running, Free
<1>7. ASSUME NEW fd \in Fds, Open(fd)  PROVE Turns' /\ RegisteredIsWatched'
  BY <1>7 DEF Open, TypeOK, Turns, RegisteredIsWatched, Running, Free
<1>8. ASSUME SysClose  PROVE Turns' /\ RegisteredIsWatched'
  BY <1>8 DEF SysClose, TypeOK, Turns, RegisteredIsWatched, Running, Free
<1>9. ASSUME NEW fd \in Fds, NEW d \in Directions, BecomesReady(fd, d)
      PROVE  Turns' /\ RegisteredIsWatched'
  BY <1>9 DEF BecomesReady, TypeOK, Turns, RegisteredIsWatched, Running, Free
<1>10. ASSUME Wait  PROVE Turns' /\ RegisteredIsWatched'
  BY <1>10 DEF Wait, TypeOK, Turns, RegisteredIsWatched, Running, Free
<1>11. ASSUME Dispatched  PROVE Turns' /\ RegisteredIsWatched'
  BY <1>11 DEF Dispatched, TypeOK, Turns, RegisteredIsWatched, Running, Free
<1>12. ASSUME DispatchClosed  PROVE Turns' /\ RegisteredIsWatched'
  BY <1>12 DEF DispatchClosed, Dispatch, TypeOK, Turns, RegisteredIsWatched, Running, Free
<1>13. ASSUME TimersFired  PROVE Turns' /\ RegisteredIsWatched'
  BY <1>13 DEF TimersFired, TypeOK, Turns, RegisteredIsWatched, Running, Free
<1>14. ASSUME PassEnds  PROVE Turns' /\ RegisteredIsWatched'
  BY <1>14 DEF PassEnds, TypeOK, Turns, RegisteredIsWatched, Running, Free
<1>15. ASSUME NEW fd \in Fds, DispatchEvent(fd)  PROVE Turns' /\ RegisteredIsWatched'
  BY <1>15 DEF DispatchEvent, Dispatch, TypeOK, Turns, RegisteredIsWatched, Running, Free
<1>16. ASSUME UNCHANGED vars  PROVE Turns' /\ RegisteredIsWatched'
  BY <1>16 DEF vars, TypeOK, Turns, RegisteredIsWatched, Running, Free
<1>17. ASSUME NEW fd \in Fds, NEW d \in Directions, HangsUp(fd, d)
       PROVE  Turns' /\ RegisteredIsWatched'
  BY <1>17 DEF HangsUp, TypeOK, Turns, RegisteredIsWatched, Running, Free
<1>18. ASSUME WaitReturns  PROVE Turns' /\ RegisteredIsWatched'
  BY <1>18 DEF WaitReturns, TypeOK, Turns, RegisteredIsWatched, Running, Free
<1> QED
  BY <1>1, <1>2, <1>3, <1>4, <1>5, <1>6, <1>7, <1>8, <1>9, <1>10, <1>11, <1>12, <1>13,
     <1>14, <1>15, <1>16, <1>17, <1>18 DEF Next, Loop

\* Every step keeps the registrations and what they are to be told.
LEMMA KeptStep ==
  ASSUME CloseHere, TypeOK, Turns, RegisteredIsWatched, Kept, Covered,
         [Next]_vars
  PROVE  Kept' /\ Covered'
<1> USE NetpollerAssumption DEF kernel, poller, routine, bounds
<1>1. ASSUME NEW r \in Routines, Begin(r)  PROVE Kept' /\ Covered'
  <2>1. PICK c \in CallsOf(r) : call' = [call EXCEPT ![r] = c]
    BY <1>1 DEF Begin
  <2>2. /\ c.fd \in Fds /\ call'[r] = c /\ state'[r] = "try" /\ state[r] = "idle"
        /\ \A q \in Routines : q # r => call'[q] = call[q] /\ state'[q] = state[q]
    BY SMTT(30), <1>1, <2>1 DEF Begin, TypeOK, Call
  <2>3. /\ UNCHANGED <<open, ready, edge, registered, waiter, found, displaced>>
        /\ Queued' = Queued
    BY <1>1, QueuedSame DEF Begin
  <2>4. Kept'
    BY <2>2, <2>3 DEF Kept
  <2>5. Covered'
    BY SMTT(30), <2>2, <2>3 DEF Covered
  <2> QED
    BY <2>4, <2>5
<1>2. ASSUME NEW r \in Routines, Try(r)  PROVE Kept' /\ Covered'
  <2>1. /\ \A q \in Routines : q # r => state'[q] = state[q]
        /\ state'[r] \in {"idle", "would_block"}
        /\ state'[r] = "would_block" => /\ open[call[r].fd]
                                        /\ call[r].dir \notin ready'[call[r].fd]
    BY SMTT(30), <1>2 DEF Try, Unblocking, Return, TypeOK
  <2>2. \A fd \in Fds : ready'[fd] \subseteq ready[fd]
    BY SMTT(30), <1>2 DEF Try, TypeOK, Call
  <2>3. /\ UNCHANGED <<open, edge, registered, waiter, found, call, displaced>>
        /\ Queued' = Queued
    BY <1>2, QueuedSame DEF Try
  <2>4. \A q \in Routines : call[q].fd \in Fds
    BY DEF TypeOK, Call
  <2>5. Kept'
    BY <2>1, <2>2, <2>3, <2>4 DEF Kept
  <2>6. Covered'
    BY <2>1, <2>2, <2>3, <2>4 DEF Covered
  <2> QED
    BY <2>5, <2>6
<1>3. ASSUME NEW r \in Routines, Register(r)  PROVE Kept' /\ Covered'
  <2> DEFINE fd == call[r].fd  d == call[r].dir
  <2>1. /\ state[r] = "would_block" /\ fd \in Fds /\ d \in Directions
        /\ \A q \in Routines : call[q] \in CallsOf(q) /\ call[q].fd \in Fds /\ call[q].dir \in Directions
    BY <1>3 DEF Register, TypeOK, Call
  <2>2. CASE registered[fd] \/ open[fd]
    <3>1. /\ state'[r] = "waiting" /\ waiter'[fd][d] = r
          /\ \A q \in Routines : q # r => state'[q] = state[q]
          /\ \A x \in Fds, e \in Directions : x # fd \/ e # d => waiter'[x][e] = waiter[x][e]
      BY SMTT(30), <1>3, <2>1, <2>2 DEF Register, RegisterFd, TypeOK
    <3>2. /\ UNCHANGED <<open, ready, found, call>>
          /\ Queued' = Queued
          /\ registered' = [registered EXCEPT ![fd] = TRUE]
      BY <1>3, <2>2, QueuedSame DEF Register
    <3>3. /\ \A x \in Fds : x # fd => edge'[x] = edge[x] /\ registered'[x] = registered[x]
          /\ registered'[fd] /\ edge'[fd] = (edge[fd] \/ (~registered[fd] /\ Unblocking(fd) # {}))
      <4>1. CASE registered[fd]
        <5>1. edge' = edge
          BY <1>3, <4>1 DEF Register
        <5> QED
          BY <2>1, <3>2, <4>1, <5>1 DEF TypeOK
      <4>2. CASE ~registered[fd]
        <5>1. edge' = [edge EXCEPT ![fd] = edge[fd] \/ Unblocking(fd) # {}]
          BY <1>3, <2>2, <4>2 DEF Register, RegisterFd
        <5> QED
          BY <2>1, <3>2, <4>2, <5>1 DEF TypeOK
      <4> QED
        BY <4>1, <4>2
    <3>4. /\ displaced \subseteq displaced'
          /\ \A q \in Routines : waiter[fd][d] = q => q \in displaced'
      BY <1>3, <2>2 DEF Register
    <3>5. /\ \A x \in Fds : registered[x] => registered'[x]
          /\ \A x \in Fds : edge[x] => edge'[x]
          /\ \A x \in Fds : ~registered[x] /\ registered'[x] /\ ready[x] # {} => edge'[x]
      BY <3>3 DEF Unblocking
    <3>6. Kept'
      <4>1. ASSUME NEW q \in Routines \ displaced', state'[q] = "waiting"
            PROVE  registered'[call[q].fd] \/ call[q].fd \in Queued
        BY <2>1, <3>1, <3>3, <3>4, <3>5, <4>1 DEF Kept
      <4>2. ASSUME NEW q \in Routines, state'[q] = "would_block"
            PROVE  /\ open[call[q].fd]
                   /\ call[q].dir \in ready[call[q].fd] => edge'[call[q].fd] \/ ~registered'[call[q].fd]
        <5>1. state[q] = "would_block"
          BY <3>1, <4>2
        <5> QED
          BY <2>1, <3>5, <5>1 DEF Kept
      <4> QED
        BY <3>2, <4>1, <4>2 DEF Kept
    <3>7. Covered'
      <4>1. ASSUME NEW q \in Routines \ displaced', q # r, state'[q] = "waiting"
            PROVE  /\ waiter'[call[q].fd][call[q].dir] = q
                   /\ call[q].dir \in ready[call[q].fd] =>
                        \/ edge'[call[q].fd] \/ call[q].dir \in found[call[q].fd]
                        \/ call[q].fd \in Queued
                   /\ ~open[call[q].fd] => call[q].fd \in Queued
        BY SMTT(30), <2>1, <3>1, <3>4, <3>5, <4>1 DEF Covered
      <4>2. open[fd] /\ (d \in ready[fd] => edge'[fd])
        BY <2>1, <3>3, <3>5 DEF Kept
      <4> QED
        BY <3>1, <3>2, <4>1, <4>2 DEF Covered
    <3> QED
      BY <3>6, <3>7
  <2>3. CASE ~(registered[fd] \/ open[fd])
    BY <2>1, <2>3 DEF Kept
  <2> QED
    BY <2>2, <2>3
<1>4. ASSUME NEW r \in Routines, Resume(r)  PROVE Kept' /\ Covered'
  BY SMTT(30), <1>4, QueuedSame DEF Resume, GoesOn, Return, TypeOK, Turns, Kept, Covered,
     RegisteredIsWatched, Running, Free, Call
<1>5. ASSUME NEW r \in Routines, Expire(r)  PROVE Kept' /\ Covered'
  <2>1. \A q \in Routines : call[q] \in CallsOf(q) /\ call[q].fd \in Fds /\ call[q].dir \in Directions
    BY DEF TypeOK, Call
  <2>2. /\ state'[r] = "resumed" /\ \A q \in Routines : q # r => state'[q] = state[q]
        /\ \A x \in Fds, e \in Directions : waiter[x][e] # r => waiter'[x][e] = waiter[x][e]
        /\ UNCHANGED <<open, ready, edge, registered, found, call>>
        /\ displaced' = displaced \ {r}
        /\ Queued' = Queued
    BY SMTT(30), <1>5, <2>1, QueuedSame DEF Expire, TypeOK
  <2>3. Kept'
    BY <2>2 DEF Kept
  <2>4. Covered'
    BY SMTT(30), <2>1, <2>2 DEF Covered
  <2> QED
    BY <2>3, <2>4
<1>6. ASSUME NEW fd \in Fds, SignalClosed(fd)  PROVE Kept' /\ Covered'
  BY SMTT(30), <1>6, QueuedSame, QueuedAppend DEF SignalClosed, Unregister, TypeOK, Turns, Kept,
                                        Covered,
     RegisteredIsWatched, Running, Free, Call
<1>7. ASSUME NEW fd \in Fds, Open(fd)  PROVE Kept' /\ Covered'
  BY <1>7, QueuedSame DEF Open, TypeOK, Turns, Kept, Covered, RegisteredIsWatched,
     Running, Free, Call
<1>8. ASSUME SysClose  PROVE Kept' /\ Covered'
  BY SMTT(30), <1>8, QueuedSame DEF SysClose, TypeOK, Turns, Kept, Covered, RegisteredIsWatched,
     Running, Free, Call
<1>9. ASSUME NEW fd \in Fds, NEW d \in Directions, BecomesReady(fd, d)
      PROVE  Kept' /\ Covered'
  BY SMTT(30), <1>9, QueuedSame DEF BecomesReady, TypeOK, Turns, Kept, Covered,
     RegisteredIsWatched, Running, Free, Call
<1>10. ASSUME Wait  PROVE Kept' /\ Covered'
  BY <1>10, QueuedSame DEF Wait, Reports, Unblocking, TypeOK, Turns, Kept, Covered, RegisteredIsWatched,
     Running, Free, Call
<1>11. ASSUME Dispatched  PROVE Kept' /\ Covered'
  BY <1>11, QueuedSame DEF Dispatched, TypeOK, Turns, Kept, Covered, RegisteredIsWatched,
     Running, Free, Call
<1>12. ASSUME DispatchClosed  PROVE Kept' /\ Covered'
  BY SMTT(30), <1>12, QueuedTail DEF DispatchClosed, Dispatch, TypeOK, Turns, Kept, Covered,
     RegisteredIsWatched, Running, Free, Call
<1>13. ASSUME TimersFired  PROVE Kept' /\ Covered'
  BY <1>13, QueuedSame DEF TimersFired, TypeOK, Turns, Kept, Covered,
     RegisteredIsWatched, Running, Free, Call
<1>14. ASSUME PassEnds  PROVE Kept' /\ Covered'
  BY <1>14, QueuedSame DEF PassEnds, TypeOK, Turns, Kept, Covered, RegisteredIsWatched,
     Running, Free, Call
<1>15. ASSUME NEW fd \in Fds, DispatchEvent(fd)  PROVE Kept' /\ Covered'
  <2>1. /\ \A x \in Fds, d \in Directions : x # fd \/ d \notin found[fd] => waiter'[x][d] = waiter[x][d]
        /\ \A x \in Fds : x # fd => found'[x] = found[x]
    BY SMTT(30), <1>15 DEF DispatchEvent, Dispatch, TypeOK
  <2>2. \A q \in Routines : /\ state'[q] \in {state[q], "resumed"}
                           /\ \A d \in found[fd] : waiter[fd][d] = q => state'[q] = "resumed"
    BY SMTT(30), <1>15 DEF DispatchEvent, Dispatch
  <2>3. /\ UNCHANGED <<open, ready, edge, registered, call, displaced>>
        /\ Queued' = Queued
    BY <1>15, QueuedSame DEF DispatchEvent
  <2>4. \A q \in Routines : call[q].fd \in Fds /\ call[q].dir \in Directions
    BY DEF TypeOK, Call
  <2>5. Kept'
    BY <2>2, <2>3 DEF Kept
  <2>6. Covered'
    BY SMTT(30), <2>1, <2>2, <2>3, <2>4 DEF Covered
  <2> QED
    BY <2>5, <2>6
<1>16. ASSUME UNCHANGED vars  PROVE Kept' /\ Covered'
  BY <1>16, QueuedSame DEF vars, TypeOK, Turns, Kept, Covered, RegisteredIsWatched,
     Running, Free, Call
<1>17. ASSUME NEW fd \in Fds, NEW d \in Directions, HangsUp(fd, d)
       PROVE  Kept' /\ Covered'
  BY SMTT(30), <1>17, QueuedSame DEF HangsUp, TypeOK, Turns, Kept, Covered,
     RegisteredIsWatched, Running, Free, Call
<1>18. ASSUME WaitReturns  PROVE Kept' /\ Covered'
  BY <1>18, QueuedSame DEF WaitReturns, TypeOK, Turns, Kept, Covered,
     RegisteredIsWatched, Running, Free, Call
<1> QED
  BY <1>1, <1>2, <1>3, <1>4, <1>5, <1>6, <1>7, <1>8, <1>9, <1>10, <1>11, <1>12, <1>13,
     <1>14, <1>15, <1>16, <1>17, <1>18 DEF Next, Loop

\* Every step keeps the loop awake as long as a command is queued.
LEMMA WokenStep ==
  ASSUME CloseHere, TypeOK, Turns, Woken, [Next]_vars
  PROVE  Woken'
<1> USE DEF kernel, poller, routine, bounds, Woken
<1>1. ASSUME NEW r \in Routines, Begin(r) \/ Try(r) \/ Register(r) \/ Resume(r) \/ Expire(r)  PROVE Woken'
  BY <1>1 DEF Begin, Try, Register, RegisterFd, Resume, Expire
<1>2. ASSUME NEW fd \in Fds, SignalClosed(fd)  PROVE Woken'
  BY <1>2 DEF SignalClosed, Unregister
<1>3. ASSUME NEW fd \in Fds, Open(fd) \/ DispatchEvent(fd)  PROVE Woken'
  BY <1>3 DEF Open, DispatchEvent
<1>4. ASSUME SysClose \/ TimersFired \/ PassEnds \/ Dispatched \/ UNCHANGED vars  PROVE Woken'
  BY <1>4 DEF SysClose, TimersFired, PassEnds, Dispatched, vars
<1>5. ASSUME NEW fd \in Fds, NEW d \in Directions, BecomesReady(fd, d) \/ HangsUp(fd, d)  PROVE Woken'
  BY <1>5 DEF BecomesReady, HangsUp
<1>6. ASSUME Wait \/ WaitReturns \/ DispatchClosed  PROVE Woken'
  BY <1>6 DEF Wait, WaitReturns, DispatchClosed
<1> QED
  BY <1>1, <1>2, <1>3, <1>4, <1>5, <1>6 DEF Next, Loop

\* Every step keeps registrations with the calls that made them.
LEMMA CallStep ==
  ASSUME TypeOK, EventsFindTheirCall, [Next]_vars
  PROVE  EventsFindTheirCall'
<1> USE NetpollerAssumption DEF kernel, poller, routine, bounds
<1>1. ASSUME NEW r \in Routines, Begin(r)  PROVE EventsFindTheirCall'
  <2>1. /\ state[r] = "idle"
        /\ \A q \in Routines : q # r => call'[q] = call[q] /\ state'[q] = state[q]
        /\ UNCHANGED waiter
    BY SMTT(30), <1>1 DEF Begin, TypeOK
  <2> QED
    BY SMTT(30), <2>1 DEF EventsFindTheirCall
<1>2. ASSUME NEW r \in Routines, Try(r)  PROVE EventsFindTheirCall'
  BY SMTT(30), <1>2 DEF Try, Return, TypeOK, EventsFindTheirCall
<1>3. ASSUME NEW r \in Routines, Register(r)  PROVE EventsFindTheirCall'
  <2> DEFINE fd == call[r].fd  d == call[r].dir
  <2>1. state[r] = "would_block" /\ fd \in Fds /\ d \in Directions /\ UNCHANGED call
    BY <1>3 DEF Register, TypeOK, Call
  <2>2. CASE registered[fd] \/ open[fd]
    <3>1. /\ state'[r] = "waiting" /\ waiter'[fd][d] = r
          /\ \A q \in Routines : q # r => state'[q] = state[q]
          /\ \A x \in Fds, e \in Directions : x # fd \/ e # d => waiter'[x][e] = waiter[x][e]
      BY SMTT(30), <1>3, <2>1, <2>2 DEF Register, RegisterFd, TypeOK
    <3> QED
      BY SMTT(30), <2>1, <3>1 DEF EventsFindTheirCall
  <2>3. CASE ~(registered[fd] \/ open[fd])
    <3>1. /\ \A q \in Routines : q # r => state'[q] = state[q]
          /\ UNCHANGED waiter
      BY <1>3, <2>3 DEF Register, RegisterFd, Return, TypeOK
    <3> QED
      BY SMTT(30), <2>1, <3>1 DEF EventsFindTheirCall
  <2> QED
    BY <2>2, <2>3
<1>4. ASSUME NEW r \in Routines, Resume(r)  PROVE EventsFindTheirCall'
  <2>1. /\ state[r] = "resumed" /\ UNCHANGED <<call, waiter>>
        /\ \A q \in Routines : q # r => state'[q] = state[q]
    BY <1>4 DEF Resume, Return, TypeOK
  <2> QED
    BY SMTT(30), <2>1 DEF EventsFindTheirCall
<1>5. ASSUME NEW r \in Routines, Expire(r)  PROVE EventsFindTheirCall'
  <2>1. call[r].fd \in Fds /\ call[r].dir \in Directions /\ UNCHANGED call
    BY <1>5 DEF Expire, TypeOK, Call
  <2>2. /\ waiter'[call[r].fd][call[r].dir] # r
        /\ \A x \in Fds, e \in Directions : waiter'[x][e] \in {waiter[x][e], Stale}
        /\ \A x \in Fds, e \in Directions :
             x # call[r].fd \/ e # call[r].dir => waiter'[x][e] = waiter[x][e]
        /\ \A q \in Routines : q # r => state'[q] = state[q]
    BY SMTT(30), <1>5, <2>1 DEF Expire, TypeOK, Stale
  <2>3. Stale \notin Routines
    OBVIOUS
  <2> QED
    BY SMTT(30), <2>1, <2>2, <2>3 DEF EventsFindTheirCall
<1>6. ASSUME DispatchClosed  PROVE EventsFindTheirCall'
  <2> DEFINE fd == Head(commands)
  <2>1. fd \in Fds /\ UNCHANGED call
    BY <1>6, QueuedTail DEF DispatchClosed, TypeOK
  <2>2. /\ \A x \in Fds, d \in Directions : x # fd => waiter'[x][d] = waiter[x][d]
        /\ \A d \in Directions : waiter'[fd][d] = Disabled
    BY <1>6, <2>1 DEF DispatchClosed, Dispatch, TypeOK
  <2>3. \A q \in Routines : state'[q] = state[q] \/ \E d \in Directions : waiter[fd][d] = q
    BY SMTT(30), <1>6, <2>1 DEF DispatchClosed, Dispatch, TypeOK
  <2>4. Disabled \notin Routines
    OBVIOUS
  <2> HIDE DEF fd
  <2> QED
    BY SMTT(30), <2>1, <2>2, <2>3, <2>4 DEF EventsFindTheirCall
<1>7. ASSUME NEW fd \in Fds, DispatchEvent(fd)  PROVE EventsFindTheirCall'
  <2>1. /\ \A x \in Fds, d \in Directions : x # fd \/ d \notin found[fd] => waiter'[x][d] = waiter[x][d]
        /\ \A d \in found[fd] : d \in Directions /\ waiter'[fd][d] = Disabled
        /\ UNCHANGED call
    BY SMTT(30), <1>7 DEF DispatchEvent, Dispatch, TypeOK
  <2>2. \A q \in Routines : state'[q] = state[q] \/ \E d \in found[fd] : waiter[fd][d] = q
    BY SMTT(30), <1>7 DEF DispatchEvent, Dispatch, TypeOK
  <2>3. Disabled \notin Routines
    OBVIOUS
  <2> QED
    BY SMTT(30), <2>1, <2>2, <2>3 DEF EventsFindTheirCall
<1>8. ASSUME UNCHANGED <<waiter, state, call>>  PROVE EventsFindTheirCall'
  BY SMTT(30), <1>8 DEF EventsFindTheirCall
<1>9. ASSUME NEW fd \in Fds, SignalClosed(fd) \/ Open(fd)  PROVE EventsFindTheirCall'
  BY <1>8, <1>9 DEF SignalClosed, Open
<1>10. ASSUME NEW fd \in Fds, NEW d \in Directions, BecomesReady(fd, d) \/ HangsUp(fd, d)
       PROVE  EventsFindTheirCall'
  BY <1>8, <1>10 DEF BecomesReady, HangsUp
<1>11. ASSUME \/ SysClose \/ TimersFired \/ PassEnds \/ Dispatched \/ Wait \/ WaitReturns
              \/ UNCHANGED vars
       PROVE  EventsFindTheirCall'
  BY <1>8, <1>11 DEF SysClose, TimersFired, PassEnds, Dispatched, Wait, WaitReturns, vars
<1> QED
  BY <1>1, <1>2, <1>3, <1>4, <1>5, <1>6, <1>7, <1>9, <1>10, <1>11 DEF Next, Loop

\* Every step keeps the list of those that were displaced to what it says.
LEMMA DisplacedStep ==
  ASSUME TypeOK, EventsFindTheirCall, OnlySharersAreDisplaced, [Next]_vars
  PROVE  OnlySharersAreDisplaced'
<1> USE NetpollerAssumption DEF kernel, poller, routine, bounds
<1> DEFINE Shares(q) ==
      \E s \in Routines \ {q} : \E c \in CallsOf(s) : c.fd = call[q].fd /\ c.dir = call[q].dir
<1>1. ASSUME displaced' \subseteq displaced,
             \A q \in displaced' : /\ state'[q] = state[q] /\ call'[q] = call[q]
                                   /\ \A x \in Fds, e \in Directions : waiter'[x][e] # q
      PROVE  OnlySharersAreDisplaced'
  BY SMTT(30), <1>1 DEF OnlySharersAreDisplaced
<1>2. \A q \in displaced : /\ q \in Routines /\ state[q] = "waiting"
                           /\ \A x \in Fds, e \in Directions : waiter[x][e] # q
  BY DEF TypeOK, OnlySharersAreDisplaced
<1>3. ASSUME NEW r \in Routines, Begin(r) \/ Try(r) \/ Resume(r)  PROVE OnlySharersAreDisplaced'
  <2>1. /\ state[r] # "waiting" /\ UNCHANGED <<displaced, waiter>>
        /\ \A q \in Routines : q # r => state'[q] = state[q] /\ call'[q] = call[q]
    BY SMTT(30), <1>3 DEF Begin, Try, Resume, Return, TypeOK
  <2> QED
    BY <1>1, <1>2, <2>1
<1>4. ASSUME NEW r \in Routines, Register(r)  PROVE OnlySharersAreDisplaced'
  <2> DEFINE fd == call[r].fd  d == call[r].dir
  <2>1. /\ state[r] = "would_block" /\ fd \in Fds /\ d \in Directions /\ UNCHANGED call
        /\ call[r] \in CallsOf(r)
    BY <1>4 DEF Register, TypeOK, Call
  <2>2. r \notin displaced
    BY <1>2, <2>1
  <2>3. \A q \in Routines : q # r => state'[q] = state[q]
    BY <1>4 DEF Register, RegisterFd, Return, TypeOK
  <2>4. CASE registered[fd] \/ open[fd]
    <3>1. /\ waiter'[fd][d] = r
          /\ \A x \in Fds, e \in Directions : x # fd \/ e # d => waiter'[x][e] = waiter[x][e]
          /\ displaced' = displaced \cup ({waiter[fd][d]} \cap Routines)
      BY SMTT(30), <1>4, <2>1, <2>4 DEF Register, RegisterFd, TypeOK
    <3>2. ASSUME NEW q \in displaced'
          PROVE  /\ q \in Routines /\ q # r /\ state[q] = "waiting" /\ Shares(q)
                 /\ \A x \in Fds, e \in Directions : x # fd \/ e # d => waiter[x][e] # q
      <4>1. CASE q \in displaced
        BY <1>2, <2>2, <4>1 DEF OnlySharersAreDisplaced
      <4>2. CASE q \in Routines /\ waiter[fd][d] = q
        <5>1. state[q] = "waiting" /\ call[q].fd = fd /\ call[q].dir = d
          BY SMTT(30), <2>1, <4>2 DEF EventsFindTheirCall
        <5>2. q # r
          BY <2>1, <5>1
        <5>3. \A x \in Fds, e \in Directions : waiter[x][e] = q => x = fd /\ e = d
          BY SMTT(30), <4>2, <5>1 DEF EventsFindTheirCall
        <5> QED
          BY <2>1, <4>2, <5>1, <5>2, <5>3
      <4> QED
        BY <3>1, <3>2, <4>1, <4>2
    <3>3. ASSUME NEW q \in displaced'
          PROVE  /\ state'[q] = "waiting" /\ Shares(q)
                 /\ \A x \in Fds, e \in Directions : waiter'[x][e] # q
      BY SMTT(30), <2>3, <3>1, <3>2
    <3> QED
      BY <2>1, <3>3 DEF OnlySharersAreDisplaced
  <2>5. CASE ~(registered[fd] \/ open[fd])
    <3>1. UNCHANGED <<displaced, waiter>>
      BY <1>4, <2>5 DEF Register
    <3> QED
      BY <1>1, <1>2, <2>1, <2>2, <2>3, <3>1
  <2> QED
    BY <2>4, <2>5
<1>5. ASSUME NEW r \in Routines, Expire(r)  PROVE OnlySharersAreDisplaced'
  <2>1. /\ \A x \in Fds, e \in Directions : waiter'[x][e] \in {waiter[x][e], Stale}
        /\ \A q \in Routines : q # r => state'[q] = state[q]
        /\ displaced' = displaced \ {r} /\ UNCHANGED call /\ Stale \notin Routines
    BY SMTT(30), <1>5 DEF Expire, TypeOK, Call
  <2> QED
    BY <1>1, <1>2, <2>1
<1>6. ASSUME NEW fd \in Fds, UNCHANGED <<displaced, call>>,
             \A x \in Fds, e \in Directions : waiter'[x][e] \in {waiter[x][e], Disabled},
             \A q \in Routines : state'[q] = state[q] \/ \E e \in Directions : waiter[fd][e] = q
      PROVE  OnlySharersAreDisplaced'
  <2>1. Disabled \notin Routines
    OBVIOUS
  <2> QED
    BY SMTT(30), <1>1, <1>2, <1>6, <2>1
<1>7. ASSUME DispatchClosed  PROVE OnlySharersAreDisplaced'
  <2> DEFINE fd == Head(commands)
  <2>1. fd \in Fds /\ UNCHANGED <<displaced, call>>
    BY <1>7, QueuedTail DEF DispatchClosed, TypeOK
  <2>2. \A x \in Fds, e \in Directions : waiter'[x][e] \in {waiter[x][e], Disabled}
    BY SMTT(30), <1>7, <2>1 DEF DispatchClosed, Dispatch, TypeOK
  <2>3. \A q \in Routines : state'[q] = state[q] \/ \E e \in Directions : waiter[fd][e] = q
    BY SMTT(30), <1>7, <2>1 DEF DispatchClosed, Dispatch, TypeOK
  <2> QED
    BY <1>6, <2>1, <2>2, <2>3
<1>8. ASSUME NEW fd \in Fds, DispatchEvent(fd)  PROVE OnlySharersAreDisplaced'
  <2>1. \A x \in Fds, e \in Directions : waiter'[x][e] \in {waiter[x][e], Disabled}
    BY SMTT(30), <1>8 DEF DispatchEvent, Dispatch, TypeOK
  <2>2. \A q \in Routines : state'[q] = state[q] \/ \E e \in Directions : waiter[fd][e] = q
    BY SMTT(30), <1>8 DEF DispatchEvent, Dispatch, TypeOK
  <2>3. UNCHANGED <<displaced, call>>
    BY <1>8 DEF DispatchEvent
  <2> QED
    BY <1>6, <2>1, <2>2, <2>3
<1>9. ASSUME UNCHANGED <<waiter, state, call, displaced>>  PROVE OnlySharersAreDisplaced'
  BY <1>9 DEF OnlySharersAreDisplaced
<1>10. ASSUME NEW fd \in Fds, SignalClosed(fd) \/ Open(fd)  PROVE OnlySharersAreDisplaced'
  BY <1>9, <1>10 DEF SignalClosed, Open
<1>11. ASSUME NEW fd \in Fds, NEW d \in Directions, BecomesReady(fd, d) \/ HangsUp(fd, d)
       PROVE  OnlySharersAreDisplaced'
  BY <1>9, <1>11 DEF BecomesReady, HangsUp
<1>12. ASSUME \/ SysClose \/ TimersFired \/ PassEnds \/ Dispatched \/ Wait \/ WaitReturns
              \/ UNCHANGED vars
       PROVE  OnlySharersAreDisplaced'
  BY <1>9, <1>12 DEF SysClose, TimersFired, PassEnds, Dispatched, Wait, WaitReturns, vars
<1> QED
  BY <1>3, <1>4, <1>5, <1>7, <1>8, <1>10, <1>11, <1>12 DEF Next, Loop

-----------------------------------------------------------------------------
\* The first states.
LEMMA InitHolds ==
  Init => /\ TypeOK /\ Turns /\ RegisteredIsWatched /\ Kept /\ Covered /\ Woken
          /\ EventsFindTheirCall /\ OnlySharersAreDisplaced
<1> SUFFICES ASSUME Init
             PROVE  /\ TypeOK /\ Turns /\ RegisteredIsWatched /\ Kept /\ Covered /\ Woken
                    /\ EventsFindTheirCall /\ OnlySharersAreDisplaced
  OBVIOUS
<1>1. \A r \in Routines : call[r] \in CallsOf(r) /\ call[r] \in Call
  BY NetpollerAssumption DEF Init
<1>2. TypeOK
  <2>1. /\ open \in [Fds -> BOOLEAN] /\ ready \in [Fds -> SUBSET Directions]
        /\ hungup \in [Fds -> SUBSET Directions] /\ signal \in BOOLEAN
        /\ interest \in [Fds -> BOOLEAN] /\ edge \in [Fds -> BOOLEAN]
        /\ registered \in [Fds -> BOOLEAN] /\ found \in [Fds -> SUBSET Directions]
        /\ waiter \in [Fds -> [Directions -> Routines \cup {Disabled, Stale}]]
    BY DEF Init
  <2>2. commands \in Seq(Fds)
    BY SMTT(30) DEF Init
  <2> QED
    BY <1>1, <2>1, <2>2 DEF Init, TypeOK, States, Codes
<1>3. Turns /\ RegisteredIsWatched /\ Woken
  BY DEF Init, Turns, Running, RegisteredIsWatched, Woken
<1>4. Kept /\ Covered
  BY DEF Init, Kept, Covered
<1>5. EventsFindTheirCall /\ OnlySharersAreDisplaced
  BY NetpollerAssumption DEF Init, EventsFindTheirCall, OnlySharersAreDisplaced
<1> QED
  BY <1>2, <1>3, <1>4, <1>5

\* The variables of the netpoller, the kernel and the routines keep their types.
THEOREM NetpollerTypes == Spec => []TypeOK
  BY InitHolds, TypeStep, PTL DEF Spec

\* When this thread closes its own descriptors, registered says of every number
\* whether epoll watches it, for any order of calls, closes and reuses.
THEOREM RegisteredStaysWatched ==
  ASSUME CloseHere
  PROVE  Spec => []RegisteredIsWatched
<1>1. Init => TypeOK /\ Turns /\ RegisteredIsWatched
  BY InitHolds
<1>2. TypeOK /\ Turns /\ RegisteredIsWatched /\ [Next]_vars
      => (TypeOK /\ Turns /\ RegisteredIsWatched)'
  BY TypeStep, WatchStep
<1> QED
  BY <1>1, <1>2, PTL DEF Spec

\* An event or a close that is dispatched, however late, finds the call that
\* registered for it or none, whoever closes, shares or reuses the descriptors.
THEOREM EventsFindTheirCalls == Spec => []EventsFindTheirCall
<1>1. Init => TypeOK /\ EventsFindTheirCall
  BY InitHolds
<1>2. TypeOK /\ EventsFindTheirCall /\ [Next]_vars => (TypeOK /\ EventsFindTheirCall)'
  BY TypeStep, CallStep
<1> QED
  BY <1>1, <1>2, PTL DEF Spec

\* No waiting call is forgotten (neither what becomes readable or writable nor
\* the close that it waits for is lost, nor does the loop sleep over it), but for
\* those that another routine displaced.
THEOREM NoEdgeIsLost ==
  ASSUME CloseHere
  PROVE  Spec => []NoLostEdge
<1> DEFINE Inv == TypeOK /\ Turns /\ RegisteredIsWatched /\ Kept /\ Covered /\ Woken
<1>1. Init => Inv
  BY InitHolds
<1>2. Inv /\ [Next]_vars => Inv'
  BY TypeStep, WatchStep, KeptStep, WokenStep
<1>3. Inv => NoLostEdge
  <2>1. ASSUME Woken, NEW fd \in Queued  PROVE Told(fd)
    <3>1. commands # <<>>
      BY SMTT(30), <2>1 DEF Queued
    <3> QED
      BY <2>1, <3>1 DEF Woken, Told
  <2> QED
    BY <2>1 DEF Covered, NoLostEdge
<1> QED
  BY <1>1, <1>2, <1>3, PTL DEF Spec

\* Nobody is displaced, so that NoLostEdge is about every waiting call, if no two
\* routines wait for the same direction of a descriptor.
THEOREM NobodyIsDisplaced ==
  ASSUME OneWaiterPerDirection
  PROVE  Spec => [](displaced = {})
<1> DEFINE Inv == TypeOK /\ EventsFindTheirCall /\ OnlySharersAreDisplaced
<1>1. Init => Inv
  BY InitHolds
<1>2. Inv /\ [Next]_vars => Inv'
  BY TypeStep, CallStep, DisplacedStep
<1>3. Inv => displaced = {}
  BY SMTT(30) DEF TypeOK, OnlySharersAreDisplaced, OneWaiterPerDirection
<1> QED
  BY <1>1, <1>2, <1>3, PTL DEF Spec

=============================================================================

---------------------------- MODULE MailboxProofs ----------------------------
(***************************************************************************)
(* What Mailbox promises for any number of pushers and of commands.        *)
(***************************************************************************)
EXTENDS Mailbox, FiniteSetTheorems, TLAPS

\* Leaves are proved by Zenon, unless they name another prover.
USE ZenonT(30)

Places == {"idle", "exchange", "link", "try_lock", "set_flag", "write_event"}
LoopPlaces == {"lock", "poll", "read_event", "unlock", "check", "handle", "decide", "self_interrupt"}

TypeOK ==
  /\ queue \in Seq([from : Pushers, linked : BOOLEAN])
  /\ nb_pending \in Int
  /\ mutex \in Pushers \cup {"free", "loop"}
  /\ force \in BOOLEAN /\ edge \in BOOLEAN /\ signals \in Nat
  /\ lpc \in LoopPlaces
  /\ timeout \in {0, -1}
  /\ pc \in [Pushers -> Places]

\* The mutex is the loop's around epoll_wait and a pusher's while it sets the
\* flag, so the flag is down while the loop polls.
Exclusion ==
  /\ lpc \in {"poll", "read_event", "unlock"} <=> mutex = "loop"
  /\ \A p \in Pushers : pc[p] = "set_flag" => mutex = p
  /\ lpc = "poll" => ~force

\* Who is going to interrupt the loop.
Interrupting(p) == pc[p] \in {"exchange", "link", "try_lock", "write_event"}

\* A command in the queue is covered by a pusher on its way to the interrupt,
\* by the flag, by a wait that does not block, by what the eventfd has to
\* report, or by the loop, which has yet to count the commands before it waits.
Covered ==
  queue # <<>> =>
    \/ \E p \in Pushers : Interrupting(p) \/ pc[p] = "set_flag"
    \/ force \/ timeout = 0 \/ Readable
    \/ lpc \notin {"lock", "poll"}

IInv == TypeOK /\ Exclusion /\ PendingMatches /\ Covered
-----------------------------------------------------------------------------
\* Every step keeps the types.
LEMMA TypeStep ==
  ASSUME TypeOK, [Next]_vars
  PROVE  TypeOK'
<1> USE MailboxAssumption DEF loopVars, queueVars, unpushed
<1>1. ASSUME Lock  PROVE TypeOK'
  BY <1>1, Zenon DEF Lock, TypeOK, LoopPlaces
<1>2. ASSUME PollReports  PROVE TypeOK'
  BY <1>2, Zenon DEF PollReports, TypeOK, LoopPlaces
<1>3. ASSUME PollReturns  PROVE TypeOK'
  BY <1>3, Zenon DEF PollReturns, TypeOK, LoopPlaces
<1>4. ASSUME ReadEvent  PROVE TypeOK'
  BY <1>4 DEF ReadEvent, TypeOK, Places, LoopPlaces
<1>5. ASSUME Unlock  PROVE TypeOK'
  BY <1>5 DEF Unlock, TypeOK, Places, LoopPlaces
<1>6. ASSUME Check  PROVE TypeOK'
  BY <1>6 DEF Check, TypeOK, Places, LoopPlaces
<1>7. ASSUME Handle  PROVE TypeOK'
  <2> DEFINE Entries == [from : Pushers, linked : BOOLEAN]
  <2>1. queue \in Seq(Entries) /\ nb_pending \in Int
    BY DEF TypeOK
  <2>2. CASE queue # <<>> /\ queue' = Tail(queue) /\ nb_pending' = nb_pending - 1 /\ UNCHANGED lpc
    <3>1. queue' \in Seq(Entries) /\ nb_pending' \in Int
      <4> HIDE DEF Entries
      <4> QED
        BY SMTT(30), <2>1, <2>2
    <3> QED
      BY <1>7, <2>2, <3>1, Zenon DEF Handle, TypeOK
  <2>3. CASE lpc' = "decide" /\ UNCHANGED queueVars
    BY <1>7, <2>3, Zenon DEF Handle, TypeOK, LoopPlaces
  <2> QED
    BY <1>7, <2>2, <2>3 DEF Handle
<1>8. ASSUME Decide  PROVE TypeOK'
  BY <1>8 DEF Decide, TypeOK, Places, LoopPlaces
<1>9. ASSUME SelfInterrupt  PROVE TypeOK'
  <2>1. signals' \in Nat
    BY SMTT(30), <1>9 DEF SelfInterrupt, TypeOK
  <2>2. force' \in BOOLEAN /\ edge' \in BOOLEAN
    BY <1>9, Zenon DEF SelfInterrupt, TypeOK
  <2> QED
    BY <1>9, <2>1, <2>2 DEF SelfInterrupt, TypeOK, LoopPlaces
<1>10. ASSUME NEW p \in Pushers, Count(p)  PROVE TypeOK'
  BY SMTT(30), <1>10 DEF Count, GoTo, TypeOK, Places, LoopPlaces
<1>11. ASSUME NEW p \in Pushers, Exchange(p)  PROVE TypeOK'
  BY SMTT(30), <1>11 DEF Exchange, GoTo, TypeOK, Places, LoopPlaces
<1>12. ASSUME NEW p \in Pushers, Link(p)  PROVE TypeOK'
  <2> DEFINE Entries == [from : Pushers, linked : BOOLEAN]
  <2>1. PICK i \in 1 .. Len(queue) : queue' = [queue EXCEPT ![i] = [from |-> p, linked |-> TRUE]]
    BY <1>12 DEF Link
  <2>2. queue' \in Seq(Entries)
    <3>1. [from |-> p, linked |-> TRUE] \in Entries
      OBVIOUS
    <3>2. queue \in Seq(Entries)
      BY DEF TypeOK
    <3> HIDE DEF Entries
    <3> QED
      BY SMTT(30), <2>1, <3>1, <3>2
  <2> QED
    BY <1>12, <2>2 DEF Link, GoTo, TypeOK, Places
<1>13. ASSUME NEW p \in Pushers, TryLock(p)  PROVE TypeOK'
  BY <1>13 DEF TryLock, GoTo, TypeOK, Places, LoopPlaces
<1>14. ASSUME NEW p \in Pushers, SetFlag(p)  PROVE TypeOK'
  BY <1>14 DEF SetFlag, GoTo, TypeOK, Places, LoopPlaces
<1>15. ASSUME NEW p \in Pushers, WriteEvent(p)  PROVE TypeOK'
  BY SMTT(30), <1>15 DEF WriteEvent, GoTo, TypeOK, Places, LoopPlaces
<1>16. ASSUME UNCHANGED vars  PROVE TypeOK'
  BY <1>16 DEF vars, TypeOK
<1> QED
  BY <1>1, <1>2, <1>3, <1>4, <1>5, <1>6, <1>7, <1>8,
     <1>9, <1>10, <1>11, <1>12, <1>13, <1>14, <1>15, <1>16
     DEF Next, LoopStep, PusherStep

\* Every step keeps the mutex with its owner and the flag down during a poll.
LEMMA ExclusionStep ==
  ASSUME TypeOK, Exclusion, [Next]_vars
  PROVE  Exclusion'
<1> USE MailboxAssumption DEF loopVars, queueVars, unpushed
<1>1. ASSUME Lock  PROVE Exclusion'
  BY <1>1 DEF Lock, TypeOK, Exclusion, Places, LoopPlaces
<1>2. ASSUME PollReports  PROVE Exclusion'
  BY <1>2 DEF PollReports, TypeOK, Exclusion, Places, LoopPlaces
<1>3. ASSUME PollReturns  PROVE Exclusion'
  BY <1>3 DEF PollReturns, TypeOK, Exclusion, Places, LoopPlaces
<1>4. ASSUME ReadEvent  PROVE Exclusion'
  BY <1>4 DEF ReadEvent, TypeOK, Exclusion, Places, LoopPlaces
<1>5. ASSUME Unlock  PROVE Exclusion'
  BY <1>5 DEF Unlock, TypeOK, Exclusion, Places, LoopPlaces
<1>6. ASSUME Check  PROVE Exclusion'
  BY <1>6 DEF Check, TypeOK, Exclusion, Places, LoopPlaces
<1>7. ASSUME Handle  PROVE Exclusion'
  BY <1>7 DEF Handle, TypeOK, Exclusion, Places, LoopPlaces
<1>8. ASSUME Decide  PROVE Exclusion'
  BY <1>8 DEF Decide, TypeOK, Exclusion, Places, LoopPlaces
<1>9. ASSUME SelfInterrupt  PROVE Exclusion'
  BY <1>9 DEF SelfInterrupt, TypeOK, Exclusion, Places, LoopPlaces
<1>10. ASSUME NEW p \in Pushers, Count(p)  PROVE Exclusion'
  BY <1>10 DEF Count, GoTo, TypeOK, Exclusion, Places, LoopPlaces
<1>11. ASSUME NEW p \in Pushers, Exchange(p)  PROVE Exclusion'
  BY <1>11 DEF Exchange, GoTo, TypeOK, Exclusion, Places, LoopPlaces
<1>12. ASSUME NEW p \in Pushers, Link(p)  PROVE Exclusion'
  BY <1>12 DEF Link, GoTo, TypeOK, Exclusion, Places, LoopPlaces
<1>13. ASSUME NEW p \in Pushers, TryLock(p)  PROVE Exclusion'
  BY <1>13 DEF TryLock, GoTo, TypeOK, Exclusion, Places, LoopPlaces
<1>14. ASSUME NEW p \in Pushers, SetFlag(p)  PROVE Exclusion'
  BY <1>14 DEF SetFlag, GoTo, TypeOK, Exclusion, Places, LoopPlaces
<1>15. ASSUME NEW p \in Pushers, WriteEvent(p)  PROVE Exclusion'
  BY <1>15 DEF WriteEvent, GoTo, TypeOK, Exclusion, Places, LoopPlaces
<1>16. ASSUME UNCHANGED vars  PROVE Exclusion'
  BY <1>16 DEF vars, Exclusion
<1> QED
  BY <1>1, <1>2, <1>3, <1>4, <1>5, <1>6, <1>7, <1>8,
     <1>9, <1>10, <1>11, <1>12, <1>13, <1>14, <1>15, <1>16
     DEF Next, LoopStep, PusherStep

\* The pushers that have counted their command and not written it.
Exchanging == {p \in Pushers : pc[p] = "exchange"}

\* They are finitely many.
LEMMA ExchangingFinite ==
  IsFiniteSet(Exchanging) /\ Cardinality(Exchanging) \in Nat
<1>1. Exchanging \in SUBSET Pushers
  BY DEF Exchanging
<1> QED
  BY <1>1, MailboxAssumption, FS_Subset, FS_CardinalityType

\* Every step keeps the count of the commands: a command is counted before it
\* is written, and no longer counted once it is read.
LEMMA PendingStep ==
  ASSUME TypeOK, PendingMatches, [Next]_vars
  PROVE  PendingMatches'
<1> USE MailboxAssumption DEF loopVars, queueVars, unpushed
<1>1. nb_pending = Len(queue) + Cardinality(Exchanging)
  BY DEF PendingMatches, Exchanging
<1>2. SUFFICES nb_pending' = Len(queue') + Cardinality(Exchanging')
  BY DEF PendingMatches, Exchanging
<1>3. ASSUME NEW p \in Pushers, Count(p)
      PROVE  nb_pending' = Len(queue') + Cardinality(Exchanging')
  <2>1. Exchanging' = Exchanging \cup {p} /\ p \notin Exchanging
    BY <1>3 DEF Count, GoTo, Exchanging, TypeOK
  <2>2. Cardinality(Exchanging') = Cardinality(Exchanging) + 1
    BY <2>1, ExchangingFinite, FS_AddElement
  <2> QED
    BY SMTT(30), <1>1, <1>3, <2>2, ExchangingFinite DEF Count, TypeOK
<1>4. ASSUME NEW p \in Pushers, Exchange(p)
      PROVE  nb_pending' = Len(queue') + Cardinality(Exchanging')
  <2>1. Exchanging' = Exchanging \ {p} /\ p \in Exchanging
    BY <1>4 DEF Exchange, GoTo, Exchanging, TypeOK
  <2>2. Cardinality(Exchanging') = Cardinality(Exchanging) - 1
    BY <2>1, ExchangingFinite, FS_RemoveElement
  <2>3. Len(queue') = Len(queue) + 1 /\ Len(queue) \in Nat
    BY SMTT(30), <1>4 DEF Exchange, TypeOK
  <2> QED
    BY SMTT(30), <1>1, <1>4, <2>2, <2>3, ExchangingFinite DEF Exchange, TypeOK
<1>5. ASSUME Handle  PROVE nb_pending' = Len(queue') + Cardinality(Exchanging')
  <2>1. Exchanging' = Exchanging
    BY <1>5 DEF Handle, Exchanging
  <2>2. CASE UNCHANGED queueVars
    BY <1>1, <2>1, <2>2
  <2>3. CASE /\ queue # <<>> /\ queue' = Tail(queue)
             /\ nb_pending' = nb_pending - 1
    <3>1. Len(queue') = Len(queue) - 1 /\ Len(queue) \in Nat
      BY SMTT(30), <2>3 DEF TypeOK
    <3> QED
      BY SMTT(30), <1>1, <2>1, <2>3, <3>1, ExchangingFinite DEF TypeOK
  <2> QED
    BY <1>5, <2>2, <2>3 DEF Handle
<1>6. ASSUME NEW p \in Pushers, Link(p) \/ TryLock(p) \/ SetFlag(p) \/ WriteEvent(p)
      PROVE  nb_pending' = Len(queue') + Cardinality(Exchanging')
  <2>1. Exchanging' = Exchanging
    BY <1>6 DEF Link, TryLock, SetFlag, WriteEvent, GoTo, Exchanging, TypeOK
  <2>2. nb_pending' = nb_pending /\ Len(queue') = Len(queue)
    BY SMTT(30), <1>6 DEF Link, TryLock, SetFlag, WriteEvent, TypeOK
  <2> QED
    BY <1>1, <2>1, <2>2
<1>7. ASSUME UNCHANGED <<queueVars, pc>>
      PROVE  nb_pending' = Len(queue') + Cardinality(Exchanging')
  BY <1>1, <1>7 DEF Exchanging
<1> QED
  BY <1>3, <1>4, <1>5, <1>6, <1>7
     DEF Next, LoopStep, PusherStep, Lock, PollReports, PollReturns, ReadEvent, Unlock, Check,
         Decide, SelfInterrupt, vars

\* Every step keeps the queued commands covered.
LEMMA CoveredStep ==
  ASSUME TypeOK, Exclusion, PendingMatches, Covered, [Next]_vars
  PROVE  Covered'
<1> USE MailboxAssumption DEF loopVars, queueVars, unpushed
<1>1. ASSUME Lock  PROVE Covered'
  BY <1>1 DEF Lock, TypeOK, Exclusion, Covered, Interrupting, Readable, Places, LoopPlaces
<1>2. ASSUME PollReports  PROVE Covered'
  BY <1>2 DEF PollReports, TypeOK, Exclusion, Covered, Interrupting, Readable, Places,
              LoopPlaces
<1>3. ASSUME PollReturns  PROVE Covered'
  BY <1>3 DEF PollReturns, TypeOK, Exclusion, Covered, Interrupting, Readable, Places,
              LoopPlaces
<1>4. ASSUME ReadEvent  PROVE Covered'
  BY <1>4 DEF ReadEvent, TypeOK, Exclusion, Covered, Interrupting, Readable, Places, LoopPlaces
<1>5. ASSUME Unlock  PROVE Covered'
  BY <1>5 DEF Unlock, TypeOK, Exclusion, Covered, Interrupting, Readable, Places, LoopPlaces
<1>6. ASSUME Check  PROVE Covered'
  BY <1>6 DEF Check, TypeOK, Exclusion, Covered, Interrupting, Readable, Places, LoopPlaces
<1>7. ASSUME Handle  PROVE Covered'
  BY <1>7 DEF Handle, TypeOK, Exclusion, Covered, Interrupting, Readable, Places, LoopPlaces
<1>8. ASSUME Decide  PROVE Covered'
  <2>1. nb_pending = 0 => queue = <<>>
    BY SMTT(30), ExchangingFinite DEF PendingMatches, Exchanging, TypeOK
  <2> QED
    BY <1>8, <2>1 DEF Decide, TypeOK, Covered
<1>9. ASSUME SelfInterrupt  PROVE Covered'
  BY SMTT(30), <1>9 DEF SelfInterrupt, TypeOK, Exclusion, Covered, Interrupting, Readable, Places,
              LoopPlaces
<1>10. ASSUME NEW p \in Pushers, Count(p)  PROVE Covered'
  BY <1>10 DEF Count, GoTo, TypeOK, Exclusion, Covered, Interrupting, Readable, Places,
               LoopPlaces
<1>11. ASSUME NEW p \in Pushers, Exchange(p)  PROVE Covered'
  BY <1>11 DEF Exchange, GoTo, TypeOK, Exclusion, Covered, Interrupting, Readable, Places,
               LoopPlaces
<1>12. ASSUME NEW p \in Pushers, Link(p)  PROVE Covered'
  BY <1>12 DEF Link, GoTo, TypeOK, Exclusion, Covered, Interrupting, Readable, Places,
               LoopPlaces
<1>13. ASSUME NEW p \in Pushers, TryLock(p)  PROVE Covered'
  BY <1>13 DEF TryLock, GoTo, TypeOK, Exclusion, Covered, Interrupting, Readable, Places,
               LoopPlaces
<1>14. ASSUME NEW p \in Pushers, SetFlag(p)  PROVE Covered'
  BY <1>14 DEF SetFlag, GoTo, TypeOK, Exclusion, Covered, Interrupting, Readable, Places,
               LoopPlaces
<1>15. ASSUME NEW p \in Pushers, WriteEvent(p)  PROVE Covered'
  BY SMTT(30), <1>15 DEF WriteEvent, GoTo, TypeOK, Exclusion, Covered, Interrupting, Readable, Places,
               LoopPlaces
<1>16. ASSUME UNCHANGED vars  PROVE Covered'
  BY <1>16 DEF vars, Covered, Interrupting, Readable
<1> QED
  BY <1>1, <1>2, <1>3, <1>4, <1>5, <1>6, <1>7, <1>8,
     <1>9, <1>10, <1>11, <1>12, <1>13, <1>14, <1>15, <1>16
     DEF Next, LoopStep, PusherStep

\* A thread that starts has no command, and the invariant holds.
LEMMA InitIInv == Init => IInv
<1> SUFFICES ASSUME Init  PROVE IInv
  OBVIOUS
<1>1. Exchanging = {}
  BY DEF Init, Exchanging
<1>2. PendingMatches
  BY SMTT(30), <1>1, FS_EmptySet DEF Init, PendingMatches, Exchanging
<1>3. TypeOK
  <2>1. queue \in Seq([from : Pushers, linked : BOOLEAN]) /\ nb_pending \in Int /\ signals \in Nat
    BY SMTT(30) DEF Init
  <2>2. pc \in [Pushers -> Places]
    BY DEF Init, Places
  <2> QED
    BY <2>1, <2>2, Zenon DEF Init, TypeOK, LoopPlaces
<1>4. Exclusion /\ Covered
  BY MailboxAssumption DEF Init, Exclusion, Covered
<1> QED
  BY <1>2, <1>3, <1>4 DEF IInv

\* Every step of a pusher or of the loop keeps the invariant.
LEMMA NextIInv == IInv /\ [Next]_vars => IInv'
  BY TypeStep, ExclusionStep, PendingStep, CoveredStep DEF IInv

\* A thread asleep is not holding back a command: the mutex is its own, so
\* neither the flag nor a pusher about to set it can be what covers the queue.
LEMMA CoveredIsAwake == IInv => NoSleepingCommand
<1> SUFFICES ASSUME IInv, Asleep, queue # <<>>
             PROVE  \E p \in Pushers : Interrupting(p)
  BY DEF NoSleepingCommand, Interrupting
<1>1. lpc = "poll" /\ timeout = -1 /\ ~Readable /\ ~force /\ mutex = "loop"
  BY DEF IInv, Exclusion, Asleep
<1>2. \A p \in Pushers : pc[p] # "set_flag"
  BY <1>1, MailboxAssumption DEF IInv, Exclusion
<1> QED
  BY SMTT(30), <1>1, <1>2 DEF IInv, Covered

\* nb_pending_commands_ is what is queued plus what pushers are about to queue,
\* for any number of pushers: the loop never takes a queued command for none.
THEOREM PendingIsExact == Spec => []PendingMatches
<1>1. IInv => PendingMatches
  BY DEF IInv
<1> QED
  BY <1>1, InitIInv, NextIInv, PTL DEF Spec

\* No interrupt is lost between the flag, the mutex, the eventfd and the edge
\* of epoll, for any number of pushers: a thread that sleeps beside a command
\* has a pusher that will still wake it.
THEOREM NoInterruptIsLost == Spec => []NoSleepingCommand
  BY InitIInv, NextIInv, CoveredIsAwake, PTL DEF Spec

=============================================================================

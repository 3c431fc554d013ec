--------------------------- MODULE SemaphoreProofs ---------------------------
(***************************************************************************)
(* The safety properties of Semaphore, for any threads, routines, capacity *)
(* and number of posts.                                                    *)
(***************************************************************************)
EXTENDS Semaphore, FiniteSetTheorems, TLAPS

\* Leaves are proved by Zenon, unless they name another prover.
USE ZenonT(30)

Places == Idle \union Busy

\* All the inductive proof uses of the two ranges of the counter.
LEMMA Thresholds ==
  /\ 2 * NbRoutines < disabled_standpoint - disabling_threshold
  /\ disabling_threshold \in Nat
  /\ disabled_standpoint \in Nat
  /\ 0 < disabling_threshold
  /\ disabling_threshold < disabled_standpoint
  /\ disabled_standpoint - disabling_threshold < disabling_threshold
BY RangeAssumption, SMT DEF disabling_threshold, disabled_standpoint, NbRoutines

-----------------------------------------------------------------------------
(***************************************************************************)
(* Counting lemmas.                                                        *)
(***************************************************************************)

\* A count is a natural number, at most the number of routines.
LEMMA CountType ==
  ASSUME NEW f, NEW p
  PROVE  /\ IsFiniteSet(At(f, p))
         /\ Count(f, p) \in Nat
         /\ Count(f, p) <= NbRoutines
         /\ NbRoutines \in Nat
<1>1. IsFiniteSet(Routines)
  BY RoutinesAssumption
<1>2. At(f, p) \in SUBSET Routines
  BY DEF At
<1>. QED
  BY <1>1, <1>2, FS_Subset, FS_CardinalityType DEF Count, NbRoutines

\* The routines at three different places are different routines.
LEMMA CountsFit ==
  ASSUME NEW f, NEW a, NEW b, NEW c, a # b, a # c, b # c
  PROVE  Count(f, a) + Count(f, b) + Count(f, c) <= NbRoutines
<1> DEFINE AB == At(f, a) \union At(f, b)
           ABC == AB \union At(f, c)
<1>1. /\ IsFiniteSet(At(f, a)) /\ IsFiniteSet(At(f, b)) /\ IsFiniteSet(At(f, c))
      /\ Count(f, a) \in Nat /\ Count(f, b) \in Nat /\ Count(f, c) \in Nat
  BY CountType
<1>2. /\ At(f, a) \cap At(f, b) = {}
      /\ AB \cap At(f, c) = {}
      /\ ABC \in SUBSET Routines
  BY DEF At
<1>3. IsFiniteSet(AB) /\ Cardinality(AB) = Count(f, a) + Count(f, b)
  BY SMTT(30), <1>1, <1>2, FS_Union, FS_EmptySet DEF Count
<1>4. Cardinality(ABC) = Cardinality(AB) + Count(f, c)
  <2> HIDE DEF AB
  <2>1. Cardinality(AB \cap At(f, c)) = 0
    BY <1>2, FS_EmptySet
  <2>2. Cardinality(ABC) = Cardinality(AB) + Cardinality(At(f, c))
                            - Cardinality(AB \cap At(f, c))
    BY <1>1, <1>3, FS_Union
  <2>. QED
    BY SMTT(30), <1>1, <1>3, <2>1, <2>2 DEF Count
<1>5. Cardinality(ABC) <= NbRoutines
  BY <1>2, RoutinesAssumption, FS_Subset DEF NbRoutines
<1>. QED
  BY <1>1, <1>3, <1>4, <1>5

\* A routine at a place is counted there.
LEMMA CountPositive ==
  ASSUME NEW f, NEW r \in Routines
  PROVE  Count(f, f[r]) > 0
<1>1. r \in At(f, f[r]) /\ IsFiniteSet(At(f, f[r])) /\ Count(f, f[r]) \in Nat
  BY CountType DEF At
<1>. QED
  BY SMTT(30), <1>1, FS_EmptySet DEF Count

\* A place nobody is at counts for nothing.
LEMMA CountZero ==
  ASSUME NEW f, NEW p, \A r \in Routines : f[r] # p
  PROVE  Count(f, p) = 0
<1>1. At(f, p) = {}
  BY DEF At
<1>. QED
  BY <1>1, FS_EmptySet DEF Count

-----------------------------------------------------------------------------
(***************************************************************************)
(* The inductive invariant.                                                *)
(***************************************************************************)
Books == Ledger /\ TicketConservation

IInv == TypeOK /\ OneEntryPerWaiter /\ Books /\ WakeupsMatch

\* The number of commands in flight.
LEMMA NotifiedType ==
  ASSUME NEW S \in SUBSET Routines
  PROVE  IsFiniteSet(S) /\ Cardinality(S) \in Nat
BY RoutinesAssumption, FS_Subset, FS_CardinalityType

\* There are never enough wake-ups and pops to match a disabled counter.
LEMMA WakesBound ==
  ASSUME TypeOK
  PROVE  Wakes + Pops <= 2 * NbRoutines
<1>1. Count(pc, "candidate") + Count(pc, "wait_pop") + Count(pc, "post_pop") <= NbRoutines
  BY CountsFit
<1>2. Cardinality(notified) \in Nat /\ Cardinality(notified) <= NbRoutines
  BY NotifiedType, FS_Subset, RoutinesAssumption DEF TypeOK, NbRoutines
<1>3. /\ Count(pc, "candidate") \in Nat /\ Count(pc, "wait_pop") \in Nat
      /\ Count(pc, "post_pop") \in Nat /\ NbRoutines \in Nat
  BY CountType
<1>. QED
  BY SMTT(30), <1>1, <1>2, <1>3 DEF Wakes, Pops

\* A semaphore just constructed satisfies the inductive invariant.
LEMMA InitIInv == Init => IInv
<1> SUFFICES ASSUME Init PROVE IInv
  OBVIOUS
<1>1. \A p : p # "running" => Count(pc, p) = 0
  BY CountZero DEF Init
<1>2. TypeOK
  BY SMTT(30), RangeAssumption DEF Init, TypeOK, Idle, Busy
<1>3. OneEntryPerWaiter
  BY SMTT(30) DEF Init, OneEntryPerWaiter, HasEntry
<1>4. Books
  BY SMTT(30), <1>1, RangeAssumption, Thresholds
  DEF Init, Books, Ledger, TicketConservation, Borrowed, Disabled
<1>5. WakeupsMatch
  BY SMTT(30), <1>1 DEF Init, WakeupsMatch, Pops, Queued
<1>. QED
  BY <1>2, <1>3, <1>4, <1>5 DEF IInv

\* A step that moves one routine from place a to place b moves one unit
\* between their counts and leaves the other counts alone.
Moves(a, b, c) ==
  /\ Count(pc, c) \in Nat
  /\ Count(pc', c) \in Nat
  /\ Count(pc, c) <= NbRoutines
  /\ Count(pc', c) <= NbRoutines
  /\ a # b /\ c = a => Count(pc', c) = Count(pc, c) - 1
  /\ a # b /\ c = b => Count(pc', c) = Count(pc, c) + 1
  /\ a = b \/ (c # a /\ c # b) => Count(pc', c) = Count(pc, c)

\* One routine that goes from place a to place b is all that the counts see.
LEMMA Moved ==
  ASSUME TypeOK, NEW r \in Routines, NEW a \in Places, NEW b \in Places,
         pc[r] = a, pc' = [pc EXCEPT ![r] = b]
  PROVE  \A c \in Places : Moves(a, b, c)
<1>1. pc \in [Routines -> Places] /\ pc' \in [Routines -> Places]
  BY DEF TypeOK, Places
<1>2. CASE a = b
  <2>1. pc' = pc
    BY <1>1, <1>2
  <2>. QED
    BY <1>2, <2>1, CountType DEF Moves
<1>3. CASE a # b
  <2>1. At(pc', b) = At(pc, b) \union {r} /\ r \notin At(pc, b)
    BY <1>1, <1>3 DEF At
  <2>2. At(pc', a) = At(pc, a) \ {r} /\ r \in At(pc, a)
    BY <1>1, <1>3 DEF At
  <2>3. ASSUME NEW c \in Places, c # b, c # a
        PROVE  Count(pc', c) = Count(pc, c)
    <3>1. At(pc', c) = At(pc, c)
      BY <1>1, <2>3 DEF At
    <3>. QED
      BY <3>1 DEF Count
  <2>4. Count(pc', b) = Count(pc, b) + 1
    BY <2>1, CountType, FS_AddElement DEF Count
  <2>5. Count(pc', a) = Count(pc, a) - 1
    BY <2>2, CountType, FS_RemoveElement DEF Count
  <2>. QED
    BY <1>3, <2>3, <2>4, <2>5, CountType DEF Moves
<1>. QED
  BY <1>2, <1>3

\* What a step does to the counts of the invariant: how much each grows.
Grows(c, n) == /\ Count(pc, c) \in Nat /\ Count(pc, c) <= NbRoutines
               /\ Count(pc', c) \in Nat /\ Count(pc', c) <= NbRoutines
               /\ Count(pc', c) = Count(pc, c) + n

Effect(wait_restore, post_restore, enqueue, release, wait_pop, post_pop, candidate, drain) ==
  /\ Grows("wait_restore", wait_restore) /\ Grows("post_restore", post_restore)
  /\ Grows("enqueue", enqueue) /\ Grows("release", release)
  /\ Grows("wait_pop", wait_pop) /\ Grows("post_pop", post_pop)
  /\ Grows("candidate", candidate) /\ Grows("drain", drain)
  /\ NbRoutines \in Nat

\* A count away from both places does not move, the others move by one.
MoveGrows(a, b) ==
  /\ \A c \in Places \ {a, b} : Grows(c, 0)
  /\ a # b => Grows(a, -1) /\ Grows(b, 1)
  /\ a = b => Grows(a, 0)
  /\ NbRoutines \in Nat

\* The same, for all the counts of the inductive invariant at once.
LEMMA MovedGrows ==
  ASSUME TypeOK, NEW r \in Routines, NEW a \in Places, NEW b \in Places,
         pc[r] = a, pc' = [pc EXCEPT ![r] = b]
  PROVE  MoveGrows(a, b)
<1>1. ASSUME NEW c \in Places
      PROVE  /\ NbRoutines \in Nat
             /\ c # a /\ c # b => Grows(c, 0)
             /\ c = a /\ c # b => Grows(c, -1)
             /\ c # a /\ c = b => Grows(c, 1)
             /\ a = b => Grows(c, 0)
  <2>1. Moves(a, b, c)
    BY Moved
  <2>. QED
    BY SMTT(30), <2>1, CountType DEF Moves, Grows
<1>. QED
  BY <1>1 DEF MoveGrows

\* A subtraction, by a wait or by a candidate: the candidate's wake-up is
\* spent, a failed one is borrowed, a successful one is taken.
LEMMA TakeTicketIInv ==
  ASSUME IInv, NEW r \in Routines, pc[r] \in {"running", "candidate"}, TakeTicket(r)
  PROVE  IInv'
<1>1. TypeOK'
  BY SMTT(30) DEF IInv, TakeTicket, GoTo, TypeOK, Idle, Busy
<1>2. OneEntryPerWaiter'
  BY SMTT(30) DEF IInv, TakeTicket, GoTo, OneEntryPerWaiter, HasEntry, TypeOK
<1>3. /\ Cardinality(notified) \in Nat /\ notified' = notified
      /\ Queued \in Nat /\ Queued' = Queued
      /\ counter \in Int /\ counter' = counter - 1
      /\ taken \in Nat /\ given \in Nat /\ given' = given
  BY SMTT(30), NotifiedType DEF IInv, TypeOK, TakeTicket, Queued
<1>4. PICK k \in {0, -1} : (pc[r] = "running" /\ k = 0) \/ (pc[r] = "candidate" /\ k = -1)
  OBVIOUS
<1>5. CASE disabling_threshold < counter /\ GoTo(r, "wait_restore") /\ taken' = taken
  <2>1. Effect(1, 0, 0, 0, 0, 0, k, 0)
    <3>1. CASE pc[r] = "running"
      <4>1. MoveGrows("running", "wait_restore")
        BY <1>5, <3>1, MovedGrows DEF IInv, GoTo, Places, Idle, Busy
      <4>. QED
        BY <1>4, <3>1, <4>1 DEF MoveGrows, Effect, Places, Idle, Busy
    <3>2. CASE pc[r] = "candidate"
      <4>1. MoveGrows("candidate", "wait_restore")
        BY <1>5, <3>2, MovedGrows DEF IInv, GoTo, Places, Idle, Busy
      <4>. QED
        BY <1>4, <3>2, <4>1 DEF MoveGrows, Effect, Places, Idle, Busy
    <3>. QED
      BY <3>1, <3>2
  <2>2. Books'
    BY SMTT(30), <1>3, <1>5, <2>1, Thresholds
    DEF IInv, Books, Ledger, TicketConservation, Borrowed, Disabled, Effect, Grows
  <2>3. WakeupsMatch'
    BY SMTT(30), <1>3, <1>4, <2>1 DEF IInv, WakeupsMatch, Wakes, Pops, Effect, Grows
  <2>. QED
    BY <1>1, <1>2, <2>2, <2>3 DEF IInv
<1>6. CASE counter <= 0 /\ GoTo(r, "enqueue") /\ taken' = taken
  <2>1. Effect(0, 0, 1, 0, 0, 0, k, 0)
    <3>1. CASE pc[r] = "running"
      <4>1. MoveGrows("running", "enqueue")
        BY <1>6, <3>1, MovedGrows DEF IInv, GoTo, Places, Idle, Busy
      <4>. QED
        BY <1>4, <3>1, <4>1 DEF MoveGrows, Effect, Places, Idle, Busy
    <3>2. CASE pc[r] = "candidate"
      <4>1. MoveGrows("candidate", "enqueue")
        BY <1>6, <3>2, MovedGrows DEF IInv, GoTo, Places, Idle, Busy
      <4>. QED
        BY <1>4, <3>2, <4>1 DEF MoveGrows, Effect, Places, Idle, Busy
    <3>. QED
      BY <3>1, <3>2
  <2>2. Books'
    BY SMTT(20), <1>3, <1>6, <2>1, Thresholds
    DEF IInv, Books, Ledger, TicketConservation, Borrowed, Disabled, Effect, Grows
  <2>3. WakeupsMatch'
    BY SMTT(30), <1>3, <1>4, <2>1 DEF IInv, WakeupsMatch, Wakes, Pops, Effect, Grows
  <2>. QED
    BY <1>1, <1>2, <2>2, <2>3 DEF IInv
<1>7. CASE counter \in 1 .. disabling_threshold /\ GoTo(r, "running") /\ taken' = taken + 1
  <2>1. Effect(0, 0, 0, 0, 0, 0, k, 0)
    <3>1. CASE pc[r] = "running"
      <4>1. MoveGrows("running", "running")
        BY <1>7, <3>1, MovedGrows DEF IInv, GoTo, Places, Idle, Busy
      <4>. QED
        BY <1>4, <3>1, <4>1 DEF MoveGrows, Effect, Places, Idle, Busy
    <3>2. CASE pc[r] = "candidate"
      <4>1. MoveGrows("candidate", "running")
        BY <1>7, <3>2, MovedGrows DEF IInv, GoTo, Places, Idle, Busy
      <4>. QED
        BY <1>4, <3>2, <4>1 DEF MoveGrows, Effect, Places, Idle, Busy
    <3>. QED
      BY <3>1, <3>2
  <2>2. Books'
    BY SMTT(30), <1>3, <1>7, <2>1, Thresholds
    DEF IInv, Books, Ledger, TicketConservation, Borrowed, Disabled, Effect, Grows
  <2>3. WakeupsMatch'
    BY SMTT(30), <1>3, <1>4, <2>1 DEF IInv, WakeupsMatch, Wakes, Pops, Effect, Grows
  <2>. QED
    BY <1>1, <1>2, <2>2, <2>3 DEF IInv
<1>. QED
  BY <1>5, <1>6, <1>7 DEF TakeTicket

\* The correction of a wait on a disabled semaphore.
LEMMA WaitRestoreIInv ==
  ASSUME IInv, NEW r \in Routines, WaitRestore(r)
  PROVE  IInv'
<1>1. TypeOK'
  BY SMTT(30) DEF IInv, WaitRestore, GoTo, TypeOK, Idle, Busy
<1>2. OneEntryPerWaiter'
  BY SMTT(30) DEF IInv, WaitRestore, GoTo, OneEntryPerWaiter, HasEntry, TypeOK
<1>3. /\ Cardinality(notified) \in Nat /\ notified' = notified
      /\ Queued \in Nat /\ Queued' = Queued
      /\ counter \in Int /\ counter' = counter + 1
      /\ taken \in Nat /\ given \in Nat /\ taken' = taken /\ given' = given
  BY SMTT(30), NotifiedType DEF IInv, TypeOK, WaitRestore, Queued
<1>4. Effect(-1, 0, 0, 0, 0, 0, 0, 0)
  <2>1. MoveGrows("wait_restore", "running")
    BY MovedGrows DEF IInv, WaitRestore, GoTo, Places, Idle, Busy
  <2>. QED
    BY <2>1 DEF MoveGrows, Effect, Places, Idle, Busy
<1>5. Books'
  BY SMTT(30), <1>3, <1>4, Thresholds
  DEF IInv, Books, Ledger, TicketConservation, Borrowed, Disabled, Effect, Grows
<1>6. WakeupsMatch'
  <2>1. disabling_threshold < counter
    BY SMTT(30), <1>3, <1>4 DEF IInv, Books, Ledger, Disabled, Effect, Grows
  <2>2. ~(counter <= Wakes + Pops)
    BY SMTT(30), <1>3, <1>4, <2>1, WakesBound, Thresholds DEF IInv, Wakes, Pops, Effect, Grows
  <2>. QED
    BY SMTT(30), <1>3, <1>4, <2>2 DEF IInv, WakeupsMatch, Pops, Effect, Grows
<1>. QED
  BY <1>1, <1>2, <1>5, <1>6 DEF IInv

\* The correction of a post on a disabled semaphore.
LEMMA PostRestoreIInv ==
  ASSUME IInv, NEW r \in Routines, PostRestore(r)
  PROVE  IInv'
<1>1. TypeOK'
  BY SMTT(30) DEF IInv, PostRestore, GoTo, TypeOK, Idle, Busy
<1>2. OneEntryPerWaiter'
  BY SMTT(30) DEF IInv, PostRestore, GoTo, OneEntryPerWaiter, HasEntry, TypeOK
<1>3. /\ Cardinality(notified) \in Nat /\ notified' = notified
      /\ Queued \in Nat /\ Queued' = Queued
      /\ counter \in Int /\ counter' = counter - 1
      /\ taken \in Nat /\ given \in Nat /\ taken' = taken /\ given' = given
  BY SMTT(30), NotifiedType DEF IInv, TypeOK, PostRestore, Queued
<1>4. Effect(0, -1, 0, 0, 0, 0, 0, 0)
  <2>1. MoveGrows("post_restore", "running")
    BY MovedGrows DEF IInv, PostRestore, GoTo, Places, Idle, Busy
  <2>. QED
    BY <2>1 DEF MoveGrows, Effect, Places, Idle, Busy
<1>5. Books'
  BY SMTT(30), <1>3, <1>4, Thresholds
  DEF IInv, Books, Ledger, TicketConservation, Borrowed, Disabled, Effect, Grows
<1>6. WakeupsMatch'
  BY SMTT(30), <1>3, <1>4 DEF IInv, WakeupsMatch, Wakes, Pops, Effect, Grows
<1>. QED
  BY <1>1, <1>2, <1>5, <1>6 DEF IInv

\* The new entry is one that its routine will look after.
LEMMA EnqueueIInv ==
  ASSUME IInv, NEW r \in Routines, Enqueue(r)
  PROVE  IInv'
<1>1. TypeOK'
  BY SMTT(30) DEF IInv, Enqueue, GoTo, TypeOK, Idle, Busy
<1>2. OneEntryPerWaiter'
  BY SMTT(30) DEF IInv, Enqueue, GoTo, OneEntryPerWaiter, HasEntry, TypeOK
<1>3. /\ Cardinality(notified) \in Nat /\ notified' = notified
      /\ Queued \in Nat /\ Queued' = Queued + 1
      /\ counter \in Int /\ counter' = counter 
      /\ taken \in Nat /\ given \in Nat /\ taken' = taken /\ given' = given
  BY SMTT(30), NotifiedType DEF IInv, TypeOK, Enqueue, Queued
<1>4. Effect(0, 0, -1, 1, 0, 0, 0, 0)
  <2>1. MoveGrows("enqueue", "release")
    BY MovedGrows DEF IInv, Enqueue, GoTo, Places, Idle, Busy
  <2>. QED
    BY <2>1 DEF MoveGrows, Effect, Places, Idle, Busy
<1>5. Books'
  BY SMTT(30), <1>3, <1>4, Thresholds
  DEF IInv, Books, Ledger, TicketConservation, Borrowed, Disabled, Effect, Grows
<1>6. WakeupsMatch'
  BY SMTT(30), <1>3, <1>4 DEF IInv, WakeupsMatch, Wakes, Pops, Effect, Grows
<1>. QED
  BY <1>1, <1>2, <1>5, <1>6 DEF IInv

\* The second look at the counter.  A routine that finds a ticket in it pops
\* a waiter; one that finds none need not be looked after any more.
LEMMA ReleaseIInv ==
  ASSUME IInv, NEW r \in Routines, Release(r)
  PROVE  IInv'
<1>1. TypeOK'
  BY SMTT(30) DEF IInv, Release, GoTo, TypeOK, Idle, Busy
<1>2. OneEntryPerWaiter'
  BY SMTT(30) DEF IInv, Release, GoTo, OneEntryPerWaiter, HasEntry, TypeOK
<1>3. /\ Cardinality(notified) \in Nat /\ notified' = notified
      /\ Queued \in Nat /\ Queued' = Queued
      /\ counter \in Int /\ counter' = counter + 1
      /\ taken \in Nat /\ given \in Nat /\ taken' = taken /\ given' = given
      /\ Capacity \in Nat /\ Capacity + given <= disabling_threshold
  BY SMTT(30), NotifiedType, RangeAssumption, Thresholds DEF IInv, TypeOK, Release, Queued
<1>4. CASE 0 <= counter
  <2>1. Effect(0, 0, 0, -1, 1, 0, 0, 0)
    <3>1. MoveGrows("release", "wait_pop")
      BY <1>4, MovedGrows DEF IInv, Release, GoTo, Places, Idle, Busy
    <3>. QED
      BY <3>1 DEF MoveGrows, Effect, Places, Idle, Busy
  <2>2. Books'
    BY SMTT(30), <1>3, <2>1, Thresholds
    DEF IInv, Books, Ledger, TicketConservation, Borrowed, Disabled, Effect, Grows
  <2>3. WakeupsMatch'
    BY SMTT(30), <1>3, <2>1 DEF IInv, WakeupsMatch, Wakes, Pops, Effect, Grows
  <2>. QED
    BY <1>1, <1>2, <2>2, <2>3 DEF IInv
<1>5. CASE ~(0 <= counter)
  <2>1. Effect(0, 0, 0, -1, 0, 0, 0, 0)
    <3>1. MoveGrows("release", "suspended")
      BY <1>5, MovedGrows DEF IInv, Release, GoTo, Places, Idle, Busy
    <3>. QED
      BY <3>1 DEF MoveGrows, Effect, Places, Idle, Busy
  <2>2. Books'
    BY SMTT(30), <1>3, <1>5, <2>1, Thresholds
    DEF IInv, Books, Ledger, TicketConservation, Borrowed, Disabled, Effect, Grows
  <2>3. WakeupsMatch'
    BY SMTT(30), <1>3, <1>5, <2>1 DEF WakeupsMatch, Wakes, Pops, Effect, Grows
  <2>. QED
    BY <1>1, <1>2, <2>2, <2>3 DEF IInv
<1>. QED
  BY <1>4, <1>5

\* A pop moves the entry at the head to the commands in flight.
LEMMA PopWaiterMoves ==
  ASSUME TypeOK, OneEntryPerWaiter, PopWaiter
  PROVE  /\ waiters' \in Seq(Routines)
         /\ notified' \in SUBSET Routines
         /\ \A i, j \in 1 .. Len(waiters') : waiters'[i] = waiters'[j] => i = j
         /\ \A i \in 1 .. Len(waiters') : waiters'[i] \notin notified'
         /\ \A r \in Routines : HasEntry(r)' <=> HasEntry(r)
         /\ Queued \in Nat /\ Queued' \in Nat
         /\ Cardinality(notified) \in Nat /\ Cardinality(notified') \in Nat
         /\ \/ /\ waiters # <<>> /\ Queued' = Queued - 1
               /\ Cardinality(notified') = Cardinality(notified) + 1
            \/ waiters = <<>> /\ Queued = 0 /\ Queued' = 0 /\ notified' = notified
<1>1. CASE waiters = <<>>
  <2>1. waiters' = waiters /\ notified' = notified /\ Len(waiters) = 0
    BY <1>1 DEF PopWaiter
  <2>. QED
    BY SMTT(30), <1>1, <2>1, NotifiedType DEF TypeOK, OneEntryPerWaiter, HasEntry, Queued
<1>2. CASE waiters # <<>>
  <2>1. /\ waiters' = Tail(waiters)
        /\ notified' = notified \union {Head(waiters)}
    BY <1>2 DEF PopWaiter
  <2>2. /\ waiters' \in Seq(Routines)
        /\ Len(waiters) \in Nat /\ 0 < Len(waiters)
        /\ Len(waiters') = Len(waiters) - 1
        /\ \A i \in 1 .. Len(waiters') : waiters'[i] = waiters[i + 1]
        /\ Head(waiters) = waiters[1]
        /\ Head(waiters) \in Routines
    BY SMTT(30), <1>2, <2>1 DEF TypeOK
  <2>3. Head(waiters) \notin notified
    BY SMTT(30), <2>2 DEF OneEntryPerWaiter
  <2>4. notified' \in SUBSET Routines
    BY <2>1, <2>2 DEF TypeOK
  <2>5. Cardinality(notified') = Cardinality(notified) + 1
    BY <2>1, <2>3, NotifiedType, FS_AddElement DEF TypeOK
  <2>6. \A i, j \in 1 .. Len(waiters') : waiters'[i] = waiters'[j] => i = j
    BY SMTT(30), <2>2 DEF OneEntryPerWaiter
  <2>7. \A i \in 1 .. Len(waiters') : waiters'[i] \notin notified'
    BY SMTT(30), <2>1, <2>2 DEF OneEntryPerWaiter
  <2>8. ASSUME NEW r \in Routines
        PROVE  HasEntry(r)' <=> HasEntry(r)
    <3>1. ASSUME NEW i \in 1 .. Len(waiters), waiters[i] = r
          PROVE  HasEntry(r)'
      <4>1. CASE i = 1
        BY <2>1, <2>2, <3>1, <4>1 DEF HasEntry
      <4>2. CASE i # 1
        <5>1. i - 1 \in 1 .. Len(waiters') /\ waiters'[i - 1] = r
          BY SMTT(30), <2>2, <3>1, <4>2
        <5>. QED
          BY <5>1 DEF HasEntry
      <4>. QED
        BY <4>1, <4>2
    <3>2. ASSUME NEW i \in 1 .. Len(waiters'), waiters'[i] = r
          PROVE  HasEntry(r)
      <4>1. i + 1 \in 1 .. Len(waiters) /\ waiters[i + 1] = r
        BY SMTT(30), <2>2, <3>2
      <4>. QED
        BY <4>1 DEF HasEntry
    <3>3. r = Head(waiters) => HasEntry(r)
      BY SMTT(30), <2>2 DEF HasEntry
    <3>. QED
      BY <2>1, <3>1, <3>2, <3>3 DEF HasEntry
  <2>9. Cardinality(notified) \in Nat /\ Cardinality(notified') \in Nat
    BY <2>4, NotifiedType DEF TypeOK
  <2>. QED
    BY SMTT(30), <1>2, <2>2, <2>4, <2>5, <2>6, <2>7, <2>8, <2>9 DEF Queued
<1>. QED
  BY <1>1, <1>2

\* pop_a_waiter turns a pop that was owed into a wake-up, or finds the queue
\* empty.
LEMMA PopIInv ==
  ASSUME IInv, NEW r \in Routines, Pop(r)
  PROVE  IInv'
<1>1. TypeOK /\ OneEntryPerWaiter /\ PopWaiter
  BY DEF IInv, Pop
<1>2. TypeOK'
  BY <1>1, PopWaiterMoves DEF Pop, GoTo, TypeOK, Idle, Busy
<1>3. OneEntryPerWaiter'
  <2>1. \A o \in Routines :
          pc'[o] \in {"release", "wait_pop", "suspended"}
            <=> pc[o] \in {"release", "wait_pop", "suspended"}
    BY <1>1 DEF Pop, GoTo, TypeOK
  <2>. QED
    BY <1>1, <2>1, PopWaiterMoves DEF OneEntryPerWaiter
<1>4. /\ Cardinality(notified) \in Nat /\ Cardinality(notified') \in Nat
      /\ Queued \in Nat /\ Queued' \in Nat
      /\ \/ Queued' = Queued - 1 /\ Cardinality(notified') = Cardinality(notified) + 1
         \/ Queued = 0 /\ Queued' = 0
      /\ counter \in Int /\ counter' = counter
      /\ taken \in Nat /\ given \in Nat /\ taken' = taken /\ given' = given
  BY SMTT(30), <1>1, PopWaiterMoves DEF TypeOK, Pop
<1>5. CASE pc[r] = "wait_pop" /\ GoTo(r, "suspended")
  <2>1. Effect(0, 0, 0, 0, -1, 0, 0, 0)
    <3>1. MoveGrows("wait_pop", "suspended")
      BY <1>1, <1>5, MovedGrows DEF GoTo, Places, Idle, Busy
    <3>. QED
      BY <3>1 DEF MoveGrows, Effect, Places, Idle, Busy
  <2>2. Books'
    BY SMTT(30), <1>4, <2>1, Thresholds
    DEF IInv, Books, Ledger, TicketConservation, Borrowed, Disabled, Effect, Grows
  <2>3. WakeupsMatch'
    BY SMTT(30), <1>4, <2>1 DEF IInv, WakeupsMatch, Wakes, Pops, Effect, Grows
  <2>. QED
    BY <1>2, <1>3, <2>2, <2>3 DEF IInv
<1>6. CASE pc[r] = "post_pop" /\ GoTo(r, "running")
  <2>1. Effect(0, 0, 0, 0, 0, -1, 0, 0)
    <3>1. MoveGrows("post_pop", "running")
      BY <1>1, <1>6, MovedGrows DEF GoTo, Places, Idle, Busy
    <3>. QED
      BY <3>1 DEF MoveGrows, Effect, Places, Idle, Busy
  <2>2. Books'
    BY SMTT(30), <1>4, <2>1, Thresholds
    DEF IInv, Books, Ledger, TicketConservation, Borrowed, Disabled, Effect, Grows
  <2>3. WakeupsMatch'
    BY SMTT(30), <1>4, <2>1 DEF IInv, WakeupsMatch, Wakes, Pops, Effect, Grows
  <2>. QED
    BY <1>2, <1>3, <2>2, <2>3 DEF IInv
<1>. QED
  BY <1>5, <1>6 DEF Pop

\* A command received is a wake-up that became a candidacy.
LEMMA NotifyIInv ==
  ASSUME IInv, NEW r \in Routines, Notify(r)
  PROVE  IInv'
<1>1. TypeOK'
  BY DEF IInv, Notify, GoTo, TypeOK, Idle, Busy
<1>2. OneEntryPerWaiter'
  BY SMTT(30) DEF IInv, Notify, GoTo, OneEntryPerWaiter, HasEntry, TypeOK
<1>3. /\ Cardinality(notified) \in Nat /\ Cardinality(notified') \in Nat
      /\ Cardinality(notified') = Cardinality(notified) - 1
  BY <1>1, NotifiedType, FS_RemoveElement DEF IInv, TypeOK, Notify
<1>4. /\ Queued \in Nat /\ Queued' = Queued
      /\ counter \in Int /\ counter' = counter
      /\ taken \in Nat /\ given \in Nat /\ taken' = taken /\ given' = given
  BY SMTT(30) DEF IInv, TypeOK, Notify, Queued
<1>5. Effect(0, 0, 0, 0, 0, 0, 1, 0)
  <2>1. MoveGrows("suspended", "candidate")
    BY MovedGrows DEF IInv, Notify, GoTo, Places, Idle, Busy
  <2>. QED
    BY <2>1 DEF MoveGrows, Effect, Places, Idle, Busy
<1>6. Books'
  BY SMTT(30), <1>4, <1>5, Thresholds
  DEF IInv, Books, Ledger, TicketConservation, Borrowed, Disabled, Effect, Grows
<1>7. WakeupsMatch'
  BY SMTT(30), <1>3, <1>4, <1>5 DEF IInv, WakeupsMatch, Wakes, Pops, Effect, Grows
<1>. QED
  BY <1>1, <1>2, <1>6, <1>7 DEF IInv

\* A post: undone later on a disabled semaphore, otherwise a ticket that is
\* matched by a pop, or by nothing when the counter was negative.
LEMMA PostIInv ==
  ASSUME IInv, NEW r \in Routines, Post(r)
  PROVE  IInv'
<1>1. TypeOK'
  BY SMTT(30), RangeAssumption DEF IInv, Post, GoTo, TypeOK, Idle, Busy
<1>2. OneEntryPerWaiter'
  BY SMTT(30) DEF IInv, Post, GoTo, OneEntryPerWaiter, HasEntry, TypeOK
<1>3. /\ Cardinality(notified) \in Nat /\ notified' = notified
      /\ Queued \in Nat /\ Queued' = Queued
      /\ counter \in Int /\ counter' = counter + 1
      /\ taken \in Nat /\ given \in Nat /\ taken' = taken
      /\ pc[r] = "running"
  BY SMTT(30), NotifiedType DEF IInv, TypeOK, Post, Queued
<1>4. CASE disabling_threshold < counter /\ GoTo(r, "post_restore") /\ given' = given
  <2>1. Effect(0, 1, 0, 0, 0, 0, 0, 0)
    <3>1. MoveGrows("running", "post_restore")
      BY <1>3, <1>4, MovedGrows DEF IInv, GoTo, Places, Idle, Busy
    <3>. QED
      BY <3>1 DEF MoveGrows, Effect, Places, Idle, Busy
  <2>2. Books'
    BY SMTT(30), <1>3, <1>4, <2>1, Thresholds
    DEF IInv, Books, Ledger, TicketConservation, Borrowed, Disabled, Effect, Grows
  <2>3. ~(counter <= Wakes + Pops)
    BY SMTT(30), <1>3, <1>4, <2>1, WakesBound, Thresholds DEF IInv, Wakes, Pops, Effect, Grows
  <2>4. WakeupsMatch'
    BY SMTT(30), <1>3, <2>1, <2>3 DEF IInv, WakeupsMatch, Pops, Effect, Grows
  <2>. QED
    BY <1>1, <1>2, <2>2, <2>4 DEF IInv
<1>5. CASE /\ counter <= disabling_threshold /\ given < MaxPosts
           /\ GoTo(r, IF 0 <= counter THEN "post_pop" ELSE "running")
           /\ given' = given + 1
  <2>1. Capacity \in Nat /\ Capacity + given + 1 <= disabling_threshold
    BY SMTT(30), <1>3, <1>5, RangeAssumption, Thresholds
  <2>2. CASE 0 <= counter
    <3>1. Effect(0, 0, 0, 0, 0, 1, 0, 0)
      <4>1. MoveGrows("running", "post_pop")
        BY <1>3, <1>5, <2>2, MovedGrows DEF IInv, GoTo, Places, Idle, Busy
      <4>. QED
        BY <4>1 DEF MoveGrows, Effect, Places, Idle, Busy
    <3>2. Books'
      BY SMTT(20), <1>3, <1>5, <2>1, <3>1, Thresholds
      DEF IInv, Books, Ledger, TicketConservation, Borrowed, Disabled, Effect, Grows
    <3>3. WakeupsMatch'
      BY SMTT(30), <1>3, <3>1 DEF IInv, WakeupsMatch, Wakes, Pops, Effect, Grows
    <3>. QED
      BY <1>1, <1>2, <3>2, <3>3 DEF IInv
  <2>3. CASE ~(0 <= counter)
    <3>1. Effect(0, 0, 0, 0, 0, 0, 0, 0)
      <4>1. MoveGrows("running", "running")
        BY <1>3, <1>5, <2>3, MovedGrows DEF IInv, GoTo, Places, Idle, Busy
      <4>. QED
        BY <4>1 DEF MoveGrows, Effect, Places, Idle, Busy
    <3>2. Books'
      BY SMTT(20), <1>3, <1>5, <2>1, <3>1, Thresholds
      DEF IInv, Books, Ledger, TicketConservation, Borrowed, Disabled, Effect, Grows
    <3>3. WakeupsMatch'
      BY SMTT(30), <1>3, <2>3, <3>1 DEF WakeupsMatch, Wakes, Pops, Effect, Grows
    <3>. QED
      BY <1>1, <1>2, <3>2, <3>3 DEF IInv
  <2>. QED
    BY <2>2, <2>3
<1>. QED
  BY <1>4, <1>5 DEF Post

\* disable forgets the tickets and what was borrowed or not yet corrected;
\* each routine has at most one such unit.
LEMMA DisableIInv ==
  ASSUME IInv, NEW r \in Routines, Disable(r)
  PROVE  IInv'
<1>1. TypeOK'
  BY SMTT(30), Thresholds DEF IInv, Disable, GoTo, TypeOK, Idle, Busy
<1>2. OneEntryPerWaiter'
  BY SMTT(30) DEF IInv, Disable, GoTo, OneEntryPerWaiter, HasEntry, TypeOK
<1>3. Effect(0, 0, 0, 0, 0, 0, 0, 1)
  <2>1. MoveGrows("running", "drain")
    BY MovedGrows DEF IInv, Disable, GoTo, Places, Idle, Busy
  <2>. QED
    BY <2>1 DEF MoveGrows, Effect, Places, Idle, Busy
<1>4. Count(pc', "wait_restore") + Count(pc', "enqueue") + Count(pc', "release") <= NbRoutines
  BY CountsFit
<1>5. counter' = disabled_standpoint
  BY DEF Disable
<1>6. Books'
  BY SMTT(30), <1>3, <1>4, <1>5, Thresholds
  DEF Books, Ledger, TicketConservation, Borrowed, Disabled, Effect, Grows
<1>7. WakeupsMatch'
  BY SMTT(30), <1>3 DEF WakeupsMatch, Effect, Grows
<1>. QED
  BY <1>1, <1>2, <1>6, <1>7 DEF IInv

\* The drain goes on until the queue is empty.
LEMMA DrainIInv ==
  ASSUME IInv, NEW r \in Routines, Drain(r)
  PROVE  IInv'
<1>1. TypeOK /\ OneEntryPerWaiter /\ PopWaiter
  BY DEF IInv, Drain
<1>2. TypeOK'
  BY <1>1, PopWaiterMoves DEF Drain, GoTo, TypeOK, Idle, Busy
<1>3. OneEntryPerWaiter'
  <2>1. \A o \in Routines :
          pc'[o] \in {"release", "wait_pop", "suspended"}
            <=> pc[o] \in {"release", "wait_pop", "suspended"}
    BY <1>1 DEF Drain, GoTo, TypeOK
  <2>. QED
    BY <1>1, <2>1, PopWaiterMoves DEF OneEntryPerWaiter
<1>4. /\ counter \in Int /\ counter' = counter
      /\ taken \in Nat /\ given \in Nat /\ taken' = taken /\ given' = given
      /\ pc[r] = "drain"
  BY SMTT(30), <1>1 DEF TypeOK, Drain
<1>5. CASE waiters = <<>>
  <2>1. Effect(0, 0, 0, 0, 0, 0, 0, -1)
    <3>1. MoveGrows("drain", "running")
      BY <1>1, <1>4, <1>5, MovedGrows DEF Drain, GoTo, Places, Idle, Busy
    <3>. QED
      BY <3>1 DEF MoveGrows, Effect, Places, Idle, Busy
  <2>2. Books'
    BY SMTT(30), <1>4, <2>1, Thresholds
    DEF IInv, Books, Ledger, TicketConservation, Borrowed, Disabled, Effect, Grows
  <2>3. Queued' = 0
    BY <1>1, <1>5, PopWaiterMoves
  <2>4. WakeupsMatch'
    BY SMTT(30), <2>1, <2>3 DEF WakeupsMatch, Pops, Effect, Grows
  <2>. QED
    BY <1>2, <1>3, <2>2, <2>4 DEF IInv
<1>6. CASE waiters # <<>>
  <2>1. Effect(0, 0, 0, 0, 0, 0, 0, 0)
    <3>1. MoveGrows("drain", "drain")
      BY <1>1, <1>4, <1>6, MovedGrows DEF Drain, GoTo, Places, Idle, Busy
    <3>. QED
      BY <3>1 DEF MoveGrows, Effect, Places, Idle, Busy
  <2>2. Books'
    BY SMTT(30), <1>4, <2>1, Thresholds
    DEF IInv, Books, Ledger, TicketConservation, Borrowed, Disabled, Effect, Grows
  <2>3. Count(pc, "drain") > 0
    BY <1>4, CountPositive
  <2>4. WakeupsMatch'
    BY SMTT(30), <2>1, <2>3 DEF WakeupsMatch, Effect, Grows
  <2>. QED
    BY <1>2, <1>3, <2>2, <2>4 DEF IInv
<1>. QED
  BY <1>5, <1>6

-----------------------------------------------------------------------------
(***************************************************************************)
(* The theorems.                                                           *)
(***************************************************************************)
\* Each operation of the semaphore preserves the inductive invariant.
LEMMA NextIInv == IInv /\ [Next]_vars => IInv'
<1> SUFFICES ASSUME IInv, [Next]_vars PROVE IInv'
  OBVIOUS
<1>1. ASSUME NEW r \in Routines,
             \/ Wait(r) \/ Post(r) \/ Disable(r)
             \/ Notify(r) \/ Candidacy(r) \/ Progress(r)
      PROVE  IInv'
  <2>1. CASE Wait(r) \/ Candidacy(r)
    BY <2>1, TakeTicketIInv DEF Wait, Candidacy
  <2>2. CASE Post(r)
    BY <2>2, PostIInv
  <2>3. CASE Disable(r)
    BY <2>3, DisableIInv
  <2>4. CASE Notify(r)
    BY <2>4, NotifyIInv
  <2>5. CASE WaitRestore(r) \/ Enqueue(r) \/ Release(r)
    BY <2>5, WaitRestoreIInv, EnqueueIInv, ReleaseIInv
  <2>6. CASE Pop(r) \/ PostRestore(r) \/ Drain(r)
    BY <2>6, PopIInv, PostRestoreIInv, DrainIInv
  <2>. QED
    BY <1>1, <2>1, <2>2, <2>3, <2>4, <2>5, <2>6 DEF Progress
<1>2. CASE UNCHANGED vars
  BY SMTT(30), <1>2 DEF IInv, vars, TypeOK, OneEntryPerWaiter, HasEntry, Books, Ledger,
    TicketConservation, WakeupsMatch, Disabled, Borrowed, Wakes, Pops, Queued,
    Count, At
<1>. QED
  BY <1>1, <1>2 DEF Next

\* The inductive invariant holds of every reachable state.
LEMMA Invariance == Spec => []IInv
BY InitIInv, NextIInv, PTL DEF Spec

\* Type correctness: the counter, the queue and the commands of a semaphore
\* have their types, and a routine has at most one command in flight.
THEOREM TypeCorrect == Spec => []TypeOK
<1>1. IInv => TypeOK
  BY DEF IInv
<1>. QED
  BY <1>1, Invariance, PTL

\* Waiters are neither lost nor duplicated between the queue, the commands
\* and the scheduler (semaphore::write, pop_a_waiter, event_happened).
THEOREM WaitersKept == Spec => []OneEntryPerWaiter
<1>1. IInv => OneEntryPerWaiter
  BY DEF IInv
<1>. QED
  BY <1>1, Invariance, PTL

\* Tickets are neither lost nor made by racing waits, posts and candidacies.
THEOREM TicketsConserved == Spec => []TicketConservation
<1>1. IInv => TicketConservation
  BY DEF IInv, Books
<1>. QED
  BY <1>1, Invariance, PTL

\* The books of the counter balance at every step of wait, post and disable:
\* enabled, no correction is pending and candidates cover a counter below
\* zero; disabled, the counter is off the standpoint by the corrections that
\* pending calls have yet to make and by what each disable overwrote.
THEOREM BooksBalance == Spec => []Ledger
<1>1. IInv => Ledger
  BY DEF IInv, Books
<1>. QED
  BY <1>1, Invariance, PTL

\* Between any two steps, somebody is on the way to every ticket that a
\* suspended routine could have, or to every suspended routine.
THEOREM WakeupsAreMatched == Spec => []WakeupsMatch
<1>1. IInv => WakeupsMatch
  BY DEF IInv
<1>. QED
  BY <1>1, Invariance, PTL

\* No lost wake-up: when nothing is under way, a suspended routine and a
\* ticket, or a disabled semaphore, do not coexist.
THEOREM NoLostWakeup == Spec => []NoStrandedWaiter
<1>1. ASSUME IInv
      PROVE  NoStrandedWaiter
  <2> SUFFICES ASSUME Quiet, 0 < counter, NEW r \in Routines, pc[r] = "suspended"
               PROVE  FALSE
    BY DEF NoStrandedWaiter
  <2>1. /\ Count(pc, "candidate") = 0 /\ Count(pc, "wait_pop") = 0
        /\ Count(pc, "post_pop") = 0 /\ Count(pc, "release") = 0
        /\ Count(pc, "drain") = 0
    BY CountZero DEF Quiet
  <2>2. Cardinality(notified) = 0
    BY FS_EmptySet DEF Quiet
  <2>3. counter \in Int
    BY <1>1 DEF IInv, TypeOK
  <2>4. Queued <= 0
    BY SMTT(30), <1>1, <2>1, <2>2, <2>3 DEF IInv, WakeupsMatch, Wakes, Pops
  <2>5. HasEntry(r) /\ notified = {}
    BY <1>1 DEF IInv, OneEntryPerWaiter, Quiet
  <2>6. 1 <= Len(waiters)
    BY SMTT(30), <1>1, <2>5 DEF IInv, TypeOK, HasEntry
  <2>. QED
    BY SMTT(30), <1>1, <2>4, <2>6 DEF IInv, TypeOK, Queued
<1>. QED
  BY <1>1, Invariance, PTL

\* The widest the disabled range gets is still a 32-bit int.
LEMMA IntWidth ==
  /\ disabled_standpoint + 2 * NbRoutines <= 2147483647
  /\ disabling_threshold <= 2147483647
<1>1. NbRoutines \in Nat
  BY CountType
<1>2. 2 * NbRoutines < 536870912
  BY <1>1, RangeAssumption, SMT DEF disabling_threshold, disabled_standpoint, NbRoutines
<1>. QED
  BY <1>1, <1>2, SMT DEF disabling_threshold, disabled_standpoint

\* The pending corrections of wait, post and disable never take the counter
\* out of the 32-bit range, nor out of the range of the semaphore's state.
THEOREM CounterStaysInRange == Spec => []CounterInRange
<1>1. ASSUME IInv
      PROVE  CounterInRange
  <2> DEFINE Max32 == 2147483647
  <2>1. /\ Count(pc, "wait_restore") \in Nat /\ Count(pc, "post_restore") \in Nat
        /\ Count(pc, "enqueue") \in Nat /\ Count(pc, "release") \in Nat
        /\ Count(pc, "wait_restore") <= NbRoutines
        /\ Count(pc, "post_restore") <= NbRoutines
        /\ NbRoutines \in Nat
    BY CountType
  <2>2. Count(pc, "enqueue") + Count(pc, "release") + Count(pc, "drain") <= NbRoutines
    BY CountsFit
  <2>3. Count(pc, "drain") \in Nat
    BY CountType
  <2>4. /\ counter \in Int /\ taken \in Nat /\ given \in Nat /\ given <= MaxPosts
        /\ Capacity \in Nat /\ MaxPosts \in Nat
        /\ Capacity + MaxPosts <= disabling_threshold
    BY SMTT(30), <1>1, RangeAssumption DEF IInv, TypeOK
  <2>5. CASE Disabled
    <3>1. /\ disabled_standpoint - 2 * NbRoutines <= counter
          /\ counter <= disabled_standpoint + 2 * NbRoutines
          /\ -NbRoutines <= counter
      BY SMTT(30), <1>1, <2>1, <2>4, <2>5, Thresholds DEF IInv, Books, Ledger, Borrowed, Disabled
    <3>. HIDE DEF Max32
    <3>2. disabled_standpoint + 2 * NbRoutines <= Max32 /\ Max32 \in Int
      BY IntWidth, SMT DEF Max32
    <3>3. counter <= Max32
      BY SMTT(30), <2>1, <2>4, <3>1, <3>2, Thresholds
    <3>. QED
      BY <2>1, <2>4, <2>5, <3>1, <3>3, Thresholds, SMT DEF CounterInRange, Max32
  <2>6. CASE ~Disabled
    <3>1. -NbRoutines <= counter /\ counter <= Capacity + MaxPosts
      BY SMTT(30), <1>1, <2>1, <2>2, <2>3, <2>4, <2>6
      DEF IInv, Books, Ledger, TicketConservation, Borrowed
    <3>. HIDE DEF Max32
    <3>2. disabling_threshold <= Max32 /\ Max32 \in Int
      BY IntWidth, SMT DEF Max32
    <3>3. counter <= Max32
      BY SMTT(30), <2>4, <3>1, <3>2, Thresholds
    <3>. QED
      BY <2>6, <3>1, <3>3, SMT DEF CounterInRange, Max32
  <2>. QED
    BY <2>5, <2>6
<1>. QED
  BY <1>1, Invariance, PTL

\* A disabled counter has room for one more subtraction by a routine that
\* has none pending.
LEMMA RoomBelow ==
  ASSUME IInv, Disabled, NEW r \in Routines, pc[r] # "wait_restore"
  PROVE  disabling_threshold < counter - 1
<1>1. PICK c \in {"drain", "enqueue"} : c # pc[r]
  OBVIOUS
<1>2. /\ Count(pc, "wait_restore") + Count(pc, pc[r]) + Count(pc, c) <= NbRoutines
      /\ Count(pc, pc[r]) > 0
  BY <1>1, CountsFit, CountPositive
<1>3. /\ Count(pc, "wait_restore") \in Nat /\ Count(pc, "post_restore") \in Nat
      /\ Count(pc, pc[r]) \in Nat /\ Count(pc, c) \in Nat /\ NbRoutines \in Nat
  BY CountType
<1>4. Count(pc, "wait_restore") <= NbRoutines - 1
  BY SMTT(30), <1>2, <1>3
<1>5. counter \in Int
  BY DEF IInv, TypeOK
<1>6. disabled_standpoint - NbRoutines
        <= counter + Count(pc, "wait_restore") - Count(pc, "post_restore")
  BY DEF IInv, Books, Ledger
<1>. QED
  BY SMTT(30), <1>3, <1>4, <1>5, <1>6, Thresholds

\* Once disabled, always disabled.
LEMMA DisabledForGood ==
  ASSUME IInv, [Next]_vars, Disabled
  PROVE  Disabled'
<1>1. counter \in Int /\ disabling_threshold \in Nat /\ disabled_standpoint \in Nat
      /\ disabling_threshold < disabled_standpoint
  BY Thresholds DEF IInv, TypeOK
<1>2. ASSUME NEW r \in Routines, pc[r] # "wait_restore", counter' = counter - 1
      PROVE  Disabled'
  BY <1>2, RoomBelow DEF Disabled
<1>3. ASSUME counter' = counter \/ counter' = counter + 1 \/ counter' = disabled_standpoint
      PROVE  Disabled'
  BY SMTT(30), <1>1, <1>3 DEF Disabled
<1>4. ASSUME NEW r \in Routines,
             \/ Wait(r) \/ Post(r) \/ Disable(r)
             \/ Notify(r) \/ Candidacy(r) \/ Progress(r)
      PROVE  Disabled'
  <2>1. CASE Wait(r) \/ Candidacy(r) \/ PostRestore(r)
    BY <1>2, <2>1 DEF Wait, Candidacy, TakeTicket, PostRestore
  <2>2. CASE Post(r) \/ Disable(r) \/ Notify(r)
    BY <1>3, <2>2 DEF Post, Disable, Notify
  <2>3. CASE WaitRestore(r) \/ Enqueue(r) \/ Release(r) \/ Pop(r) \/ Drain(r)
    BY <1>3, <2>3 DEF WaitRestore, Enqueue, Release, Pop, Drain
  <2>. QED
    BY <1>4, <2>1, <2>2, <2>3 DEF Progress
<1>5. CASE UNCHANGED vars
  BY <1>3, <1>5 DEF vars
<1>. QED
  BY <1>4, <1>5 DEF Next

\* Every step is a step of the pool or none at all.
LEMMA PoolStep == IInv /\ [Next]_vars => [Pool!PoolNext]_(Pool!poolVars)
<1> SUFFICES ASSUME IInv, [Next]_vars PROVE [Pool!PoolNext]_(Pool!poolVars)
  OBVIOUS
<1>1. /\ counter \in Int /\ taken \in Nat /\ given \in Nat /\ disabling_threshold \in Nat
      /\ Capacity \in Nat /\ MaxPosts \in Nat /\ Capacity + MaxPosts <= disabling_threshold
  BY SMTT(30), RangeAssumption, Thresholds DEF IInv, TypeOK
<1>2. Count(pc, "enqueue") \in Nat /\ Count(pc, "release") \in Nat
  BY CountType
<1>3. ASSUME taken' = taken, given' = given
      PROVE  [Pool!PoolNext]_(Pool!poolVars)
  <2>1. CASE Disabled
    <3>1. Disabled'
      BY <2>1, DisabledForGood
    <3>. QED
      BY <1>3, <3>1 DEF Pool!PoolNext, Pool!Close
  <2>2. CASE Disabled'
    BY <1>3, <2>2 DEF Pool!PoolNext, Pool!Close
  <2>3. CASE ~Disabled /\ ~Disabled'
    BY SMTT(30), <1>3, <2>3 DEF Pool!poolVars, Disabled
  <2>. QED
    BY <2>1, <2>2, <2>3
<1>4. ASSUME NEW r \in Routines, TakeTicket(r), taken' # taken
      PROVE  Pool!PoolNext
  <2>1. /\ counter \in 1 .. disabling_threshold /\ counter' = counter - 1
        /\ taken' = taken + 1 /\ given' = given
    BY <1>4 DEF TakeTicket
  <2>2. ~Disabled /\ ~Disabled'
    BY SMTT(30), <1>1, <2>1 DEF Disabled
  <2>3. taken < Capacity + given
    BY SMTT(30), <1>1, <1>2, <2>1, <2>2 DEF IInv, Books, TicketConservation, Borrowed
  <2>. QED
    BY SMTT(30), <2>1, <2>2, <2>3 DEF Pool!PoolNext, Pool!Take, Disabled
<1>5. ASSUME NEW r \in Routines, Post(r), given' # given
      PROVE  Pool!PoolNext
  <2>1. /\ counter <= disabling_threshold /\ counter' = counter + 1
        /\ given < MaxPosts /\ given' = given + 1 /\ taken' = taken
    BY <1>5 DEF Post
  <2>2. ~Disabled
    BY SMTT(30), <1>1, <2>1 DEF Disabled
  <2>3. counter + 1 <= disabling_threshold
    BY SMTT(30), <1>1, <1>2, <2>1, <2>2 DEF IInv, Books, TicketConservation, Borrowed
  <2>4. ~Disabled'
    BY SMTT(30), <1>1, <2>1, <2>3 DEF Disabled
  <2>. QED
    BY SMTT(30), <2>1, <2>2, <2>4 DEF Pool!PoolNext, Pool!Give, Disabled
<1>6. ASSUME NEW r \in Routines,
             \/ Wait(r) \/ Post(r) \/ Disable(r)
             \/ Notify(r) \/ Candidacy(r) \/ Progress(r)
      PROVE  [Pool!PoolNext]_(Pool!poolVars)
  <2>1. CASE Wait(r) \/ Candidacy(r)
    <3>1. TakeTicket(r) /\ given' = given
      BY <2>1 DEF Wait, Candidacy, TakeTicket
    <3>. QED
      BY <1>3, <1>4, <3>1
  <2>2. CASE Post(r)
    <3>1. taken' = taken
      BY <2>2 DEF Post
    <3>. QED
      BY <1>3, <1>5, <2>2, <3>1
  <2>3. CASE Disable(r) \/ Notify(r) \/ Progress(r)
    <3>1. taken' = taken /\ given' = given
      BY <2>3 DEF Disable, Notify, Progress, WaitRestore, Enqueue, Release, Pop,
        PostRestore, Drain
    <3>. QED
      BY <1>3, <3>1
  <2>. QED
    BY <1>6, <2>1, <2>2, <2>3
<1>7. CASE UNCHANGED vars
  BY <1>3, <1>7 DEF vars
<1>. QED
  BY <1>6, <1>7 DEF Next

\* The atomic counter, the queue and the commands implement a ticket pool.
THEOREM SemaphoreIsPool == Spec => ImplementsPool
<1>1. Init => Pool!PoolInit
  <2> SUFFICES ASSUME Init PROVE Pool!PoolInit
    OBVIOUS
  <2>1. ~Disabled
    BY SMTT(30), RangeAssumption, Thresholds DEF Init, Disabled
  <2>. QED
    BY SMTT(30), <2>1 DEF Init, Pool!PoolInit
<1>. QED
  BY <1>1, PoolStep, Invariance, PTL DEF Spec, ImplementsPool, Pool!PoolSpec

=============================================================================

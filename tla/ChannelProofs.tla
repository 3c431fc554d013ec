---------------------------- MODULE ChannelProofs ----------------------------
(***************************************************************************)
(* What Channel promises for any routines, cells and number of writes:     *)
(* nothing written before close is lost, and readers are released.  And    *)
(* what a read returns, where the semaphores keep routines out of each     *)
(* other's cells: one cell for any routines, or any number of cells        *)
(* between one writer and one reader.                                      *)
(***************************************************************************)
EXTENDS Channel, FiniteSetTheorems, TLAPS

\* Leaves are proved by Zenon, unless they name another prover.
USE ZenonT(30)

WriterPlaces == {"idle", "claim", "store", "post", "closed"}
TestPlaces == {"load", "load_tail", "load_head", "disable", "out"}
ReaderPlaces == {"idle", "claim", "move", "post", "closed"} \union TestPlaces
CloserPlaces == {"idle", "closed"} \union TestPlaces

TypeOK ==
  /\ holds \in Contents
  /\ wTaken \in Nat /\ wGiven \in Nat /\ wClosed \in BOOLEAN
  /\ rTaken \in Nat /\ rGiven \in Nat /\ rClosed \in BOOLEAN
  /\ wTaken <= Size + wGiven /\ rTaken <= rGiven
  /\ head \in Nat /\ tail \in Nat
  /\ pc \in [Routines -> ReaderPlaces \union WriterPlaces]
  /\ \A w \in Writers : pc[w] \in WriterPlaces
  /\ \A r \in Readers : pc[r] \in ReaderPlaces
  /\ \A c \in Closers : pc[c] \in CloserPlaces
  /\ mine \in [Routines -> Nat]

\* A channel of nothing never enters its ring.
NoRing == holds = "nothing" =>
            /\ early = {} /\ received = <<>>
            /\ \A r \in Routines : pc[r] \notin {"claim", "store", "move", "load", "load_tail", "load_head"}

\* Whoever tests the ring comes after close, and so after the last of the
\* early writes: what it loads covers them all.
Delivery ==
  /\ \A i \in early : i \in Nat /\ i < head
  /\ \A w \in Writers : holds = "values" /\ pc[w] \in {"store", "post"} => mine[w] < head
  /\ \A r \in Routines :
       /\ pc[r] \in {"load", "load_tail", "load_head", "disable"} => wClosed
       /\ pc[r] = "load_tail" => \A i \in early : i < mine[r]
       /\ pc[r] = "load_head" => mine[r] <= tail
       /\ pc[r] = "disable" => \A i \in early : i < tail
  /\ rClosed => wClosed /\ \A i \in early : i < tail

\* The routines that hold a ticket of the ring, by what they do with it.
Claiming == {w \in Writers : pc[w] = "claim"}
Filling == {w \in Writers : pc[w] \in {"store", "post"}}
Arriving == {r \in Readers : pc[r] = "claim"}
Leaving == {r \in Readers : pc[r] \in {"move", "post"}}

\* The counters and the tickets: readers' tickets stand for cells that are
\* filled, and a cell has its ticket or is between the counters or is held by
\* a routine.  Once a semaphore is disabled tickets get lost.
Counting == holds = "values" =>
  /\ rTaken = tail + Cardinality(Arriving)
  /\ rGiven + Cardinality(Filling) <= head
  /\ ~rClosed => rGiven + Cardinality(Filling) = head
  /\ (head - tail) + Cardinality(Claiming) + Cardinality(Leaving) + wGiven <= wTaken

\* A routine that will find out that the ring is empty, if it is now.
WillRelease(r) ==
  \/ pc[r] \in {"load", "disable"}
  \/ holds = "values" /\ r \in Readers /\ pc[r] \in {"move", "post"}
  \/ pc[r] = "load_tail" /\ mine[r] = head
  \/ pc[r] = "load_head" /\ mine[r] = tail

\* After close, readers are released or somebody is left to do it.
Release ==
  wClosed /\ ~rClosed => (holds = "values" /\ head # tail) \/ \E r \in Routines : WillRelease(r)

IInv == TypeOK /\ NoRing /\ Delivery /\ Counting /\ Release

-----------------------------------------------------------------------------
\* Every step keeps the types.
LEMMA TypeStep ==
  ASSUME TypeOK, [Next]_vars
  PROVE  TypeOK'
<1> USE ChannelAssumption DEF Routines, Contents, TypeOK, GoTo, writerPool, readerPool, history,
        WriterPlaces, ReaderPlaces, CloserPlaces, TestPlaces
<1>1. ASSUME NEW w \in Writers, WriteWait(w)  PROVE TypeOK'
  BY SMTT(30), <1>1 DEF WriteWait, WithTicket, writer_slots!Take
<1>2. ASSUME NEW w \in Writers, WriteClaim(w)  PROVE TypeOK'
  BY SMTT(30), <1>2 DEF WriteClaim
<1>3. ASSUME NEW w \in Writers, WriteStore(w)  PROVE TypeOK'
  BY <1>3 DEF WriteStore
<1>4. ASSUME NEW w \in Writers, WritePost(w)  PROVE TypeOK'
  BY SMTT(30), <1>4 DEF WritePost, readers_slots!Give
<1>5. ASSUME NEW r \in Readers, ReadWait(r)  PROVE TypeOK'
  BY SMTT(30), <1>5 DEF ReadWait, WithTicket, readers_slots!Take
<1>6. ASSUME NEW r \in Readers, ReadClaim(r)  PROVE TypeOK'
  BY SMTT(30), <1>6 DEF ReadClaim
<1>7. ASSUME NEW r \in Readers, ReadMove(r)  PROVE TypeOK'
  BY <1>7 DEF ReadMove
<1>8. ASSUME NEW r \in Readers, ReadPost(r)  PROVE TypeOK'
  BY SMTT(30), <1>8 DEF ReadPost, writer_slots!Give
<1>9. ASSUME NEW c \in Closers, CloseWriters(c)  PROVE TypeOK'
  BY <1>9 DEF CloseWriters, OnceClosed, writer_slots!Close
<1>10. ASSUME NEW r \in Readers \union Closers, LoadFirst(r)  PROVE TypeOK'
  BY SMTT(30), <1>10 DEF LoadFirst
<1>11. ASSUME NEW r \in Readers \union Closers, LoadSecond(r)  PROVE TypeOK'
  BY <1>11 DEF LoadSecond
<1>12. ASSUME NEW r \in Readers \union Closers, DisableReaders(r)  PROVE TypeOK'
  BY <1>12 DEF DisableReaders, readers_slots!Close
<1>13. ASSUME NEW r \in Readers \union Closers, Out(r)  PROVE TypeOK'
  BY <1>13 DEF Out
<1>14. ASSUME UNCHANGED vars  PROVE TypeOK'
  BY <1>14 DEF vars
<1> QED
  BY <1>1, <1>2, <1>3, <1>4, <1>5, <1>6, <1>7, <1>8, <1>9, <1>10, <1>11, <1>12, <1>13, <1>14
  DEF Next, Write, Read, WriterStep, ReaderStep, EmptyTest

\* A channel of nothing stays away from its ring.
LEMMA NoRingStep ==
  ASSUME TypeOK, NoRing, [Next]_vars
  PROVE  NoRing'
<1> USE ChannelAssumption DEF Routines, Contents, TypeOK, GoTo, writerPool, readerPool,
                              history, NoRing
<1>1. ASSUME NEW w \in Writers, WriteWait(w)  PROVE NoRing'
  BY <1>1 DEF WriteWait, WithTicket, writer_slots!Take
<1>2. ASSUME NEW w \in Writers, WriteClaim(w)  PROVE NoRing'
  BY <1>2 DEF WriteClaim
<1>3. ASSUME NEW w \in Writers, WriteStore(w)  PROVE NoRing'
  BY <1>3 DEF WriteStore
<1>4. ASSUME NEW w \in Writers, WritePost(w)  PROVE NoRing'
  BY <1>4 DEF WritePost, readers_slots!Give
<1>5. ASSUME NEW r \in Readers, ReadWait(r)  PROVE NoRing'
  BY <1>5 DEF ReadWait, WithTicket, readers_slots!Take
<1>6. ASSUME NEW r \in Readers, ReadClaim(r)  PROVE NoRing'
  BY <1>6 DEF ReadClaim
<1>7. ASSUME NEW r \in Readers, ReadMove(r)  PROVE NoRing'
  BY <1>7 DEF ReadMove
<1>8. ASSUME NEW r \in Readers, ReadPost(r)  PROVE NoRing'
  BY <1>8 DEF ReadPost, writer_slots!Give
<1>9. ASSUME NEW c \in Closers, CloseWriters(c)  PROVE NoRing'
  BY <1>9 DEF CloseWriters, OnceClosed, writer_slots!Close
<1>10. ASSUME NEW r \in Readers \union Closers, LoadFirst(r)  PROVE NoRing'
  BY <1>10 DEF LoadFirst
<1>11. ASSUME NEW r \in Readers \union Closers, LoadSecond(r)  PROVE NoRing'
  BY <1>11 DEF LoadSecond
<1>12. ASSUME NEW r \in Readers \union Closers, DisableReaders(r)  PROVE NoRing'
  BY <1>12 DEF DisableReaders, readers_slots!Close
<1>13. ASSUME NEW r \in Readers \union Closers, Out(r)  PROVE NoRing'
  BY <1>13 DEF Out
<1>14. ASSUME UNCHANGED vars  PROVE NoRing'
  BY <1>14 DEF vars
<1> QED
  BY <1>1, <1>2, <1>3, <1>4, <1>5, <1>6, <1>7, <1>8, <1>9, <1>10, <1>11, <1>12, <1>13, <1>14
  DEF Next, Write, Read, WriterStep, ReaderStep, EmptyTest

\* A test of the ring starts after close, when no early write is left to come;
\* what it loads, and what the readers claimed when it succeeds, covers them.
LEMMA DeliveryStep ==
  ASSUME TypeOK, NoRing, Delivery, [Next]_vars
  PROVE  Delivery'
<1> USE ChannelAssumption DEF Routines, Contents, TypeOK, GoTo, writerPool, readerPool,
                              history, NoRing, Delivery
<1>1. ASSUME NEW w \in Writers, WriteWait(w)  PROVE Delivery'
  BY SMTT(30), <1>1 DEF WriteWait, WithTicket, writer_slots!Take
<1>2. ASSUME NEW w \in Writers, WriteClaim(w)  PROVE Delivery'
  BY SMTT(30), <1>2 DEF WriteClaim
<1>3. ASSUME NEW w \in Writers, WriteStore(w)  PROVE Delivery'
  BY <1>3 DEF WriteStore
<1>4. ASSUME NEW w \in Writers, WritePost(w)  PROVE Delivery'
  BY SMTT(30), <1>4 DEF WritePost, readers_slots!Give
<1>5. ASSUME NEW r \in Readers, ReadWait(r)  PROVE Delivery'
  BY SMTT(30), <1>5 DEF ReadWait, WithTicket, readers_slots!Take
<1>6. ASSUME NEW r \in Readers, ReadClaim(r)  PROVE Delivery'
  BY SMTT(30), <1>6 DEF ReadClaim
<1>7. ASSUME NEW r \in Readers, ReadMove(r)  PROVE Delivery'
  BY <1>7 DEF ReadMove
<1>8. ASSUME NEW r \in Readers, ReadPost(r)  PROVE Delivery'
  BY <1>8 DEF ReadPost, writer_slots!Give
<1>9. ASSUME NEW c \in Closers, CloseWriters(c)  PROVE Delivery'
  BY <1>9 DEF CloseWriters, OnceClosed, writer_slots!Close
<1>10. ASSUME NEW r \in Readers \union Closers, LoadFirst(r)  PROVE Delivery'
  BY SMTT(30), <1>10 DEF LoadFirst
<1>11. ASSUME NEW r \in Readers \union Closers, LoadSecond(r)  PROVE Delivery'
  BY SMTT(30), <1>11 DEF LoadSecond
<1>12. ASSUME NEW r \in Readers \union Closers, DisableReaders(r)  PROVE Delivery'
  BY <1>12 DEF DisableReaders, readers_slots!Close
<1>13. ASSUME NEW r \in Readers \union Closers, Out(r)  PROVE Delivery'
  BY <1>13 DEF Out
<1>14. ASSUME UNCHANGED vars  PROVE Delivery'
  BY <1>14 DEF vars
<1> QED
  BY <1>1, <1>2, <1>3, <1>4, <1>5, <1>6, <1>7, <1>8, <1>9, <1>10, <1>11, <1>12, <1>13, <1>14
  DEF Next, Write, Read, WriterStep, ReaderStep, EmptyTest

\* The routines in each of the four places can be counted.
LEMMA CountTypes ==
  /\ IsFiniteSet(Claiming) /\ IsFiniteSet(Filling) /\ IsFiniteSet(Arriving) /\ IsFiniteSet(Leaving)
  /\ Cardinality(Claiming) \in Nat /\ Cardinality(Filling) \in Nat
  /\ Cardinality(Arriving) \in Nat /\ Cardinality(Leaving) \in Nat
BY ChannelAssumption, FS_Subset, FS_CardinalityType DEF Claiming, Filling, Arriving, Leaving

\* Tickets, counters and routines stay in step.
LEMMA CountingStep ==
  ASSUME TypeOK, Counting, holds = "values", [Next]_vars
  PROVE  Counting'
<1>0. /\ IsFiniteSet(Claiming) /\ IsFiniteSet(Filling) /\ IsFiniteSet(Arriving) /\ IsFiniteSet(Leaving)
      /\ Cardinality(Claiming) \in Nat /\ Cardinality(Filling) \in Nat
      /\ Cardinality(Arriving) \in Nat /\ Cardinality(Leaving) \in Nat
      /\ wTaken \in Nat /\ wGiven \in Nat /\ rTaken \in Nat /\ rGiven \in Nat
      /\ head \in Nat /\ tail \in Nat
  BY CountTypes DEF TypeOK
<1>1. ASSUME NEW w \in Writers, WriteWait(w)  PROVE Counting'
  <2>1. CASE ~wClosed
    <3>1. /\ Claiming' = Claiming \union {w} /\ w \notin Claiming
          /\ UNCHANGED <<Filling, Arriving, Leaving>>
      BY SMTT(30), <1>1, ChannelAssumption, <2>1
      DEF WriteWait, WithTicket, writer_slots!Take, GoTo, TypeOK, Routines, Claiming, Filling,
          Arriving, Leaving
    <3>2. Cardinality(Claiming') = Cardinality(Claiming) + 1
      BY <1>0, <3>1, FS_AddElement, FS_RemoveElement
    <3>3. wTaken' = wTaken + 1 /\ UNCHANGED <<holds, wGiven, rTaken, rGiven, rClosed, head, tail>>
      BY <1>1, <2>1 DEF WriteWait, WithTicket, writer_slots!Take, GoTo, TypeOK, writerPool,
                        readerPool
    <3> QED
      BY SMTT(30), <1>0, <3>1, <3>2, <3>3, <2>1 DEF Counting
  <2>2. CASE wClosed
    <3>1. UNCHANGED <<Claiming, Filling, Arriving, Leaving>>
      BY <1>1, ChannelAssumption, <2>2
      DEF WriteWait, WithTicket, writer_slots!Take, GoTo, TypeOK, Routines, Claiming, Filling,
          Arriving, Leaving
    <3>2. UNCHANGED <<holds, wTaken, wGiven, rTaken, rGiven, rClosed, head, tail>>
      BY <1>1, <2>2 DEF WriteWait, WithTicket, writer_slots!Take, GoTo, TypeOK, writerPool,
                        readerPool
    <3> QED
      BY <1>0, <3>1, <3>2, <2>2 DEF Counting
  <2> QED
    BY <2>1, <2>2
<1>2. ASSUME NEW w \in Writers, WriteClaim(w)  PROVE Counting'
  <2>1. /\ Claiming' = Claiming \ {w} /\ w \in Claiming
        /\ Filling' = Filling \union {w} /\ w \notin Filling
        /\ UNCHANGED <<Arriving, Leaving>>
    BY <1>2, ChannelAssumption
    DEF WriteClaim, GoTo, TypeOK, Routines, Claiming, Filling, Arriving, Leaving
  <2>2. /\ Cardinality(Claiming') = Cardinality(Claiming) - 1
        /\ Cardinality(Filling') = Cardinality(Filling) + 1
    BY <1>0, <2>1, FS_AddElement, FS_RemoveElement
  <2>3. head' = head + 1 /\ UNCHANGED <<holds, wTaken, wGiven, rTaken, rGiven, rClosed, tail>>
    BY <1>2 DEF WriteClaim, GoTo, TypeOK, writerPool, readerPool
  <2> QED
    BY SMTT(30), <1>0, <2>1, <2>2, <2>3 DEF Counting
<1>3. ASSUME NEW w \in Writers, WriteStore(w)  PROVE Counting'
  <2>1. UNCHANGED <<Claiming, Filling, Arriving, Leaving>>
    BY <1>3, ChannelAssumption
    DEF WriteStore, GoTo, TypeOK, Routines, Claiming, Filling, Arriving, Leaving
  <2>2. UNCHANGED <<holds, wTaken, wGiven, rTaken, rGiven, rClosed, head, tail>>
    BY <1>3 DEF WriteStore, GoTo, TypeOK, writerPool, readerPool
  <2> QED
    BY <1>0, <2>1, <2>2 DEF Counting
<1>4. ASSUME NEW w \in Writers, WritePost(w)  PROVE Counting'
  <2>1. CASE ~rClosed
    <3>1. /\ Filling' = Filling \ {w} /\ w \in Filling
          /\ UNCHANGED <<Claiming, Arriving, Leaving>>
      BY <1>4, ChannelAssumption, <2>1
      DEF WritePost, readers_slots!Give, GoTo, TypeOK, Routines, Claiming, Filling, Arriving,
          Leaving
    <3>2. Cardinality(Filling') = Cardinality(Filling) - 1
      BY <1>0, <3>1, FS_AddElement, FS_RemoveElement
    <3>3. rGiven' = rGiven + 1 /\ UNCHANGED <<holds, wTaken, wGiven, rTaken, rClosed, head, tail>>
      BY <1>4, <2>1 DEF WritePost, readers_slots!Give, GoTo, TypeOK, writerPool, readerPool
    <3> QED
      BY SMTT(30), <1>0, <3>1, <3>2, <3>3, <2>1 DEF Counting
  <2>2. CASE rClosed
    <3>1. /\ Filling' = Filling \ {w} /\ w \in Filling
          /\ UNCHANGED <<Claiming, Arriving, Leaving>>
      BY <1>4, ChannelAssumption, <2>2
      DEF WritePost, readers_slots!Give, GoTo, TypeOK, Routines, Claiming, Filling, Arriving,
          Leaving
    <3>2. Cardinality(Filling') = Cardinality(Filling) - 1
      BY <1>0, <3>1, FS_AddElement, FS_RemoveElement
    <3>3. UNCHANGED <<holds, wTaken, wGiven, rTaken, rGiven, rClosed, head, tail>>
      BY <1>4, <2>2 DEF WritePost, readers_slots!Give, GoTo, TypeOK, writerPool, readerPool
    <3> QED
      BY SMTT(30), <1>0, <3>1, <3>2, <3>3, <2>2 DEF Counting
  <2> QED
    BY <2>1, <2>2
<1>5. ASSUME NEW r \in Readers, ReadWait(r)  PROVE Counting'
  <2>1. CASE ~rClosed
    <3>1. /\ Arriving' = Arriving \union {r} /\ r \notin Arriving
          /\ UNCHANGED <<Claiming, Filling, Leaving>>
      BY SMTT(30), <1>5, ChannelAssumption, <2>1
      DEF ReadWait, WithTicket, readers_slots!Take, GoTo, TypeOK, Routines, Claiming, Filling,
          Arriving, Leaving
    <3>2. Cardinality(Arriving') = Cardinality(Arriving) + 1
      BY <1>0, <3>1, FS_AddElement, FS_RemoveElement
    <3>3. rTaken' = rTaken + 1 /\ UNCHANGED <<holds, wTaken, wGiven, rGiven, rClosed, head, tail>>
      BY <1>5, <2>1 DEF ReadWait, WithTicket, readers_slots!Take, GoTo, TypeOK, writerPool,
                        readerPool
    <3> QED
      BY SMTT(30), <1>0, <3>1, <3>2, <3>3, <2>1 DEF Counting
  <2>2. CASE rClosed
    <3>1. UNCHANGED <<Claiming, Filling, Arriving, Leaving>>
      BY <1>5, ChannelAssumption, <2>2
      DEF ReadWait, WithTicket, readers_slots!Take, GoTo, TypeOK, Routines, Claiming, Filling,
          Arriving, Leaving
    <3>2. UNCHANGED <<holds, wTaken, wGiven, rTaken, rGiven, rClosed, head, tail>>
      BY <1>5, <2>2 DEF ReadWait, WithTicket, readers_slots!Take, GoTo, TypeOK, writerPool,
                        readerPool
    <3> QED
      BY <1>0, <3>1, <3>2, <2>2 DEF Counting
  <2> QED
    BY <2>1, <2>2
<1>6. ASSUME NEW r \in Readers, ReadClaim(r)  PROVE Counting'
  <2>1. /\ Arriving' = Arriving \ {r} /\ r \in Arriving
        /\ Leaving' = Leaving \union {r} /\ r \notin Leaving
        /\ UNCHANGED <<Claiming, Filling>>
    BY <1>6, ChannelAssumption
    DEF ReadClaim, GoTo, TypeOK, Routines, Claiming, Filling, Arriving, Leaving
  <2>2. /\ Cardinality(Arriving') = Cardinality(Arriving) - 1
        /\ Cardinality(Leaving') = Cardinality(Leaving) + 1
    BY <1>0, <2>1, FS_AddElement, FS_RemoveElement
  <2>3. tail' = tail + 1 /\ UNCHANGED <<holds, wTaken, wGiven, rTaken, rGiven, rClosed, head>>
    BY <1>6 DEF ReadClaim, GoTo, TypeOK, writerPool, readerPool
  <2> QED
    BY SMTT(30), <1>0, <2>1, <2>2, <2>3 DEF Counting
<1>7. ASSUME NEW r \in Readers, ReadMove(r)  PROVE Counting'
  <2>1. UNCHANGED <<Claiming, Filling, Arriving, Leaving>>
    BY <1>7, ChannelAssumption
    DEF ReadMove, GoTo, TypeOK, Routines, Claiming, Filling, Arriving, Leaving
  <2>2. UNCHANGED <<holds, wTaken, wGiven, rTaken, rGiven, rClosed, head, tail>>
    BY <1>7 DEF ReadMove, GoTo, TypeOK, writerPool, readerPool
  <2> QED
    BY <1>0, <2>1, <2>2 DEF Counting
<1>8. ASSUME NEW r \in Readers, ReadPost(r)  PROVE Counting'
  <2>1. CASE ~wClosed
    <3>1. /\ Leaving' = Leaving \ {r} /\ r \in Leaving
          /\ UNCHANGED <<Claiming, Filling, Arriving>>
      BY <1>8, ChannelAssumption, <2>1
      DEF ReadPost, writer_slots!Give, GoTo, TypeOK, Routines, Claiming, Filling, Arriving,
          Leaving
    <3>2. Cardinality(Leaving') = Cardinality(Leaving) - 1
      BY <1>0, <3>1, FS_AddElement, FS_RemoveElement
    <3>3. wGiven' = wGiven + 1 /\ UNCHANGED <<holds, wTaken, rTaken, rGiven, rClosed, head, tail>>
      BY <1>8, <2>1 DEF ReadPost, writer_slots!Give, GoTo, TypeOK, writerPool, readerPool
    <3> QED
      BY SMTT(30), <1>0, <3>1, <3>2, <3>3, <2>1 DEF Counting
  <2>2. CASE wClosed
    <3>1. /\ Leaving' = Leaving \ {r} /\ r \in Leaving
          /\ UNCHANGED <<Claiming, Filling, Arriving>>
      BY <1>8, ChannelAssumption, <2>2
      DEF ReadPost, writer_slots!Give, GoTo, TypeOK, Routines, Claiming, Filling, Arriving,
          Leaving
    <3>2. Cardinality(Leaving') = Cardinality(Leaving) - 1
      BY <1>0, <3>1, FS_AddElement, FS_RemoveElement
    <3>3. UNCHANGED <<holds, wTaken, wGiven, rTaken, rGiven, rClosed, head, tail>>
      BY <1>8, <2>2 DEF ReadPost, writer_slots!Give, GoTo, TypeOK, writerPool, readerPool
    <3> QED
      BY SMTT(30), <1>0, <3>1, <3>2, <3>3, <2>2 DEF Counting
  <2> QED
    BY <2>1, <2>2
<1>9. ASSUME NEW c \in Closers, CloseWriters(c)  PROVE Counting'
  <2>1. UNCHANGED <<Claiming, Filling, Arriving, Leaving>>
    BY <1>9, ChannelAssumption
    DEF CloseWriters, OnceClosed, writer_slots!Close, GoTo, TypeOK, Routines, Claiming,
        Filling, Arriving, Leaving
  <2>2. UNCHANGED <<holds, wTaken, wGiven, rTaken, rGiven, rClosed, head, tail>>
    BY <1>9 DEF CloseWriters, OnceClosed, writer_slots!Close, GoTo, TypeOK, writerPool,
                readerPool
  <2> QED
    BY <1>0, <2>1, <2>2 DEF Counting
<1>10. ASSUME NEW r \in Readers \union Closers, LoadFirst(r)  PROVE Counting'
  <2>1. UNCHANGED <<Claiming, Filling, Arriving, Leaving>>
    BY <1>10, ChannelAssumption
    DEF LoadFirst, GoTo, TypeOK, Routines, Claiming, Filling, Arriving, Leaving
  <2>2. UNCHANGED <<holds, wTaken, wGiven, rTaken, rGiven, rClosed, head, tail>>
    BY <1>10 DEF LoadFirst, GoTo, TypeOK, writerPool, readerPool
  <2> QED
    BY <1>0, <2>1, <2>2 DEF Counting
<1>11. ASSUME NEW r \in Readers \union Closers, LoadSecond(r)  PROVE Counting'
  <2>1. UNCHANGED <<Claiming, Filling, Arriving, Leaving>>
    BY <1>11, ChannelAssumption
    DEF LoadSecond, GoTo, TypeOK, Routines, Claiming, Filling, Arriving, Leaving
  <2>2. UNCHANGED <<holds, wTaken, wGiven, rTaken, rGiven, rClosed, head, tail>>
    BY <1>11 DEF LoadSecond, GoTo, TypeOK, writerPool, readerPool
  <2> QED
    BY <1>0, <2>1, <2>2 DEF Counting
<1>12. ASSUME NEW r \in Readers \union Closers, DisableReaders(r)  PROVE Counting'
  <2>1. UNCHANGED <<Claiming, Filling, Arriving, Leaving>>
    BY <1>12, ChannelAssumption
    DEF DisableReaders, readers_slots!Close, GoTo, TypeOK, Routines, Claiming, Filling,
        Arriving, Leaving
  <2>2. rClosed' /\ UNCHANGED <<holds, wTaken, wGiven, rTaken, rGiven, head, tail>>
    BY <1>12 DEF DisableReaders, readers_slots!Close, GoTo, TypeOK, writerPool, readerPool
  <2> QED
    BY <1>0, <2>1, <2>2 DEF Counting
<1>13. ASSUME NEW r \in Readers \union Closers, Out(r)  PROVE Counting'
  <2>1. UNCHANGED <<Claiming, Filling, Arriving, Leaving>>
    BY <1>13, ChannelAssumption
    DEF Out, GoTo, TypeOK, Routines, Claiming, Filling, Arriving, Leaving
  <2>2. UNCHANGED <<holds, wTaken, wGiven, rTaken, rGiven, rClosed, head, tail>>
    BY <1>13 DEF Out, GoTo, TypeOK, writerPool, readerPool
  <2> QED
    BY <1>0, <2>1, <2>2 DEF Counting
<1>14. ASSUME UNCHANGED vars  PROVE Counting'
  <2>1. UNCHANGED <<Claiming, Filling, Arriving, Leaving>>
    BY <1>14, ChannelAssumption
    DEF vars, TypeOK, Routines, Claiming, Filling, Arriving, Leaving
  <2>2. UNCHANGED <<holds, wTaken, wGiven, rTaken, rGiven, rClosed, head, tail>>
    BY <1>14 DEF vars, TypeOK, writerPool, readerPool
  <2> QED
    BY <1>0, <2>1, <2>2 DEF Counting
<1> QED
  BY <1>1, <1>2, <1>3, <1>4, <1>5, <1>6, <1>7, <1>8, <1>9, <1>10, <1>11, <1>12, <1>13, <1>14
  DEF Next, Write, Read, WriterStep, ReaderStep, EmptyTest

\* A routine that would find the ring empty passes the duty on to another, or
\* leaves a ring that is not empty, or disables the readers' semaphore.
LEMMA ReleaseStep ==
  ASSUME TypeOK, NoRing, Counting, Release, [Next]_vars
  PROVE  Release'
<1> USE ChannelAssumption DEF Routines, Contents, TypeOK, GoTo, writerPool, readerPool,
                              history, NoRing
<1>0. holds = "values" => tail <= head
  BY SMTT(30), CountTypes DEF Counting
<1>1. ASSUME NEW w \in Writers, WriteWait(w)  PROVE Release'
  BY <1>1, <1>0 DEF WriteWait, WithTicket, writer_slots!Take, Release, WillRelease
<1>2. ASSUME NEW w \in Writers, WriteClaim(w)  PROVE Release'
  BY SMTT(30), <1>2, <1>0 DEF WriteClaim, Release, WillRelease
<1>3. ASSUME NEW w \in Writers, WriteStore(w)  PROVE Release'
  BY <1>3, <1>0 DEF WriteStore, Release, WillRelease
<1>4. ASSUME NEW w \in Writers, WritePost(w)  PROVE Release'
  BY <1>4, <1>0 DEF WritePost, readers_slots!Give, Release, WillRelease
<1>5. ASSUME NEW r \in Readers, ReadWait(r)  PROVE Release'
  BY <1>5, <1>0 DEF ReadWait, WithTicket, readers_slots!Take, Release, WillRelease
<1>6. ASSUME NEW r \in Readers, ReadClaim(r)  PROVE Release'
  BY <1>6, <1>0 DEF ReadClaim, Release, WillRelease
<1>7. ASSUME NEW r \in Readers, ReadMove(r)  PROVE Release'
  BY <1>7, <1>0 DEF ReadMove, Release, WillRelease
<1>8. ASSUME NEW r \in Readers, ReadPost(r)  PROVE Release'
  BY <1>8, <1>0 DEF ReadPost, writer_slots!Give, Release, WillRelease
<1>9. ASSUME NEW c \in Closers, CloseWriters(c)  PROVE Release'
  BY <1>9, <1>0 DEF CloseWriters, OnceClosed, writer_slots!Close, Release, WillRelease
<1>10. ASSUME NEW r \in Readers \union Closers, LoadFirst(r)  PROVE Release'
  BY <1>10, <1>0 DEF LoadFirst, Release, WillRelease
<1>11. ASSUME NEW r \in Readers \union Closers, LoadSecond(r)  PROVE Release'
  BY <1>11, <1>0 DEF LoadSecond, Release, WillRelease
<1>12. ASSUME NEW r \in Readers \union Closers, DisableReaders(r)  PROVE Release'
  BY <1>12, <1>0 DEF DisableReaders, readers_slots!Close, Release, WillRelease
<1>13. ASSUME NEW r \in Readers \union Closers, Out(r)  PROVE Release'
  BY <1>13, <1>0 DEF Out, Release, WillRelease
<1>14. ASSUME UNCHANGED vars  PROVE Release'
  BY <1>14 DEF vars, Release, WillRelease
<1> QED
  BY <1>1, <1>2, <1>3, <1>4, <1>5, <1>6, <1>7, <1>8, <1>9, <1>10, <1>11, <1>12, <1>13, <1>14
  DEF Next, Write, Read, WriterStep, ReaderStep, EmptyTest

-----------------------------------------------------------------------------
\* The first states satisfy the invariant and every step keeps it.
LEMMA Invariance == Spec => []IInv
<1>1. Init => IInv
  <2> SUFFICES ASSUME Init PROVE IInv
    OBVIOUS
  <2> USE ChannelAssumption DEF Init, writer_slots!PoolInit, readers_slots!PoolInit
  <2>1. TypeOK
    <3>1. pc = [r \in Routines |-> "idle"] /\ Writers \union Readers \union Closers = Routines
      BY DEF Routines
    <3>2. wClosed \in BOOLEAN /\ rClosed \in BOOLEAN
      OBVIOUS
    <3> QED
      BY SMTT(30), <3>1, <3>2 DEF TypeOK, ReaderPlaces, WriterPlaces, CloserPlaces, TestPlaces
  <2>2. NoRing /\ Delivery /\ Release
    BY DEF NoRing, Delivery, Release, Routines
  <2>3. Claiming = {} /\ Filling = {} /\ Arriving = {} /\ Leaving = {}
    BY DEF Claiming, Filling, Arriving, Leaving, Routines
  <2>4. Counting
    BY SMTT(30), <2>3, FS_EmptySet DEF Counting
  <2> QED
    BY <2>1, <2>2, <2>4 DEF IInv
<1>2. IInv /\ [Next]_vars => IInv'
  <2> SUFFICES ASSUME IInv, [Next]_vars PROVE IInv'
    OBVIOUS
  <2>1. holds' = holds
    BY DEF Next, Write, Read, WriterStep, ReaderStep, EmptyTest, vars, WriteWait, WriteClaim,
           WriteStore, WritePost, ReadWait, ReadClaim, ReadMove, ReadPost, CloseWriters,
           LoadFirst, LoadSecond, DisableReaders, Out, GoTo
  <2>2. Counting'
    BY <2>1, CountingStep DEF IInv, Counting
  <2> QED
    BY <2>2, TypeStep, NoRingStep, DeliveryStep, ReleaseStep DEF IInv
<1> QED
  BY <1>1, <1>2, PTL DEF Spec

\* Nothing written before close is lost: whatever the routines, the cells and the
\* order in which the counters are loaded, the readers' semaphore is disabled
\* only after readers claimed every early value.
THEOREM EarlyWritesAreRead == Spec => []EarlyWritesDelivered
<1>1. IInv => EarlyWritesDelivered
  BY DEF IInv, Delivery, EarlyWritesDelivered
<1> QED
  BY <1>1, Invariance, PTL

\* A closed channel releases its readers: when all calls have returned and no
\* value is left, either close or the last reader has disabled their semaphore.
THEOREM ReadersAreReleased == Spec => []ClosedAndEmptyReleases
<1>1. IInv => ClosedAndEmptyReleases
  <2> SUFFICES ASSUME IInv, Settled, wClosed, rTaken = rGiven, ~rClosed PROVE FALSE
    BY DEF ClosedAndEmptyReleases
  <2>1. ~\E r \in Routines : WillRelease(r)
    BY DEF Settled, WillRelease
  <2>2. holds = "values" /\ head # tail
    BY <2>1 DEF IInv, Release
  <2>3. Filling = {} /\ Arriving = {}
    BY DEF Settled, Filling, Arriving, Routines
  <2>4. rTaken = tail /\ rGiven = head
    BY SMTT(30), <2>2, <2>3, FS_EmptySet DEF IInv, Counting, TypeOK
  <2> QED
    BY <2>2, <2>4
<1> QED
  BY <1>1, Invariance, PTL

-----------------------------------------------------------------------------
\* The channels whose semaphores keep routines out of each other's cells: one
\* cell for any routines, or any number of cells between two routines.
Exclusive == \/ Size = 1
             \/ /\ \A v, w \in Writers : v = w
                /\ \A r, s \in Readers : r = s

\* In those, one writer and one reader at a time hold a ticket, and they are
\* at the ends of the ring.
Ends ==
  /\ \A v, w \in Claiming \union Filling : v = w
  /\ \A r, s \in Arriving \union Leaving : r = s
  /\ \A w \in Writers : pc[w] = "store" => mine[w] = head - 1
  /\ \A r \in Readers : pc[r] = "move" => tail > 0 /\ mine[r] = tail - 1

\* The values between the counters are in their cells, but for one that is
\* being stored; one that is being moved out is still there.
Stored ==
  /\ \A w \in Writers : pc[w] = "store" => cells[head] = <<w, writes[w]>>
  /\ \A i \in Nat : tail <= i /\ i < head /\ ~(\E w \in Writers : pc[w] = "store" /\ mine[w] = i)
                      => buffer[i % Size] = cells[i + 1]
  /\ \A r \in Readers : pc[r] = "move" => buffer[mine[r] % Size] = cells[mine[r] + 1]

Payloads == (Writers \X Nat) \union {Moved}

HistoryOK ==
  /\ writes \in [Writers -> Nat]
  /\ cells \in Seq(Payloads) /\ Len(cells) = head
  /\ received \in Seq(Payloads) /\ Len(received) = tail
  /\ buffer \in [0 .. Size - 1 -> Payloads]

RingInv == holds = "values" => HistoryOK /\ Ends /\ Stored /\ ReadsWhatWasWritten
-----------------------------------------------------------------------------
\* Positions less than a turn of the ring apart have different cells.
LEMMA CellsApart ==
  ASSUME NEW i \in Nat, NEW j \in Nat, i < j, j < i + Size
  PROVE  i % Size # j % Size
<1> USE ChannelAssumption
<1> SUFFICES ASSUME i % Size = j % Size PROVE FALSE
  OBVIOUS
<1> DEFINE p == i \div Size
           q == j \div Size
<1>1. /\ i = Size * p + (i % Size) /\ j = Size * q + (j % Size)
      /\ p \in Nat /\ q \in Nat
  BY SMTT(30)
<1>2. j - i = Size * (q - p)
  BY SMTT(30), <1>1
<1> HIDE DEF p, q
<1>3. CASE q - p <= 0
  <2>1. Size * (q - p) <= 0
    BY SMTT(30), <1>1, <1>3
  <2> QED
    BY SMTT(30), <1>2, <2>1
<1>4. CASE q - p >= 1
  <2>1. Size * (q - p) >= Size
    BY SMTT(30), <1>1, <1>4
  <2> QED
    BY SMTT(30), <1>2, <2>1
<1> QED
  BY SMTT(30), <1>1, <1>3, <1>4

\* The ring and the history keep their types and their lengths.
LEMMA HistoryStep ==
  ASSUME TypeOK, HistoryOK, Ends, [Next]_vars
  PROVE  HistoryOK'
<1> USE ChannelAssumption DEF Routines, Contents, TypeOK, GoTo, writerPool, readerPool,
                              history, HistoryOK
<1>0. Moved \in Payloads /\ \A w \in Writers : <<w, writes[w]>> \in Payloads
  BY DEF Payloads
<1>a. \A i \in Nat : i % Size \in 0 .. Size - 1
  BY SMTT(30)
<1>1. ASSUME NEW w \in Writers, WriteWait(w)  PROVE HistoryOK'
  <2>1. CASE wClosed
    BY <1>1, <2>1 DEF WriteWait, WithTicket, writer_slots!Take
  <2>2. CASE ~wClosed
    BY SMTT(30), <1>1, <2>2 DEF WriteWait, WithTicket, writer_slots!Take
  <2> QED
    BY <2>1, <2>2
<1>2. ASSUME NEW w \in Writers, WriteClaim(w)  PROVE HistoryOK'
  <2>1. cells' \in Seq(Payloads) /\ Len(cells') = head'
    BY SMTT(30), <1>2, <1>0 DEF WriteClaim
  <2> QED
    BY <1>2, <2>1 DEF WriteClaim
<1>3. ASSUME NEW w \in Writers, WriteStore(w)  PROVE HistoryOK'
  <2>1. buffer' \in [0 .. Size - 1 -> Payloads]
    BY <1>3, <1>0 DEF WriteStore
  <2> QED
    BY <1>3, <2>1 DEF WriteStore
<1>4. ASSUME NEW w \in Writers, WritePost(w)  PROVE HistoryOK'
  BY <1>4 DEF WritePost, readers_slots!Give
<1>5. ASSUME NEW r \in Readers, ReadWait(r)  PROVE HistoryOK'
  BY <1>5 DEF ReadWait, WithTicket, readers_slots!Take
<1>6. ASSUME NEW r \in Readers, ReadClaim(r)  PROVE HistoryOK'
  <2>1. received' \in Seq(Payloads) /\ Len(received') = tail'
    BY SMTT(30), <1>6, <1>0 DEF ReadClaim
  <2> QED
    BY <1>6, <2>1 DEF ReadClaim
<1>7. ASSUME NEW r \in Readers, ReadMove(r)  PROVE HistoryOK'
  <2>1. buffer' \in [0 .. Size - 1 -> Payloads]
    BY <1>7, <1>0 DEF ReadMove
  <2>a. mine[r] \in Nat /\ mine[r] = tail - 1 /\ tail \in Nat
    BY <1>7 DEF ReadMove, Ends
  <2>b. mine[r] % Size \in 0 .. Size - 1
    BY <1>a, <2>a
  <2>2. buffer[mine[r] % Size] \in Payloads /\ mine[r] + 1 \in 1 .. Len(received)
    BY SMTT(30), <2>a, <2>b
  <2>3. received' \in Seq(Payloads) /\ Len(received') = tail'
    BY SMTT(30), <1>7, <2>2 DEF ReadMove
  <2> QED
    BY <1>7, <2>1, <2>3 DEF ReadMove
<1>8. ASSUME NEW r \in Readers, ReadPost(r)  PROVE HistoryOK'
  BY <1>8 DEF ReadPost, writer_slots!Give
<1>9. ASSUME NEW c \in Closers, CloseWriters(c)  PROVE HistoryOK'
  BY <1>9 DEF CloseWriters, OnceClosed, writer_slots!Close
<1>10. ASSUME NEW r \in Readers \union Closers, LoadFirst(r)  PROVE HistoryOK'
  BY <1>10 DEF LoadFirst
<1>11. ASSUME NEW r \in Readers \union Closers, LoadSecond(r)  PROVE HistoryOK'
  BY <1>11 DEF LoadSecond
<1>12. ASSUME NEW r \in Readers \union Closers, DisableReaders(r)  PROVE HistoryOK'
  BY <1>12 DEF DisableReaders, readers_slots!Close
<1>13. ASSUME NEW r \in Readers \union Closers, Out(r)  PROVE HistoryOK'
  BY <1>13 DEF Out
<1>14. ASSUME UNCHANGED vars  PROVE HistoryOK'
  BY <1>14 DEF vars
<1> QED
  BY <1>1, <1>2, <1>3, <1>4, <1>5, <1>6, <1>7, <1>8, <1>9, <1>10, <1>11, <1>12, <1>13, <1>14
  DEF Next, Write, Read, WriterStep, ReaderStep, EmptyTest

\* In an exclusive channel one writer and one reader are at the ends.
LEMMA EndsStep ==
  ASSUME TypeOK, NoRing, Counting, Exclusive, Ends, holds = "values", [Next]_vars
  PROVE  Ends'
<1> USE ChannelAssumption DEF Routines, Contents, TypeOK, GoTo, writerPool, readerPool,
                              history, Ends
<1>1. ASSUME NEW w \in Writers, WriteWait(w)  PROVE Ends'
  <2>1. CASE Size = 1
    <3>1. CASE wClosed
      BY SMTT(30), <1>1, <3>1 DEF WriteWait, WithTicket, writer_slots!Take, Claiming, Filling, Arriving,
                        Leaving
    <3>2. CASE ~wClosed
      <4>1. Claiming \union Filling = {}
        <5>1. Cardinality(Claiming) = 0 /\ Cardinality(Filling) = 0
          <6>1. wTaken < Size + wGiven
            BY <1>1, <3>2 DEF WriteWait, WithTicket, writer_slots!Take
          <6> QED
            BY SMTT(30), <2>1, <6>1, CountTypes DEF Counting
        <5> QED
          BY <5>1, CountTypes, FS_EmptySet
      <4>2. (Claiming \union Filling)' = {w} /\ UNCHANGED <<Arriving, Leaving>>
        BY SMTT(30), <1>1, <3>2, <4>1 DEF WriteWait, WithTicket, writer_slots!Take, Claiming, Filling,
                                Arriving, Leaving
      <4> QED
        BY <1>1, <3>2, <4>1, <4>2 DEF WriteWait, WithTicket, writer_slots!Take
    <3> QED
      BY <3>1, <3>2
  <2>2. CASE Size > 1
    BY SMTT(30), <1>1, <2>2 DEF WriteWait, WithTicket, writer_slots!Take, Exclusive, Claiming, Filling,
                      Arriving, Leaving
  <2> QED
    BY SMTT(30), <2>1, <2>2
<1>2. ASSUME NEW w \in Writers, WriteClaim(w)  PROVE Ends'
  BY SMTT(30), <1>2 DEF WriteClaim, Claiming, Filling, Arriving, Leaving
<1>3. ASSUME NEW w \in Writers, WriteStore(w)  PROVE Ends'
  BY SMTT(30), <1>3 DEF WriteStore, Claiming, Filling, Arriving, Leaving
<1>4. ASSUME NEW w \in Writers, WritePost(w)  PROVE Ends'
  BY SMTT(30), <1>4 DEF WritePost, readers_slots!Give, Claiming, Filling, Arriving, Leaving
<1>5. ASSUME NEW r \in Readers, ReadWait(r)  PROVE Ends'
  <2>1. CASE Size = 1
    <3>1. CASE rClosed
      BY SMTT(30), <1>5, <3>1 DEF ReadWait, WithTicket, readers_slots!Take, Claiming, Filling, Arriving,
                        Leaving
    <3>2. CASE ~rClosed
      <4>1. Arriving \union Leaving = {}
        <5>1. Cardinality(Arriving) = 0 /\ Cardinality(Leaving) = 0
          <6>1. rTaken < rGiven
            BY SMTT(30), <1>5, <3>2 DEF ReadWait, WithTicket, readers_slots!Take
          <6> QED
            BY SMTT(30), <2>1, <6>1, CountTypes DEF Counting
        <5> QED
          BY <5>1, CountTypes, FS_EmptySet
      <4>2. (Arriving \union Leaving)' = {r} /\ UNCHANGED <<Claiming, Filling>>
        BY SMTT(30), <1>5, <3>2, <4>1 DEF ReadWait, WithTicket, readers_slots!Take, Claiming, Filling,
                                Arriving, Leaving
      <4> QED
        BY <1>5, <3>2, <4>1, <4>2 DEF ReadWait, WithTicket, readers_slots!Take
    <3> QED
      BY <3>1, <3>2
  <2>2. CASE Size > 1
    BY SMTT(30), <1>5, <2>2 DEF ReadWait, WithTicket, readers_slots!Take, Exclusive, Claiming, Filling,
                      Arriving, Leaving
  <2> QED
    BY SMTT(30), <2>1, <2>2
<1>6. ASSUME NEW r \in Readers, ReadClaim(r)  PROVE Ends'
  BY SMTT(30), <1>6 DEF ReadClaim, Claiming, Filling, Arriving, Leaving
<1>7. ASSUME NEW r \in Readers, ReadMove(r)  PROVE Ends'
  BY SMTT(30), <1>7 DEF ReadMove, Claiming, Filling, Arriving, Leaving
<1>8. ASSUME NEW r \in Readers, ReadPost(r)  PROVE Ends'
  BY SMTT(30), <1>8 DEF ReadPost, writer_slots!Give, Claiming, Filling, Arriving, Leaving
<1>9. ASSUME NEW c \in Closers, CloseWriters(c)  PROVE Ends'
  BY SMTT(30), <1>9 DEF CloseWriters, OnceClosed, writer_slots!Close, Claiming, Filling, Arriving, Leaving
<1>10. ASSUME NEW r \in Readers \union Closers, LoadFirst(r)  PROVE Ends'
  BY SMTT(30), <1>10 DEF LoadFirst, Claiming, Filling, Arriving, Leaving
<1>11. ASSUME NEW r \in Readers \union Closers, LoadSecond(r)  PROVE Ends'
  BY SMTT(30), <1>11 DEF LoadSecond, Claiming, Filling, Arriving, Leaving
<1>12. ASSUME NEW r \in Readers \union Closers, DisableReaders(r)  PROVE Ends'
  BY SMTT(30), <1>12 DEF DisableReaders, readers_slots!Close, Claiming, Filling, Arriving, Leaving
<1>13. ASSUME NEW r \in Readers \union Closers, Out(r)  PROVE Ends'
  BY SMTT(30), <1>13 DEF Out, Claiming, Filling, Arriving, Leaving
<1>14. ASSUME UNCHANGED vars  PROVE Ends'
  BY <1>14 DEF vars, Claiming, Filling, Arriving, Leaving
<1> QED
  BY <1>1, <1>2, <1>3, <1>4, <1>5, <1>6, <1>7, <1>8, <1>9, <1>10, <1>11, <1>12, <1>13, <1>14
  DEF Next, Write, Read, WriterStep, ReaderStep, EmptyTest

\* A step away from the ring.
RingUntouched ==
  /\ UNCHANGED <<buffer, head, tail, cells, received>>
  /\ \A w \in Writers :
       /\ pc'[w] = "store" <=> pc[w] = "store"
       /\ pc[w] = "store" => mine'[w] = mine[w] /\ writes'[w] = writes[w]
  /\ \A r \in Readers :
       /\ pc'[r] = "move" <=> pc[r] = "move"
       /\ pc[r] = "move" => mine'[r] = mine[r]

\* The room between the ends of the ring: what is stored has not been claimed by
\* a reader, and what is moved out is not overtaken by a writer.
Room ==
  /\ head \in Nat /\ tail \in Nat /\ tail <= head
  /\ \A w \in Writers : pc[w] = "store" => tail < head /\ head - tail <= Size
  /\ \A r \in Readers : pc[r] = "claim" => tail < head
  /\ \A r \in Readers : pc[r] = "move" => head - tail < Size
  /\ \A r \in Readers, w \in Writers : pc[r] = "claim" /\ pc[w] = "store" => tail < head - 1

\* The room follows from the counts.
LEMMA RoomHolds ==
  ASSUME TypeOK, Counting, holds = "values"
  PROVE  Room
<1>1. /\ head - tail + Cardinality(Leaving) <= Size
      /\ tail + Cardinality(Arriving) + Cardinality(Filling) <= head
      /\ head \in Nat /\ tail \in Nat /\ Size \in Nat
  BY SMTT(30), CountTypes, ChannelAssumption DEF Counting, TypeOK
<1>2. /\ \A r \in Readers : pc[r] = "move" => Leaving # {}
      /\ \A w \in Writers : pc[w] = "store" => Filling # {}
      /\ \A r \in Readers : pc[r] = "claim" => Arriving # {}
  BY DEF Leaving, Filling, Arriving
<1>3. /\ Leaving # {} => Cardinality(Leaving) > 0
      /\ Filling # {} => Cardinality(Filling) > 0
      /\ Arriving # {} => Cardinality(Arriving) > 0
  BY SMTT(30), CountTypes, FS_EmptySet
<1> QED
  BY SMTT(30), <1>1, <1>2, <1>3, CountTypes DEF Room

\* Values stay in their cells until the one reader at the end moves them out.
LEMMA StoredStep ==
  ASSUME TypeOK, Counting, HistoryOK, Ends, Stored, ReadsWhatWasWritten,
         holds = "values", [Next]_vars
  PROVE  Stored' /\ ReadsWhatWasWritten'
<1>0. Room
  BY RoomHolds
<1>n. head \in Nat /\ tail \in Nat /\ Size \in Nat /\ Size > 0
  BY SMTT(30), <1>0, ChannelAssumption DEF Room
<1> USE DEF Room
<1>a. ASSUME RingUntouched  PROVE Stored' /\ ReadsWhatWasWritten'
  <2>1. Stored'
    BY <1>a DEF RingUntouched, Stored
  <2>2. ReadsWhatWasWritten'
    BY <1>a DEF RingUntouched, ReadsWhatWasWritten
  <2> QED
    BY <2>1, <2>2
<1>1. ASSUME NEW w \in Writers, WriteWait(w)  PROVE Stored' /\ ReadsWhatWasWritten'
  <2>1. RingUntouched
    BY <1>1, ChannelAssumption DEF WriteWait, WithTicket, writer_slots!Take, GoTo, TypeOK,
                                   Routines, HistoryOK, history, RingUntouched
  <2> QED
    BY <1>a, <2>1
<1>2. ASSUME NEW w \in Writers, WriteClaim(w)  PROVE Stored' /\ ReadsWhatWasWritten'
  <2>1. \A v \in Writers : pc[v] # "store"
    BY SMTT(30), <1>2 DEF WriteClaim, Ends, Claiming, Filling
  <2>2. /\ head' = head + 1 /\ UNCHANGED <<tail, buffer, received, writes>>
        /\ \A i \in 1 .. head : cells'[i] = cells[i]
        /\ cells'[head'] = <<w, writes[w]>> /\ Len(received) = tail
    BY SMTT(30), <1>2, <1>0 DEF WriteClaim, HistoryOK
  <2>3. /\ \A v \in Writers : pc'[v] = "store" => v = w
        /\ pc'[w] = "store" /\ mine'[w] = head
        /\ \A r \in Readers : /\ pc'[r] = pc[r] /\ mine'[r] = mine[r]
                              /\ pc[r] = "move" => mine[r] \in Nat /\ mine[r] + 1 = tail
    BY SMTT(30), <1>2, <1>0, <2>1, ChannelAssumption DEF WriteClaim, GoTo, TypeOK, Routines, Ends
  <2>4. Stored'
    BY SMTT(30), <1>0, <2>1, <2>2, <2>3 DEF Stored
  <2>5. ReadsWhatWasWritten'
    <3> SUFFICES ASSUME NEW i \in 1 .. Len(received'),
                        \A r \in Readers : ~(pc'[r] = "move" /\ mine'[r] + 1 = i)
                 PROVE  received'[i] = cells'[i]
      BY DEF ReadsWhatWasWritten
    <3>1. i \in 1 .. Len(received) /\ i \in 1 .. head
      BY SMTT(30), <1>0, <2>2
    <3>2. \A r \in Readers : ~(pc[r] = "move" /\ mine[r] + 1 = i)
      BY <2>3
    <3>3. received[i] = cells[i]
      BY <3>1, <3>2 DEF ReadsWhatWasWritten
    <3> QED
      BY <2>2, <3>1, <3>3
  <2> QED
    BY <2>4, <2>5
<1>3. ASSUME NEW w \in Writers, WriteStore(w)  PROVE Stored' /\ ReadsWhatWasWritten'
  <2>0. /\ UNCHANGED <<head, tail, cells, received, mine, writes>>
        /\ head - 1 \in Nat /\ mine[w] = head - 1 /\ cells[head] = <<w, writes[w]>>
        /\ \A r \in Readers : pc'[r] = pc[r]
    <3>1. UNCHANGED <<head, tail, cells, received, mine, writes>>
      BY <1>3 DEF WriteStore, history
    <3>2. head - 1 \in Nat /\ mine[w] = head - 1 /\ cells[head] = <<w, writes[w]>>
      BY SMTT(30), <1>3, <1>0 DEF WriteStore, Ends, Stored
    <3>3. \A r \in Readers : pc'[r] = pc[r]
      BY <1>3, ChannelAssumption DEF WriteStore, GoTo, TypeOK, Routines
    <3> QED
      BY <3>1, <3>2, <3>3
  <2>a. \A k \in 0 .. Size - 1 :
          buffer'[k] = IF k = (head - 1) % Size THEN <<w, writes[w]>> ELSE buffer[k]
    <3>1. buffer' = [buffer EXCEPT ![(head - 1) % Size] = <<w, writes[w]>>]
      BY <1>3, <2>0 DEF WriteStore
    <3> QED
      BY <3>1 DEF HistoryOK
  <2>1. \A v \in Writers : pc'[v] # "store" /\ (pc[v] = "store" => v = w)
    BY SMTT(30), <1>3, ChannelAssumption DEF WriteStore, GoTo, TypeOK, Routines, Ends, Filling
  <2>2. \A i \in Nat : i % Size \in 0 .. Size - 1
    BY SMTT(30), ChannelAssumption
  <2>3. ASSUME NEW i \in Nat, tail <= i, i < head
        PROVE  buffer'[i % Size] = cells[i + 1]
    <3>0. i % Size \in 0 .. Size - 1
      BY <2>2
    <3>1. CASE i = head - 1
      <4>1. buffer'[i % Size] = <<w, writes[w]>>
        BY <2>a, <3>0, <3>1
      <4>2. i + 1 = head
        BY SMTT(30), <1>0, <3>1
      <4> QED
        BY <2>0, <4>1, <4>2
    <3>2. CASE i < head - 1
      <4>1. i % Size # (head - 1) % Size
        <5> DEFINE j == head - 1
        <5>1. j \in Nat /\ i < j /\ j < i + Size
          <6>1. pc[w] = "store"
            BY <1>3 DEF WriteStore
          <6>2. tail < head /\ head - tail <= Size
            BY <1>0, <6>1
          <6> QED
            BY SMTT(30), <1>n, <2>3, <3>2, <6>2
        <5> HIDE DEF j
        <5>2. i % Size # j % Size
          BY <5>1, CellsApart
        <5> QED
          BY <5>2 DEF j
      <4>2. ~\E v \in Writers : pc[v] = "store" /\ mine[v] = i
        BY SMTT(30), <2>0, <2>1, <3>2
      <4>3. buffer[i % Size] = cells[i + 1]
        BY <2>3, <4>2 DEF Stored
      <4> QED
        BY <2>a, <3>0, <4>1, <4>3
    <3> QED
      BY SMTT(30), <1>0, <2>3, <3>1, <3>2
  <2>4. ASSUME NEW r \in Readers, pc[r] = "move"
        PROVE  buffer'[mine[r] % Size] = cells[mine[r] + 1]
    <3> DEFINE i == mine[r]
               j == head - 1
    <3>1. i \in Nat /\ j \in Nat /\ i < j /\ j < i + Size
      <4>1. mine[r] \in Nat /\ mine[r] + 1 = tail /\ pc[w] = "store"
        BY SMTT(30), <1>3, <1>0, <2>4, ChannelAssumption DEF WriteStore, Ends, TypeOK, Routines
      <4>2. tail < head /\ head - tail < Size
        BY <1>0, <2>4, <4>1
      <4> QED
        BY SMTT(30), <1>n, <4>1, <4>2
    <3>2. buffer[i % Size] = cells[i + 1]
      BY <2>4 DEF Stored
    <3>3. buffer'[i % Size] = IF i % Size = j % Size THEN <<w, writes[w]>> ELSE buffer[i % Size]
      BY <2>a, <2>2, <3>1
    <3> HIDE DEF i, j
    <3>4. i % Size # j % Size
      BY <3>1, CellsApart
    <3>5. buffer'[i % Size] = cells[i + 1]
      BY <3>2, <3>3, <3>4
    <3> QED
      BY <3>5 DEF i
  <2>5. Stored'
    BY <2>0, <2>1, <2>3, <2>4 DEF Stored
  <2>6. ReadsWhatWasWritten'
    BY <2>0 DEF ReadsWhatWasWritten
  <2> QED
    BY <2>5, <2>6
<1>4. ASSUME NEW w \in Writers, WritePost(w)  PROVE Stored' /\ ReadsWhatWasWritten'
  <2>1. RingUntouched
    BY <1>4, ChannelAssumption DEF WritePost, readers_slots!Give, GoTo, TypeOK, Routines,
                                   HistoryOK, history, RingUntouched
  <2> QED
    BY <1>a, <2>1
<1>5. ASSUME NEW r \in Readers, ReadWait(r)  PROVE Stored' /\ ReadsWhatWasWritten'
  <2>1. RingUntouched
    BY <1>5, ChannelAssumption DEF ReadWait, WithTicket, readers_slots!Take, GoTo, TypeOK,
                                   Routines, HistoryOK, history, RingUntouched
  <2> QED
    BY <1>a, <2>1
<1>6. ASSUME NEW r \in Readers, ReadClaim(r)  PROVE Stored' /\ ReadsWhatWasWritten'
  <2>1. \A s \in Readers : pc[s] # "move"
    BY SMTT(30), <1>6 DEF ReadClaim, Ends, Arriving, Leaving
  <2>2. /\ tail' = tail + 1 /\ UNCHANGED <<head, buffer, cells, writes>>
        /\ Len(received') = tail + 1 /\ \A i \in 1 .. tail : received'[i] = received[i]
    BY SMTT(30), <1>6, <1>0 DEF ReadClaim, HistoryOK
  <2>3. /\ \A s \in Readers : pc'[s] = "move" => s = r
        /\ pc'[r] = "move" /\ mine'[r] = tail
        /\ \A w \in Writers : pc'[w] = pc[w] /\ mine'[w] = mine[w]
    BY <1>6, <1>0, <2>1, ChannelAssumption DEF ReadClaim, GoTo, TypeOK, Routines
  <2>4. tail < head /\ ~\E w \in Writers : pc[w] = "store" /\ mine[w] = tail
    BY SMTT(30), <1>6, <1>0 DEF ReadClaim, Ends
  <2>5. Stored'
    BY SMTT(30), <1>0, <2>2, <2>3, <2>4 DEF Stored
  <2>6. ReadsWhatWasWritten'
    <3> SUFFICES ASSUME NEW i \in 1 .. Len(received'),
                        \A s \in Readers : ~(pc'[s] = "move" /\ mine'[s] + 1 = i)
                 PROVE  received'[i] = cells'[i]
      BY DEF ReadsWhatWasWritten
    <3>1. i # tail + 1
      BY <2>3
    <3>2. i \in 1 .. tail /\ Len(received) = tail
      BY SMTT(30), <1>0, <2>2, <3>1 DEF HistoryOK
    <3>3. received[i] = cells[i]
      BY <2>1, <3>2 DEF ReadsWhatWasWritten
    <3> QED
      BY <2>2, <3>2, <3>3
  <2> QED
    BY <2>5, <2>6
<1>7. ASSUME NEW r \in Readers, ReadMove(r)  PROVE Stored' /\ ReadsWhatWasWritten'
  <2>0. /\ UNCHANGED <<head, tail, cells, mine, writes>>
        /\ mine[r] \in Nat /\ mine[r] + 1 = tail /\ head - tail < Size
        /\ \A k \in 0 .. Size - 1 : k = mine[r] % Size \/ buffer'[k] = buffer[k]
        /\ Len(received') = tail
        /\ \A i \in 1 .. tail :
             received'[i] = IF i = tail THEN buffer[mine[r] % Size] ELSE received[i]
        /\ \A w \in Writers : pc'[w] = pc[w]
    BY SMTT(30), <1>7, <1>0, ChannelAssumption DEF ReadMove, GoTo, TypeOK, Routines, HistoryOK, Ends
  <2>1. \A s \in Readers : pc'[s] # "move" /\ (pc[s] = "move" => s = r)
    BY SMTT(30), <1>7, ChannelAssumption DEF ReadMove, GoTo, TypeOK, Routines, Ends, Leaving
  <2>2. ASSUME NEW i \in Nat, tail <= i, i < head
        PROVE  buffer'[i % Size] = buffer[i % Size]
    <3>1. mine[r] % Size # i % Size
      <4>1. mine[r] < i /\ i < mine[r] + Size
        <5>1. mine[r] \in Nat /\ mine[r] + 1 = tail /\ head - tail < Size
          BY <2>0
        <5> QED
          BY SMTT(30), <1>n, <2>2, <5>1
      <4>2. mine[r] \in Nat
        BY <2>0
      <4> QED
        BY <4>1, <4>2, CellsApart
    <3>2. i % Size \in 0 .. Size - 1
      BY SMTT(30), ChannelAssumption
    <3> QED
      BY <2>0, <3>1, <3>2
  <2>3. Stored'
    BY SMTT(30), <1>0, <2>0, <2>1, <2>2 DEF Stored
  <2>4. buffer[mine[r] % Size] = cells[tail]
    BY <1>7, <2>0 DEF ReadMove, Stored
  <2>5. ReadsWhatWasWritten'
    BY <1>0, <2>0, <2>1, <2>4 DEF ReadsWhatWasWritten, HistoryOK
  <2> QED
    BY <2>3, <2>5
<1>8. ASSUME NEW r \in Readers, ReadPost(r)  PROVE Stored' /\ ReadsWhatWasWritten'
  <2>1. RingUntouched
    BY <1>8, ChannelAssumption DEF ReadPost, writer_slots!Give, GoTo, TypeOK, Routines,
                                   HistoryOK, history, RingUntouched
  <2> QED
    BY <1>a, <2>1
<1>9. ASSUME NEW c \in Closers, CloseWriters(c)  PROVE Stored' /\ ReadsWhatWasWritten'
  <2>1. RingUntouched
    BY <1>9, ChannelAssumption DEF CloseWriters, OnceClosed, writer_slots!Close, GoTo, TypeOK,
                                   Routines, HistoryOK, history, RingUntouched
  <2> QED
    BY <1>a, <2>1
<1>10. ASSUME NEW r \in Readers \union Closers, LoadFirst(r)
       PROVE  Stored' /\ ReadsWhatWasWritten'
  <2>1. RingUntouched
    BY <1>10, ChannelAssumption DEF LoadFirst, GoTo, TypeOK, Routines, HistoryOK, history,
                                    RingUntouched
  <2> QED
    BY <1>a, <2>1
<1>11. ASSUME NEW r \in Readers \union Closers, LoadSecond(r)
       PROVE  Stored' /\ ReadsWhatWasWritten'
  <2>1. RingUntouched
    BY <1>11, ChannelAssumption DEF LoadSecond, GoTo, TypeOK, Routines, HistoryOK, history,
                                    RingUntouched
  <2> QED
    BY <1>a, <2>1
<1>12. ASSUME NEW r \in Readers \union Closers, DisableReaders(r)
       PROVE  Stored' /\ ReadsWhatWasWritten'
  <2>1. RingUntouched
    BY <1>12, ChannelAssumption DEF DisableReaders, readers_slots!Close, GoTo, TypeOK,
                                    Routines, HistoryOK, history, RingUntouched
  <2> QED
    BY <1>a, <2>1
<1>13. ASSUME NEW r \in Readers \union Closers, Out(r)  PROVE Stored' /\ ReadsWhatWasWritten'
  <2>1. RingUntouched
    BY <1>13, ChannelAssumption DEF Out, GoTo, TypeOK, Routines, HistoryOK, history,
                                    RingUntouched
  <2> QED
    BY <1>a, <2>1
<1>14. ASSUME UNCHANGED vars  PROVE Stored' /\ ReadsWhatWasWritten'
  <2>1. RingUntouched
    BY <1>14 DEF vars, history, RingUntouched
  <2> QED
    BY <1>a, <2>1
<1> QED
  BY <1>1, <1>2, <1>3, <1>4, <1>5, <1>6, <1>7, <1>8, <1>9, <1>10, <1>11, <1>12, <1>13, <1>14
  DEF Next, Write, Read, WriterStep, ReaderStep, EmptyTest

-----------------------------------------------------------------------------
\* The invariant of an exclusive channel.
LEMMA RingInvariance ==
  ASSUME Exclusive
  PROVE  Spec => []RingInv
<1>1. Init => RingInv
  BY SMTT(30), ChannelAssumption DEF Init, RingInv, HistoryOK, Ends, Stored, ReadsWhatWasWritten,
                           Payloads,
       Routines, Claiming, Filling, Arriving, Leaving
<1>2. IInv /\ RingInv /\ [Next]_vars => RingInv'
  <2> SUFFICES ASSUME IInv, RingInv, [Next]_vars, holds' = "values" PROVE RingInv'
    BY DEF RingInv
  <2>1. holds = "values"
    BY DEF Next, Write, Read, WriterStep, ReaderStep, EmptyTest, vars, WriteWait, WriteClaim,
           WriteStore, WritePost, ReadWait, ReadClaim, ReadMove, ReadPost, CloseWriters,
           LoadFirst, LoadSecond, DisableReaders, Out, GoTo
  <2> QED
    BY <2>1, HistoryStep, EndsStep, StoredStep DEF IInv, RingInv
<1> QED
  BY <1>1, <1>2, Invariance, PTL DEF Spec

\* One routine at a time is inside a cell of an exclusive channel: with one cell
\* whoever writes and reads, with several between one writer and one reader.
THEOREM OneRoutinePerCell ==
  ASSUME Exclusive
  PROVE  Spec => []CellsNotShared
<1>1. IInv /\ RingInv => CellsNotShared
  <2> SUFFICES ASSUME IInv, RingInv, NEW r \in Routines, NEW s \in Routines, r # s,
                      pc[r] \in {"store", "move"}, pc[s] \in {"store", "move"}
               PROVE  mine[r] % Size # mine[s] % Size
    BY DEF CellsNotShared
  <2>1. holds = "values"
    BY DEF IInv, TypeOK, NoRing, Contents
  <2>2. Room /\ Ends
    BY <2>1, RoomHolds DEF IInv, RingInv
  <2>3. ASSUME NEW w \in Writers, NEW q \in Readers, pc[w] = "store", pc[q] = "move"
        PROVE  mine[w] % Size # mine[q] % Size
    <3>1. mine[q] \in Nat /\ mine[w] \in Nat /\ mine[q] < mine[w] /\ mine[w] < mine[q] + Size
      BY SMTT(30), <2>2, <2>3, ChannelAssumption DEF Room, Ends, IInv, TypeOK, Routines
    <3> QED
      BY <3>1, CellsApart
  <2>4. /\ pc[r] = "store" => r \in Writers
        /\ pc[r] = "move" => r \in Readers
        /\ pc[s] = "store" => s \in Writers
        /\ pc[s] = "move" => s \in Readers
    BY DEF IInv, TypeOK, Routines, WriterPlaces, ReaderPlaces, CloserPlaces, TestPlaces
  <2>5. pc[r] # pc[s]
    BY <2>2, <2>4 DEF Ends, Filling, Leaving
  <2> QED
    BY <2>3, <2>4, <2>5
<1> QED
  BY <1>1, Invariance, RingInvariance, PTL

\* A read of an exclusive channel returns what was written to the same position,
\* whole: values come out in the order writers claimed their cells.
THEOREM ReadsAreWrites ==
  ASSUME Exclusive
  PROVE  Spec => []ReadsWhatWasWritten
<1>1. IInv /\ RingInv => ReadsWhatWasWritten
  BY SMTT(30) DEF IInv, RingInv, NoRing, TypeOK, Contents, ReadsWhatWasWritten
<1> QED
  BY <1>1, Invariance, RingInvariance, PTL

=============================================================================

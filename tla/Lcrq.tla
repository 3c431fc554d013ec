-------------------------------- MODULE Lcrq --------------------------------
(***************************************************************************)
(* boson::queues::lcrq: a queue for many writers and many readers, a       *)
(* linked list of rings.  A writer reserves a position of the last ring    *)
(* and stores its value in the cell of that position if no reader gave the *)
(* position up; a reader reserves a position of the first ring and waits   *)
(* for its value, gives it up if the writer is late, or marks the cell     *)
(* unsafe if it still holds an older value.  A ring with no room is closed *)
(* and a new one is linked behind it.                                      *)
(*                                                                         *)
(* One step per access to shared memory.  The two words of a cell are read *)
(* in one step: what is done with them goes through a double-word compare  *)
(* and swap, which fails if one of them changed.  Rings are not reclaimed. *)
(***************************************************************************)
EXTENDS Integers, Sequences, FiniteSets

CONSTANTS Procs,       \* proc_id
          RING_SIZE,
          CloseTries,  \* the tries of close_crq that are careful (9 in the code)
          MaxPuts,     \* bound: values written
          MaxGets,     \* bound: reads
          MaxPosition  \* bound: positions reserved in a ring, by writers or by readers

ASSUME LcrqAssumption ==
  /\ RING_SIZE \in Nat \ {0} /\ CloseTries \in Nat
  /\ MaxPuts \in Nat /\ MaxGets \in Nat /\ MaxPosition \in Nat

Empty == 0      \* -1 in a cell; the values are 1, 2, ...
NULL == 0       \* no ring; the rings are 1, 2, ...
NoResult == -1  \* the process has not returned from a read

VARIABLES
  rings,       \* head, tail and its closed bit, next, array, of every ring
  head, tail,  \* queue_t: the first and the last ring
  pc, local,   \* of a process: the access it makes next, and its local variables
  puts, gets,  \* values written and reads begun so far
  written,     \* history: the values whose write returned
  precedes,    \* history: <<a, b>> if the write of a returned before that of b began
  read,        \* history: the values a read returned
  overtaken,   \* history: values that a later read must not return any more
  result       \* history: what the last read of a process returned

shared == <<rings, head, tail>>
history == <<puts, gets, written, precedes, read, overtaken, result>>
vars == <<rings, head, tail, pc, local, puts, gets, written, precedes,
          read, overtaken, result>>

Cell(i) == i % RING_SIZE

NewRing == [head |-> 0, tail |-> 0, closed |-> FALSE, next |-> NULL,
            array |-> [i \in 0 .. RING_SIZE - 1 |-> [val |-> Empty, idx |-> i, unsafe |-> FALSE]]]

\* A new ring that already holds a value.
SoloRing(v) ==
  LET first == [NewRing.array[0] EXCEPT !.val = v]
  IN  [NewRing EXCEPT !.tail = 1, !.array = [NewRing.array EXCEPT ![0] = first]]

Idle == [rq |-> NULL, t |-> 0, cell |-> NewRing.array[0], tt |-> [tail |-> 0, closed |-> FALSE],
         spun |-> FALSE, late |-> FALSE, fix |-> 0, tries |-> 0, arg |-> Empty, there |-> {}, gone |-> {}]

Ring(p) == rings[local[p].rq]
At(p, place) == pc[p] = place
GoTo(p, place) == pc' = [pc EXCEPT ![p] = place]
Keep(p, variables) == local' = [local EXCEPT ![p] = variables]
SetRing(p, ring) == rings' = [rings EXCEPT ![local[p].rq] = ring]

\* CAS2 on the cell of the position the process reserved.
CellIsAsRead(p) == Ring(p).array[Cell(local[p].t)] = local[p].cell
SetCell(p, cell) == SetRing(p, [Ring(p) EXCEPT !.array = [@ EXCEPT ![Cell(local[p].t)] = cell]])

-----------------------------------------------------------------------------
\* lcrq_put.
Put(p) ==
  /\ At(p, "idle")
  /\ puts < MaxPuts
  /\ puts' = puts + 1
  /\ Keep(p, [Idle EXCEPT !.arg = puts + 1])
  /\ precedes' = precedes \cup (written \X {puts + 1})
  /\ GoTo(p, "put_tail")
  /\ UNCHANGED <<shared, gets, written, read, overtaken, result>>

PutReturns(p) ==
  /\ written' = written \cup {local[p].arg}
  /\ Keep(p, Idle)
  /\ GoTo(p, "idle")
  /\ UNCHANGED <<puts, gets, precedes, read, overtaken, result>>

PutTail(p) ==
  /\ At(p, "put_tail")
  /\ Keep(p, [local[p] EXCEPT !.rq = tail])
  /\ GoTo(p, "put_next")
  /\ UNCHANGED <<shared, history>>

\* A ring that has a successor is not the last one: help and start again.
PutNext(p) ==
  /\ At(p, "put_next")
  /\ GoTo(p, IF Ring(p).next = NULL THEN "put_reserve" ELSE "put_help")
  /\ UNCHANGED <<shared, local, history>>

PutHelp(p) ==
  /\ At(p, "put_help")
  /\ tail' = IF tail = local[p].rq THEN Ring(p).next ELSE tail
  /\ GoTo(p, "put_tail")
  /\ UNCHANGED <<rings, head, local, history>>

PutReserve(p) ==
  /\ At(p, "put_reserve")
  /\ Ring(p).tail < MaxPosition
  /\ SetRing(p, [Ring(p) EXCEPT !.tail = @ + 1])
  /\ Keep(p, [local[p] EXCEPT !.t = Ring(p).tail])
  /\ GoTo(p, IF Ring(p).closed THEN "put_link" ELSE "put_read")
  /\ UNCHANGED <<head, tail, history>>

PutRead(p) ==
  LET cell == Ring(p).array[Cell(local[p].t)] IN
  /\ At(p, "put_read")
  /\ Keep(p, [local[p] EXCEPT !.cell = cell])
  /\ GoTo(p, IF cell.val # Empty \/ cell.idx > local[p].t THEN "put_head"
             ELSE IF cell.unsafe THEN "put_unsafe" ELSE "put_store")
  /\ UNCHANGED <<shared, history>>

\* An unsafe cell is used only if no reader reserved the position yet.
PutUnsafe(p) ==
  /\ At(p, "put_unsafe")
  /\ GoTo(p, IF Ring(p).head < local[p].t THEN "put_store" ELSE "put_head")
  /\ UNCHANGED <<shared, local, history>>

PutStore(p) ==
  /\ At(p, "put_store")
  /\ IF CellIsAsRead(p)
     THEN /\ SetCell(p, [val |-> local[p].arg, idx |-> local[p].t, unsafe |-> FALSE])
          /\ PutReturns(p)
     ELSE /\ GoTo(p, "put_head")
          /\ UNCHANGED <<rings, local, history>>
  /\ UNCHANGED <<head, tail>>

PutHead(p) ==
  /\ At(p, "put_head")
  /\ GoTo(p, IF local[p].t - Ring(p).head >= RING_SIZE THEN "put_close" ELSE "put_tail")
  /\ UNCHANGED <<shared, local, history>>

\* close_crq: first only if nobody reserved a position meanwhile, then anyway.
PutClose(p) ==
  LET closes == ~Ring(p).closed /\ (local[p].tries < CloseTries => Ring(p).tail = local[p].t + 1) IN
  /\ At(p, "put_close")
  /\ SetRing(p, [Ring(p) EXCEPT !.closed = @ \/ closes])
  /\ Keep(p, [local[p] EXCEPT !.tries = IF @ < CloseTries THEN @ + 1 ELSE @])
  /\ GoTo(p, IF closes THEN "put_link" ELSE "put_tail")
  /\ UNCHANGED <<head, tail, history>>

PutLink(p) ==
  /\ At(p, "put_link")
  /\ IF Ring(p).next = NULL
     THEN /\ rings' = Append([rings EXCEPT ![local[p].rq] = [@ EXCEPT !.next = Len(rings) + 1]],
                             SoloRing(local[p].arg))
          /\ GoTo(p, "put_swing")
     ELSE /\ GoTo(p, "put_tail")
          /\ UNCHANGED rings
  /\ UNCHANGED <<head, tail, local, history>>

PutSwing(p) ==
  /\ At(p, "put_swing")
  /\ tail' = IF tail = local[p].rq THEN Ring(p).next ELSE tail
  /\ PutReturns(p)
  /\ UNCHANGED <<rings, head>>

-----------------------------------------------------------------------------
\* lcrq_get.  It remembers what was written and overtaken when it began.
Get(p) ==
  /\ At(p, "idle")
  /\ gets < MaxGets
  /\ gets' = gets + 1
  /\ Keep(p, [Idle EXCEPT !.there = written, !.gone = overtaken])
  /\ result' = [result EXCEPT ![p] = NoResult]
  /\ GoTo(p, "get_head")
  /\ UNCHANGED <<shared, puts, written, precedes, read, overtaken>>

\* A read begun later must not return a value written before the one that is
\* returned, or, if the queue was said to be empty, before this read.
GetReturns(p, v) ==
  /\ result' = [result EXCEPT ![p] = v]
  /\ read' = IF v = Empty THEN read ELSE read \cup {v}
  /\ overtaken' = overtaken \cup ((IF v = Empty THEN local[p].there
                                   ELSE {a \in written : <<a, v>> \in precedes}) \ read)
  /\ Keep(p, [Idle EXCEPT !.gone = local[p].gone])
  /\ GoTo(p, "idle")
  /\ UNCHANGED <<puts, gets, written, precedes>>

GetHead(p) ==
  /\ At(p, "get_head")
  /\ Keep(p, [local[p] EXCEPT !.rq = head])
  /\ GoTo(p, "get_reserve")
  /\ UNCHANGED <<shared, history>>

GetReserve(p) ==
  /\ At(p, "get_reserve")
  /\ Ring(p).head < MaxPosition
  /\ SetRing(p, [Ring(p) EXCEPT !.head = @ + 1])
  /\ Keep(p, [local[p] EXCEPT !.t = Ring(p).head, !.spun = FALSE, !.late = FALSE])
  /\ GoTo(p, "get_read")
  /\ UNCHANGED <<head, tail, history>>

GetRead(p) ==
  LET cell == Ring(p).array[Cell(local[p].t)] IN
  /\ At(p, "get_read")
  /\ Keep(p, [local[p] EXCEPT !.cell = cell])
  /\ GoTo(p, IF cell.idx > local[p].t THEN "get_check"
             ELSE IF cell.val # Empty THEN "get_take" ELSE "get_tail")
  /\ UNCHANGED <<shared, history>>

\* Mutant: the cell moves on and keeps its value.
GetTakeKeeps(p) ==
  LET cell == local[p].cell  h == local[p].t IN
  /\ At(p, "get_take")
  /\ \/ /\ ~CellIsAsRead(p)
        /\ GoTo(p, "get_read")
        /\ UNCHANGED <<rings, local, history>>
     \/ /\ CellIsAsRead(p) /\ cell.idx = h
        /\ SetCell(p, [cell EXCEPT !.idx = h + RING_SIZE])
        /\ GetReturns(p, cell.val)
     \/ /\ CellIsAsRead(p) /\ cell.idx # h
        /\ SetCell(p, [cell EXCEPT !.unsafe = TRUE])
        /\ GoTo(p, "get_check")
        /\ UNCHANGED <<local, history>>
  /\ UNCHANGED <<head, tail>>

\* The value of this position is taken; an older value makes the cell unsafe.
GetTake(p) ==
  LET cell == local[p].cell  h == local[p].t IN
  /\ At(p, "get_take")
  /\ \/ /\ ~CellIsAsRead(p)
        /\ GoTo(p, "get_read")
        /\ UNCHANGED <<rings, local, history>>
     \/ /\ CellIsAsRead(p) /\ cell.idx = h
        /\ SetCell(p, [cell EXCEPT !.val = Empty, !.idx = h + RING_SIZE])
        /\ GetReturns(p, cell.val)
     \/ /\ CellIsAsRead(p) /\ cell.idx # h
        /\ SetCell(p, [cell EXCEPT !.unsafe = TRUE])
        /\ GoTo(p, "get_check")
        /\ UNCHANGED <<local, history>>
  /\ UNCHANGED <<head, tail>>

\* An empty cell.  The first look reads the tail, and so does one look in 1024
\* of those that follow; after 200000 looks the reader gives its position up,
\* and before if the position was not reserved by a writer or the ring is closed.
GetTail(p) ==
  LET h == local[p].t  now == [tail |-> Ring(p).tail, closed |-> Ring(p).closed] IN
  /\ At(p, "get_tail")
  /\ \E tt \in {now} \cup (IF local[p].spun THEN {local[p].tt} ELSE {}),
        late \in {FALSE, local[p].spun} :
       LET gives_up == local[p].cell.unsafe \/ tt.tail < h + 1 \/ tt.closed \/ late IN
       /\ Keep(p, [local[p] EXCEPT !.tt = tt, !.late = late, !.spun = @ \/ ~gives_up])
       /\ GoTo(p, IF gives_up THEN "get_give_up" ELSE "get_read")
  /\ UNCHANGED <<shared, history>>

GetGiveUp(p) ==
  LET cell == local[p].cell  tt == local[p].tt IN
  /\ At(p, "get_give_up")
  /\ IF CellIsAsRead(p)
     THEN /\ SetCell(p, [cell EXCEPT !.idx = local[p].t + RING_SIZE])
          /\ GoTo(p, IF ~cell.unsafe /\ local[p].late /\ (tt.tail > RING_SIZE \/ tt.closed)
                     THEN "get_close" ELSE "get_check")
     ELSE /\ GoTo(p, "get_read")
          /\ UNCHANGED rings
  /\ UNCHANGED <<head, tail, local, history>>

GetClose(p) ==
  /\ At(p, "get_close")
  /\ SetRing(p, [Ring(p) EXCEPT !.closed = TRUE])
  /\ GoTo(p, "get_check")
  /\ UNCHANGED <<head, tail, local, history>>

\* Mutant: a position too far.
GetCheckTooFar(p) ==
  /\ At(p, "get_check")
  /\ GoTo(p, IF Ring(p).tail <= local[p].t + 2 THEN "get_fix_read" ELSE "get_head")
  /\ UNCHANGED <<shared, local, history>>

GetCheck(p) ==
  /\ At(p, "get_check")
  /\ GoTo(p, IF Ring(p).tail <= local[p].t + 1 THEN "get_fix_read" ELSE "get_head")
  /\ UNCHANGED <<shared, local, history>>

\* fixState: readers that overtook the writers bring the tail up to the head.
\* The tail is read before and after the head: it did not move in between.
GetFixRead(p) ==
  LET behind == ~Ring(p).closed /\ Ring(p).head > Ring(p).tail IN
  /\ At(p, "get_fix_read")
  /\ Keep(p, IF behind THEN [local[p] EXCEPT !.tt = [@ EXCEPT !.tail = Ring(p).tail],
                                             !.fix = Ring(p).head]
             ELSE local[p])
  /\ GoTo(p, IF behind THEN "get_fix" ELSE "get_next")
  /\ UNCHANGED <<shared, history>>

GetFix(p) ==
  /\ At(p, "get_fix")
  /\ IF Ring(p).tail = local[p].tt.tail /\ ~Ring(p).closed
     THEN /\ SetRing(p, [Ring(p) EXCEPT !.tail = local[p].fix])
          /\ GoTo(p, "get_next")
     ELSE /\ GoTo(p, "get_fix_read")
          /\ UNCHANGED rings
  /\ UNCHANGED <<head, tail, local, history>>

\* The queue is empty if no ring follows; else the first ring is left behind,
\* unless a writer reserved a position of it meanwhile.
GetNext(p) ==
  /\ At(p, "get_next")
  /\ IF Ring(p).next = NULL
     THEN GetReturns(p, Empty)
     ELSE /\ GoTo(p, "get_recheck")
          /\ UNCHANGED <<local, history>>
  /\ UNCHANGED shared

\* Mutant: the ring is left without looking at its tail again.
GetRecheckSkipped(p) ==
  /\ At(p, "get_recheck")
  /\ GoTo(p, "get_swing")
  /\ UNCHANGED <<shared, local, history>>

GetRecheck(p) ==
  /\ At(p, "get_recheck")
  /\ GoTo(p, IF Ring(p).tail <= local[p].t + 1 THEN "get_swing" ELSE "get_head")
  /\ UNCHANGED <<shared, local, history>>

GetSwing(p) ==
  /\ At(p, "get_swing")
  /\ head' = IF head = local[p].rq THEN Ring(p).next ELSE head
  /\ GoTo(p, "get_head")
  /\ UNCHANGED <<rings, tail, local, history>>

-----------------------------------------------------------------------------
Init ==
  /\ rings = <<NewRing>>
  /\ head = 1
  /\ tail = 1
  /\ pc = [p \in Procs |-> "idle"]
  /\ local = [p \in Procs |-> Idle]
  /\ puts = 0
  /\ gets = 0
  /\ written = {}
  /\ precedes = {}
  /\ read = {}
  /\ overtaken = {}
  /\ result = [p \in Procs |-> NoResult]

PutStep(p) ==
  \/ PutTail(p) \/ PutNext(p) \/ PutHelp(p) \/ PutReserve(p) \/ PutRead(p) \/ PutUnsafe(p)
  \/ PutStore(p) \/ PutHead(p) \/ PutClose(p) \/ PutLink(p) \/ PutSwing(p)

GetStep(p) ==
  \/ GetHead(p) \/ GetReserve(p) \/ GetRead(p) \/ GetTake(p) \/ GetTail(p) \/ GetGiveUp(p)
  \/ GetClose(p) \/ GetCheck(p) \/ GetFixRead(p) \/ GetFix(p) \/ GetNext(p)
  \/ GetRecheck(p) \/ GetSwing(p)

Next == \E p \in Procs : Put(p) \/ Get(p) \/ PutStep(p) \/ GetStep(p)

Spec == Init /\ [][Next]_vars

-----------------------------------------------------------------------------
\* First in, first out, in real time: a read never returns a value that an
\* earlier read passed over, be it for a value written later or to say that
\* the queue is empty.
FifoOrder == \A p \in Procs : result[p] \notin local[p].gone

\* The values in the rings from the first one on, at positions not yet passed.
Reachable == {r \in 1 .. Len(rings) : head <= r}
Stored == (UNION {{c.val : c \in {x \in {rings[r].array[i] : i \in DOMAIN rings[r].array} :
                                    x.idx >= rings[r].head}} : r \in Reachable}) \ {Empty}

\* When no call is under way, the queue holds exactly what was written and not
\* read: no value stays behind in a closed ring, in an unsafe cell or at a
\* position the readers have passed.
NothingLost ==
  (\A p \in Procs : pc[p] = "idle") => Stored = written \ read

\* No two reads return the same value, and none one that was not written: what
\* a read returned is the result of no other process and in no cell of any
\* ring, where a later read could find it.
ReadOnce ==
  /\ read \subseteq 1 .. puts
  /\ \A p, q \in Procs : p # q /\ result[p] \in read => result[p] # result[q]
  /\ \A r \in 1 .. Len(rings) : \A i \in DOMAIN rings[r].array : rings[r].array[i].val \notin read

=============================================================================

----------------------------- MODULE LcrqProofs -----------------------------
(***************************************************************************)
(* What lcrq promises for any processes, rings of any size and any number  *)
(* of calls.                                                               *)
(***************************************************************************)
EXTENDS Lcrq, TLAPS

\* Leaves are proved by Zenon, unless they name another prover.
USE ZenonT(30)
-----------------------------------------------------------------------------
(* Where a process is: in a write, with a ring, with a position it may store *)
(* at; in a read, with a ring, with a position, waiting for its value, past  *)
(* the check that the ring has nothing for it.                               *)

PutPlaced == {"put_next", "put_help", "put_reserve", "put_read", "put_unsafe", "put_store",
              "put_head", "put_close", "put_link", "put_swing"}
Putting == {"put_tail"} \cup PutPlaced
Unstored == Putting \ {"put_swing"}
Storing == {"put_read", "put_unsafe", "put_store"}

Looking == {"get_read", "get_take", "get_tail", "get_give_up"}
Checked == {"get_fix_read", "get_fix", "get_next", "get_recheck", "get_swing"}
Positioned == Looking \cup {"get_close", "get_check"} \cup Checked
GetPlaced == {"get_reserve"} \cup Positioned
Getting == {"get_head"} \cup GetPlaced

Places == {"idle"} \cup Putting \cup Getting

\* What a cell of some rings holds, and the position it stands for.
Val(x, r, i) == x[r].array[i].val
Idx(x, r, i) == x[r].array[i].idx
-----------------------------------------------------------------------------
(* Types. *)

Slots == 0 .. RING_SIZE - 1
CellRec == [val : Nat, idx : Nat, unsafe : BOOLEAN]
RingRec == [head : Nat, tail : Nat, closed : BOOLEAN, next : Nat, array : [Slots -> CellRec]]
TailRec == [tail : Nat, closed : BOOLEAN]
LocalRec == [rq : Nat, t : Nat, cell : CellRec, tt : TailRec, spun : BOOLEAN, late : BOOLEAN,
             fix : Nat, tries : Nat, arg : Nat, there : SUBSET Nat, gone : SUBSET Nat]

Rings == 1 .. Len(rings)

TypeOK ==
  /\ rings \in Seq(RingRec)
  /\ head \in Nat /\ tail \in Nat
  /\ pc \in [Procs -> Places]
  /\ local \in [Procs -> LocalRec]
  /\ puts \in Nat /\ gets \in Nat
  /\ written \in SUBSET Nat /\ read \in SUBSET Nat /\ overtaken \in SUBSET Nat
  /\ precedes \in SUBSET (Nat \X Nat)
  /\ result \in [Procs -> Int]

\* Only one number from 0 to n - 1 differs from t by a multiple of n.
LEMMA Remainder ==
  ASSUME NEW n \in Nat \ {0}, NEW d \in Int, NEW a \in 0 .. n - 1, NEW b \in 0 .. n - 1,
         a - b = n * d
  PROVE  a = b
<1>1. CASE d >= 1
  <2>1. n * d >= n
    BY SMTT(30), <1>1
  <2>. QED
    BY SMTT(30), <2>1
<1>2. CASE d <= -1
  <2>1. n * d <= -n
    BY SMTT(30), <1>2
  <2>. QED
    BY SMTT(30), <2>1
<1>3. CASE d = 0
  BY SMTT(30), <1>3
<1>. QED
  BY SMTT(30), <1>1, <1>2, <1>3

\* Every position has a cell of the array, the same one every RING_SIZE
\* positions.
LEMMA CellFacts ==
  /\ \A t \in Nat : Cell(t) \in Slots
  /\ \A t \in Nat : Cell(t + RING_SIZE) = Cell(t)
  /\ \A i \in Slots : Cell(i) = i
  /\ 0 \in Slots
  /\ RING_SIZE \in Nat
<1> DEFINE n == RING_SIZE
<1>1. n \in Nat \ {0} /\ 0 \in Slots
  BY SMTT(30), LcrqAssumption DEF Slots
<1>. HIDE DEF n
<1>2. \A t \in Nat : t % n \in 0 .. n - 1 /\ t \div n \in Int /\ t = n * (t \div n) + (t % n)
  BY SMTT(30), <1>1
<1>3. ASSUME NEW t \in Nat
      PROVE  (t + n) % n = t % n
  <2> DEFINE a == (t + n) % n
             b == t % n
             q == (t + n) \div n
             k == t \div n
  <2>1. t + n \in Nat
    BY SMTT(30), <1>1
  <2>2. /\ a \in 0 .. n - 1 /\ b \in 0 .. n - 1 /\ q \in Int /\ k \in Int
        /\ t + n = n * q + a /\ t = n * k + b
    BY <1>2, <2>1
  <2>. HIDE DEF a, b, q, k
  <2>3. a - b = n * ((k + 1) - q) /\ (k + 1) - q \in Int
    BY SMTT(30), <1>1, <2>2
  <2>4. a = b
    BY <1>1, <2>2, <2>3, Remainder
  <2>. QED
    BY <2>4 DEF a, b
<1>4. ASSUME NEW i \in 0 .. n - 1
      PROVE  i % n = i
  <2> DEFINE a == i % n
             k == i \div n
  <2>1. i \in Nat
    BY SMTT(30)
  <2>2. a \in 0 .. n - 1 /\ k \in Int /\ i = n * k + a
    BY <1>2, <2>1
  <2>. HIDE DEF a, k
  <2>3. i - a = n * k
    BY SMTT(30), <1>1, <2>2
  <2>4. i = a
    BY <1>1, <2>2, <2>3, Remainder
  <2>. QED
    BY <2>4 DEF a
<1>. QED
  BY <1>1, <1>2, <1>3, <1>4 DEF Cell, Slots, n

\* The local variables of an idle process have their types.
LEMMA IdleType == Idle \in LocalRec /\ NewRing.array[0] \in CellRec
  BY SMTT(30), CellFacts DEF Idle, NewRing, LocalRec, CellRec, TailRec, NULL, Empty, Slots

\* A new ring is empty and open, and its cells stand for the first positions.
LEMMA NewRingType ==
  /\ NewRing \in RingRec /\ NewRing.head = 0 /\ NewRing.tail = 0 /\ NewRing.closed = FALSE
  /\ NewRing.next = NULL
  /\ \A i \in Slots : NewRing.array[i].val = Empty /\ NewRing.array[i].idx = i
  BY SMTT(30) DEF NewRing, RingRec, CellRec, NULL, Empty, Slots

\* The fields of a ring.
LEMMA RingIs ==
  ASSUME TypeOK, NEW r \in Rings
  PROVE  /\ rings[r] \in RingRec
         /\ rings[r].head \in Nat /\ rings[r].tail \in Nat /\ rings[r].closed \in BOOLEAN
         /\ rings[r].next \in Nat /\ rings[r].array \in [Slots -> CellRec]
         /\ \A i \in Slots : /\ rings[r].array[i] \in CellRec
                             /\ rings[r].array[i].val \in Nat
                             /\ rings[r].array[i].idx \in Nat
                             /\ rings[r].array[i].unsafe \in BOOLEAN
<1>1. rings[r] \in RingRec
  BY SMTT(30) DEF TypeOK, Rings
<1>2. /\ rings[r].head \in Nat /\ rings[r].tail \in Nat /\ rings[r].closed \in BOOLEAN
      /\ rings[r].next \in Nat /\ rings[r].array \in [Slots -> CellRec]
  BY SMTT(30), <1>1 DEF RingRec
<1>3. \A i \in Slots : rings[r].array[i] \in CellRec
  BY <1>2
<1>4. \A c \in CellRec : c.val \in Nat /\ c.idx \in Nat /\ c.unsafe \in BOOLEAN
  BY SMTT(30) DEF CellRec
<1>. QED
  BY <1>1, <1>2, <1>3, <1>4

\* The local variables of a process.
LEMMA LocalIs ==
  ASSUME NEW l \in LocalRec
  PROVE  /\ l.rq \in Nat /\ l.t \in Nat /\ l.cell \in CellRec /\ l.tt \in TailRec
         /\ l.cell.val \in Nat /\ l.cell.idx \in Nat /\ l.cell.unsafe \in BOOLEAN
         /\ l.tt.tail \in Nat /\ l.tt.closed \in BOOLEAN /\ l.spun \in BOOLEAN /\ l.late \in BOOLEAN
         /\ l.fix \in Nat /\ l.tries \in Nat /\ l.arg \in Nat
         /\ l.there \in SUBSET Nat /\ l.gone \in SUBSET Nat
<1>1. /\ l.rq \in Nat /\ l.t \in Nat /\ l.cell \in CellRec /\ l.tt \in TailRec
      /\ l.spun \in BOOLEAN /\ l.late \in BOOLEAN
      /\ l.fix \in Nat /\ l.tries \in Nat /\ l.arg \in Nat
      /\ l.there \in SUBSET Nat /\ l.gone \in SUBSET Nat
  BY SMTT(30) DEF LocalRec
<1>2. l.cell.val \in Nat /\ l.cell.idx \in Nat /\ l.cell.unsafe \in BOOLEAN
  BY SMTT(30), <1>1 DEF CellRec
<1>3. l.tt.tail \in Nat /\ l.tt.closed \in BOOLEAN
  BY SMTT(30), <1>1 DEF TailRec
<1>. QED
  BY <1>1, <1>2, <1>3

-----------------------------------------------------------------------------
(* The local variables of a process after an assignment to some of them. *)

\* The ones that the invariants speak of and that an assignment leaves alone.
SameButRing(y, x) ==
  /\ y.t = x.t /\ y.cell = x.cell /\ y.tt = x.tt /\ y.fix = x.fix
  /\ y.arg = x.arg /\ y.there = x.there /\ y.gone = x.gone
SameButPosition(y, x) ==
  /\ y.rq = x.rq /\ y.cell = x.cell /\ y.tt = x.tt /\ y.fix = x.fix
  /\ y.arg = x.arg /\ y.there = x.there /\ y.gone = x.gone
SameButCell(y, x) ==
  /\ y.rq = x.rq /\ y.t = x.t /\ y.tt = x.tt /\ y.fix = x.fix
  /\ y.arg = x.arg /\ y.there = x.there /\ y.gone = x.gone
SameButTail(y, x) ==
  /\ y.rq = x.rq /\ y.t = x.t /\ y.cell = x.cell
  /\ y.arg = x.arg /\ y.there = x.there /\ y.gone = x.gone

-----------------------------------------------------------------------------
(* What holds of the rings, and of the ring and position of a process. *)

\* The rings are a chain in which only the last is open, from which head and
\* tail each name one; a cell stands for positions that map to it, and has a
\* value only at a position that a writer reserved.
Shaped ==
  /\ head \in Rings /\ tail \in Rings
  /\ \A r \in Rings : IF r + 1 \in Rings THEN rings[r].next = r + 1 /\ rings[r].closed
                                         ELSE rings[r].next = NULL
  /\ \A r \in Rings, i \in Slots :
       /\ Cell(Idx(rings, r, i)) = i
       /\ Val(rings, r, i) # Empty => Idx(rings, r, i) < rings[r].tail

\* A process has a ring that head or tail was at, and a position reserved there;
\* what it read in a cell was a reason to go on.
WriterPlaced(p) ==
  LET l == local[p] IN
  /\ pc[p] \in PutPlaced => l.rq \in 1 .. tail
  /\ pc[p] \in {"put_help", "put_swing"} => l.rq + 1 \in Rings
  /\ pc[p] = "put_link" => rings[l.rq].closed
  /\ pc[p] \in Storing => l.t < rings[l.rq].tail
  /\ pc[p] \in {"put_unsafe", "put_store"} =>
       l.cell.val = Empty /\ l.cell.idx <= l.t /\ l.cell.idx <= Idx(rings, l.rq, Cell(l.t))

ReaderPlaced(p) ==
  LET l == local[p] IN
  /\ pc[p] \in GetPlaced => l.rq \in 1 .. head
  /\ pc[p] \in Positioned => l.t < rings[l.rq].head
  /\ pc[p] = "get_take" => l.cell.val # Empty /\ l.cell.idx <= l.t
  /\ pc[p] \in {"get_tail", "get_give_up"} => l.cell.val = Empty /\ l.cell.idx <= l.t
  /\ pc[p] \in {"get_recheck", "get_swing"} => l.rq + 1 \in Rings
  /\ pc[p] = "get_fix" => l.tt.tail < l.fix

Placed(p) == WriterPlaced(p) /\ ReaderPlaced(p)

-----------------------------------------------------------------------------
(* What a step of a process may do to the rings, to the histories and to     *)
(* its own place: all that the invariants need to know of the actions.       *)

Kept(r, i) ==
  /\ r \in Rings
  /\ Val(rings', r, i) = Val(rings, r, i) /\ Idx(rings', r, i) = Idx(rings, r, i)

\* p stores its value: in a cell of its ring, or in the new ring behind it.
Stores(p, r, i) ==
  /\ Val(rings', r, i) = local[p].arg
  /\ \/ /\ pc[p] = "put_store" /\ pc'[p] = "idle"
        /\ r \in Rings /\ r = local[p].rq /\ i = Cell(local[p].t)
        /\ Val(rings, r, i) = Empty /\ Idx(rings', r, i) = local[p].t
     \/ /\ pc[p] = "put_link" /\ pc'[p] = "put_swing"
        /\ r \notin Rings /\ r = local[p].rq + 1 /\ i = 0

\* p takes the value of its position and returns it.
Takes(p, r, i) ==
  /\ pc[p] = "get_take" /\ pc'[p] = "idle"
  /\ r = local[p].rq /\ i = Cell(local[p].t)
  /\ Val(rings, r, i) # Empty /\ Idx(rings, r, i) = local[p].t
  /\ Val(rings', r, i) = Empty
  /\ Val(rings, r, i) \in read' /\ result'[p] = Val(rings, r, i)

Others(p) ==
  \A q \in Procs : q # p => pc'[q] = pc[q] /\ local'[q] = local[q] /\ result'[q] = result[q]

Grows(p) ==
  /\ Rings \subseteq Rings'
  /\ 1 .. head \subseteq 1 .. head' /\ 1 .. tail \subseteq 1 .. tail'
  /\ \A r \in Rings :
       /\ \A n \in Nat : n < rings[r].head => n < rings'[r].head
       /\ \A n \in Nat : n < rings[r].tail => n < rings'[r].tail
       /\ rings[r].closed => rings'[r].closed
       /\ \A i \in Slots, n \in Nat : n <= Idx(rings, r, i) => n <= Idx(rings', r, i)
  /\ \A r \in Rings', i \in Slots :
       Val(rings', r, i) # Empty => Kept(r, i) \/ Stores(p, r, i)
  /\ \A r \in Rings, i \in Slots :
       Val(rings, r, i) # Empty => Kept(r, i) \/ Takes(p, r, i)

\* The values that a read takes, and those it overtakes.
Remembers(p) ==
  LET v == Val(rings, local[p].rq, Cell(local[p].t)) IN
  /\ 1 .. puts \subseteq 1 .. puts' /\ written \subseteq written' /\ read \subseteq read'
  /\ \A a \in 1 .. puts' : a \in 1 .. puts \/ (pc'[p] = "put_tail" /\ local'[p].arg = a)
  /\ overtaken \subseteq overtaken' /\ precedes \subseteq precedes'
  /\ \A a \in written' : \/ a \in written
                         \/ /\ pc[p] \in {"put_store", "put_swing"} /\ pc'[p] = "idle"
                            /\ a = local[p].arg
  /\ \A a \in read' : \/ a \in read
                      \/ a = v /\ Takes(p, local[p].rq, Cell(local[p].t))
  /\ \A a, b \in Nat : <<a, b>> \in precedes' =>
                       \/ <<a, b>> \in precedes
                       \/ /\ a \in written /\ b = puts + 1 /\ puts' = puts + 1
                          /\ pc'[p] = "put_tail"
  /\ \A a \in overtaken' :
       \/ a \in overtaken
       \/ /\ pc[p] = "get_next" /\ rings[local[p].rq].next = NULL /\ rings' = rings
          /\ a \in local[p].there
       \/ /\ Takes(p, local[p].rq, Cell(local[p].t))
          /\ a \in written /\ <<a, v>> \in precedes
  /\ \/ result'[p] = result[p] /\ local'[p].gone \in {local[p].gone, {}}
     \/ result'[p] = NoResult /\ local'[p].gone = overtaken
     \/ result'[p] = Empty /\ local'[p].gone = local[p].gone
     \/ Takes(p, local[p].rq, Cell(local[p].t)) /\ local'[p].gone = local[p].gone
  /\ local'[p].there \in {local[p].there, {}, written}

\* A write from its first step to the last.
Writes(p) ==
  /\ pc'[p] \in Putting =>
       \/ pc[p] = "idle" /\ pc'[p] = "put_tail" /\ puts' = puts + 1 /\ local'[p].arg = puts + 1
       \/ pc[p] \in Putting /\ puts' = puts /\ local'[p].arg = local[p].arg
  /\ pc'[p] \in Unstored => pc[p] \in Unstored \cup {"idle"}
  /\ pc'[p] \in PutPlaced =>
       \/ pc[p] = "put_tail" /\ local'[p].rq = tail /\ rings' = rings
       \/ pc[p] \in PutPlaced /\ local'[p].rq = local[p].rq
  /\ pc'[p] \in Storing =>
       \/ /\ pc[p] = "put_reserve" /\ ~rings[local[p].rq].closed
          /\ local'[p].t = rings[local[p].rq].tail
       \/ pc[p] \in Storing /\ local'[p].t = local[p].t
  /\ pc'[p] = "put_swing" => pc[p] = "put_link"
  /\ pc[p] \in Putting =>
       \/ pc'[p] \in Putting /\ local'[p].arg = local[p].arg
       \/ pc'[p] = "idle" /\ local[p].arg \in written'
  /\ pc[p] \in Unstored =>
       \/ pc'[p] \in Unstored
       \/ local[p].rq \in Rings' /\ Val(rings', local[p].rq, Cell(local[p].t)) = local[p].arg
       \/ local[p].rq + 1 \in Rings' /\ Val(rings', local[p].rq + 1, 0) = local[p].arg

\* A read from its first step to the last.
Reads(p) ==
  /\ pc'[p] \in GetPlaced =>
       \/ pc[p] = "get_head" /\ local'[p].rq = head /\ rings' = rings
       \/ pc[p] \in GetPlaced /\ local'[p].rq = local[p].rq
  /\ pc'[p] \in Looking =>
       /\ local'[p].gone = local[p].gone
       /\ \/ pc[p] = "get_reserve" /\ local'[p].t = rings[local[p].rq].head
          \/ pc[p] \in Looking /\ local'[p].t = local[p].t
  /\ pc'[p] \in Checked =>
       /\ local'[p].there = local[p].there /\ local'[p].t = local[p].t
       /\ \/ pc[p] = "get_check" /\ rings[local[p].rq].tail <= local[p].t + 1 /\ rings' = rings
          \/ pc[p] \in Checked
  /\ pc'[p] = "get_swing" =>
       pc[p] = "get_recheck" /\ rings[local[p].rq].tail <= local[p].t + 1 /\ rings' = rings

-----------------------------------------------------------------------------
(* What the actions have in common. *)

\* head and tail, and all before them, name rings.
LEMMA InRings ==
  ASSUME TypeOK, Shaped
  PROVE  1 .. head \subseteq Rings /\ 1 .. tail \subseteq Rings
<1>1. head \in Nat /\ tail \in Nat /\ Len(rings) \in Nat
  BY SMTT(30) DEF TypeOK
<1>. QED
  BY SMTT(30), <1>1 DEF Shaped, Rings

\* p has gone on, and nothing has changed but the head, the tail or the closed
\* bit of its ring, which is x now.
Adjusted(p, place, l, x) ==
  /\ TypeOK' /\ Shaped' /\ Others(p) /\ Grows(p) /\ Remembers(p)
  /\ pc'[p] = place /\ local'[p] = l
  /\ Rings' = Rings /\ head' = head /\ tail' = tail /\ puts' = puts
  /\ rings'[local[p].rq] = x
  /\ \A r \in Rings : rings'[r].array = rings[r].array

\* The ring r is x now, and y is behind the others.
Extended(r, x, y) ==
  /\ rings' \in Seq(RingRec) /\ Len(rings') = Len(rings) + 1
  /\ Rings \subseteq Rings' /\ Len(rings) + 1 \notin Rings
  /\ \A s \in Rings' : s \in Rings \/ s = Len(rings) + 1
  /\ rings'[r] = x /\ rings'[Len(rings) + 1] = y
  /\ \A s \in Rings : s # r => rings'[s] = rings[s]

\* p is at place now, with the local variables l, and nobody else has moved.
Went(p, place, l) ==
  /\ pc' \in [Procs -> Places] /\ pc'[p] = place
  /\ local' \in [Procs -> LocalRec] /\ local'[p] = l
  /\ \A q \in Procs : q # p => pc'[q] = pc[q] /\ local'[q] = local[q]

\* p has gone on, and nothing else has changed.
Looked(p, place, l) ==
  /\ TypeOK' /\ Shaped' /\ Others(p) /\ Grows(p) /\ Remembers(p)
  /\ pc'[p] = place /\ local'[p] = l
  /\ rings' = rings /\ head' = head /\ tail' = tail /\ puts' = puts

\* The cell of the position of p is c now, and no other has changed.
Swapped(p, c) ==
  /\ rings' \in Seq(RingRec) /\ Rings' = Rings
  /\ \A r \in Rings : /\ rings'[r].head = rings[r].head /\ rings'[r].tail = rings[r].tail
                      /\ rings'[r].closed = rings[r].closed
                      /\ rings'[r].next = rings[r].next
  /\ rings'[local[p].rq].array[Cell(local[p].t)] = c
  /\ \A r \in Rings, i \in Slots : \/ r = local[p].rq /\ i = Cell(local[p].t)
                                   \/ rings'[r].array[i] = rings[r].array[i]

\* p has returned from a write.
WriteReturned(p) ==
  /\ TypeOK' /\ Placed(p)' /\ Others(p) /\ Remembers(p) /\ Reads(p)
  /\ pc'[p] = "idle" /\ local[p].arg \in written'
  /\ puts' = puts /\ read' = read /\ precedes' = precedes /\ result' = result

\* There is a new last ring, with the value of p.
Linked(p) ==
  /\ rings' \in Seq(RingRec) /\ Shaped' /\ Grows(p)
  /\ local[p].rq + 1 \in Rings' /\ Val(rings', local[p].rq + 1, 0) = local[p].arg

\* p has returned from a read, with v.
ReadReturned(p, v) ==
  /\ TypeOK' /\ Placed(p)' /\ Others(p) /\ Writes(p) /\ Reads(p)
  /\ pc'[p] = "idle" /\ local'[p].gone = local[p].gone /\ local'[p].there = {}
  /\ result'[p] = v /\ (v # Empty => v \in read')
  /\ puts' = puts /\ written' = written /\ precedes' = precedes
  /\ read' = (IF v = Empty THEN read ELSE read \cup {v})
  /\ overtaken' = overtaken \cup ((IF v = Empty THEN local[p].there
                                   ELSE {a \in written : <<a, v>> \in precedes}) \ read)

\* A cell that p may leave at its position: it maps to the same place, does not
\* go back, and gets and loses a value only as a store and a take do.
Fits(p, c) ==
  /\ Cell(c.idx) = Cell(local[p].t)
  /\ Idx(rings, local[p].rq, Cell(local[p].t)) <= c.idx
  /\ c.val # Empty => c.idx < Ring(p).tail
  /\ \/ c.val = Empty
     \/ /\ c.val = Val(rings, local[p].rq, Cell(local[p].t))
        /\ c.idx = Idx(rings, local[p].rq, Cell(local[p].t))
     \/ Stores(p, local[p].rq, Cell(local[p].t))
  /\ \/ Val(rings, local[p].rq, Cell(local[p].t)) = Empty
     \/ /\ c.val = Val(rings, local[p].rq, Cell(local[p].t))
        /\ c.idx = Idx(rings, local[p].rq, Cell(local[p].t))
     \/ Takes(p, local[p].rq, Cell(local[p].t))

\* A step within a write keeps the ring, the position and the argument.
WritesFurther(p) ==
  /\ pc'[p] \in PutPlaced => \/ pc[p] = "put_tail" /\ local'[p].rq = tail /\ rings' = rings
                             \/ pc[p] \in PutPlaced /\ local'[p].rq = local[p].rq
  /\ pc'[p] \in Storing =>
       \/ /\ pc[p] = "put_reserve" /\ ~rings[local[p].rq].closed
          /\ local'[p].t = rings[local[p].rq].tail
       \/ pc[p] \in Storing /\ local'[p].t = local[p].t
\* A ring y that is x with another cell.
HasCell(y, x, i, c) ==
  /\ y \in RingRec /\ y.head = x.head /\ y.tail = x.tail /\ y.closed = x.closed
  /\ y.next = x.next /\ y.array[i] = c
  /\ \A j \in Slots : j # i => y.array[j] = x.array[j]

-----------------------------------------------------------------------------
(* Every action, one by one. *)

\* What a step does to the rings, to the histories and to its own place.
Effect(p) ==
  /\ TypeOK' /\ Shaped' /\ Placed(p)' /\ Others(p)
  /\ Grows(p) /\ Remembers(p) /\ Writes(p) /\ Reads(p)

\* A cell stays, is stored in by a process that found it as it had read it, is
\* left empty for a later position, or is marked unsafe with its value in it.
Alters(p, r, i) ==
  LET c == rings[r].array[i]  d == rings'[r].array[i] IN
  \/ d = c
  \/ /\ pc[p] = "put_store" /\ r = local[p].rq /\ i = Cell(local[p].t) /\ c = local[p].cell
     /\ d.val = local[p].arg /\ d.idx = local[p].t
  \/ d.val = Empty /\ c.idx < d.idx /\ d.unsafe = c.unsafe
  \/ c.val # Empty /\ d.val = c.val /\ d.idx = c.idx /\ d.unsafe

\* A reader that waits for a position waits on, or leaves it unusable.
Leaves(p) ==
  \/ pc'[p] \in Looking /\ local'[p].rq = local[p].rq /\ local'[p].t = local[p].t
  \/ LET d == rings'[local[p].rq].array[Cell(local[p].t)]
     IN  local[p].t < d.idx \/ (d.unsafe /\ d.val # Empty /\ d.idx # local[p].t)

\* What a step may do to the cells, to head and to the positions of the readers.
Turns(p) ==
  /\ \A r \in Rings, i \in Slots : Alters(p, r, i)
  /\ \A r \in Rings' : r \in Rings \/ rings'[r].head = 0
  /\ \A r \in Rings, n \in Nat :
       n < rings'[r].head => \/ n < rings[r].head
                             \/ pc'[p] \in Looking /\ local'[p].rq = r /\ local'[p].t = n
  /\ pc[p] \in Looking => Leaves(p)
  /\ pc'[p] = "put_store" => \/ ~local'[p].cell.unsafe
                             \/ rings'[local'[p].rq].head < local'[p].t
  /\ head' = head \/ (pc[p] = "get_swing" /\ head = local[p].rq /\ head' = local[p].rq + 1)
  /\ pc[p] = "put_swing" => local[p].rq + 1 \in 1 .. tail'

Step(p) == Put(p) \/ Get(p) \/ PutStep(p) \/ GetStep(p)

\* What every action does, one by one: first what they have in common, then
\* Effect, then Turns.
LEMMA StepDoes ==
  \A q \in Procs : TypeOK /\ Shaped /\ Placed(q) /\ Step(q) => Effect(q) /\ Turns(q)
<1>SoloRingType. ASSUME NEW v \in Nat
                 PROVE  /\ SoloRing(v) \in RingRec /\ SoloRing(v).head = 0 /\ SoloRing(v).tail = 1
                        /\ SoloRing(v).closed = FALSE /\ SoloRing(v).next = NULL
                        /\ SoloRing(v).array[0].val = v
                        /\ \A i \in Slots : /\ SoloRing(v).array[i].idx = i
                                            /\ i # 0 => SoloRing(v).array[i].val = Empty
  <2>. USE <1>SoloRingType
  <2> DEFINE a == NewRing.array
             c == [a[0] EXCEPT !.val = v]
             b == [a EXCEPT ![0] = c]
  <2>1. SoloRing(v) = [NewRing EXCEPT !.tail = 1, !.array = b]
    BY DEF SoloRing
  <2>2. a \in [Slots -> CellRec] /\ 0 \in Slots /\ \A i \in Slots : a[i].val = Empty /\ a[i].idx = i
    BY NewRingType, CellFacts DEF RingRec
  <2>3. a[0] \in CellRec /\ a[0].idx = 0
    BY <2>2
  <2>4. c \in CellRec /\ c.val = v /\ c.idx = 0
    BY <2>3 DEF CellRec
  <2>. HIDE DEF a, c
  <2>5. b \in [Slots -> CellRec] /\ b[0] = c /\ \A i \in Slots : i # 0 => b[i] = a[i]
    BY <2>2, <2>4
  <2>. HIDE DEF b
  <2>6. 1 \in Nat
    BY SMTT(30)
  <2>7. /\ SoloRing(v) \in RingRec /\ SoloRing(v).head = 0 /\ SoloRing(v).tail = 1
        /\ SoloRing(v).closed = FALSE /\ SoloRing(v).next = NULL /\ SoloRing(v).array = b
    BY NewRingType, <2>1, <2>5, <2>6 DEF RingRec
  <2>. QED
    BY <2>2, <2>4, <2>5, <2>7
\* What the assignments to one field of a ring, and to one cell, leave.
<1>RingWithHead. ASSUME NEW x \in RingRec, NEW n \in Nat
                 PROVE  LET y == [x EXCEPT !.head = n]
                        IN  y \in RingRec /\ y.head = n /\ y.tail = x.tail /\ y.closed = x.closed
                            /\ y.next = x.next /\ y.array = x.array
  BY <1>RingWithHead DEF RingRec
<1>RingWithTail. ASSUME NEW x \in RingRec, NEW n \in Nat
                 PROVE  LET y == [x EXCEPT !.tail = n]
                        IN  y \in RingRec /\ y.head = x.head /\ y.tail = n /\ y.closed = x.closed
                            /\ y.next = x.next /\ y.array = x.array
  BY <1>RingWithTail DEF RingRec
<1>RingWithNext. ASSUME NEW x \in RingRec, NEW n \in Nat
                 PROVE  LET y == [x EXCEPT !.next = n]
                        IN  y \in RingRec /\ y.head = x.head /\ y.tail = x.tail /\ y.closed = x.closed
                            /\ y.next = n /\ y.array = x.array
  BY <1>RingWithNext DEF RingRec
<1>RingWithClosed. ASSUME NEW x \in RingRec, NEW b \in BOOLEAN
                   PROVE  LET y == [x EXCEPT !.closed = b]
                          IN  y \in RingRec /\ y.head = x.head /\ y.tail = x.tail /\ y.closed = b
                              /\ y.next = x.next /\ y.array = x.array
  BY <1>RingWithClosed DEF RingRec
<1>RingWithCell. ASSUME NEW x \in RingRec, NEW i \in Slots, NEW c \in CellRec
                 PROVE  HasCell([x EXCEPT !.array = [x.array EXCEPT ![i] = c]], x, i, c)
  <2>. USE <1>RingWithCell
  <2> DEFINE b == [x.array EXCEPT ![i] = c]
  <2>1. x.array \in [Slots -> CellRec]
    BY DEF RingRec
  <2>2. b \in [Slots -> CellRec] /\ b[i] = c /\ \A j \in Slots : j # i => b[j] = x.array[j]
    BY <2>1
  <2>. HIDE DEF b
  <2> DEFINE y == [x EXCEPT !.array = b]
  <2>3. /\ y \in RingRec /\ y.head = x.head /\ y.tail = x.tail /\ y.closed = x.closed
        /\ y.next = x.next /\ y.array = b
    BY <2>2 DEF RingRec
  <2>. HIDE DEF y
  <2>4. y.array[i] = c /\ \A j \in Slots : j # i => y.array[j] = x.array[j]
    BY <2>2, <2>3
  <2>. QED
    BY <2>3, <2>4 DEF b, y, HasCell
\* A ring that is replaced, and one that is added.
<1>Replaced. ASSUME TypeOK, NEW r \in Rings, NEW x \in RingRec, rings' = [rings EXCEPT ![r] = x]
             PROVE  /\ rings' \in Seq(RingRec) /\ Rings' = Rings
                    /\ rings'[r] = x /\ \A s \in Rings : s # r => rings'[s] = rings[s]
  <2>. USE <1>Replaced
  <2>1. /\ rings' \in Seq(RingRec) /\ Len(rings') = Len(rings)
        /\ rings'[r] = x /\ \A s \in Rings : s # r => rings'[s] = rings[s]
    BY SMTT(30) DEF TypeOK, Rings
  <2>. QED
    BY <2>1 DEF Rings
<1>Added. ASSUME TypeOK, NEW r \in Rings, NEW x \in RingRec, NEW y \in RingRec,
                 rings' = Append([rings EXCEPT ![r] = x], y)
          PROVE  Extended(r, x, y)
  <2>. USE <1>Added
  <2>1. /\ rings' \in Seq(RingRec) /\ Len(rings') = Len(rings) + 1
        /\ rings'[r] = x /\ rings'[Len(rings) + 1] = y
        /\ \A s \in Rings : s # r => rings'[s] = rings[s]
    BY SMTT(30) DEF TypeOK, Rings
  <2>2. Len(rings) \in Nat
    BY SMTT(30) DEF TypeOK
  <2>. HIDE DEF TypeOK
  <2>3. /\ Rings \subseteq Rings' /\ Len(rings) + 1 \notin Rings
        /\ \A s \in Rings' : s \in Rings \/ s = Len(rings) + 1
    BY SMTT(30), <2>1, <2>2 DEF Rings
  <2>. QED
    BY <2>1, <2>3 DEF Extended
<1>WithRing. ASSUME NEW x \in LocalRec, NEW n \in Nat
             PROVE  LET y == [x EXCEPT !.rq = n]
                    IN  y \in LocalRec /\ y.rq = n /\ SameButRing(y, x)
  BY <1>WithRing DEF LocalRec, SameButRing
<1>WithPosition. ASSUME NEW x \in LocalRec, NEW n \in Nat
                 PROVE  LET y == [x EXCEPT !.t = n]
                        IN  y \in LocalRec /\ y.t = n /\ SameButPosition(y, x)
  BY <1>WithPosition DEF LocalRec, SameButPosition
<1>WithTurn. ASSUME NEW x \in LocalRec, NEW n \in Nat
             PROVE  LET y == [x EXCEPT !.t = n, !.spun = FALSE, !.late = FALSE]
                    IN  y \in LocalRec /\ y.t = n /\ SameButPosition(y, x)
  BY <1>WithTurn DEF LocalRec, SameButPosition
<1>WithRead. ASSUME NEW x \in LocalRec, NEW c \in CellRec
             PROVE  LET y == [x EXCEPT !.cell = c]
                    IN  y \in LocalRec /\ y.cell = c /\ SameButCell(y, x)
  BY <1>WithRead DEF LocalRec, SameButCell
<1>WithTries. ASSUME NEW x \in LocalRec, NEW n \in Nat
              PROVE  LET y == [x EXCEPT !.tries = n]
                     IN  y \in LocalRec /\ SameButTail(y, x)
  BY <1>WithTries DEF LocalRec, SameButTail
<1>WithTail. ASSUME NEW x \in LocalRec, NEW u \in TailRec, NEW a \in BOOLEAN, NEW b \in BOOLEAN
             PROVE  LET y == [x EXCEPT !.tt = u, !.late = a, !.spun = b]
                    IN  y \in LocalRec /\ SameButTail(y, x)
  BY <1>WithTail DEF LocalRec, SameButTail
<1>WithFix. ASSUME NEW x \in LocalRec, NEW u \in TailRec, NEW n \in Nat
            PROVE  LET y == [x EXCEPT !.tt = u, !.fix = n]
                   IN  y \in LocalRec /\ y.tt = u /\ y.fix = n /\ SameButTail(y, x)
  BY <1>WithFix DEF LocalRec, SameButTail
<1>IdleWith. /\ Idle.there = {} /\ Idle.gone = {}
             /\ \A n \in Nat : LET y == [Idle EXCEPT !.arg = n]
                               IN  y \in LocalRec /\ y.arg = n /\ y.there = {} /\ y.gone = {}
             /\ \A g \in SUBSET Nat : LET y == [Idle EXCEPT !.gone = g]
                                      IN  y \in LocalRec /\ y.there = {} /\ y.gone = g
             /\ \A w, g \in SUBSET Nat : LET y == [Idle EXCEPT !.there = w, !.gone = g]
                                         IN  y \in LocalRec /\ y.there = w /\ y.gone = g
  <2>1. Idle.there = {} /\ Idle.gone = {}
    BY DEF Idle
  <2>2. Idle \in LocalRec
    BY IdleType
  <2>. QED
    BY <2>1, <2>2 DEF LocalRec
<1>KeepsAll. ASSUME TypeOK, NEW p \in Procs, local' = local
             PROVE  Keep(p, local[p])
  BY SMTT(30), <1>KeepsAll DEF TypeOK, Keep
<1>Goes. ASSUME TypeOK, NEW p \in Procs, NEW place \in Places, NEW l \in LocalRec, GoTo(p, place),
                Keep(p, l)
         PROVE  Went(p, place, l)
  BY <1>Goes DEF TypeOK, GoTo, Keep, Went
<1>StillShaped. ASSUME Shaped, rings' = rings, head' \in Rings, tail' \in Rings
                PROVE  Shaped'
  BY <1>StillShaped DEF Shaped, Rings
<1>StillGrows. ASSUME NEW p \in Procs, rings' = rings, 1 .. head \subseteq 1 .. head',
                      1 .. tail \subseteq 1 .. tail'
               PROVE  Grows(p)
  BY <1>StillGrows DEF Grows, Kept, Rings
<1>StillRemembers. ASSUME NEW p \in Procs, UNCHANGED history, local'[p].gone = local[p].gone,
                          local'[p].there = local[p].there
                   PROVE  Remembers(p)
  BY <1>StillRemembers DEF Remembers, history
\* A step that only reads what is shared.
<1>Looks. ASSUME TypeOK, Shaped, NEW p \in Procs, NEW place \in Places, NEW l \in LocalRec,
                 GoTo(p, place), Keep(p, l), UNCHANGED <<shared, history>>, l.gone = local[p].gone,
                 l.there = local[p].there
          PROVE  Looked(p, place, l)
  <2>. USE <1>Looks
  <2>1. /\ rings' = rings /\ head' = head /\ tail' = tail /\ UNCHANGED history
        /\ puts' = puts /\ gets' = gets /\ written' = written /\ precedes' = precedes
        /\ read' = read /\ overtaken' = overtaken /\ result' = result
    BY DEF shared, history
  <2>2. /\ pc' \in [Procs -> Places] /\ pc'[p] = place
        /\ local' \in [Procs -> LocalRec] /\ local'[p] = l
        /\ \A q \in Procs : q # p => pc'[q] = pc[q] /\ local'[q] = local[q]
    BY <1>Goes DEF Went
  <2>3. TypeOK'
    BY <2>1, <2>2 DEF TypeOK
  <2>4. Shaped'
    BY <2>1, <1>StillShaped DEF Shaped
  <2>5. Others(p)
    BY <2>1, <2>2 DEF Others
  <2>6. Grows(p)
    BY <2>1, <1>StillGrows
  <2>7. Remembers(p)
    BY <2>1, <2>2, <1>StillRemembers
  <2>. QED
    BY <2>1, <2>2, <2>3, <2>4, <2>5, <2>6, <2>7 DEF Looked
\* A step of a write is none of a read, and the other way round.
<1>ReadsNot. ASSUME NEW p \in Procs, pc'[p] \in Putting \cup {"idle"}
             PROVE  Reads(p) /\ ReaderPlaced(p)'
  BY <1>ReadsNot DEF Putting, PutPlaced, Reads, ReaderPlaced, GetPlaced, Positioned, Looking, Checked
<1>WritesNot. ASSUME NEW p \in Procs, pc[p] \in Getting \cup {"idle"},
                     pc'[p] \in Getting \cup {"idle"}
              PROVE  Writes(p) /\ WriterPlaced(p)'
  BY <1>WritesNot DEF Getting, GetPlaced, Positioned, Looking, Checked,
         Writes, WriterPlaced, Putting, PutPlaced, Unstored, Storing
\* A write that takes no value and stores none goes on with its argument.
<1>WritesOn. ASSUME NEW p \in Procs, pc[p] \in Unstored, pc'[p] \in Unstored, puts' = puts,
                    local'[p].arg = local[p].arg,
                    WritesFurther(p)
             PROVE  Writes(p) /\ Reads(p) /\ ReaderPlaced(p)'
  <2>. USE <1>WritesOn DEF WritesFurther
  <2>1. pc'[p] \in Putting /\ pc'[p] # "put_swing" /\ pc[p] \in Putting
    BY DEF Unstored
  <2>2. Writes(p)
    BY <2>1 DEF Writes
  <2>. QED
    BY <2>1, <2>2, <1>ReadsNot
\* A step that moves the head, the tail or the closed bit of the ring of the
\* process, and only in the one direction.
<1>Adjusts. ASSUME TypeOK, Shaped, NEW p \in Procs, NEW place \in Places, NEW l \in LocalRec,
                   local[p].rq \in Rings, NEW x \in RingRec, SetRing(p, x),
                   x.array = Ring(p).array, x.next = Ring(p).next, Ring(p).closed => x.closed,
                   Ring(p).head <= x.head, Ring(p).tail <= x.tail, GoTo(p, place), Keep(p, l),
                   UNCHANGED <<head, tail, history>>, l.gone = local[p].gone,
                   l.there = local[p].there
            PROVE  Adjusted(p, place, l, x)
  <2>. USE <1>Adjusts
  <2>1. /\ head' = head /\ tail' = tail /\ UNCHANGED history
        /\ puts' = puts /\ gets' = gets /\ written' = written /\ precedes' = precedes
        /\ read' = read /\ overtaken' = overtaken /\ result' = result
    BY DEF history
  <2>2. /\ pc' \in [Procs -> Places] /\ pc'[p] = place
        /\ local' \in [Procs -> LocalRec] /\ local'[p] = l
        /\ \A q \in Procs : q # p => pc'[q] = pc[q] /\ local'[q] = local[q]
    BY <1>Goes DEF Went
  <2>3. /\ rings' \in Seq(RingRec) /\ Rings' = Rings /\ rings'[local[p].rq] = x
        /\ \A s \in Rings : s # local[p].rq => rings'[s] = rings[s]
    BY <1>Replaced DEF SetRing
  <2>4. TypeOK'
    BY <2>1, <2>2, <2>3 DEF TypeOK
  <2>5. /\ \A n \in Nat : n < Ring(p).head => n < x.head
        /\ \A n \in Nat : n < Ring(p).tail => n < x.tail
    <3>1. Ring(p).head \in Nat /\ Ring(p).tail \in Nat
      BY RingIs DEF Ring
    <3>2. x.head \in Nat /\ x.tail \in Nat
      BY DEF RingRec
    <3>. QED
      BY SMTT(30), <3>1, <3>2
  <2>6. \A r \in Rings :
          /\ rings'[r].array = rings[r].array /\ rings'[r].next = rings[r].next
          /\ rings[r].closed => rings'[r].closed
          /\ \A n \in Nat : n < rings[r].head => n < rings'[r].head
          /\ \A n \in Nat : n < rings[r].tail => n < rings'[r].tail
    <3>. SUFFICES ASSUME NEW r \in Rings
                  PROVE  /\ rings'[r].array = rings[r].array /\ rings'[r].next = rings[r].next
                         /\ rings[r].closed => rings'[r].closed
                         /\ \A n \in Nat : n < rings[r].head => n < rings'[r].head
                         /\ \A n \in Nat : n < rings[r].tail => n < rings'[r].tail
      OBVIOUS
    <3>1. CASE r = local[p].rq
      BY <2>3, <2>5, <3>1 DEF Ring
    <3>2. CASE r # local[p].rq
      BY <2>3, <3>2
    <3>. QED
      BY <3>1, <3>2
  <2>7. \A r \in Rings, i \in Slots : /\ Val(rings', r, i) = Val(rings, r, i)
                                      /\ Idx(rings', r, i) = Idx(rings, r, i)
    BY <2>6 DEF Val, Idx
  <2>8. Grows(p)
    BY <2>1, <2>3, <2>6, <2>7 DEF Grows, Kept
  <2>9. Shaped'
    <3>1. \A r \in Rings, i \in Slots : Idx(rings, r, i) \in Nat
      BY RingIs DEF Idx
    <3>2. (head \in Rings /\ tail \in Rings)'
      BY <2>1, <2>3 DEF Shaped
    <3>3. \A r \in Rings' : IF r + 1 \in Rings' THEN rings'[r].next = r + 1 /\ rings'[r].closed
                                                ELSE rings'[r].next = NULL
      BY <2>3, <2>6 DEF Shaped
    <3>4. ASSUME NEW r \in Rings', NEW i \in Slots
          PROVE  /\ Cell(Idx(rings', r, i)) = i
                 /\ Val(rings', r, i) # Empty => Idx(rings', r, i) < rings'[r].tail
      <4>1. r \in Rings
        BY <2>3
      <4>2. /\ Cell(Idx(rings, r, i)) = i
            /\ Val(rings, r, i) # Empty => Idx(rings, r, i) < rings[r].tail
        BY <4>1 DEF Shaped
      <4>3. Idx(rings, r, i) < rings[r].tail => Idx(rings, r, i) < rings'[r].tail
        BY <2>6, <3>1, <4>1
      <4>4. Val(rings', r, i) = Val(rings, r, i) /\ Idx(rings', r, i) = Idx(rings, r, i)
        BY <2>7, <4>1
      <4>. QED
        BY <4>2, <4>3, <4>4
    <3>. QED
      BY <3>2, <3>3, <3>4 DEF Shaped
  <2>10. Others(p)
    BY <2>1, <2>2 DEF Others
  <2>11. Remembers(p)
    BY <2>1, <2>2, <1>StillRemembers
  <2>. QED
    BY <2>1, <2>2, <2>3, <2>4, <2>6, <2>8, <2>9, <2>10, <2>11 DEF Adjusted
\* A step that changes the cell of the position of the process.
<1>Swaps. ASSUME TypeOK, NEW p \in Procs, local[p].rq \in Rings, NEW c \in CellRec, SetCell(p, c)
          PROVE  Swapped(p, c)
  <2>. USE <1>Swaps
  <2> DEFINE k == Cell(local[p].t)
             x == [Ring(p) EXCEPT !.array = [Ring(p).array EXCEPT ![k] = c]]
  <2>1. k \in Slots
    BY LocalIs, CellFacts DEF TypeOK
  <2>2. Ring(p) \in RingRec
    BY RingIs DEF Ring
  <2>3. SetRing(p, x)
    BY DEF SetCell
  <2>. HIDE DEF k
  <2>4. /\ x \in RingRec /\ x.head = Ring(p).head /\ x.tail = Ring(p).tail
        /\ x.closed = Ring(p).closed /\ x.next = Ring(p).next /\ x.array[k] = c
        /\ \A j \in Slots : j # k => x.array[j] = Ring(p).array[j]
    <3>1. HasCell(x, Ring(p), k, c)
      BY <2>1, <2>2, <1>RingWithCell
    <3>. HIDE DEF x
    <3>. QED
      BY <3>1 DEF HasCell
  <2>. HIDE DEF x
  <2>5. /\ rings' \in Seq(RingRec) /\ Rings' = Rings /\ rings'[local[p].rq] = x
        /\ \A s \in Rings : s # local[p].rq => rings'[s] = rings[s]
    BY <2>3, <2>4, <1>Replaced DEF SetRing
  <2>6. \A r \in Rings : /\ rings'[r].head = rings[r].head /\ rings'[r].tail = rings[r].tail
                         /\ rings'[r].closed = rings[r].closed
                         /\ rings'[r].next = rings[r].next
    BY <2>4, <2>5 DEF Ring
  <2>7. ASSUME NEW r \in Rings, NEW i \in Slots, ~(r = local[p].rq /\ i = k)
        PROVE  rings'[r].array[i] = rings[r].array[i]
    <3>1. CASE r # local[p].rq
      BY <2>5, <3>1
    <3>2. CASE r = local[p].rq /\ i # k
      BY <2>4, <2>5, <3>2 DEF Ring
    <3>. QED
      BY <2>7, <3>1, <3>2
  <2>. QED
    BY <2>4, <2>5, <2>6, <2>7 DEF k, Swapped
\* It keeps the rings in shape if the cell still maps to the same place, does
\* not go back, and gets and loses a value only as a store and a take do.
<1>SwapsWell. ASSUME TypeOK, Shaped, NEW p \in Procs, local[p].rq \in Rings, NEW c \in CellRec,
                     SetCell(p, c), head' = head, tail' = tail, Fits(p, c)
              PROVE  Shaped' /\ Grows(p)
  <2>. USE <1>SwapsWell DEF Fits
  <2> DEFINE k == Cell(local[p].t)
  <2>1. k \in Slots
    BY LocalIs, CellFacts DEF TypeOK
  <2>2. /\ Rings' = Rings
        /\ \A r \in Rings : /\ rings'[r].head = rings[r].head /\ rings'[r].tail = rings[r].tail
                            /\ rings'[r].closed = rings[r].closed
                            /\ rings'[r].next = rings[r].next
        /\ rings'[local[p].rq].array[k] = c
        /\ \A r \in Rings, i \in Slots : \/ r = local[p].rq /\ i = k
                                         \/ rings'[r].array[i] = rings[r].array[i]
    BY <1>Swaps DEF Swapped
  <2>. HIDE DEF k
  <2>3. Val(rings', local[p].rq, k) = c.val /\ Idx(rings', local[p].rq, k) = c.idx
    BY <2>2 DEF Val, Idx
  <2>4. \A r \in Rings, i \in Slots :
          \/ r = local[p].rq /\ i = k
          \/ Val(rings', r, i) = Val(rings, r, i) /\ Idx(rings', r, i) = Idx(rings, r, i)
    BY <2>2 DEF Val, Idx
  <2>5. Shaped'
    <3>1. (head \in Rings /\ tail \in Rings)'
      BY <2>2 DEF Shaped
    <3>2. \A r \in Rings' : IF r + 1 \in Rings' THEN rings'[r].next = r + 1 /\ rings'[r].closed
                                                ELSE rings'[r].next = NULL
      BY <2>2 DEF Shaped
    <3>3. ASSUME NEW r \in Rings', NEW i \in Slots
          PROVE  /\ Cell(Idx(rings', r, i)) = i
                 /\ Val(rings', r, i) # Empty => Idx(rings', r, i) < rings'[r].tail
      <4>1. r \in Rings
        BY <2>2
      <4>2. CASE r = local[p].rq /\ i = k
        BY <2>2, <2>3, <4>1, <4>2 DEF Ring, k
      <4>3. CASE Val(rings', r, i) = Val(rings, r, i) /\ Idx(rings', r, i) = Idx(rings, r, i)
        BY <2>2, <4>1, <4>3 DEF Shaped
      <4>. QED
        BY <2>4, <4>1, <4>2, <4>3
    <3>. QED
      BY <3>1, <3>2, <3>3 DEF Shaped
  <2>6. Grows(p)
    <3>1. ASSUME NEW r \in Rings, NEW i \in Slots, NEW n \in Nat, n <= Idx(rings, r, i)
          PROVE  n <= Idx(rings', r, i)
      <4>1. CASE r = local[p].rq /\ i = k
        <5>1. Idx(rings, r, i) \in Nat
          BY RingIs DEF Idx
        <5>2. c.idx \in Nat
          BY DEF CellRec
        <5>3. Idx(rings, r, i) <= c.idx /\ Idx(rings', r, i) = c.idx
          BY <2>3, <4>1 DEF k
        <5>. QED
          BY SMTT(30), <3>1, <5>1, <5>2, <5>3
      <4>. QED
        BY <2>4, <3>1, <4>1
    <3>2. ASSUME NEW r \in Rings', NEW i \in Slots, Val(rings', r, i) # Empty
          PROVE  Kept(r, i) \/ Stores(p, r, i)
      <4>1. r \in Rings
        BY <2>2
      <4>2. CASE r = local[p].rq /\ i = k
        BY <2>3, <3>2, <4>1, <4>2 DEF Kept, k
      <4>. QED
        BY <2>4, <4>1, <4>2 DEF Kept
    <3>3. ASSUME NEW r \in Rings, NEW i \in Slots, Val(rings, r, i) # Empty
          PROVE  Kept(r, i) \/ Takes(p, r, i)
      <4>1. CASE r = local[p].rq /\ i = k
        BY <2>3, <3>3, <4>1 DEF Kept, k
      <4>. QED
        BY <2>4, <4>1 DEF Kept
    <3>. QED
      BY <2>2, <3>1, <3>2, <3>3 DEF Grows
  <2>. QED
    BY <2>5, <2>6
<1>IdlePlaced. ASSUME NEW p \in Procs, pc'[p] = "idle"
               PROVE  Placed(p)'
  BY <1>IdlePlaced DEF Placed, WriterPlaced, ReaderPlaced, PutPlaced, Storing,
         GetPlaced, Positioned, Looking, Checked
\* A write returns: its value is written.
<1>WriteReturns. ASSUME TypeOK, NEW p \in Procs, PutReturns(p),
                        pc[p] \in {"put_store", "put_swing"}, rings' \in Seq(RingRec),
                        head' \in Nat, tail' \in Nat
                 PROVE  WriteReturned(p)
  <2>. USE <1>WriteReturns
  <2>1. /\ GoTo(p, "idle") /\ Keep(p, Idle) /\ written' = written \cup {local[p].arg}
        /\ puts' = puts /\ gets' = gets /\ precedes' = precedes
        /\ read' = read /\ overtaken' = overtaken /\ result' = result
    BY DEF PutReturns
  <2>2. "idle" \in Places /\ Idle \in LocalRec /\ Idle.there = {} /\ Idle.gone = {}
    BY IdleType, <1>IdleWith DEF Places
  <2>3. /\ pc' \in [Procs -> Places] /\ pc'[p] = "idle"
        /\ local' \in [Procs -> LocalRec] /\ local'[p] = Idle
        /\ \A q \in Procs : q # p => pc'[q] = pc[q] /\ local'[q] = local[q]
    BY <2>1, <2>2, <1>Goes DEF Went
  <2>4. local[p].arg \in Nat
    BY LocalIs DEF TypeOK
  <2>5. TypeOK'
    BY <2>1, <2>3, <2>4 DEF TypeOK
  <2>6. Others(p)
    BY <2>1, <2>3 DEF Others
  <2>7. Remembers(p)
    BY <2>1, <2>2, <2>3 DEF Remembers
  <2>8. Reads(p)
    BY <2>3, <1>ReadsNot
  <2>9. Placed(p)'
    BY <2>3, <1>IdlePlaced
  <2>. QED
    BY <2>1, <2>3, <2>5, <2>6, <2>7, <2>8, <2>9 DEF WriteReturned
\* The ring behind that of the process becomes the last, unless it is already.
<1>TailMoves. ASSUME TypeOK, Shaped, NEW p \in Procs, local[p].rq \in 1 .. tail,
                     local[p].rq + 1 \in Rings,
                     tail' = IF tail = local[p].rq THEN Ring(p).next ELSE tail
              PROVE  /\ tail' \in Rings /\ tail' \in Nat /\ 1 .. tail \subseteq 1 .. tail'
                     /\ local[p].rq + 1 \in 1 .. tail'
  <2>. USE <1>TailMoves
  <2>1. local[p].rq \in Rings
    BY InRings
  <2>2. Ring(p).next = local[p].rq + 1
    BY <2>1 DEF Shaped, Ring
  <2>3. tail \in Nat /\ tail \in Rings /\ Len(rings) \in Nat /\ local[p].rq \in Nat
    BY SMTT(30), LocalIs DEF TypeOK, Shaped
  <2>4. tail' = IF tail = local[p].rq THEN local[p].rq + 1 ELSE tail
    BY <2>2
  <2>. QED
    BY SMTT(30), <2>3, <2>4 DEF Rings
\* A new ring behind the last one, which is closed.
<1>Links. ASSUME TypeOK, Shaped, NEW p \in Procs, local[p].rq \in Rings, Ring(p).closed,
                 Ring(p).next = NULL, pc[p] = "put_link", pc'[p] = "put_swing", head' = head,
                 tail' = tail,
                 rings' = Append([rings EXCEPT ![local[p].rq] = [@ EXCEPT !.next = Len(rings) + 1]],
                                 SoloRing(local[p].arg))
          PROVE  Linked(p)
  <2>. USE <1>Links
  <2> DEFINE n == Len(rings) + 1
             x == [Ring(p) EXCEPT !.next = n]
             y == SoloRing(local[p].arg)
  <2>1. local[p].arg \in Nat
    BY LocalIs DEF TypeOK
  <2>2. /\ y \in RingRec /\ y.head = 0 /\ y.tail = 1 /\ y.closed = FALSE /\ y.next = NULL
        /\ y.array[0].val = local[p].arg
        /\ \A i \in Slots : y.array[i].idx = i /\ (i # 0 => y.array[i].val = Empty)
    BY <2>1, <1>SoloRingType
  <2>3. Len(rings) \in Nat /\ n \in Nat /\ Rings \subseteq Nat
    BY SMTT(30) DEF TypeOK, Rings
  <2>4. /\ Ring(p) \in RingRec /\ x \in RingRec /\ x.head = Ring(p).head /\ x.tail = Ring(p).tail
        /\ x.closed = Ring(p).closed /\ x.next = n /\ x.array = Ring(p).array
    <3>1. Ring(p) \in RingRec
      BY RingIs DEF Ring
    <3>. QED
      BY <2>3, <3>1, <1>RingWithNext
  <2>5. rings' = Append([rings EXCEPT ![local[p].rq] = x], y)
    BY DEF Ring
  <2>. HIDE DEF x, y
  <2>6. /\ rings' \in Seq(RingRec) /\ Len(rings') = Len(rings) + 1
        /\ Rings \subseteq Rings' /\ n \notin Rings
        /\ \A s \in Rings' : s \in Rings \/ s = n
        /\ rings'[local[p].rq] = x /\ rings'[n] = y
        /\ \A s \in Rings : s # local[p].rq => rings'[s] = rings[s]
    <3>1. Extended(local[p].rq, x, y)
      BY <2>2, <2>4, <2>5, <1>Added
    <3>. QED
      BY <3>1 DEF Extended
  <2>7. local[p].rq + 1 \notin Rings
    <3>1. local[p].rq + 1 \in Rings => rings[local[p].rq].next = local[p].rq + 1
      BY DEF Shaped
    <3>2. local[p].rq + 1 # NULL
      BY SMTT(30), <2>3 DEF Rings, NULL
    <3>. QED
      BY <3>1, <3>2 DEF Ring
  <2>8. /\ local[p].rq + 1 = n /\ n \in Rings' /\ n + 1 \notin Rings'
        /\ \A r \in Rings : r # local[p].rq => r + 1 \in Rings
    BY SMTT(30), <2>3, <2>6, <2>7 DEF Rings
  <2>. HIDE DEF n
  <2>9. \A r \in Rings : /\ rings'[r].head = rings[r].head /\ rings'[r].tail = rings[r].tail
                         /\ rings'[r].closed = rings[r].closed /\ rings'[r].array = rings[r].array
                         /\ (r # local[p].rq => rings'[r].next = rings[r].next)
    BY <2>4, <2>6 DEF Ring
  <2>10. \A r \in Rings, i \in Slots :
           Val(rings', r, i) = Val(rings, r, i) /\ Idx(rings', r, i) = Idx(rings, r, i)
    BY <2>9 DEF Val, Idx
  <2>11. /\ Val(rings', n, 0) = local[p].arg
         /\ \A i \in Slots : Idx(rings', n, i) = i /\ (Val(rings', n, i) # Empty => i = 0)
    <3>1. rings'[n] = y
      BY <2>6
    <3>. QED
      BY <2>2, <3>1 DEF Val, Idx
  <2>12. Grows(p)
    <3>1. \A r \in Rings, i \in Slots : Kept(r, i)
      BY <2>10 DEF Kept
    <3>2. Stores(p, n, 0)
      BY <2>6, <2>8, <2>11 DEF Stores
    <3>3. \A r \in Rings', i \in Slots :
            Val(rings', r, i) # Empty => Kept(r, i) \/ Stores(p, r, i)
      BY <2>6, <2>11, <3>1, <3>2
    <3>. QED
      BY <2>6, <2>9, <2>10, <3>1, <3>3 DEF Grows
  <2>13. Shaped'
    <3>1. (head \in Rings /\ tail \in Rings)'
      BY <2>6 DEF Shaped
    <3>2. ASSUME NEW r \in Rings'
          PROVE  IF r + 1 \in Rings' THEN rings'[r].next = r + 1 /\ rings'[r].closed
                                     ELSE rings'[r].next = NULL
      <4>1. CASE r = n
        BY <2>2, <2>6, <2>8, <4>1
      <4>2. CASE r = local[p].rq
        BY <2>4, <2>6, <2>8, <4>2
      <4>3. CASE r \in Rings /\ r # local[p].rq
        <5>1. r + 1 \in Rings /\ rings[r].next = r + 1 /\ rings[r].closed
          BY <2>8, <4>3 DEF Shaped
        <5>. QED
          BY <2>6, <4>3, <5>1
      <4>. QED
        BY <2>6, <4>1, <4>2, <4>3
    <3>3. ASSUME NEW r \in Rings', NEW i \in Slots
          PROVE  /\ Cell(Idx(rings', r, i)) = i
                 /\ Val(rings', r, i) # Empty => Idx(rings', r, i) < rings'[r].tail
      <4>1. CASE r = n
        <5>1. 0 < 1
          BY SMTT(30)
        <5>2. Cell(i) = i /\ Idx(rings', r, i) = i /\ (Val(rings', r, i) # Empty => i = 0)
          BY <2>11, <4>1, CellFacts
        <5>3. rings'[r].tail = 1
          BY <2>2, <2>6, <4>1
        <5>. QED
          BY <5>1, <5>2, <5>3
      <4>2. CASE r \in Rings
        BY <2>9, <2>10, <4>2 DEF Shaped
      <4>. QED
        BY <2>6, <4>1, <4>2
    <3>. QED
      BY <3>1, <3>2, <3>3 DEF Shaped
  <2>. QED
    BY <2>6, <2>8, <2>11, <2>12, <2>13 DEF Linked
\* A read returns, with a value or without.
<1>ReadReturns. ASSUME TypeOK, NEW p \in Procs, NEW v \in Nat, GetReturns(p, v), pc[p] \in Getting,
                       rings' \in Seq(RingRec), head' \in Nat, tail' \in Nat
                PROVE  ReadReturned(p, v)
  <2>. USE <1>ReadReturns
  <2> DEFINE l == [Idle EXCEPT !.gone = local[p].gone]
  <2>1. /\ GoTo(p, "idle") /\ Keep(p, l)
        /\ puts' = puts /\ gets' = gets /\ written' = written /\ precedes' = precedes
        /\ result' = [result EXCEPT ![p] = v]
        /\ read' = (IF v = Empty THEN read ELSE read \cup {v})
        /\ overtaken' = overtaken \cup ((IF v = Empty THEN local[p].there
                                         ELSE {a \in written : <<a, v>> \in precedes}) \ read)
    BY DEF GetReturns
  <2>2. local[p].gone \in SUBSET Nat /\ local[p].there \in SUBSET Nat
    BY LocalIs DEF TypeOK
  <2>3. "idle" \in Places /\ l \in LocalRec /\ l.there = {} /\ l.gone = local[p].gone
    BY <2>2, <1>IdleWith DEF Places
  <2>. HIDE DEF l
  <2>4. /\ pc' \in [Procs -> Places] /\ pc'[p] = "idle"
        /\ local' \in [Procs -> LocalRec] /\ local'[p] = l
        /\ \A q \in Procs : q # p => pc'[q] = pc[q] /\ local'[q] = local[q]
    BY <2>1, <2>3, <1>Goes DEF Went
  <2>5. v \in Int
    BY SMTT(30)
  <2>6. /\ result' \in [Procs -> Int] /\ result'[p] = v
        /\ \A q \in Procs : q # p => result'[q] = result[q]
    BY <2>1, <2>5 DEF TypeOK
  <2>7. read' \in SUBSET Nat /\ overtaken' \in SUBSET Nat
    BY <2>1, <2>2 DEF TypeOK
  <2>8. TypeOK'
    BY <2>1, <2>4, <2>6, <2>7 DEF TypeOK
  <2>9. Others(p)
    BY <2>4, <2>6 DEF Others
  <2>10. Placed(p)'
    BY <2>4, <1>IdlePlaced
  <2>11. Reads(p)
    BY <2>4, <1>ReadsNot
  <2>12. Writes(p)
    BY <2>4, <1>WritesNot
  <2>13. v # Empty => v \in read'
    BY <2>1
  <2>. QED
    BY <2>1, <2>3, <2>4, <2>6, <2>8, <2>9, <2>10, <2>11, <2>12, <2>13 DEF ReadReturned
\* The cells that a read leaves behind it.
<1>CellWith. ASSUME NEW c \in CellRec, NEW n \in Nat
             PROVE  /\ LET d == [c EXCEPT !.val = Empty, !.idx = n]
                       IN  d \in CellRec /\ d.val = Empty /\ d.idx = n /\ d.unsafe = c.unsafe
                    /\ LET d == [c EXCEPT !.idx = n]
                       IN  d \in CellRec /\ d.val = c.val /\ d.idx = n /\ d.unsafe = c.unsafe
                    /\ LET d == [c EXCEPT !.unsafe = TRUE]
                       IN  d \in CellRec /\ d.val = c.val /\ d.idx = c.idx /\ d.unsafe = TRUE
  <2>. USE <1>CellWith
  <2>1. Empty \in Nat
    BY DEF Empty
  <2>. QED
    BY <2>1 DEF CellRec
<1>StepIs. ASSUME TypeOK, Shaped, NEW p \in Procs, Placed(p), Step(p)
           PROVE  Effect(p)
  <2>. USE <1>StepIs
  <2>PutTail. CASE PutTail(p)
    <3>. USE <2>PutTail
    <3> DEFINE l == [local[p] EXCEPT !.rq = tail]
    <3>1. l \in LocalRec /\ l.rq = tail /\ SameButRing(l, local[p])
      BY <1>WithRing DEF TypeOK
    <3>. HIDE DEF l
    <3>2. pc[p] = "put_tail" /\ GoTo(p, "put_next") /\ Keep(p, l) /\ UNCHANGED <<shared, history>>
      BY DEF PutTail, At, l
    <3>3. "put_next" \in Places
      BY DEF Places, Putting, PutPlaced
    <3>4. l.gone = local[p].gone /\ l.there = local[p].there /\ l.arg = local[p].arg
      BY <3>1 DEF SameButRing
    <3>5. /\ TypeOK' /\ Shaped' /\ Others(p) /\ Grows(p) /\ Remembers(p)
          /\ pc'[p] = "put_next" /\ local'[p] = l
          /\ rings' = rings /\ head' = head /\ tail' = tail /\ puts' = puts
      BY <3>1, <3>2, <3>3, <3>4, <1>Looks DEF Looked
    <3>6. tail \in 1 .. tail
      BY SMTT(30) DEF TypeOK, Shaped, Rings
    <3>7. WriterPlaced(p)'
      BY <3>1, <3>5, <3>6 DEF WriterPlaced, Storing
    <3>8. Writes(p) /\ Reads(p) /\ ReaderPlaced(p)'
      <4>1. pc[p] \in Unstored /\ pc'[p] \in Unstored /\ pc'[p] \notin Storing
        BY <3>2, <3>5 DEF Unstored, Putting, PutPlaced, Storing
      <4>. QED
        BY <3>1, <3>2, <3>4, <3>5, <4>1, <1>WritesOn DEF WritesFurther
    <3>. QED
      BY <3>5, <3>7, <3>8 DEF Effect, Placed
  <2>PutNext. CASE PutNext(p)
    <3>. USE <2>PutNext
    <3> DEFINE place == IF Ring(p).next = NULL THEN "put_reserve" ELSE "put_help"
    <3>1. pc[p] = "put_next" /\ GoTo(p, place) /\ local' = local /\ UNCHANGED <<shared, history>>
      BY DEF PutNext, At
    <3>2. Keep(p, local[p]) /\ local[p] \in LocalRec
      BY <3>1, <1>KeepsAll DEF TypeOK
    <3>3. place \in {"put_reserve", "put_help"} /\ place \in Places
      BY DEF Places, Putting, PutPlaced
    <3>. HIDE DEF place
    <3>4. /\ TypeOK' /\ Shaped' /\ Others(p) /\ Grows(p) /\ Remembers(p)
          /\ pc'[p] = place /\ local'[p] = local[p]
          /\ rings' = rings /\ head' = head /\ tail' = tail /\ puts' = puts
      BY <3>1, <3>2, <3>3, <1>Looks DEF Looked
    <3>5. local[p].rq \in 1 .. tail /\ local[p].rq \in Rings
      BY <3>1, InRings DEF Placed, WriterPlaced, PutPlaced
    <3>6. place = "put_help" => local[p].rq + 1 \in Rings
      BY <3>5 DEF place, Ring, Shaped
    <3>7. WriterPlaced(p)'
      BY <3>3, <3>4, <3>5, <3>6 DEF WriterPlaced, Storing, Rings
    <3>8. Writes(p) /\ Reads(p) /\ ReaderPlaced(p)'
      <4>1. /\ pc[p] \in Unstored /\ pc[p] \in PutPlaced /\ pc'[p] \in Unstored
            /\ pc'[p] \notin Storing
        BY <3>1, <3>3, <3>4 DEF Unstored, Putting, PutPlaced, Storing
      <4>. QED
        BY <3>4, <4>1, <1>WritesOn DEF WritesFurther
    <3>. QED
      BY <3>4, <3>7, <3>8 DEF Effect, Placed
  <2>PutRead. CASE PutRead(p)
    <3>. USE <2>PutRead
    <3> DEFINE c == Ring(p).array[Cell(local[p].t)]
               l == [local[p] EXCEPT !.cell = c]
               place == IF c.val # Empty \/ c.idx > local[p].t THEN "put_head"
                        ELSE IF c.unsafe THEN "put_unsafe" ELSE "put_store"
    <3>1. /\ pc[p] = "put_read" /\ GoTo(p, place) /\ Keep(p, l) /\ UNCHANGED <<shared, history>>
      BY DEF PutRead, At
    <3>2. local[p].rq \in 1 .. tail /\ local[p].rq \in Rings /\ local[p].t < rings[local[p].rq].tail
      BY <3>1, InRings DEF Placed, WriterPlaced, PutPlaced, Storing
    <3>3. local[p] \in LocalRec /\ local[p].t \in Nat /\ Cell(local[p].t) \in Slots
      BY LocalIs, CellFacts DEF TypeOK
    <3>4. c \in CellRec /\ c.idx \in Nat /\ c.idx = Idx(rings, local[p].rq, Cell(local[p].t))
      BY <3>2, <3>3, RingIs DEF Ring, Idx
    <3>5. l \in LocalRec /\ l.cell = c /\ SameButCell(l, local[p])
      BY <3>3, <3>4, <1>WithRead
    <3>6. c.idx <= c.idx /\ (place # "put_head" => c.val = Empty /\ c.idx <= local[p].t)
      BY SMTT(30), <3>3, <3>4
    <3>7. place \in {"put_head", "put_unsafe", "put_store"} /\ place \in Places
      BY DEF Places, Putting, PutPlaced
    <3>. HIDE DEF c, l, place
    <3>8. /\ l.gone = local[p].gone /\ l.there = local[p].there /\ l.arg = local[p].arg
          /\ l.rq = local[p].rq /\ l.t = local[p].t
      BY <3>5 DEF SameButCell
    <3>9. /\ TypeOK' /\ Shaped' /\ Others(p) /\ Grows(p) /\ Remembers(p)
          /\ pc'[p] = place /\ local'[p] = l
          /\ rings' = rings /\ head' = head /\ tail' = tail /\ puts' = puts
      BY <3>1, <3>5, <3>7, <3>8, <1>Looks DEF Looked
    <3>10. WriterPlaced(p)'
      BY <3>2, <3>4, <3>5, <3>6, <3>7, <3>8, <3>9 DEF WriterPlaced
    <3>11. Writes(p) /\ Reads(p) /\ ReaderPlaced(p)'
      <4>1. pc[p] \in Unstored /\ pc[p] \in PutPlaced /\ pc[p] \in Storing /\ pc'[p] \in Unstored
        BY <3>1, <3>7, <3>9 DEF Unstored, Putting, PutPlaced, Storing
      <4>. QED
        BY <3>8, <3>9, <4>1, <1>WritesOn DEF WritesFurther
    <3>. QED
      BY <3>9, <3>10, <3>11 DEF Effect, Placed
  <2>PutUnsafe. CASE PutUnsafe(p)
    <3>. USE <2>PutUnsafe
    <3> DEFINE place == IF Ring(p).head < local[p].t THEN "put_store" ELSE "put_head"
    <3>1. pc[p] = "put_unsafe" /\ GoTo(p, place) /\ local' = local /\ UNCHANGED <<shared, history>>
      BY DEF PutUnsafe, At
    <3>2. Keep(p, local[p]) /\ local[p] \in LocalRec
      BY <3>1, <1>KeepsAll DEF TypeOK
    <3>3. place \in {"put_store", "put_head"} /\ place \in Places
      BY DEF Places, Putting, PutPlaced
    <3>. HIDE DEF place
    <3>4. /\ TypeOK' /\ Shaped' /\ Others(p) /\ Grows(p) /\ Remembers(p)
          /\ pc'[p] = place /\ local'[p] = local[p]
          /\ rings' = rings /\ head' = head /\ tail' = tail /\ puts' = puts
      BY <3>1, <3>2, <3>3, <1>Looks DEF Looked
    <3>5. WriterPlaced(p)'
      <4>1. pc[p] \in PutPlaced /\ pc[p] \in Storing
        BY <3>1 DEF PutPlaced, Storing
      <4>. QED
        BY <3>1, <3>3, <3>4, <4>1 DEF Placed, WriterPlaced
    <3>6. Writes(p) /\ Reads(p) /\ ReaderPlaced(p)'
      <4>1. pc[p] \in Unstored /\ pc[p] \in PutPlaced /\ pc[p] \in Storing /\ pc'[p] \in Unstored
        BY <3>1, <3>3, <3>4 DEF Unstored, Putting, PutPlaced, Storing
      <4>. QED
        BY <3>4, <4>1, <1>WritesOn DEF WritesFurther
    <3>. QED
      BY <3>4, <3>5, <3>6 DEF Effect, Placed
  <2>PutHead. CASE PutHead(p)
    <3>. USE <2>PutHead
    <3> DEFINE place == IF local[p].t - Ring(p).head >= RING_SIZE THEN "put_close" ELSE "put_tail"
    <3>1. pc[p] = "put_head" /\ GoTo(p, place) /\ local' = local /\ UNCHANGED <<shared, history>>
      BY DEF PutHead, At
    <3>2. Keep(p, local[p]) /\ local[p] \in LocalRec
      BY <3>1, <1>KeepsAll DEF TypeOK
    <3>3. place \in {"put_close", "put_tail"} /\ place \in Places
      BY DEF Places, Putting, PutPlaced
    <3>. HIDE DEF place
    <3>4. /\ TypeOK' /\ Shaped' /\ Others(p) /\ Grows(p) /\ Remembers(p)
          /\ pc'[p] = place /\ local'[p] = local[p]
          /\ rings' = rings /\ head' = head /\ tail' = tail /\ puts' = puts
      BY <3>1, <3>2, <3>3, <1>Looks DEF Looked
    <3>5. WriterPlaced(p)'
      <4>1. pc[p] \in PutPlaced
        BY <3>1 DEF PutPlaced
      <4>. QED
        BY <3>3, <3>4, <4>1 DEF Placed, WriterPlaced, Storing
    <3>6. Writes(p) /\ Reads(p) /\ ReaderPlaced(p)'
      <4>1. /\ pc[p] \in Unstored /\ pc[p] \in PutPlaced /\ pc'[p] \in Unstored
            /\ pc'[p] \notin Storing
        BY <3>1, <3>3, <3>4 DEF Unstored, Putting, PutPlaced, Storing
      <4>. QED
        BY <3>4, <4>1, <1>WritesOn DEF WritesFurther
    <3>. QED
      BY <3>4, <3>5, <3>6 DEF Effect, Placed
  <2>PutReserve. CASE PutReserve(p)
    <3>. USE <2>PutReserve
    <3> DEFINE n == Ring(p).tail
               x == [Ring(p) EXCEPT !.tail = n + 1]
               l == [local[p] EXCEPT !.t = n]
               place == IF Ring(p).closed THEN "put_link" ELSE "put_read"
    <3>1. /\ pc[p] = "put_reserve" /\ GoTo(p, place) /\ Keep(p, l) /\ SetRing(p, x)
          /\ UNCHANGED <<head, tail, history>>
      BY DEF PutReserve, At
    <3>2. local[p].rq \in 1 .. tail /\ local[p].rq \in Rings
      BY <3>1, InRings DEF Placed, WriterPlaced, PutPlaced
    <3>3. Ring(p) \in RingRec /\ Ring(p).head \in Nat /\ n \in Nat
      BY <3>2, RingIs DEF Ring
    <3>4. n + 1 \in Nat /\ n <= n + 1 /\ n < n + 1 /\ Ring(p).head <= Ring(p).head
      BY SMTT(30), <3>3
    <3>5. /\ x \in RingRec /\ x.head = Ring(p).head /\ x.tail = n + 1 /\ x.closed = Ring(p).closed
          /\ x.next = Ring(p).next /\ x.array = Ring(p).array /\ (Ring(p).closed => x.closed)
      BY <3>3, <3>4, <1>RingWithTail
    <3>6. l \in LocalRec /\ l.t = n /\ SameButPosition(l, local[p])
      BY <3>3, <1>WithPosition DEF TypeOK
    <3>7. place \in {"put_link", "put_read"} /\ place \in Places
      BY DEF Places, Putting, PutPlaced
    <3>8. /\ x \in RingRec /\ x.array = Ring(p).array /\ x.next = Ring(p).next
          /\ (Ring(p).closed => x.closed) /\ Ring(p).head <= x.head /\ Ring(p).tail <= x.tail
      BY <3>4, <3>5
    <3>9. (place = "put_link" => x.closed) /\ (place = "put_read" => ~Ring(p).closed)
      BY <3>5
    <3>. HIDE DEF n, x, l, place
    <3>10. /\ l \in LocalRec /\ l.gone = local[p].gone /\ l.there = local[p].there
           /\ l.arg = local[p].arg /\ l.rq = local[p].rq
      BY <3>6 DEF SameButPosition
    <3>11. /\ TypeOK' /\ Shaped' /\ Others(p) /\ Grows(p) /\ Remembers(p)
           /\ pc'[p] = place /\ local'[p] = l
           /\ Rings' = Rings /\ head' = head /\ tail' = tail /\ puts' = puts
           /\ rings'[local[p].rq] = x
      <4>1. Adjusted(p, place, l, x)
        BY <3>1, <3>2, <3>7, <3>8, <3>10, <1>Adjusts
      <4>. QED
        BY <4>1 DEF Adjusted
    <3>12. WriterPlaced(p)'
      BY <3>2, <3>4, <3>5, <3>6, <3>7, <3>9, <3>10, <3>11 DEF WriterPlaced
    <3>13. Writes(p) /\ Reads(p) /\ ReaderPlaced(p)'
      <4>1. pc[p] \in Unstored /\ pc[p] \in PutPlaced /\ pc'[p] \in Unstored
        BY <3>1, <3>7, <3>11 DEF Unstored, Putting, PutPlaced
      <4>2. pc'[p] \in Storing => ~rings[local[p].rq].closed /\ local'[p].t = rings[local[p].rq].tail
        BY <3>6, <3>7, <3>9, <3>11 DEF Storing, Ring, n
      <4>. QED
        BY <3>1, <3>10, <3>11, <4>1, <4>2, <1>WritesOn DEF WritesFurther
    <3>. QED
      BY <3>11, <3>12, <3>13 DEF Effect, Placed
  <2>PutClose. CASE PutClose(p)
    <3>. USE <2>PutClose
    <3> DEFINE closes == /\ ~Ring(p).closed
                         /\ local[p].tries < CloseTries => Ring(p).tail = local[p].t + 1
               x == [Ring(p) EXCEPT !.closed = Ring(p).closed \/ closes]
               n == IF local[p].tries < CloseTries THEN local[p].tries + 1 ELSE local[p].tries
               l == [local[p] EXCEPT !.tries = n]
               place == IF closes THEN "put_link" ELSE "put_tail"
    <3>1. /\ pc[p] = "put_close" /\ GoTo(p, place) /\ Keep(p, l) /\ SetRing(p, x)
          /\ UNCHANGED <<head, tail, history>>
      BY DEF PutClose, At
    <3>2. local[p].rq \in 1 .. tail /\ local[p].rq \in Rings
      BY <3>1, InRings DEF Placed, WriterPlaced, PutPlaced
    <3>3. /\ Ring(p) \in RingRec /\ Ring(p).head \in Nat /\ Ring(p).tail \in Nat
          /\ Ring(p).closed \in BOOLEAN
      BY <3>2, RingIs DEF Ring
    <3>4. Ring(p).tail <= Ring(p).tail /\ Ring(p).head <= Ring(p).head
      BY SMTT(30), <3>3
    <3>. HIDE DEF closes
    <3>5. /\ x \in RingRec /\ x.head = Ring(p).head /\ x.tail = Ring(p).tail
          /\ x.closed = (Ring(p).closed \/ closes)
          /\ x.next = Ring(p).next /\ x.array = Ring(p).array /\ (Ring(p).closed => x.closed)
      <4>1. (Ring(p).closed \/ closes) \in BOOLEAN
        OBVIOUS
      <4>. QED
        BY <3>3, <4>1, <1>RingWithClosed
    <3>6. n \in Nat
      <4>1. local[p].tries \in Nat
        BY LocalIs DEF TypeOK
      <4>. QED
        BY SMTT(30), <4>1
    <3>. HIDE DEF n
    <3>7. l \in LocalRec /\ SameButTail(l, local[p])
      BY <3>6, <1>WithTries DEF TypeOK
    <3>8. place \in {"put_link", "put_tail"} /\ place \in Places
      BY DEF Places, Putting, PutPlaced
    <3>9. place = "put_link" => x.closed
      BY <3>5
    <3>. HIDE DEF x, l, place
    <3>10. /\ l.gone = local[p].gone /\ l.there = local[p].there /\ l.arg = local[p].arg
           /\ l.rq = local[p].rq
      BY <3>7 DEF SameButTail
    <3>11. /\ TypeOK' /\ Shaped' /\ Others(p) /\ Grows(p) /\ Remembers(p)
           /\ pc'[p] = place /\ local'[p] = l
           /\ Rings' = Rings /\ head' = head /\ tail' = tail /\ puts' = puts
           /\ rings'[local[p].rq] = x
      <4>1. Adjusted(p, place, l, x)
        BY <3>1, <3>2, <3>4, <3>5, <3>7, <3>8, <3>10, <1>Adjusts
      <4>. QED
        BY <4>1 DEF Adjusted
    <3>12. WriterPlaced(p)'
      BY <3>2, <3>8, <3>9, <3>10, <3>11 DEF WriterPlaced, Storing
    <3>13. Writes(p) /\ Reads(p) /\ ReaderPlaced(p)'
      <4>1. /\ pc[p] \in Unstored /\ pc[p] \in PutPlaced /\ pc'[p] \in Unstored
            /\ pc'[p] \notin Storing
        BY <3>1, <3>8, <3>11 DEF Unstored, Putting, PutPlaced, Storing
      <4>. QED
        BY <3>10, <3>11, <4>1, <1>WritesOn DEF WritesFurther
    <3>. QED
      BY <3>11, <3>12, <3>13 DEF Effect, Placed
  <2>PutStore. CASE PutStore(p)
    <3>. USE <2>PutStore
    <3>1. pc[p] = "put_store" /\ head' = head /\ tail' = tail
      BY DEF PutStore, At
    <3>2. local[p].rq \in 1 .. tail /\ local[p].rq \in Rings /\ local[p].t < rings[local[p].rq].tail
      BY <3>1, InRings DEF Placed, WriterPlaced, PutPlaced, Storing
    <3>3. local[p].cell.val = Empty /\ local[p].cell.idx <= local[p].t
      BY <3>1 DEF Placed, WriterPlaced
    <3>4. /\ local[p] \in LocalRec /\ local[p].t \in Nat /\ local[p].arg \in Nat
          /\ Cell(local[p].t) \in Slots
      BY LocalIs, CellFacts DEF TypeOK
    <3>5. CASE CellIsAsRead(p)
      <4> DEFINE c == [val |-> local[p].arg, idx |-> local[p].t, unsafe |-> FALSE]
                 k == Cell(local[p].t)
      <4>1. SetCell(p, c) /\ PutReturns(p)
        BY <3>5 DEF PutStore
      <4>2. c \in CellRec /\ c.val = local[p].arg /\ c.idx = local[p].t
        BY <3>4 DEF CellRec
      <4>. HIDE DEF c
      <4>3. /\ rings' \in Seq(RingRec) /\ Rings' = Rings
            /\ rings'[local[p].rq].array[k] = c
        BY <3>2, <4>1, <4>2, <1>Swaps DEF Swapped
      <4>. HIDE DEF k
      <4>4. head' \in Nat /\ tail' \in Nat /\ pc[p] \in {"put_store", "put_swing"}
        BY <3>1 DEF TypeOK
      <4>5. /\ TypeOK' /\ Placed(p)' /\ Others(p) /\ Remembers(p) /\ Reads(p)
            /\ pc'[p] = "idle" /\ local[p].arg \in written'
        BY <4>1, <4>3, <4>4, <1>WriteReturns DEF WriteReturned
      <4>6. Val(rings, local[p].rq, k) = Empty /\ Idx(rings, local[p].rq, k) <= c.idx
        BY <3>3, <3>5, <4>2 DEF CellIsAsRead, Ring, Val, Idx, k
      <4>7. Val(rings', local[p].rq, k) = local[p].arg /\ Idx(rings', local[p].rq, k) = local[p].t
        BY <4>2, <4>3 DEF Val, Idx
      <4>8. Stores(p, local[p].rq, k)
        BY <3>1, <3>2, <4>5, <4>6, <4>7 DEF Stores, k
      <4>9. Shaped' /\ Grows(p)
        BY <3>1, <3>2, <4>1, <4>2, <4>6, <4>8, <1>SwapsWell DEF k, Ring, Fits
      <4>10. Writes(p)
        <5>1. /\ pc'[p] \notin Putting /\ pc'[p] \notin Unstored /\ pc'[p] \notin PutPlaced
              /\ pc'[p] \notin Storing /\ pc'[p] # "put_swing"
          BY <4>5 DEF Putting, Unstored, PutPlaced, Storing
        <5>2. /\ local[p].rq \in Rings'
              /\ Val(rings', local[p].rq, Cell(local[p].t)) = local[p].arg
          BY <3>2, <4>3, <4>7 DEF k
        <5>. QED
          BY <4>5, <5>1, <5>2 DEF Writes
      <4>. QED
        BY <4>5, <4>9, <4>10 DEF Effect
    <3>6. CASE ~CellIsAsRead(p)
      <4>1. GoTo(p, "put_head") /\ local' = local /\ UNCHANGED <<shared, history>>
        BY <3>1, <3>6 DEF PutStore, shared
      <4>2. Keep(p, local[p])
        BY <4>1, <1>KeepsAll
      <4>3. "put_head" \in Places
        BY DEF Places, Putting, PutPlaced
      <4>4. /\ TypeOK' /\ Shaped' /\ Others(p) /\ Grows(p) /\ Remembers(p)
            /\ pc'[p] = "put_head" /\ local'[p] = local[p]
            /\ rings' = rings /\ tail' = tail /\ puts' = puts
        BY <3>4, <4>1, <4>2, <4>3, <1>Looks DEF Looked
      <4>5. WriterPlaced(p)'
        BY <3>2, <4>4 DEF WriterPlaced, Storing
      <4>6. Writes(p) /\ Reads(p) /\ ReaderPlaced(p)'
        <5>1. /\ pc[p] \in Unstored /\ pc[p] \in PutPlaced /\ pc'[p] \in Unstored
              /\ pc'[p] \notin Storing
          BY <3>1, <4>4 DEF Unstored, Putting, PutPlaced, Storing
        <5>. QED
          BY <4>4, <5>1, <1>WritesOn DEF WritesFurther
      <4>. QED
        BY <4>4, <4>5, <4>6 DEF Effect, Placed
    <3>. QED
      BY <3>5, <3>6
  <2>PutHelp. CASE PutHelp(p)
    <3>. USE <2>PutHelp
    <3>1. /\ pc[p] = "put_help" /\ GoTo(p, "put_tail") /\ local' = local
          /\ rings' = rings /\ head' = head /\ UNCHANGED history
          /\ tail' = IF tail = local[p].rq THEN Ring(p).next ELSE tail
      BY DEF PutHelp, At
    <3>2. local[p].rq \in 1 .. tail /\ local[p].rq + 1 \in Rings
      BY <3>1 DEF Placed, WriterPlaced, PutPlaced
    <3>3. tail' \in Rings /\ tail' \in Nat /\ 1 .. tail \subseteq 1 .. tail'
      BY <3>1, <3>2, <1>TailMoves
    <3>4. /\ pc' \in [Procs -> Places] /\ pc'[p] = "put_tail"
          /\ local' \in [Procs -> LocalRec]
          /\ \A q \in Procs : q # p => pc'[q] = pc[q] /\ local'[q] = local[q]
      <4>1. Keep(p, local[p]) /\ local[p] \in LocalRec
        BY <3>1, <1>KeepsAll DEF TypeOK
      <4>2. "put_tail" \in Places
        BY DEF Places, Putting
      <4>. QED
        BY <3>1, <4>1, <4>2, <1>Goes DEF Went
    <3>5. TypeOK'
      BY <3>1, <3>3, <3>4 DEF TypeOK, history
    <3>6. Others(p)
      BY <3>1, <3>4 DEF Others, history
    <3>7. Shaped' /\ Grows(p) /\ Remembers(p)
      BY <3>1, <3>3, <1>StillShaped, <1>StillGrows, <1>StillRemembers DEF Shaped
    <3>8. Writes(p) /\ Reads(p) /\ ReaderPlaced(p)'
      <4>1. /\ pc[p] \in Unstored /\ pc'[p] \in Unstored /\ pc'[p] \notin Storing
            /\ pc'[p] \notin PutPlaced
        BY <3>1, <3>4 DEF Unstored, Putting, PutPlaced, Storing
      <4>2. puts' = puts
        BY <3>1 DEF history
      <4>. QED
        BY <3>1, <4>1, <4>2, <1>WritesOn DEF WritesFurther
    <3>9. WriterPlaced(p)'
      BY <3>4 DEF WriterPlaced, PutPlaced, Storing
    <3>. QED
      BY <3>5, <3>6, <3>7, <3>8, <3>9 DEF Effect, Placed
  <2>PutSwing. CASE PutSwing(p)
    <3>. USE <2>PutSwing
    <3>1. /\ pc[p] = "put_swing" /\ PutReturns(p) /\ rings' = rings /\ head' = head
          /\ tail' = IF tail = local[p].rq THEN Ring(p).next ELSE tail
      BY DEF PutSwing, At
    <3>2. local[p].rq \in 1 .. tail /\ local[p].rq + 1 \in Rings
      BY <3>1 DEF Placed, WriterPlaced, PutPlaced
    <3>3. tail' \in Rings /\ tail' \in Nat /\ 1 .. tail \subseteq 1 .. tail'
      BY <3>1, <3>2, <1>TailMoves
    <3>4. /\ TypeOK' /\ Placed(p)' /\ Others(p) /\ Remembers(p) /\ Reads(p)
          /\ pc'[p] = "idle" /\ local[p].arg \in written'
      <4>1. rings' \in Seq(RingRec) /\ head' \in Nat /\ pc[p] \in {"put_store", "put_swing"}
        BY <3>1 DEF TypeOK
      <4>. QED
        BY <3>1, <3>3, <4>1, <1>WriteReturns DEF WriteReturned
    <3>5. Shaped' /\ Grows(p)
      BY <3>1, <3>3, <1>StillShaped, <1>StillGrows DEF Shaped
    <3>6. Writes(p)
      <4>1. /\ pc'[p] \notin Putting /\ pc'[p] \notin Unstored /\ pc'[p] \notin PutPlaced
            /\ pc'[p] \notin Storing /\ pc'[p] # "put_swing" /\ pc[p] \notin Unstored
        BY <3>1, <3>4 DEF Putting, Unstored, PutPlaced, Storing
      <4>. QED
        BY <3>4, <4>1 DEF Writes
    <3>. QED
      BY <3>4, <3>5, <3>6 DEF Effect
  <2>PutLink. CASE PutLink(p)
    <3>. USE <2>PutLink
    <3>1. /\ pc[p] = "put_link" /\ head' = head /\ tail' = tail /\ local' = local
          /\ UNCHANGED history
      BY DEF PutLink, At
    <3>2. local[p].rq \in 1 .. tail /\ local[p].rq \in Rings /\ Ring(p).closed
      BY <3>1, InRings DEF Placed, WriterPlaced, PutPlaced, Ring
    <3>3. Keep(p, local[p]) /\ local[p] \in LocalRec
      BY <3>1, <1>KeepsAll DEF TypeOK
    <3>4. "put_swing" \in Places /\ "put_tail" \in Places
      BY DEF Places, Putting, PutPlaced
    <3>5. CASE Ring(p).next = NULL
      <4>1. /\ GoTo(p, "put_swing")
            /\ rings' = Append([rings EXCEPT ![local[p].rq] = [@ EXCEPT !.next = Len(rings) + 1]],
                               SoloRing(local[p].arg))
        BY <3>5 DEF PutLink
      <4>2. /\ pc' \in [Procs -> Places] /\ pc'[p] = "put_swing"
            /\ local' \in [Procs -> LocalRec] /\ local'[p] = local[p]
            /\ \A q \in Procs : q # p => pc'[q] = pc[q] /\ local'[q] = local[q]
        BY <3>3, <3>4, <4>1, <1>Goes DEF Went
      <4>3. /\ rings' \in Seq(RingRec) /\ Shaped' /\ Grows(p)
            /\ local[p].rq + 1 \in Rings' /\ Val(rings', local[p].rq + 1, 0) = local[p].arg
        BY <3>1, <3>2, <3>5, <4>1, <4>2, <1>Links DEF Linked
      <4>4. TypeOK' /\ Others(p) /\ puts' = puts
        BY <3>1, <4>2, <4>3 DEF TypeOK, Others, history
      <4>5. Remembers(p)
        BY <3>1, <1>StillRemembers
      <4>6. Placed(p)' /\ Reads(p)
        <5>1. WriterPlaced(p)'
          BY <3>1, <3>2, <4>2, <4>3 DEF WriterPlaced, Storing
        <5>2. pc'[p] \in Putting \cup {"idle"}
          BY <4>2 DEF Putting, PutPlaced
        <5>. QED
          BY <5>1, <5>2, <1>ReadsNot DEF Placed
      <4>7. Writes(p)
        <5>1. /\ pc[p] \in Putting /\ pc[p] \in PutPlaced /\ pc'[p] \in Putting
              /\ pc'[p] \notin Unstored /\ pc'[p] \notin Storing
          BY <3>1, <4>2 DEF Putting, Unstored, PutPlaced, Storing
        <5>. QED
          BY <3>1, <4>2, <4>3, <4>4, <5>1 DEF Writes
      <4>. QED
        BY <4>3, <4>4, <4>5, <4>6, <4>7 DEF Effect
    <3>6. CASE Ring(p).next # NULL
      <4>1. GoTo(p, "put_tail") /\ UNCHANGED <<shared, history>>
        BY <3>1, <3>6 DEF PutLink, shared
      <4>2. /\ TypeOK' /\ Shaped' /\ Others(p) /\ Grows(p) /\ Remembers(p)
            /\ pc'[p] = "put_tail" /\ local'[p] = local[p] /\ puts' = puts
        BY <3>3, <3>4, <4>1, <1>Looks DEF Looked
      <4>3. WriterPlaced(p)'
        BY <4>2 DEF WriterPlaced, PutPlaced, Storing
      <4>4. Writes(p) /\ Reads(p) /\ ReaderPlaced(p)'
        <5>1. /\ pc[p] \in Unstored /\ pc'[p] \in Unstored /\ pc'[p] \notin Storing
              /\ pc'[p] \notin PutPlaced
          BY <3>1, <4>2 DEF Unstored, Putting, PutPlaced, Storing
        <5>. QED
          BY <4>2, <5>1, <1>WritesOn DEF WritesFurther
      <4>. QED
        BY <4>2, <4>3, <4>4 DEF Effect, Placed
    <3>. QED
      BY <3>5, <3>6
  <2>Put. CASE Put(p)
    <3>. USE <2>Put
    <3> DEFINE l == [Idle EXCEPT !.arg = puts + 1]
    <3>1. /\ pc[p] = "idle" /\ GoTo(p, "put_tail") /\ Keep(p, l) /\ puts' = puts + 1
          /\ rings' = rings /\ head' = head /\ tail' = tail
          /\ precedes' = precedes \cup (written \X {puts + 1})
          /\ gets' = gets /\ written' = written /\ read' = read /\ overtaken' = overtaken
          /\ result' = result
      BY DEF Put, At, shared
    <3>2. /\ puts + 1 \in Nat /\ 1 .. puts \subseteq 1 .. puts + 1
          /\ \A a \in 1 .. puts + 1 : a \in 1 .. puts \/ a = puts + 1
      BY SMTT(30) DEF TypeOK
    <3>3. l \in LocalRec /\ l.arg = puts + 1 /\ l.there = {} /\ l.gone = {}
      BY <3>2, <1>IdleWith
    <3>. HIDE DEF l
    <3>4. "put_tail" \in Places
      BY DEF Places, Putting
    <3>5. /\ pc' \in [Procs -> Places] /\ pc'[p] = "put_tail"
          /\ local' \in [Procs -> LocalRec] /\ local'[p] = l
          /\ \A q \in Procs : q # p => pc'[q] = pc[q] /\ local'[q] = local[q]
      BY <3>1, <3>3, <3>4, <1>Goes DEF Went
    <3>6. TypeOK'
      BY <3>1, <3>2, <3>5 DEF TypeOK
    <3>7. Shaped' /\ Grows(p) /\ Others(p)
      BY <3>1, <3>5, <1>StillShaped, <1>StillGrows DEF Shaped, Others
    <3>8. Remembers(p)
      BY <3>1, <3>2, <3>3, <3>5 DEF Remembers
    <3>9. Placed(p)' /\ Reads(p)
      <4>1. WriterPlaced(p)'
        BY <3>5 DEF WriterPlaced, PutPlaced, Storing
      <4>2. pc'[p] \in Putting \cup {"idle"}
        BY <3>5 DEF Putting
      <4>. QED
        BY <4>1, <4>2, <1>ReadsNot DEF Placed
    <3>10. Writes(p)
      <4>1. /\ pc[p] \notin Putting /\ pc[p] \notin Unstored /\ pc'[p] \notin PutPlaced
            /\ pc'[p] \notin Storing /\ pc'[p] # "put_swing"
        BY <3>1, <3>5 DEF Putting, Unstored, PutPlaced, Storing
      <4>. QED
        BY <3>1, <3>3, <3>5, <4>1 DEF Writes
    <3>. QED
      BY <3>6, <3>7, <3>8, <3>9, <3>10 DEF Effect
  <2>GetHead. CASE GetHead(p)
    <3>. USE <2>GetHead
    <3> DEFINE l == [local[p] EXCEPT !.rq = head]
    <3>1. l \in LocalRec /\ l.rq = head /\ SameButRing(l, local[p])
      BY <1>WithRing DEF TypeOK
    <3>. HIDE DEF l
    <3>2. pc[p] = "get_head" /\ GoTo(p, "get_reserve") /\ Keep(p, l) /\ UNCHANGED <<shared, history>>
      BY DEF GetHead, At, l
    <3>3. "get_reserve" \in Places
      BY DEF Places, Getting, GetPlaced
    <3>4. l.gone = local[p].gone /\ l.there = local[p].there
      BY <3>1 DEF SameButRing
    <3>5. /\ TypeOK' /\ Shaped' /\ Others(p) /\ Grows(p) /\ Remembers(p)
          /\ pc'[p] = "get_reserve" /\ local'[p] = l
          /\ rings' = rings /\ head' = head
      BY <3>1, <3>2, <3>3, <3>4, <1>Looks DEF Looked
    <3>6. head \in 1 .. head
      BY SMTT(30) DEF TypeOK, Shaped, Rings
    <3>7. /\ pc[p] \in Getting \cup {"idle"} /\ pc'[p] \in Getting \cup {"idle"}
          /\ pc'[p] \notin Positioned /\ pc'[p] \notin Looking /\ pc'[p] \notin Checked
      BY <3>2, <3>5 DEF Getting, GetPlaced, Positioned, Looking, Checked
    <3>8. Writes(p) /\ WriterPlaced(p)'
      BY <3>7, <1>WritesNot
    <3>9. ReaderPlaced(p)'
      BY <3>1, <3>5, <3>6, <3>7 DEF ReaderPlaced
    <3>10. Reads(p)
      BY <3>1, <3>2, <3>5, <3>7 DEF Reads
    <3>. QED
      BY <3>5, <3>8, <3>9, <3>10 DEF Effect, Placed
  <2>GetReserve. CASE GetReserve(p)
    <3>. USE <2>GetReserve
    <3> DEFINE n == Ring(p).head
               x == [Ring(p) EXCEPT !.head = n + 1]
               l == [local[p] EXCEPT !.t = n, !.spun = FALSE, !.late = FALSE]
    <3>1. /\ pc[p] = "get_reserve" /\ GoTo(p, "get_read") /\ Keep(p, l) /\ SetRing(p, x)
          /\ UNCHANGED <<head, tail, history>>
      BY DEF GetReserve, At
    <3>2. local[p].rq \in 1 .. head /\ local[p].rq \in Rings
      BY <3>1, InRings DEF Placed, ReaderPlaced, GetPlaced
    <3>3. Ring(p) \in RingRec /\ n \in Nat /\ Ring(p).tail \in Nat
      BY <3>2, RingIs DEF Ring
    <3>4. n + 1 \in Nat /\ n <= n + 1 /\ n < n + 1 /\ Ring(p).tail <= Ring(p).tail
      BY SMTT(30), <3>3
    <3>5. /\ x \in RingRec /\ x.head = n + 1 /\ x.tail = Ring(p).tail /\ x.closed = Ring(p).closed
          /\ x.next = Ring(p).next /\ x.array = Ring(p).array /\ (Ring(p).closed => x.closed)
      BY <3>3, <3>4, <1>RingWithHead
    <3>6. l \in LocalRec /\ l.t = n /\ SameButPosition(l, local[p])
      BY <3>3, <1>WithTurn DEF TypeOK
    <3>7. /\ x \in RingRec /\ x.array = Ring(p).array /\ x.next = Ring(p).next
          /\ (Ring(p).closed => x.closed) /\ Ring(p).head <= x.head /\ Ring(p).tail <= x.tail
      BY <3>4, <3>5
    <3>8. "get_read" \in Places
      BY DEF Places, Getting, GetPlaced, Positioned, Looking
    <3>. HIDE DEF x, l, n
    <3>9. /\ l \in LocalRec /\ l.gone = local[p].gone /\ l.there = local[p].there
          /\ l.rq = local[p].rq
      BY <3>6 DEF SameButPosition
    <3>10. /\ TypeOK' /\ Shaped' /\ Others(p) /\ Grows(p) /\ Remembers(p)
           /\ pc'[p] = "get_read" /\ local'[p] = l /\ head' = head
           /\ rings'[local[p].rq] = x
      <4>1. Adjusted(p, "get_read", l, x)
        BY <3>1, <3>2, <3>7, <3>8, <3>9, <1>Adjusts
      <4>. QED
        BY <4>1 DEF Adjusted
    <3>11. /\ pc[p] \in Getting \cup {"idle"} /\ pc'[p] \in Getting \cup {"idle"}
           /\ pc[p] \in GetPlaced /\ pc'[p] \notin Checked
      BY <3>1, <3>10 DEF Getting, GetPlaced, Positioned, Looking, Checked
    <3>12. Writes(p) /\ WriterPlaced(p)'
      BY <3>11, <1>WritesNot
    <3>13. ReaderPlaced(p)'
      BY <3>2, <3>4, <3>5, <3>6, <3>9, <3>10 DEF ReaderPlaced
    <3>14. Reads(p)
      BY <3>1, <3>6, <3>9, <3>10, <3>11 DEF Reads, Ring, n
    <3>. QED
      BY <3>10, <3>12, <3>13, <3>14 DEF Effect, Placed
  <2>GetRead. CASE GetRead(p)
    <3>. USE <2>GetRead
    <3> DEFINE c == Ring(p).array[Cell(local[p].t)]
               l == [local[p] EXCEPT !.cell = c]
               place == IF c.idx > local[p].t THEN "get_check"
                        ELSE IF c.val # Empty THEN "get_take" ELSE "get_tail"
    <3>1. /\ pc[p] = "get_read" /\ GoTo(p, place) /\ Keep(p, l) /\ UNCHANGED <<shared, history>>
      BY DEF GetRead, At
    <3>2. local[p].rq \in 1 .. head /\ local[p].rq \in Rings /\ local[p].t < rings[local[p].rq].head
      BY <3>1, InRings DEF Placed, ReaderPlaced, GetPlaced, Positioned, Looking
    <3>3. local[p] \in LocalRec /\ local[p].t \in Nat /\ Cell(local[p].t) \in Slots
      BY LocalIs, CellFacts DEF TypeOK
    <3>4. c \in CellRec /\ c.idx \in Nat
      BY <3>2, <3>3, RingIs DEF Ring
    <3>5. l \in LocalRec /\ l.cell = c /\ SameButCell(l, local[p])
      BY <3>3, <3>4, <1>WithRead
    <3>6. /\ place # "get_check" => c.idx <= local[p].t
          /\ place = "get_take" => c.val # Empty
          /\ place = "get_tail" => c.val = Empty
      BY SMTT(30), <3>3, <3>4
    <3>7. place \in {"get_check", "get_take", "get_tail"} /\ place \in Places
      BY DEF Places, Getting, GetPlaced, Positioned, Looking
    <3>. HIDE DEF c, l, place
    <3>8. /\ l.gone = local[p].gone /\ l.there = local[p].there
          /\ l.rq = local[p].rq /\ l.t = local[p].t
      BY <3>5 DEF SameButCell
    <3>9. /\ TypeOK' /\ Shaped' /\ Others(p) /\ Grows(p) /\ Remembers(p)
          /\ pc'[p] = place /\ local'[p] = l
          /\ rings' = rings /\ head' = head
      BY <3>1, <3>5, <3>7, <3>8, <1>Looks DEF Looked
    <3>10. /\ pc[p] \in Getting \cup {"idle"} /\ pc'[p] \in Getting \cup {"idle"}
           /\ pc[p] \in GetPlaced /\ pc[p] \in Looking /\ pc'[p] \notin Checked
           /\ pc'[p] # "get_swing"
      BY <3>1, <3>7, <3>9 DEF Getting, GetPlaced, Positioned, Looking, Checked
    <3>11. Writes(p) /\ WriterPlaced(p)'
      BY <3>10, <1>WritesNot
    <3>12. ReaderPlaced(p)'
      BY <3>2, <3>5, <3>6, <3>7, <3>8, <3>9 DEF ReaderPlaced
    <3>13. Reads(p)
      BY <3>8, <3>9, <3>10 DEF Reads
    <3>. QED
      BY <3>9, <3>11, <3>12, <3>13 DEF Effect, Placed
  <2>GetTail. CASE GetTail(p)
    <3>. USE <2>GetTail
    <3> DEFINE now == [tail |-> Ring(p).tail, closed |-> Ring(p).closed]
               h == local[p].t
    <3>1. pc[p] = "get_tail" /\ UNCHANGED <<shared, history>>
      BY DEF GetTail, At
    <3>2. local[p].rq \in 1 .. head /\ local[p].rq \in Rings /\ local[p].t < rings[local[p].rq].head
      BY <3>1, InRings DEF Placed, ReaderPlaced, GetPlaced, Positioned, Looking
    <3>3. now \in TailRec
      <4>1. Ring(p).tail \in Nat /\ Ring(p).closed \in BOOLEAN
        BY <3>2, RingIs DEF Ring
      <4>. QED
        BY <4>1 DEF TailRec
    <3>4. local[p] \in LocalRec /\ local[p].tt \in TailRec /\ local[p].spun \in BOOLEAN
      BY LocalIs DEF TypeOK
    <3>5. PICK u \in {now} \cup (IF local[p].spun THEN {local[p].tt} ELSE {}),
               late \in {FALSE, local[p].spun} :
            LET gives_up == local[p].cell.unsafe \/ u.tail < h + 1 \/ u.closed \/ late
            IN  /\ Keep(p, [local[p] EXCEPT !.tt = u, !.late = late, !.spun = @ \/ ~gives_up])
                /\ GoTo(p, IF gives_up THEN "get_give_up" ELSE "get_read")
      BY DEF GetTail
    <3> DEFINE gives_up == local[p].cell.unsafe \/ u.tail < h + 1 \/ u.closed \/ late
               spun == local[p].spun \/ ~gives_up
               l == [local[p] EXCEPT !.tt = u, !.late = late, !.spun = spun]
               place == IF gives_up THEN "get_give_up" ELSE "get_read"
    <3>. HIDE DEF now
    <3>6. Keep(p, l) /\ GoTo(p, place)
      BY <3>5
    <3>7. u \in TailRec /\ late \in BOOLEAN
      BY <3>3, <3>4
    <3>. HIDE DEF gives_up
    <3>8. l \in LocalRec /\ SameButTail(l, local[p])
      <4>1. spun \in BOOLEAN
        OBVIOUS
      <4>. HIDE DEF spun
      <4>. QED
        BY <3>4, <3>7, <4>1, <1>WithTail
    <3>9. place \in {"get_give_up", "get_read"} /\ place \in Places
      BY DEF Places, Getting, GetPlaced, Positioned, Looking
    <3>. HIDE DEF l, place
    <3>10. /\ l.gone = local[p].gone /\ l.there = local[p].there
           /\ l.rq = local[p].rq /\ l.t = local[p].t /\ l.cell = local[p].cell
      BY <3>8 DEF SameButTail
    <3>11. /\ TypeOK' /\ Shaped' /\ Others(p) /\ Grows(p) /\ Remembers(p)
           /\ pc'[p] = place /\ local'[p] = l
           /\ rings' = rings /\ head' = head
      BY <3>1, <3>6, <3>8, <3>9, <3>10, <1>Looks DEF Looked
    <3>12. /\ pc[p] \in Getting \cup {"idle"} /\ pc'[p] \in Getting \cup {"idle"}
           /\ pc[p] \in GetPlaced /\ pc[p] \in Looking /\ pc'[p] \notin Checked
           /\ pc'[p] # "get_swing"
      BY <3>1, <3>9, <3>11 DEF Getting, GetPlaced, Positioned, Looking, Checked
    <3>13. Writes(p) /\ WriterPlaced(p)'
      BY <3>12, <1>WritesNot
    <3>14. local[p].cell.val = Empty /\ local[p].cell.idx <= local[p].t
      BY <3>1 DEF Placed, ReaderPlaced
    <3>15. ReaderPlaced(p)'
      BY <3>2, <3>9, <3>10, <3>11, <3>14 DEF ReaderPlaced
    <3>16. Reads(p)
      BY <3>10, <3>11, <3>12 DEF Reads
    <3>. QED
      BY <3>11, <3>13, <3>15, <3>16 DEF Effect, Placed
  <2>GetCheck. CASE GetCheck(p)
    <3>. USE <2>GetCheck
    <3> DEFINE place == IF Ring(p).tail <= local[p].t + 1 THEN "get_fix_read" ELSE "get_head"
    <3>1. pc[p] = "get_check" /\ GoTo(p, place) /\ local' = local /\ UNCHANGED <<shared, history>>
      BY DEF GetCheck, At
    <3>2. local[p].rq \in 1 .. head /\ local[p].t < rings[local[p].rq].head
      BY <3>1 DEF Placed, ReaderPlaced, GetPlaced, Positioned
    <3>3. Keep(p, local[p]) /\ local[p] \in LocalRec
      BY <3>1, <1>KeepsAll DEF TypeOK
    <3>4. place \in {"get_fix_read", "get_head"} /\ place \in Places
      BY DEF Places, Getting, GetPlaced, Positioned, Checked
    <3>5. place = "get_fix_read" => Ring(p).tail <= local[p].t + 1
      OBVIOUS
    <3>. HIDE DEF place
    <3>6. /\ TypeOK' /\ Shaped' /\ Others(p) /\ Grows(p) /\ Remembers(p)
          /\ pc'[p] = place /\ local'[p] = local[p]
          /\ rings' = rings /\ head' = head
      BY <3>1, <3>3, <3>4, <1>Looks DEF Looked
    <3>7. /\ pc[p] \in Getting \cup {"idle"} /\ pc'[p] \in Getting \cup {"idle"}
          /\ pc[p] \in GetPlaced /\ pc'[p] \notin Looking /\ pc'[p] # "get_swing"
          /\ pc'[p] \in Checked => place = "get_fix_read"
      BY <3>1, <3>4, <3>6 DEF Getting, GetPlaced, Positioned, Looking, Checked
    <3>8. Writes(p) /\ WriterPlaced(p)'
      BY <3>7, <1>WritesNot
    <3>9. ReaderPlaced(p)'
      BY <3>2, <3>4, <3>6 DEF ReaderPlaced, GetPlaced, Positioned, Looking, Checked
    <3>10. Reads(p)
      BY <3>1, <3>5, <3>6, <3>7 DEF Reads, Ring
    <3>. QED
      BY <3>6, <3>8, <3>9, <3>10 DEF Effect, Placed
  <2>GetFixRead. CASE GetFixRead(p)
    <3>. USE <2>GetFixRead
    <3> DEFINE behind == ~Ring(p).closed /\ Ring(p).head > Ring(p).tail
               u == [local[p].tt EXCEPT !.tail = Ring(p).tail]
               m == [local[p] EXCEPT !.tt = u, !.fix = Ring(p).head]
               l == IF behind THEN m ELSE local[p]
               place == IF behind THEN "get_fix" ELSE "get_next"
    <3>1. pc[p] = "get_fix_read" /\ GoTo(p, place) /\ Keep(p, l) /\ UNCHANGED <<shared, history>>
      BY DEF GetFixRead, At
    <3>2. local[p].rq \in 1 .. head /\ local[p].rq \in Rings /\ local[p].t < rings[local[p].rq].head
      BY <3>1, InRings DEF Placed, ReaderPlaced, GetPlaced, Positioned, Checked
    <3>3. Ring(p).tail \in Nat /\ Ring(p).head \in Nat
      BY <3>2, RingIs DEF Ring
    <3>4. local[p] \in LocalRec /\ local[p].tt \in TailRec
      BY LocalIs DEF TypeOK
    <3>5. u \in TailRec /\ u.tail = Ring(p).tail
      BY <3>3, <3>4 DEF TailRec
    <3>. HIDE DEF u
    <3>6. m \in LocalRec /\ m.tt = u /\ m.fix = Ring(p).head /\ SameButTail(m, local[p])
      BY <3>3, <3>4, <3>5, <1>WithFix
    <3>7. behind => u.tail < m.fix
      <4>1. behind => Ring(p).tail < Ring(p).head
        BY SMTT(30), <3>3
      <4>. QED
        BY <3>5, <3>6, <4>1
    <3>. HIDE DEF m, behind
    <3>8. place \in {"get_fix", "get_next"} /\ place \in Places
      BY DEF Places, Getting, GetPlaced, Positioned, Checked
    <3>9. /\ l \in LocalRec /\ l.gone = local[p].gone /\ l.there = local[p].there
          /\ l.rq = local[p].rq /\ l.t = local[p].t
          /\ place = "get_fix" => l.tt.tail < l.fix
      BY <3>4, <3>6, <3>7 DEF SameButTail
    <3>. HIDE DEF l, place
    <3>10. /\ TypeOK' /\ Shaped' /\ Others(p) /\ Grows(p) /\ Remembers(p)
           /\ pc'[p] = place /\ local'[p] = l
           /\ rings' = rings /\ head' = head
      BY <3>1, <3>8, <3>9, <1>Looks DEF Looked
    <3>11. /\ pc[p] \in Getting \cup {"idle"} /\ pc'[p] \in Getting \cup {"idle"}
           /\ pc[p] \in GetPlaced /\ pc[p] \in Checked /\ pc'[p] \notin Looking /\ pc'[p] # "get_swing"
      BY <3>1, <3>8, <3>10 DEF Getting, GetPlaced, Positioned, Looking, Checked
    <3>12. Writes(p) /\ WriterPlaced(p)'
      BY <3>11, <1>WritesNot
    <3>13. ReaderPlaced(p)'
      BY <3>2, <3>8, <3>9, <3>10 DEF ReaderPlaced
    <3>14. Reads(p)
      BY <3>9, <3>10, <3>11 DEF Reads
    <3>. QED
      BY <3>10, <3>12, <3>13, <3>14 DEF Effect, Placed
  <2>GetFix. CASE GetFix(p)
    <3>. USE <2>GetFix
    <3>1. pc[p] = "get_fix" /\ local' = local /\ UNCHANGED <<head, tail, history>>
      BY DEF GetFix, At
    <3>2. local[p].rq \in 1 .. head /\ local[p].rq \in Rings /\ local[p].t < rings[local[p].rq].head
      BY <3>1, InRings DEF Placed, ReaderPlaced, GetPlaced, Positioned, Checked
    <3>3. Keep(p, local[p]) /\ local[p] \in LocalRec
      BY <3>1, <1>KeepsAll DEF TypeOK
    <3>4. "get_next" \in Places /\ "get_fix_read" \in Places
      BY DEF Places, Getting, GetPlaced, Positioned, Checked
    <3>5. /\ pc[p] \in Getting \cup {"idle"} /\ pc[p] \in GetPlaced /\ pc[p] \in Checked
      BY <3>1 DEF Getting, GetPlaced, Positioned, Checked
    <3>6. CASE Ring(p).tail = local[p].tt.tail /\ ~Ring(p).closed
      <4> DEFINE n == local[p].fix
                 x == [Ring(p) EXCEPT !.tail = n]
      <4>1. SetRing(p, x) /\ GoTo(p, "get_next")
        BY <3>6 DEF GetFix
      <4>2. Ring(p) \in RingRec /\ Ring(p).head \in Nat /\ Ring(p).tail \in Nat
        BY <3>2, RingIs DEF Ring
      <4>3. n \in Nat /\ Ring(p).tail < n
        BY <3>1, <3>3, <3>6, LocalIs DEF Placed, ReaderPlaced
      <4>4. Ring(p).tail <= n /\ Ring(p).head <= Ring(p).head
        BY SMTT(30), <4>2, <4>3
      <4>. HIDE DEF n
      <4>5. /\ x \in RingRec /\ x.head = Ring(p).head /\ x.tail = n /\ x.closed = Ring(p).closed
            /\ x.next = Ring(p).next /\ x.array = Ring(p).array
        BY <4>2, <4>3, <1>RingWithTail
      <4>6. /\ x \in RingRec /\ x.array = Ring(p).array /\ x.next = Ring(p).next
            /\ (Ring(p).closed => x.closed) /\ Ring(p).head <= x.head /\ Ring(p).tail <= x.tail
        BY <3>6, <4>4, <4>5
      <4>. HIDE DEF x
      <4>7. /\ TypeOK' /\ Shaped' /\ Others(p) /\ Grows(p) /\ Remembers(p)
            /\ pc'[p] = "get_next" /\ local'[p] = local[p] /\ head' = head
            /\ rings'[local[p].rq] = x
        <5>1. Adjusted(p, "get_next", local[p], x)
          BY <3>1, <3>2, <3>3, <3>4, <4>1, <4>6, <1>Adjusts
        <5>. QED
          BY <5>1 DEF Adjusted
      <4>8. pc'[p] \in Getting \cup {"idle"} /\ pc'[p] \notin Looking /\ pc'[p] # "get_swing"
        BY <4>7 DEF Getting, GetPlaced, Positioned, Looking, Checked
      <4>9. Writes(p) /\ WriterPlaced(p)'
        BY <3>5, <4>8, <1>WritesNot
      <4>10. ReaderPlaced(p)'
        BY <3>2, <4>5, <4>7 DEF ReaderPlaced, Ring
      <4>11. Reads(p)
        BY <3>5, <4>7, <4>8 DEF Reads
      <4>. QED
        BY <4>7, <4>9, <4>10, <4>11 DEF Effect, Placed
    <3>7. CASE ~(Ring(p).tail = local[p].tt.tail /\ ~Ring(p).closed)
      <4>1. GoTo(p, "get_fix_read") /\ UNCHANGED <<shared, history>>
        BY <3>1, <3>7 DEF GetFix, shared
      <4>2. /\ TypeOK' /\ Shaped' /\ Others(p) /\ Grows(p) /\ Remembers(p)
            /\ pc'[p] = "get_fix_read" /\ local'[p] = local[p]
            /\ rings' = rings /\ head' = head
        BY <3>3, <3>4, <4>1, <1>Looks DEF Looked
      <4>3. pc'[p] \in Getting \cup {"idle"} /\ pc'[p] \notin Looking /\ pc'[p] # "get_swing"
        BY <4>2 DEF Getting, GetPlaced, Positioned, Looking, Checked
      <4>4. Writes(p) /\ WriterPlaced(p)'
        BY <3>5, <4>3, <1>WritesNot
      <4>5. ReaderPlaced(p)'
        BY <3>2, <4>2 DEF ReaderPlaced
      <4>6. Reads(p)
        BY <3>5, <4>2, <4>3 DEF Reads
      <4>. QED
        BY <4>2, <4>4, <4>5, <4>6 DEF Effect, Placed
    <3>. QED
      BY <3>6, <3>7
  <2>GetClose. CASE GetClose(p)
    <3>. USE <2>GetClose
    <3> DEFINE x == [Ring(p) EXCEPT !.closed = TRUE]
    <3>1. /\ pc[p] = "get_close" /\ local' = local /\ UNCHANGED <<head, tail, history>>
          /\ SetRing(p, x) /\ GoTo(p, "get_check")
      BY DEF GetClose, At
    <3>2. local[p].rq \in 1 .. head /\ local[p].rq \in Rings /\ local[p].t < rings[local[p].rq].head
      BY <3>1, InRings DEF Placed, ReaderPlaced, GetPlaced, Positioned
    <3>3. Keep(p, local[p]) /\ local[p] \in LocalRec
      BY <3>1, <1>KeepsAll DEF TypeOK
    <3>4. "get_check" \in Places
      BY DEF Places, Getting, GetPlaced, Positioned
    <3>5. Ring(p) \in RingRec /\ Ring(p).head \in Nat /\ Ring(p).tail \in Nat
      BY <3>2, RingIs DEF Ring
    <3>6. Ring(p).head <= Ring(p).head /\ Ring(p).tail <= Ring(p).tail
      BY SMTT(30), <3>5
    <3>7. /\ x \in RingRec /\ x.head = Ring(p).head /\ x.tail = Ring(p).tail /\ x.closed = TRUE
          /\ x.next = Ring(p).next /\ x.array = Ring(p).array
      BY <3>5, <1>RingWithClosed
    <3>8. /\ x \in RingRec /\ x.array = Ring(p).array /\ x.next = Ring(p).next
          /\ (Ring(p).closed => x.closed) /\ Ring(p).head <= x.head /\ Ring(p).tail <= x.tail
      BY <3>6, <3>7
    <3>. HIDE DEF x
    <3>9. /\ TypeOK' /\ Shaped' /\ Others(p) /\ Grows(p) /\ Remembers(p)
          /\ pc'[p] = "get_check" /\ local'[p] = local[p] /\ head' = head
          /\ rings'[local[p].rq] = x
      <4>1. Adjusted(p, "get_check", local[p], x)
        BY <3>1, <3>2, <3>3, <3>4, <3>8, <1>Adjusts
      <4>. QED
        BY <4>1 DEF Adjusted
    <3>10. /\ pc[p] \in Getting \cup {"idle"} /\ pc'[p] \in Getting \cup {"idle"}
           /\ pc[p] \in GetPlaced /\ pc'[p] \notin Looking /\ pc'[p] \notin Checked
           /\ pc'[p] # "get_swing"
      BY <3>1, <3>9 DEF Getting, GetPlaced, Positioned, Looking, Checked
    <3>11. Writes(p) /\ WriterPlaced(p)'
      BY <3>10, <1>WritesNot
    <3>12. ReaderPlaced(p)'
      BY <3>2, <3>7, <3>9 DEF ReaderPlaced, Ring
    <3>13. Reads(p)
      BY <3>9, <3>10 DEF Reads
    <3>. QED
      BY <3>9, <3>11, <3>12, <3>13 DEF Effect, Placed
  <2>GetRecheck. CASE GetRecheck(p)
    <3>. USE <2>GetRecheck
    <3> DEFINE place == IF Ring(p).tail <= local[p].t + 1 THEN "get_swing" ELSE "get_head"
    <3>1. pc[p] = "get_recheck" /\ GoTo(p, place) /\ local' = local /\ UNCHANGED <<shared, history>>
      BY DEF GetRecheck, At
    <3>2. /\ local[p].rq \in 1 .. head /\ local[p].t < rings[local[p].rq].head
          /\ local[p].rq + 1 \in Rings
      BY <3>1 DEF Placed, ReaderPlaced, GetPlaced, Positioned, Checked
    <3>3. Keep(p, local[p]) /\ local[p] \in LocalRec
      BY <3>1, <1>KeepsAll DEF TypeOK
    <3>4. place \in {"get_swing", "get_head"} /\ place \in Places
      BY DEF Places, Getting, GetPlaced, Positioned, Checked
    <3>5. place = "get_swing" => Ring(p).tail <= local[p].t + 1
      OBVIOUS
    <3>. HIDE DEF place
    <3>6. /\ TypeOK' /\ Shaped' /\ Others(p) /\ Grows(p) /\ Remembers(p)
          /\ pc'[p] = place /\ local'[p] = local[p]
          /\ rings' = rings /\ head' = head
      BY <3>1, <3>3, <3>4, <1>Looks DEF Looked
    <3>7. /\ pc[p] \in Getting \cup {"idle"} /\ pc'[p] \in Getting \cup {"idle"}
          /\ pc[p] \in GetPlaced /\ pc[p] \in Checked /\ pc'[p] \notin Looking
      BY <3>1, <3>4, <3>6 DEF Getting, GetPlaced, Positioned, Looking, Checked
    <3>8. Writes(p) /\ WriterPlaced(p)'
      BY <3>7, <1>WritesNot
    <3>9. ReaderPlaced(p)'
      BY <3>2, <3>4, <3>6 DEF ReaderPlaced, GetPlaced, Positioned, Looking, Checked, Rings
    <3>10. Reads(p)
      BY <3>1, <3>5, <3>6, <3>7 DEF Reads, Ring
    <3>. QED
      BY <3>6, <3>8, <3>9, <3>10 DEF Effect, Placed
  <2>GetSwing. CASE GetSwing(p)
    <3>. USE <2>GetSwing
    <3>1. /\ pc[p] = "get_swing" /\ GoTo(p, "get_head") /\ local' = local
          /\ rings' = rings /\ tail' = tail /\ UNCHANGED history
          /\ head' = IF head = local[p].rq THEN Ring(p).next ELSE head
      BY DEF GetSwing, At
    <3>2. local[p].rq \in 1 .. head /\ local[p].rq \in Rings /\ local[p].rq + 1 \in Rings
      BY <3>1, InRings DEF Placed, ReaderPlaced, GetPlaced, Positioned, Checked
    <3>3. head' \in Rings /\ head' \in Nat /\ 1 .. head \subseteq 1 .. head'
      <4>1. head' = IF head = local[p].rq THEN local[p].rq + 1 ELSE head
        BY <3>1, <3>2 DEF Shaped, Ring
      <4>2. head \in Nat /\ head \in Rings /\ Len(rings) \in Nat /\ local[p].rq \in Nat
        BY SMTT(30), LocalIs DEF TypeOK, Shaped
      <4>. QED
        BY SMTT(30), <3>2, <4>1, <4>2 DEF Rings
    <3>4. /\ pc' \in [Procs -> Places] /\ pc'[p] = "get_head"
          /\ local' \in [Procs -> LocalRec]
          /\ \A q \in Procs : q # p => pc'[q] = pc[q] /\ local'[q] = local[q]
      <4>1. Keep(p, local[p]) /\ local[p] \in LocalRec
        BY <3>1, <1>KeepsAll DEF TypeOK
      <4>2. "get_head" \in Places
        BY DEF Places, Getting
      <4>. QED
        BY <3>1, <4>1, <4>2, <1>Goes DEF Went
    <3>5. TypeOK'
      BY <3>1, <3>3, <3>4 DEF TypeOK, history
    <3>6. Others(p)
      BY <3>1, <3>4 DEF Others, history
    <3>7. Shaped' /\ Grows(p) /\ Remembers(p)
      BY <3>1, <3>3, <1>StillShaped, <1>StillGrows, <1>StillRemembers DEF Shaped
    <3>8. /\ pc[p] \in Getting \cup {"idle"} /\ pc'[p] \in Getting \cup {"idle"}
          /\ pc'[p] \notin GetPlaced /\ pc'[p] \notin Looking /\ pc'[p] \notin Checked
          /\ pc'[p] \notin Positioned /\ pc'[p] # "get_swing"
      BY <3>1, <3>4 DEF Getting, GetPlaced, Positioned, Looking, Checked
    <3>9. Writes(p) /\ WriterPlaced(p)'
      BY <3>8, <1>WritesNot
    <3>10. ReaderPlaced(p)'
      BY <3>4, <3>8 DEF ReaderPlaced
    <3>11. Reads(p)
      BY <3>8 DEF Reads
    <3>. QED
      BY <3>5, <3>6, <3>7, <3>9, <3>10, <3>11 DEF Effect, Placed
  <2>Get. CASE Get(p)
    <3>. USE <2>Get
    <3> DEFINE l == [Idle EXCEPT !.there = written, !.gone = overtaken]
    <3>1. /\ pc[p] = "idle" /\ GoTo(p, "get_head") /\ Keep(p, l) /\ gets' = gets + 1
          /\ rings' = rings /\ head' = head /\ tail' = tail
          /\ result' = [result EXCEPT ![p] = NoResult]
          /\ puts' = puts /\ written' = written /\ precedes' = precedes /\ read' = read
          /\ overtaken' = overtaken
      BY DEF Get, At, shared
    <3>2. gets + 1 \in Nat /\ NoResult \in Int
      BY SMTT(30) DEF TypeOK, NoResult
    <3>3. l \in LocalRec /\ l.there = written /\ l.gone = overtaken
      BY <1>IdleWith DEF TypeOK
    <3>. HIDE DEF l
    <3>4. "get_head" \in Places
      BY DEF Places, Getting
    <3>5. /\ pc' \in [Procs -> Places] /\ pc'[p] = "get_head"
          /\ local' \in [Procs -> LocalRec] /\ local'[p] = l
          /\ \A q \in Procs : q # p => pc'[q] = pc[q] /\ local'[q] = local[q]
      BY <3>1, <3>3, <3>4, <1>Goes DEF Went
    <3>6. /\ result' \in [Procs -> Int] /\ result'[p] = NoResult
          /\ \A q \in Procs : q # p => result'[q] = result[q]
      BY <3>1, <3>2 DEF TypeOK
    <3>7. TypeOK'
      BY <3>1, <3>2, <3>5, <3>6 DEF TypeOK
    <3>8. Shaped' /\ Grows(p) /\ Others(p)
      BY <3>1, <3>5, <3>6, <1>StillShaped, <1>StillGrows DEF Shaped, Others
    <3>9. Remembers(p)
      BY <3>1, <3>3, <3>5, <3>6 DEF Remembers
    <3>10. /\ pc[p] \in Getting \cup {"idle"} /\ pc'[p] \in Getting \cup {"idle"}
           /\ pc'[p] \notin GetPlaced /\ pc'[p] \notin Looking /\ pc'[p] \notin Checked
           /\ pc'[p] \notin Positioned /\ pc'[p] # "get_swing"
      BY <3>1, <3>5 DEF Getting, GetPlaced, Positioned, Looking, Checked
    <3>11. Writes(p) /\ WriterPlaced(p)'
      BY <3>10, <1>WritesNot
    <3>12. ReaderPlaced(p)'
      BY <3>5, <3>10 DEF ReaderPlaced
    <3>13. Reads(p)
      BY <3>10 DEF Reads
    <3>. QED
      BY <3>7, <3>8, <3>9, <3>11, <3>12, <3>13 DEF Effect, Placed
  <2>GetNext. CASE GetNext(p)
    <3>. USE <2>GetNext
    <3>1. pc[p] = "get_next" /\ UNCHANGED shared /\ rings' = rings /\ head' = head /\ tail' = tail
      BY DEF GetNext, At, shared
    <3>2. local[p].rq \in 1 .. head /\ local[p].rq \in Rings /\ local[p].t < rings[local[p].rq].head
      BY <3>1, InRings DEF Placed, ReaderPlaced, GetPlaced, Positioned, Checked
    <3>3. pc[p] \in Getting /\ pc[p] \in GetPlaced /\ pc[p] \in Checked
      BY <3>1 DEF Getting, GetPlaced, Positioned, Checked
    <3>4. CASE Ring(p).next = NULL
      <4>1. GetReturns(p, Empty)
        BY <3>4 DEF GetNext
      <4>2. Empty \in Nat /\ rings' \in Seq(RingRec) /\ head' \in Nat /\ tail' \in Nat
        BY <3>1 DEF TypeOK, Empty
      <4>3. /\ TypeOK' /\ Placed(p)' /\ Others(p) /\ Writes(p) /\ Reads(p)
            /\ pc'[p] = "idle" /\ local'[p].gone = local[p].gone /\ local'[p].there = {}
            /\ result'[p] = Empty
            /\ puts' = puts /\ written' = written /\ precedes' = precedes
            /\ read' = (IF Empty = Empty THEN read ELSE read \cup {Empty})
            /\ overtaken' = overtaken \cup ((IF Empty = Empty THEN local[p].there
                                             ELSE {a \in written : <<a, Empty>> \in precedes}) \ read)
        BY <3>3, <4>1, <4>2, <1>ReadReturns DEF ReadReturned
      <4>4. read' = read /\ overtaken' = overtaken \cup (local[p].there \ read)
        BY <4>3
      <4>5. Remembers(p)
        BY <3>1, <3>4, <4>3, <4>4 DEF Remembers, Ring
      <4>6. Shaped' /\ Grows(p)
        BY <3>1, <1>StillShaped, <1>StillGrows DEF Shaped
      <4>. QED
        BY <4>3, <4>5, <4>6 DEF Effect
    <3>5. CASE Ring(p).next # NULL
      <4>1. GoTo(p, "get_recheck") /\ local' = local /\ UNCHANGED <<shared, history>>
        BY <3>1, <3>5 DEF GetNext
      <4>2. Keep(p, local[p]) /\ local[p] \in LocalRec
        BY <4>1, <1>KeepsAll DEF TypeOK
      <4>3. "get_recheck" \in Places
        BY DEF Places, Getting, GetPlaced, Positioned, Checked
      <4>4. /\ TypeOK' /\ Shaped' /\ Others(p) /\ Grows(p) /\ Remembers(p)
            /\ pc'[p] = "get_recheck" /\ local'[p] = local[p]
        BY <4>1, <4>2, <4>3, <1>Looks DEF Looked
      <4>5. local[p].rq + 1 \in Rings
        BY <3>2, <3>5 DEF Shaped, Ring
      <4>6. pc'[p] \in Getting \cup {"idle"} /\ pc'[p] \notin Looking /\ pc'[p] # "get_swing"
        BY <4>4 DEF Getting, GetPlaced, Positioned, Looking, Checked
      <4>7. Writes(p) /\ WriterPlaced(p)'
        BY <3>3, <4>6, <1>WritesNot
      <4>8. ReaderPlaced(p)'
        BY <3>1, <3>2, <4>4, <4>5 DEF ReaderPlaced, Rings
      <4>9. Reads(p)
        BY <3>3, <4>4, <4>6 DEF Reads
      <4>. QED
        BY <4>4, <4>7, <4>8, <4>9 DEF Effect, Placed
    <3>. QED
      BY <3>4, <3>5
  <2>GetTake. CASE GetTake(p)
    <3>. USE <2>GetTake
    <3> DEFINE cell == local[p].cell
               h == local[p].t
               k == Cell(local[p].t)
    <3>1. pc[p] = "get_take" /\ head' = head /\ tail' = tail
      BY DEF GetTake, At
    <3>2. local[p].rq \in 1 .. head /\ local[p].rq \in Rings /\ local[p].t < rings[local[p].rq].head
      BY <3>1, InRings DEF Placed, ReaderPlaced, GetPlaced, Positioned, Looking
    <3>3. cell.val # Empty /\ cell.idx <= h
      BY <3>1 DEF Placed, ReaderPlaced
    <3>4. /\ local[p] \in LocalRec /\ h \in Nat /\ cell \in CellRec /\ cell.val \in Nat
          /\ cell.idx \in Nat /\ k \in Slots /\ Cell(h + RING_SIZE) = k
      BY LocalIs, CellFacts DEF TypeOK
    <3>5. h + RING_SIZE \in Nat /\ cell.idx <= h + RING_SIZE /\ cell.idx <= cell.idx
      BY SMTT(30), <3>3, <3>4, CellFacts
    <3>6. pc[p] \in Getting /\ pc[p] \in GetPlaced /\ pc[p] \in Looking
      BY <3>1 DEF Getting, GetPlaced, Positioned, Looking
    <3>7. CASE ~CellIsAsRead(p)
      <4>1. GoTo(p, "get_read") /\ local' = local /\ UNCHANGED <<shared, history>>
        BY <3>1, <3>7 DEF GetTake, shared
      <4>2. Keep(p, local[p])
        BY <4>1, <1>KeepsAll
      <4>3. "get_read" \in Places
        BY DEF Places, Getting, GetPlaced, Positioned, Looking
      <4>4. /\ TypeOK' /\ Shaped' /\ Others(p) /\ Grows(p) /\ Remembers(p)
            /\ pc'[p] = "get_read" /\ local'[p] = local[p] /\ rings' = rings
        BY <3>4, <4>1, <4>2, <4>3, <1>Looks DEF Looked
      <4>5. pc'[p] \in Getting \cup {"idle"} /\ pc'[p] \notin Checked /\ pc'[p] # "get_swing"
        BY <4>4 DEF Getting, GetPlaced, Positioned, Looking, Checked
      <4>6. Writes(p) /\ WriterPlaced(p)'
        BY <3>6, <4>5, <1>WritesNot
      <4>7. ReaderPlaced(p)'
        BY <3>1, <3>2, <4>4 DEF ReaderPlaced
      <4>8. Reads(p)
        BY <3>6, <4>4, <4>5 DEF Reads
      <4>. QED
        BY <4>4, <4>6, <4>7, <4>8 DEF Effect, Placed
    <3>8. CASE CellIsAsRead(p)
      <4>1. /\ Val(rings, local[p].rq, k) = cell.val /\ Idx(rings, local[p].rq, k) = cell.idx
            /\ Ring(p).array[k] = cell
        BY <3>8 DEF CellIsAsRead, Ring, Val, Idx
      <4>2. /\ cell.idx < Ring(p).tail /\ Cell(cell.idx) = k
        <5>. HIDE DEF cell, h, k
        <5>1. /\ Cell(Idx(rings, local[p].rq, k)) = k
              /\ \/ Val(rings, local[p].rq, k) = Empty
                 \/ Idx(rings, local[p].rq, k) < rings[local[p].rq].tail
          BY <3>2, <3>4 DEF Shaped
        <5>. QED
          BY <3>3, <4>1, <5>1 DEF Ring
      <4>3. CASE cell.idx = h
        <5> DEFINE c == [cell EXCEPT !.val = Empty, !.idx = h + RING_SIZE]
                   v == cell.val
        <5>1. SetCell(p, c) /\ GetReturns(p, v)
          BY <3>8, <4>3 DEF GetTake
        <5>2. c \in CellRec /\ c.val = Empty /\ c.idx = h + RING_SIZE
          BY <3>4, <3>5, <1>CellWith
        <5>. HIDE DEF c, cell, h, k
        <5>3. /\ rings' \in Seq(RingRec) /\ Rings' = Rings
              /\ rings'[local[p].rq].array[k] = c
          BY <3>2, <5>1, <5>2, <1>Swaps DEF k, Swapped
        <5>4. head' \in Nat /\ tail' \in Nat /\ v \in Nat
          BY <3>1, <3>4 DEF TypeOK
        <5>5. /\ TypeOK' /\ Placed(p)' /\ Others(p) /\ Writes(p) /\ Reads(p)
              /\ pc'[p] = "idle" /\ local'[p].gone = local[p].gone /\ local'[p].there = {}
              /\ result'[p] = v /\ (v # Empty => v \in read')
              /\ puts' = puts /\ written' = written /\ precedes' = precedes
              /\ read' = (IF v = Empty THEN read ELSE read \cup {v})
              /\ overtaken' = overtaken \cup ((IF v = Empty THEN local[p].there
                                               ELSE {a \in written : <<a, v>> \in precedes}) \ read)
          BY <3>6, <5>1, <5>3, <5>4, <1>ReadReturns DEF ReadReturned
        <5>6. /\ v \in read' /\ read' = read \cup {v}
              /\ overtaken' = overtaken \cup ({a \in written : <<a, v>> \in precedes} \ read)
          BY <3>3, <5>5
        <5>7. Takes(p, local[p].rq, k)
          BY <3>1, <3>3, <4>1, <4>3, <5>2, <5>3, <5>5, <5>6 DEF Takes, Val, k, h
        <5>8. Shaped' /\ Grows(p)
          BY <3>1, <3>2, <3>4, <3>5, <4>1, <4>2, <5>1, <5>2, <5>7, <1>SwapsWell DEF k, Fits
        <5>9. Remembers(p)
          BY <3>1, <4>1, <5>5, <5>6, <5>7 DEF Remembers, k
        <5>. QED
          BY <5>5, <5>8, <5>9 DEF Effect
      <4>4. CASE cell.idx # h
        <5> DEFINE c == [cell EXCEPT !.unsafe = TRUE]
        <5>1. SetCell(p, c) /\ GoTo(p, "get_check") /\ local' = local /\ UNCHANGED history
          BY <3>8, <4>4 DEF GetTake
        <5>2. c \in CellRec /\ c.val = cell.val /\ c.idx = cell.idx
          BY <3>4, <1>CellWith
        <5>. HIDE DEF c, cell, h, k
        <5>3. /\ rings' \in Seq(RingRec) /\ Rings' = Rings
              /\ \A r \in Rings : rings'[r].head = rings[r].head
          BY <3>2, <5>1, <5>2, <1>Swaps DEF Swapped
        <5>4. Shaped' /\ Grows(p)
          BY <3>1, <3>2, <3>5, <4>1, <4>2, <5>1, <5>2, <1>SwapsWell DEF k, Fits
        <5>5. Keep(p, local[p])
          BY <5>1, <1>KeepsAll
        <5>6. "get_check" \in Places
          BY DEF Places, Getting, GetPlaced, Positioned
        <5>7. /\ pc' \in [Procs -> Places] /\ pc'[p] = "get_check"
              /\ local' \in [Procs -> LocalRec] /\ local'[p] = local[p]
              /\ \A q \in Procs : q # p => pc'[q] = pc[q] /\ local'[q] = local[q]
          BY <3>4, <5>1, <5>5, <5>6, <1>Goes DEF Went
        <5>8. TypeOK' /\ Others(p)
          BY <3>1, <5>1, <5>3, <5>7 DEF TypeOK, Others, history
        <5>9. Remembers(p)
          BY <5>1, <5>7, <1>StillRemembers
        <5>10. /\ pc'[p] \in Getting \cup {"idle"} /\ pc'[p] \notin Looking /\ pc'[p] \notin Checked
               /\ pc'[p] # "get_swing"
          BY <5>7 DEF Getting, GetPlaced, Positioned, Looking, Checked
        <5>11. Writes(p) /\ WriterPlaced(p)'
          BY <3>6, <5>10, <1>WritesNot
        <5>12. ReaderPlaced(p)'
          BY <3>1, <3>2, <5>3, <5>7 DEF ReaderPlaced
        <5>13. Reads(p)
          BY <3>6, <5>7, <5>10 DEF Reads
        <5>. QED
          BY <5>4, <5>8, <5>9, <5>11, <5>12, <5>13 DEF Effect, Placed
      <4>. QED
        BY <4>3, <4>4
    <3>. QED
      BY <3>7, <3>8
  <2>GetGiveUp. CASE GetGiveUp(p)
    <3>. USE <2>GetGiveUp
    <3> DEFINE cell == local[p].cell
               h == local[p].t
               k == Cell(local[p].t)
    <3>1. /\ pc[p] = "get_give_up" /\ head' = head /\ tail' = tail /\ local' = local
          /\ UNCHANGED history
      BY DEF GetGiveUp, At
    <3>2. local[p].rq \in 1 .. head /\ local[p].rq \in Rings /\ local[p].t < rings[local[p].rq].head
      BY <3>1, InRings DEF Placed, ReaderPlaced, GetPlaced, Positioned, Looking
    <3>3. cell.val = Empty /\ cell.idx <= h
      BY <3>1 DEF Placed, ReaderPlaced
    <3>4. /\ local[p] \in LocalRec /\ h \in Nat /\ cell \in CellRec
          /\ cell.idx \in Nat /\ k \in Slots /\ Cell(h + RING_SIZE) = k
      BY LocalIs, CellFacts DEF TypeOK
    <3>5. h + RING_SIZE \in Nat /\ cell.idx <= h + RING_SIZE
      BY SMTT(30), <3>3, <3>4, CellFacts
    <3>6. pc[p] \in Getting /\ pc[p] \in GetPlaced /\ pc[p] \in Looking
      BY <3>1 DEF Getting, GetPlaced, Positioned, Looking
    <3>7. Keep(p, local[p])
      BY <3>1, <1>KeepsAll
    <3>8. CASE ~CellIsAsRead(p)
      <4>1. GoTo(p, "get_read") /\ UNCHANGED <<shared, history>>
        BY <3>1, <3>8 DEF GetGiveUp, shared
      <4>2. "get_read" \in Places
        BY DEF Places, Getting, GetPlaced, Positioned, Looking
      <4>3. /\ TypeOK' /\ Shaped' /\ Others(p) /\ Grows(p) /\ Remembers(p)
            /\ pc'[p] = "get_read" /\ local'[p] = local[p] /\ rings' = rings
        BY <3>4, <3>7, <4>1, <4>2, <1>Looks DEF Looked
      <4>4. pc'[p] \in Getting \cup {"idle"} /\ pc'[p] \notin Checked /\ pc'[p] # "get_swing"
        BY <4>3 DEF Getting, GetPlaced, Positioned, Looking, Checked
      <4>5. Writes(p) /\ WriterPlaced(p)'
        BY <3>6, <4>4, <1>WritesNot
      <4>6. ReaderPlaced(p)'
        BY <3>1, <3>2, <4>3 DEF ReaderPlaced
      <4>7. Reads(p)
        BY <3>6, <4>3, <4>4 DEF Reads
      <4>. QED
        BY <4>3, <4>5, <4>6, <4>7 DEF Effect, Placed
    <3>9. CASE CellIsAsRead(p)
      <4>1. Val(rings, local[p].rq, k) = Empty /\ Idx(rings, local[p].rq, k) = cell.idx
        BY <3>3, <3>9 DEF CellIsAsRead, Ring, Val, Idx
      <4> DEFINE c == [cell EXCEPT !.idx = h + RING_SIZE]
                 place == IF /\ ~cell.unsafe /\ local[p].late
                             /\ local[p].tt.tail > RING_SIZE \/ local[p].tt.closed
                          THEN "get_close" ELSE "get_check"
      <4>2. SetCell(p, c) /\ GoTo(p, place)
        BY <3>9 DEF GetGiveUp
      <4>3. c \in CellRec /\ c.val = Empty /\ c.idx = h + RING_SIZE
        BY <3>3, <3>4, <3>5, <1>CellWith
      <4>4. place \in {"get_close", "get_check"} /\ place \in Places
        BY DEF Places, Getting, GetPlaced, Positioned
      <4>. HIDE DEF c, place, cell, h, k
      <4>5. /\ rings' \in Seq(RingRec) /\ Rings' = Rings
            /\ \A r \in Rings : rings'[r].head = rings[r].head
        BY <3>2, <4>2, <4>3, <1>Swaps DEF Swapped
      <4>6. Shaped' /\ Grows(p)
        BY <3>1, <3>2, <3>4, <3>5, <4>1, <4>2, <4>3, <1>SwapsWell DEF k, Fits
      <4>7. /\ pc' \in [Procs -> Places] /\ pc'[p] = place
            /\ local' \in [Procs -> LocalRec] /\ local'[p] = local[p]
            /\ \A q \in Procs : q # p => pc'[q] = pc[q] /\ local'[q] = local[q]
        BY <3>4, <3>7, <4>2, <4>4, <1>Goes DEF Went
      <4>8. TypeOK' /\ Others(p)
        BY <3>1, <4>5, <4>7 DEF TypeOK, Others, history
      <4>9. Remembers(p)
        BY <3>1, <4>7, <1>StillRemembers
      <4>10. /\ pc'[p] \in Getting \cup {"idle"} /\ pc'[p] \notin Looking /\ pc'[p] \notin Checked
             /\ pc'[p] # "get_swing"
        BY <4>4, <4>7 DEF Getting, GetPlaced, Positioned, Looking, Checked
      <4>11. Writes(p) /\ WriterPlaced(p)'
        BY <3>6, <4>10, <1>WritesNot
      <4>12. ReaderPlaced(p)'
        BY <3>1, <3>2, <4>4, <4>5, <4>7 DEF ReaderPlaced
      <4>13. Reads(p)
        BY <3>6, <4>7, <4>10 DEF Reads
      <4>. QED
        BY <4>6, <4>8, <4>9, <4>11, <4>12, <4>13 DEF Effect, Placed
    <3>. QED
      BY <3>8, <3>9
  <2>1. CASE PutStep(p)
    BY <2>1, <2>PutTail, <2>PutNext, <2>PutHelp, <2>PutReserve, <2>PutRead, <2>PutUnsafe, <2>PutStore,
       <2>PutHead, <2>PutClose, <2>PutLink, <2>PutSwing DEF PutStep
  <2>2. CASE GetStep(p)
    BY <2>2, <2>GetHead, <2>GetReserve, <2>GetRead, <2>GetTake, <2>GetTail, <2>GetGiveUp, <2>GetClose,
       <2>GetCheck, <2>GetFixRead, <2>GetFix, <2>GetNext, <2>GetRecheck, <2>GetSwing DEF GetStep
  <2>. QED
    BY <2>1, <2>2, <2>Put, <2>Get DEF Step
<1>GoesTo. ASSUME TypeOK, NEW p \in Procs
           PROVE  /\ \A place : GoTo(p, place) => pc'[p] = place
                  /\ \A l : Keep(p, l) => local'[p] = l
  BY <1>GoesTo DEF TypeOK, GoTo, Keep
\* A step that changes no ring.
<1>TurnsNone. ASSUME NEW p \in Procs, rings' = rings, pc[p] \in Looking => Leaves(p),
                     pc'[p] = "put_store" => \/ ~local'[p].cell.unsafe
                                             \/ rings'[local'[p].rq].head < local'[p].t,
                     head' = head \/ (pc[p] = "get_swing" /\ head = local[p].rq /\ head' = local[p].rq + 1),
                     pc[p] = "put_swing" => local[p].rq + 1 \in 1 .. tail'
              PROVE  Turns(p)
  <2>. USE <1>TurnsNone
  <2>1. \A r \in Rings, i \in Slots : Alters(p, r, i)
    BY DEF Alters
  <2>2. Rings' = Rings
    BY DEF Rings
  <2>. QED
    BY <2>1, <2>2 DEF Turns
\* Nor does it make the process wait for a position, or store.
<1>TurnsNothing. ASSUME NEW p \in Procs, rings' = rings, head' = head, pc[p] \notin Looking,
                        pc'[p] # "put_store", pc[p] # "put_swing"
                 PROVE  Turns(p)
  BY <1>TurnsNothing, <1>TurnsNone
\* A reader that waits keeps its position.
<1>WaitsOn. ASSUME NEW p \in Procs, Effect(p), pc[p] \in Looking, pc'[p] \in Looking
            PROVE  Leaves(p)
  <2>. USE <1>WaitsOn
  <2>1. pc'[p] \in GetPlaced /\ pc[p] # "get_head" /\ pc[p] # "get_reserve"
    BY DEF Looking, GetPlaced, Positioned
  <2>. QED
    BY <2>1 DEF Effect, Reads, Leaves
\* A step that changes the fields of a ring, but neither its cells nor its head.
<1>TurnsRing. ASSUME TypeOK, NEW p \in Procs, local[p].rq \in Rings, NEW x \in RingRec,
                     SetRing(p, x), x.array = Ring(p).array, x.head = Ring(p).head, head' = head,
                     pc[p] \notin Looking, pc'[p] # "put_store", pc[p] # "put_swing"
              PROVE  Turns(p)
  <2>. USE <1>TurnsRing
  <2>1. /\ Rings' = Rings /\ rings'[local[p].rq] = x
        /\ \A s \in Rings : s # local[p].rq => rings'[s] = rings[s]
    BY <1>Replaced DEF SetRing
  <2>2. \A r \in Rings : rings'[r].array = rings[r].array /\ rings'[r].head = rings[r].head
    BY <2>1 DEF Ring
  <2>3. \A r \in Rings, i \in Slots : Alters(p, r, i)
    BY <2>2 DEF Alters
  <2>. QED
    BY <2>1, <2>2, <2>3 DEF Turns
\* A step that changes the cell of a position.
<1>TurnsCell. ASSUME TypeOK, NEW p \in Procs, local[p].rq \in Rings, NEW c \in CellRec,
                     SetCell(p, c), Alters(p, local[p].rq, Cell(local[p].t)), head' = head,
                     pc[p] \in Looking => Leaves(p), pc'[p] # "put_store", pc[p] # "put_swing"
              PROVE  Turns(p)
  <2>. USE <1>TurnsCell
  <2>1. /\ Rings' = Rings
        /\ \A r \in Rings : rings'[r].head = rings[r].head
        /\ \A r \in Rings, i \in Slots : \/ r = local[p].rq /\ i = Cell(local[p].t)
                                         \/ rings'[r].array[i] = rings[r].array[i]
    BY <1>Swaps DEF Swapped
  <2>2. \A r \in Rings, i \in Slots :
          rings'[r].array[i] = rings[r].array[i] => Alters(p, r, i)
    BY DEF Alters
  <2>3. \A r \in Rings, i \in Slots : Alters(p, r, i)
    BY <2>1, <2>2
  <2>. QED
    BY <2>1, <2>3 DEF Turns
<1>StepTurns. ASSUME TypeOK, Shaped, NEW p \in Procs, Placed(p), Step(p), Effect(p)
              PROVE  Turns(p)
  <2>. USE <1>StepTurns
  <2>PutNone. CASE Put(p) \/ PutTail(p) \/ PutNext(p) \/ PutHelp(p) \/ PutHead(p)
    <3>. USE <2>PutNone
    <3>1. CASE Put(p)
      <4>1. rings' = rings /\ head' = head /\ pc[p] = "idle" /\ pc'[p] = "put_tail"
        BY <3>1, <1>GoesTo DEF Put, At, shared
      <4>. QED
        BY <4>1, <1>TurnsNothing DEF Looking
    <3>2. CASE PutTail(p)
      <4>1. rings' = rings /\ head' = head /\ pc[p] = "put_tail" /\ pc'[p] = "put_next"
        BY <3>2, <1>GoesTo DEF PutTail, At, shared
      <4>. QED
        BY <4>1, <1>TurnsNothing DEF Looking
    <3>3. CASE PutNext(p)
      <4>1. /\ rings' = rings /\ head' = head /\ pc[p] = "put_next"
            /\ pc'[p] = IF Ring(p).next = NULL THEN "put_reserve" ELSE "put_help"
        BY <3>3, <1>GoesTo DEF PutNext, At, shared
      <4>. QED
        BY <4>1, <1>TurnsNothing DEF Looking
    <3>4. CASE PutHelp(p)
      <4>1. rings' = rings /\ head' = head /\ pc[p] = "put_help" /\ pc'[p] = "put_tail"
        BY <3>4, <1>GoesTo DEF PutHelp, At
      <4>. QED
        BY <4>1, <1>TurnsNothing DEF Looking
    <3>5. CASE PutHead(p)
      <4>1. /\ rings' = rings /\ head' = head /\ pc[p] = "put_head"
            /\ pc'[p] = IF local[p].t - Ring(p).head >= RING_SIZE THEN "put_close" ELSE "put_tail"
        BY <3>5, <1>GoesTo DEF PutHead, At, shared
      <4>. QED
        BY <4>1, <1>TurnsNothing DEF Looking
    <3>. QED
      BY <3>1, <3>2, <3>3, <3>4, <3>5
  <2>GetNone. CASE Get(p) \/ GetHead(p) \/ GetCheck(p) \/ GetFixRead(p) \/ GetNext(p) \/ GetRecheck(p)
    <3>. USE <2>GetNone
    <3>1. CASE Get(p)
      <4>1. rings' = rings /\ head' = head /\ pc[p] = "idle" /\ pc'[p] = "get_head"
        BY <3>1, <1>GoesTo DEF Get, At, shared
      <4>. QED
        BY <4>1, <1>TurnsNothing DEF Looking
    <3>2. CASE GetHead(p)
      <4>1. rings' = rings /\ head' = head /\ pc[p] = "get_head" /\ pc'[p] = "get_reserve"
        BY <3>2, <1>GoesTo DEF GetHead, At, shared
      <4>. QED
        BY <4>1, <1>TurnsNothing DEF Looking
    <3>3. CASE GetCheck(p)
      <4>1. /\ rings' = rings /\ head' = head /\ pc[p] = "get_check"
            /\ pc'[p] = IF Ring(p).tail <= local[p].t + 1 THEN "get_fix_read" ELSE "get_head"
        BY <3>3, <1>GoesTo DEF GetCheck, At, shared
      <4>. QED
        BY <4>1, <1>TurnsNothing DEF Looking
    <3>4. CASE GetFixRead(p)
      <4>1. /\ rings' = rings /\ head' = head /\ pc[p] = "get_fix_read"
            /\ pc'[p] = "get_fix" \/ pc'[p] = "get_next"
        BY <3>4, <1>GoesTo DEF GetFixRead, At, shared
      <4>. QED
        BY <4>1, <1>TurnsNothing DEF Looking
    <3>5. CASE GetNext(p)
      <4>1. /\ rings' = rings /\ head' = head /\ pc[p] = "get_next"
            /\ pc'[p] = "idle" \/ pc'[p] = "get_recheck"
        BY <3>5, <1>GoesTo DEF GetNext, GetReturns, At, shared
      <4>. QED
        BY <4>1, <1>TurnsNothing DEF Looking
    <3>6. CASE GetRecheck(p)
      <4>1. /\ rings' = rings /\ head' = head /\ pc[p] = "get_recheck"
            /\ pc'[p] = IF Ring(p).tail <= local[p].t + 1 THEN "get_swing" ELSE "get_head"
        BY <3>6, <1>GoesTo DEF GetRecheck, At, shared
      <4>. QED
        BY <4>1, <1>TurnsNothing DEF Looking
    <3>. QED
      BY <3>1, <3>2, <3>3, <3>4, <3>5, <3>6
  \* A writer goes on to store in a cell that is safe, or before the readers.
  <2>PutRead. CASE PutRead(p)
    <3>. USE <2>PutRead
    <3> DEFINE cell == Ring(p).array[Cell(local[p].t)]
    <3>1. /\ rings' = rings /\ head' = head /\ pc[p] = "put_read"
          /\ local'[p] = [local[p] EXCEPT !.cell = cell]
          /\ pc'[p] = IF cell.val # Empty \/ cell.idx > local[p].t THEN "put_head"
                      ELSE IF cell.unsafe THEN "put_unsafe" ELSE "put_store"
      BY <1>GoesTo DEF PutRead, At, shared
    <3>2. local[p] \in LocalRec /\ local[p].t \in Nat /\ Cell(local[p].t) \in Slots
      BY LocalIs, CellFacts DEF TypeOK
    <3>3. local[p].rq \in Rings
      BY <3>1, InRings DEF Placed, WriterPlaced, PutPlaced
    <3>4. cell \in CellRec
      BY <3>2, <3>3, RingIs DEF Ring
    <3>. HIDE DEF cell
    <3>5. local'[p].cell = cell
      <4> DEFINE l == [local[p] EXCEPT !.cell = cell]
      <4>1. l.cell = cell
        BY <3>2, <3>4, <1>WithRead
      <4>. QED
        BY <3>1, <4>1
    <3>6. pc'[p] = "put_store" => ~local'[p].cell.unsafe
      BY <3>1, <3>5
    <3>. QED
      BY <3>1, <3>6, <1>TurnsNone DEF Looking
  <2>PutUnsafe. CASE PutUnsafe(p)
    <3>. USE <2>PutUnsafe
    <3>1. /\ rings' = rings /\ head' = head /\ pc[p] = "put_unsafe" /\ local' = local
          /\ pc'[p] = IF rings[local[p].rq].head < local[p].t THEN "put_store" ELSE "put_head"
      BY <1>GoesTo DEF PutUnsafe, At, shared, Ring
    <3>2. pc'[p] = "put_store" => rings'[local'[p].rq].head < local'[p].t
      BY <3>1
    <3>. QED
      BY <3>1, <3>2, <1>TurnsNone DEF Looking
  <2>PutSwing. CASE PutSwing(p)
    <3>. USE <2>PutSwing
    <3>1. /\ rings' = rings /\ head' = head /\ pc[p] = "put_swing" /\ pc'[p] = "idle"
          /\ tail' = IF tail = local[p].rq THEN Ring(p).next ELSE tail
      BY <1>GoesTo DEF PutSwing, PutReturns, At
    <3>2. local[p].rq \in 1 .. tail /\ local[p].rq + 1 \in Rings
      BY <3>1 DEF Placed, WriterPlaced, PutPlaced
    <3>3. local[p].rq + 1 \in 1 .. tail'
      BY <3>1, <3>2, <1>TailMoves
    <3>. QED
      BY <3>1, <3>3, <1>TurnsNone DEF Looking
  <2>GetSwing. CASE GetSwing(p)
    <3>. USE <2>GetSwing
    <3>1. /\ rings' = rings /\ pc[p] = "get_swing" /\ pc'[p] = "get_head"
          /\ head' = IF head = local[p].rq THEN rings[local[p].rq].next ELSE head
      BY <1>GoesTo DEF GetSwing, At, Ring
    <3>2. local[p].rq \in Rings /\ local[p].rq + 1 \in Rings
      BY <3>1, InRings DEF Placed, ReaderPlaced, GetPlaced, Positioned, Checked
    <3>3. rings[local[p].rq].next = local[p].rq + 1
      BY <3>2 DEF Shaped
    <3>4. head' = head \/ (pc[p] = "get_swing" /\ head = local[p].rq /\ head' = local[p].rq + 1)
      BY <3>1, <3>3
    <3>. QED
      BY <3>1, <3>4, <1>TurnsNone DEF Looking
  <2>GetRead. CASE GetRead(p)
    <3>. USE <2>GetRead
    <3> DEFINE cell == Ring(p).array[Cell(local[p].t)]
    <3>1. /\ rings' = rings /\ head' = head /\ pc[p] = "get_read"
          /\ pc'[p] = IF cell.idx > local[p].t THEN "get_check"
                      ELSE IF cell.val # Empty THEN "get_take" ELSE "get_tail"
      BY <1>GoesTo DEF GetRead, At, shared
    <3>2. local[p].t \in Nat /\ Cell(local[p].t) \in Slots
      BY LocalIs, CellFacts DEF TypeOK
    <3>3. local[p].rq \in Rings
      BY <3>1, InRings DEF Placed, ReaderPlaced, GetPlaced, Positioned, Looking
    <3>4. cell.idx \in Nat /\ cell = rings'[local[p].rq].array[Cell(local[p].t)]
      BY <3>1, <3>2, <3>3, RingIs DEF Ring
    <3>. HIDE DEF cell
    <3>5. cell.idx > local[p].t => local[p].t < cell.idx
      BY SMTT(30), <3>2, <3>4
    <3>6. Leaves(p)
      <4>1. CASE cell.idx > local[p].t
        BY <3>4, <3>5, <4>1 DEF Leaves
      <4>2. CASE ~(cell.idx > local[p].t)
        BY <3>1, <4>2, <1>WaitsOn DEF Looking
      <4>. QED
        BY <4>1, <4>2
    <3>7. pc'[p] # "put_store"
      BY <3>1
    <3>. QED
      BY <3>1, <3>6, <3>7, <1>TurnsNone
  <2>GetTail. CASE GetTail(p)
    <3>. USE <2>GetTail
    <3>1. /\ rings' = rings /\ head' = head /\ pc[p] = "get_tail"
          /\ pc'[p] = "get_give_up" \/ pc'[p] = "get_read"
      BY <1>GoesTo DEF GetTail, At, shared
    <3>2. Leaves(p)
      BY <3>1, <1>WaitsOn DEF Looking
    <3>. QED
      BY <3>1, <3>2, <1>TurnsNone
  <2>PutReserve. CASE PutReserve(p)
    <3>. USE <2>PutReserve
    <3> DEFINE n == Ring(p).tail
               x == [Ring(p) EXCEPT !.tail = n + 1]
    <3>1. /\ pc[p] = "put_reserve" /\ SetRing(p, x) /\ head' = head
          /\ pc'[p] = IF Ring(p).closed THEN "put_link" ELSE "put_read"
      BY <1>GoesTo DEF PutReserve, At
    <3>2. local[p].rq \in Rings
      BY <3>1, InRings DEF Placed, WriterPlaced, PutPlaced
    <3>3. Ring(p) \in RingRec /\ n \in Nat
      BY <3>2, RingIs DEF Ring
    <3>4. n + 1 \in Nat
      BY SMTT(30), <3>3
    <3>5. x \in RingRec /\ x.head = Ring(p).head /\ x.array = Ring(p).array
      BY <3>3, <3>4, <1>RingWithTail
    <3>6. pc[p] \notin Looking /\ pc'[p] # "put_store" /\ pc[p] # "put_swing"
      BY <3>1 DEF Looking
    <3>. HIDE DEF n, x
    <3>. QED
      BY <3>1, <3>2, <3>5, <3>6, <1>TurnsRing
  <2>PutClose. CASE PutClose(p)
    <3>. USE <2>PutClose
    <3> DEFINE closes == /\ ~Ring(p).closed
                         /\ local[p].tries < CloseTries => Ring(p).tail = local[p].t + 1
               b == Ring(p).closed \/ closes
               x == [Ring(p) EXCEPT !.closed = b]
    <3>1. /\ pc[p] = "put_close" /\ SetRing(p, x) /\ head' = head
          /\ pc'[p] = IF closes THEN "put_link" ELSE "put_tail"
      BY <1>GoesTo DEF PutClose, At
    <3>2. local[p].rq \in Rings
      BY <3>1, InRings DEF Placed, WriterPlaced, PutPlaced
    <3>3. Ring(p) \in RingRec
      BY <3>2, RingIs DEF Ring
    <3>. HIDE DEF closes
    <3>4. b \in BOOLEAN
      OBVIOUS
    <3>. HIDE DEF b
    <3>5. x \in RingRec /\ x.head = Ring(p).head /\ x.array = Ring(p).array
      BY <3>3, <3>4, <1>RingWithClosed
    <3>6. pc[p] \notin Looking /\ pc'[p] # "put_store" /\ pc[p] # "put_swing"
      BY <3>1 DEF Looking
    <3>. HIDE DEF x
    <3>. QED
      BY <3>1, <3>2, <3>5, <3>6, <1>TurnsRing
  <2>GetClose. CASE GetClose(p)
    <3>. USE <2>GetClose
    <3> DEFINE x == [Ring(p) EXCEPT !.closed = TRUE]
    <3>1. pc[p] = "get_close" /\ SetRing(p, x) /\ head' = head /\ pc'[p] = "get_check"
      BY <1>GoesTo DEF GetClose, At
    <3>2. local[p].rq \in Rings
      BY <3>1, InRings DEF Placed, ReaderPlaced, GetPlaced, Positioned
    <3>3. Ring(p) \in RingRec
      BY <3>2, RingIs DEF Ring
    <3>4. x \in RingRec /\ x.head = Ring(p).head /\ x.array = Ring(p).array
      BY <3>3, <1>RingWithClosed
    <3>5. pc[p] \notin Looking /\ pc'[p] # "put_store" /\ pc[p] # "put_swing"
      BY <3>1 DEF Looking
    <3>. HIDE DEF x
    <3>. QED
      BY <3>1, <3>2, <3>4, <3>5, <1>TurnsRing
  <2>GetFix. CASE GetFix(p)
    <3>. USE <2>GetFix
    <3>1. pc[p] = "get_fix" /\ head' = head
      BY DEF GetFix, At
    <3>2. local[p].rq \in Rings
      BY <3>1, InRings DEF Placed, ReaderPlaced, GetPlaced, Positioned, Checked
    <3>3. CASE Ring(p).tail = local[p].tt.tail /\ ~Ring(p).closed
      <4> DEFINE n == local[p].fix
                 x == [Ring(p) EXCEPT !.tail = n]
      <4>1. SetRing(p, x) /\ pc'[p] = "get_next"
        BY <3>3, <1>GoesTo DEF GetFix
      <4>2. Ring(p) \in RingRec /\ n \in Nat
        BY <3>2, RingIs, LocalIs DEF Ring, TypeOK
      <4>. HIDE DEF n
      <4>3. x \in RingRec /\ x.head = Ring(p).head /\ x.array = Ring(p).array
        BY <4>2, <1>RingWithTail
      <4>4. pc[p] \notin Looking /\ pc'[p] # "put_store" /\ pc[p] # "put_swing"
        BY <3>1, <4>1 DEF Looking
      <4>. HIDE DEF x
      <4>. QED
        BY <3>1, <3>2, <4>1, <4>3, <4>4, <1>TurnsRing
    <3>4. CASE ~(Ring(p).tail = local[p].tt.tail /\ ~Ring(p).closed)
      <4>1. rings' = rings /\ pc'[p] = "get_fix_read"
        BY <3>4, <1>GoesTo DEF GetFix
      <4>. QED
        BY <3>1, <4>1, <1>TurnsNothing DEF Looking
    <3>. QED
      BY <3>3, <3>4
  \* The position that a reader reserves is waited for.
  <2>GetReserve. CASE GetReserve(p)
    <3>. USE <2>GetReserve
    <3> DEFINE n == Ring(p).head
               x == [Ring(p) EXCEPT !.head = n + 1]
               l == [local[p] EXCEPT !.t = n, !.spun = FALSE, !.late = FALSE]
    <3>1. /\ pc[p] = "get_reserve" /\ pc'[p] = "get_read" /\ local'[p] = l /\ SetRing(p, x)
          /\ head' = head
      BY <1>GoesTo DEF GetReserve, At
    <3>2. local[p].rq \in Rings
      BY <3>1, InRings DEF Placed, ReaderPlaced, GetPlaced
    <3>3. Ring(p) \in RingRec /\ n \in Nat
      BY <3>2, RingIs DEF Ring
    <3>4. n + 1 \in Nat /\ \A m \in Nat : m < n + 1 => m < n \/ m = n
      BY SMTT(30), <3>3
    <3>5. x \in RingRec /\ x.head = n + 1 /\ x.array = Ring(p).array
      BY <3>3, <3>4, <1>RingWithHead
    <3>6. l.t = n /\ SameButPosition(l, local[p])
      BY <3>3, <1>WithTurn DEF TypeOK
    <3>7. Ring(p) = rings[local[p].rq] /\ n = rings[local[p].rq].head
      BY DEF Ring
    <3>. HIDE DEF n, x, l
    <3>8. local'[p].t = n /\ local'[p].rq = local[p].rq /\ pc'[p] \in Looking
      BY <3>1, <3>6 DEF SameButPosition, Looking
    <3>9. /\ Rings' = Rings /\ rings'[local[p].rq] = x
          /\ \A s \in Rings : s # local[p].rq => rings'[s] = rings[s]
      BY <3>1, <3>2, <3>5, <1>Replaced DEF SetRing
    <3>10. \A r \in Rings : rings'[r].array = rings[r].array
      BY <3>5, <3>7, <3>9
    <3>11. \A r \in Rings, i \in Slots : Alters(p, r, i)
      BY <3>10 DEF Alters
    <3>12. ASSUME NEW r \in Rings, NEW m \in Nat, m < rings'[r].head
           PROVE  \/ m < rings[r].head
                  \/ pc'[p] \in Looking /\ local'[p].rq = r /\ local'[p].t = m
      <4>1. CASE r = local[p].rq
        BY <3>4, <3>5, <3>7, <3>8, <3>9, <3>12, <4>1
      <4>2. CASE r # local[p].rq
        BY <3>9, <3>12, <4>2
      <4>. QED
        BY <4>1, <4>2
    <3>13. pc[p] \notin Looking /\ pc'[p] # "put_store" /\ pc[p] # "put_swing"
      BY <3>1 DEF Looking
    <3>. QED
      BY <3>1, <3>9, <3>11, <3>12, <3>13 DEF Turns
  <2>PutLink. CASE PutLink(p)
    <3>. USE <2>PutLink
    <3>1. pc[p] = "put_link" /\ head' = head
      BY DEF PutLink, At
    <3>2. local[p].rq \in Rings
      BY <3>1, InRings DEF Placed, WriterPlaced, PutPlaced
    <3>3. CASE Ring(p).next = NULL
      <4> DEFINE n == Len(rings) + 1
                 x == [Ring(p) EXCEPT !.next = n]
                 y == SoloRing(local[p].arg)
      <4>1. rings' = Append([rings EXCEPT ![local[p].rq] = x], y) /\ pc'[p] = "put_swing"
        BY <3>3, <1>GoesTo DEF PutLink, Ring
      <4>2. y \in RingRec /\ y.head = 0
        BY LocalIs, <1>SoloRingType DEF TypeOK
      <4>3. n \in Nat
        BY SMTT(30) DEF TypeOK
      <4>4. Ring(p) \in RingRec
        BY <3>2, RingIs DEF Ring
      <4>5. x \in RingRec /\ x.head = Ring(p).head /\ x.array = Ring(p).array
        BY <4>3, <4>4, <1>RingWithNext
      <4>. HIDE DEF x, y
      <4>6. /\ \A s \in Rings' : s \in Rings \/ s = n
            /\ rings'[local[p].rq] = x /\ rings'[n] = y
            /\ \A s \in Rings : s # local[p].rq => rings'[s] = rings[s]
        <5>1. Extended(local[p].rq, x, y)
          BY <3>2, <4>1, <4>2, <4>5, <1>Added
        <5>. QED
          BY <5>1 DEF Extended
      <4>. HIDE DEF n
      <4>7. \A r \in Rings : rings'[r].array = rings[r].array /\ rings'[r].head = rings[r].head
        BY <4>5, <4>6 DEF Ring
      <4>8. \A r \in Rings, i \in Slots : Alters(p, r, i)
        BY <4>7 DEF Alters
      <4>9. pc[p] \notin Looking /\ pc'[p] # "put_store" /\ pc[p] # "put_swing"
        BY <3>1, <4>1 DEF Looking
      <4>. QED
        BY <3>1, <4>2, <4>6, <4>7, <4>8, <4>9 DEF Turns
    <3>4. CASE Ring(p).next # NULL
      <4>1. rings' = rings /\ pc'[p] = "put_tail"
        BY <3>4, <1>GoesTo DEF PutLink
      <4>. QED
        BY <3>1, <4>1, <1>TurnsNothing DEF Looking
    <3>. QED
      BY <3>3, <3>4
  <2>PutStore. CASE PutStore(p)
    <3>. USE <2>PutStore
    <3>1. pc[p] = "put_store" /\ head' = head /\ pc[p] \notin Looking
      BY DEF PutStore, At, Looking
    <3>2. local[p].rq \in Rings
      BY <3>1, InRings DEF Placed, WriterPlaced, PutPlaced
    <3>3. CASE CellIsAsRead(p)
      <4> DEFINE c == [val |-> local[p].arg, idx |-> local[p].t, unsafe |-> FALSE]
      <4>1. SetCell(p, c) /\ pc'[p] = "idle"
        BY <3>3, <1>GoesTo DEF PutStore, PutReturns
      <4>2. c \in CellRec /\ c.val = local[p].arg /\ c.idx = local[p].t
        BY LocalIs DEF CellRec, TypeOK
      <4>. HIDE DEF c
      <4>3. rings'[local[p].rq].array[Cell(local[p].t)] = c
        BY <3>2, <4>1, <4>2, <1>Swaps DEF Swapped
      <4>4. rings[local[p].rq].array[Cell(local[p].t)] = local[p].cell
        BY <3>3 DEF CellIsAsRead, Ring
      <4>5. Alters(p, local[p].rq, Cell(local[p].t))
        BY <3>1, <4>2, <4>3, <4>4 DEF Alters
      <4>. QED
        BY <3>1, <3>2, <4>1, <4>2, <4>5, <1>TurnsCell
    <3>4. CASE ~CellIsAsRead(p)
      <4>1. rings' = rings /\ pc'[p] = "put_head"
        BY <3>4, <1>GoesTo DEF PutStore
      <4>. QED
        BY <3>1, <4>1, <1>TurnsNothing
    <3>. QED
      BY <3>3, <3>4
  \* What a reader leaves: the cell is for a later position, or holds an earlier
  \* value and is unsafe.
  <2>GetTake. CASE GetTake(p)
    <3>. USE <2>GetTake
    <3> DEFINE cell == local[p].cell
               h == local[p].t
               k == Cell(local[p].t)
    <3>1. pc[p] = "get_take" /\ head' = head /\ pc[p] \in Looking
      BY DEF GetTake, At, Looking
    <3>2. local[p].rq \in Rings
      BY <3>1, InRings DEF Placed, ReaderPlaced, GetPlaced, Positioned, Looking
    <3>3. cell.val # Empty /\ cell.idx <= h
      BY <3>1 DEF Placed, ReaderPlaced
    <3>4. h \in Nat /\ cell \in CellRec /\ cell.idx \in Nat
      BY LocalIs DEF TypeOK
    <3>5. h + RING_SIZE \in Nat /\ h < h + RING_SIZE
      BY SMTT(30), <3>4, LcrqAssumption
    <3>6. CASE ~CellIsAsRead(p)
      <4>1. rings' = rings /\ pc'[p] = "get_read"
        BY <3>1, <3>6, <1>GoesTo DEF GetTake
      <4>2. Leaves(p)
        BY <3>1, <4>1, <1>WaitsOn DEF Looking
      <4>. QED
        BY <3>1, <4>1, <4>2, <1>TurnsNone
    <3>7. CASE CellIsAsRead(p) /\ cell.idx = h
      <4> DEFINE c == [cell EXCEPT !.val = Empty, !.idx = h + RING_SIZE]
      <4>1. SetCell(p, c) /\ pc'[p] = "idle"
        BY <3>7, <1>GoesTo DEF GetTake, GetReturns
      <4>2. c \in CellRec /\ c.val = Empty /\ c.idx = h + RING_SIZE /\ c.unsafe = cell.unsafe
        BY <3>4, <3>5, <1>CellWith
      <4>. HIDE DEF c
      <4>3. rings'[local[p].rq].array[k] = c
        BY <3>2, <4>1, <4>2, <1>Swaps DEF Swapped
      <4>4. rings[local[p].rq].array[k] = cell
        BY <3>7 DEF CellIsAsRead, Ring
      <4>5. Alters(p, local[p].rq, Cell(local[p].t))
        BY <3>5, <3>7, <4>2, <4>3, <4>4 DEF Alters
      <4>6. Leaves(p)
        BY <3>5, <4>2, <4>3 DEF Leaves
      <4>. QED
        BY <3>1, <3>2, <4>1, <4>2, <4>5, <4>6, <1>TurnsCell
    <3>8. CASE CellIsAsRead(p) /\ cell.idx # h
      <4> DEFINE c == [cell EXCEPT !.unsafe = TRUE]
      <4>1. SetCell(p, c) /\ pc'[p] = "get_check"
        BY <3>8, <1>GoesTo DEF GetTake
      <4>2. c \in CellRec /\ c.val = cell.val /\ c.idx = cell.idx /\ c.unsafe
        BY <3>4, <1>CellWith
      <4>. HIDE DEF c
      <4>3. rings'[local[p].rq].array[k] = c
        BY <3>2, <4>1, <4>2, <1>Swaps DEF Swapped
      <4>4. rings[local[p].rq].array[k] = cell
        BY <3>8 DEF CellIsAsRead, Ring
      <4>5. Alters(p, local[p].rq, Cell(local[p].t))
        BY <3>3, <4>2, <4>3, <4>4 DEF Alters
      <4>6. Leaves(p)
        BY <3>3, <3>8, <4>2, <4>3 DEF Leaves
      <4>. QED
        BY <3>1, <3>2, <4>1, <4>2, <4>5, <4>6, <1>TurnsCell
    <3>. QED
      BY <3>6, <3>7, <3>8
  <2>GetGiveUp. CASE GetGiveUp(p)
    <3>. USE <2>GetGiveUp
    <3> DEFINE cell == local[p].cell
               h == local[p].t
               k == Cell(local[p].t)
    <3>1. pc[p] = "get_give_up" /\ head' = head /\ pc[p] \in Looking
      BY DEF GetGiveUp, At, Looking
    <3>2. local[p].rq \in Rings
      BY <3>1, InRings DEF Placed, ReaderPlaced, GetPlaced, Positioned, Looking
    <3>3. cell.val = Empty /\ cell.idx <= h
      BY <3>1 DEF Placed, ReaderPlaced
    <3>4. h \in Nat /\ cell \in CellRec /\ cell.idx \in Nat
      BY LocalIs DEF TypeOK
    <3>5. h + RING_SIZE \in Nat /\ h < h + RING_SIZE /\ cell.idx < h + RING_SIZE
      BY SMTT(30), <3>3, <3>4, LcrqAssumption
    <3>6. CASE ~CellIsAsRead(p)
      <4>1. rings' = rings /\ pc'[p] = "get_read"
        BY <3>6, <1>GoesTo DEF GetGiveUp
      <4>2. Leaves(p)
        BY <3>1, <4>1, <1>WaitsOn DEF Looking
      <4>. QED
        BY <3>1, <4>1, <4>2, <1>TurnsNone
    <3>7. CASE CellIsAsRead(p)
      <4> DEFINE c == [cell EXCEPT !.idx = h + RING_SIZE]
      <4>1. SetCell(p, c) /\ pc'[p] \in {"get_close", "get_check"}
        BY <3>7, <1>GoesTo DEF GetGiveUp
      <4>2. c \in CellRec /\ c.val = Empty /\ c.idx = h + RING_SIZE /\ c.unsafe = cell.unsafe
        BY <3>3, <3>4, <3>5, <1>CellWith
      <4>. HIDE DEF c
      <4>3. rings'[local[p].rq].array[k] = c
        BY <3>2, <4>1, <4>2, <1>Swaps DEF Swapped
      <4>4. rings[local[p].rq].array[k] = cell
        BY <3>7 DEF CellIsAsRead, Ring
      <4>5. Alters(p, local[p].rq, Cell(local[p].t))
        BY <3>5, <4>2, <4>3, <4>4 DEF Alters
      <4>6. Leaves(p)
        BY <3>5, <4>2, <4>3 DEF Leaves
      <4>7. pc'[p] # "put_store" /\ pc[p] # "put_swing"
        BY <3>1, <4>1
      <4>. QED
        BY <3>1, <3>2, <4>1, <4>2, <4>5, <4>6, <4>7, <1>TurnsCell
    <3>. QED
      BY <3>6, <3>7
  <2>1. CASE Put(p) \/ PutStep(p)
    BY <2>1, <2>PutNone, <2>PutReserve, <2>PutRead, <2>PutUnsafe, <2>PutStore,
       <2>PutClose, <2>PutLink, <2>PutSwing DEF PutStep
  <2>2. CASE Get(p) \/ GetStep(p)
    BY <2>2, <2>GetNone, <2>GetReserve, <2>GetRead, <2>GetTake, <2>GetTail,
       <2>GetGiveUp, <2>GetClose, <2>GetFix, <2>GetSwing DEF GetStep
  <2>. QED
    BY <2>1, <2>2 DEF Step
<1>. QED
  BY <1>StepIs, <1>StepTurns

-----------------------------------------------------------------------------
(* The other processes stay where they are. *)

\* A step of one process leaves every other with its ring and its position:
\* what they need of the shared state only grows.
LEMMA OthersPlaced ==
  ASSUME TypeOK, Shaped, NEW p \in Procs, Others(p), Grows(p),
         NEW q \in Procs, q # p, Placed(q)
  PROVE  Placed(q)'
<1>1. pc'[q] = pc[q] /\ local'[q] = local[q]
  BY DEF Others
<1>2. /\ local[q].t \in Nat /\ local[q].cell.idx \in Nat /\ Cell(local[q].t) \in Slots
  BY LocalIs, CellFacts DEF TypeOK
<1>3. WriterPlaced(q)'
  <2>1. pc[q] \in PutPlaced => local[q].rq \in 1 .. tail /\ local[q].rq \in Rings
    BY InRings DEF Placed, WriterPlaced
  <2>2. pc[q] \in PutPlaced => local[q].rq \in 1 .. tail'
    BY <2>1 DEF Grows
  <2>3. pc[q] \in {"put_help", "put_swing"} => local[q].rq + 1 \in Rings'
    BY DEF Placed, WriterPlaced, Grows
  <2>4. pc[q] = "put_link" => rings'[local[q].rq].closed
    BY <2>1 DEF Placed, WriterPlaced, Grows, PutPlaced
  <2>5. pc[q] \in Storing => local[q].t < rings'[local[q].rq].tail
    BY <1>2, <2>1 DEF Placed, WriterPlaced, Grows, PutPlaced, Storing
  <2>6. pc[q] \in {"put_unsafe", "put_store"} =>
          local[q].cell.idx <= Idx(rings', local[q].rq, Cell(local[q].t))
    BY <1>2, <2>1 DEF Placed, WriterPlaced, Grows, PutPlaced
  <2>. QED
    BY <1>1, <2>2, <2>3, <2>4, <2>5, <2>6 DEF Placed, WriterPlaced
<1>4. ReaderPlaced(q)'
  <2>1. pc[q] \in GetPlaced => local[q].rq \in 1 .. head /\ local[q].rq \in Rings
    BY InRings DEF Placed, ReaderPlaced
  <2>2. pc[q] \in GetPlaced => local[q].rq \in 1 .. head'
    BY <2>1 DEF Grows
  <2>3. pc[q] \in {"get_recheck", "get_swing"} => local[q].rq + 1 \in Rings'
    BY DEF Placed, ReaderPlaced, Grows
  <2>4. pc[q] \in Positioned => local[q].t < rings'[local[q].rq].head
    BY <1>2, <2>1 DEF Placed, ReaderPlaced, Grows, GetPlaced
  <2>. QED
    BY <1>1, <2>2, <2>3, <2>4 DEF Placed, ReaderPlaced
<1>. QED
  BY <1>3, <1>4 DEF Placed

\* All of them have their place.
AllPlaced == \A p \in Procs : Placed(p)

\* So all of them have their place after a step.
LEMMA StepPlaced ==
  ASSUME TypeOK, Shaped, AllPlaced, NEW p \in Procs, Step(p)
  PROVE  Effect(p) /\ AllPlaced'
<1>1. Effect(p)
  BY StepDoes DEF AllPlaced
<1>2. ASSUME NEW q \in Procs
      PROVE  Placed(q)'
  BY <1>1, OthersPlaced DEF AllPlaced, Effect
<1>. QED
  BY <1>1, <1>2 DEF AllPlaced

-----------------------------------------------------------------------------
(* A value is with its writer, in one cell, or read. *)

\* A writer has a value that no other has and that is nowhere else until it is stored.
Owned(p) ==
  /\ pc[p] \in Putting => local[p].arg \in 1 .. puts /\ local[p].arg \notin written
  /\ pc[p] \in Unstored => /\ local[p].arg \notin read
                           /\ \A r \in Rings, i \in Slots : Val(rings, r, i) # local[p].arg
AllOwned == \A p \in Procs : Owned(p)
Distinct == \A p, q \in Procs :
              p # q /\ pc[p] \in Putting /\ pc[q] \in Putting => local[p].arg # local[q].arg

Single == \A r \in Rings, i \in Slots : \A s \in Rings, j \in Slots :
            Val(rings, r, i) # Empty /\ Val(rings, r, i) = Val(rings, s, j) => r = s /\ i = j
Unread == \A r \in Rings, i \in Slots :
            Val(rings, r, i) # Empty => /\ Val(rings, r, i) \in 1 .. puts
                                        /\ Val(rings, r, i) \notin read
Begun == read \subseteq 1 .. puts /\ written \subseteq 1 .. puts
Returned == \A p \in Procs : result[p] \in read \cup {Empty, NoResult}
Different == \A p, q \in Procs : p # q /\ result[p] \in read => result[p] # result[q]

\* No value is lost.
Accounted ==
  \A v \in 1 .. puts : \/ v \in read
                       \/ \E r \in Rings, i \in Slots : Val(rings, r, i) = v
                       \/ \E p \in Procs : pc[p] \in Unstored /\ local[p].arg = v
Finished ==
  \A v \in 1 .. puts : v \in written \/ \E p \in Procs : pc[p] \in Putting /\ local[p].arg = v

Valued ==
  /\ AllOwned /\ Distinct /\ Single /\ Unread /\ Begun /\ Returned /\ Different
  /\ Accounted /\ Finished

\* A value that was given is neither Empty, nor NoResult, nor the next one.
LEMMA Numbers ==
  ASSUME TypeOK
  PROVE  /\ Empty \notin 1 .. puts /\ NoResult \notin 1 .. puts
         /\ puts + 1 \notin 1 .. puts /\ puts + 1 \in 1 .. puts + 1
         /\ 1 .. puts \subseteq Nat
  BY SMTT(30) DEF TypeOK, Empty, NoResult

\* Where a writer still has its value, and where it has not.
LEMMA PlacesApart ==
  /\ Unstored \subseteq Putting /\ "put_store" \in Unstored /\ "put_link" \in Unstored
  /\ "put_swing" \in Putting /\ "put_swing" \notin Unstored
  /\ "idle" \notin Putting /\ "idle" \notin Unstored /\ "get_take" \notin Putting
  BY DEF Unstored, Putting, PutPlaced

\* The ring and the cell of a process that takes a value or stores one.
LEMMA CellOf ==
  ASSUME TypeOK, Shaped, AllPlaced, NEW p \in Procs
  PROVE  /\ Cell(local[p].t) \in Slots
         /\ pc[p] \in PutPlaced \cup GetPlaced => local[p].rq \in Rings
         /\ pc[p] = "get_take" => local[p].rq \in Rings
<1>1. Cell(local[p].t) \in Slots
  BY LocalIs, CellFacts DEF TypeOK
<1>2. pc[p] \in PutPlaced \cup GetPlaced => local[p].rq \in Rings
  BY InRings DEF AllPlaced, Placed, WriterPlaced, ReaderPlaced
<1>3. "get_take" \in GetPlaced
  BY DEF GetPlaced, Positioned, Looking
<1>. QED
  BY <1>1, <1>2, <1>3

\* What a store stores was in no cell before.
LEMMA StoredIs ==
  ASSUME Valued, NEW p \in Procs, NEW r, NEW i, Stores(p, r, i)
  PROVE  /\ Val(rings', r, i) = local[p].arg /\ local[p].arg \in 1 .. puts
         /\ local[p].arg \notin written /\ local[p].arg \notin read /\ pc[p] \in Unstored
         /\ pc[p] # "get_take"
         /\ \A s \in Rings, j \in Slots : Val(rings, s, j) # local[p].arg
<1>1. pc[p] \in Unstored /\ pc[p] \in Putting /\ Val(rings', r, i) = local[p].arg
  BY PlacesApart DEF Stores
<1>2. pc[p] # "get_take"
  BY DEF Stores
<1>. QED
  BY <1>1, <1>2 DEF Valued, AllOwned, Owned

\* A step keeps every value with its writer, in one cell, or read.
LEMMA StepValued ==
  ASSUME TypeOK, Shaped, AllPlaced, Valued, NEW p \in Procs, Effect(p)
  PROVE  Valued'
\* A value that is newly read was in a cell and is in none any more.
<1>ReadIs. ASSUME NEW v \in read', v \notin read
           PROVE  /\ pc[p] = "get_take" /\ pc'[p] = "idle" /\ result'[p] = v
                  /\ local[p].rq \in Rings /\ Cell(local[p].t) \in Slots
                  /\ Val(rings, local[p].rq, Cell(local[p].t)) = v /\ v \in 1 .. puts
                  /\ Val(rings', local[p].rq, Cell(local[p].t)) = Empty
  <2>. USE <1>ReadIs
  <2>1. v = Val(rings, local[p].rq, Cell(local[p].t)) /\ Takes(p, local[p].rq, Cell(local[p].t))
    BY DEF Effect, Remembers
  <2>2. /\ pc[p] = "get_take" /\ pc'[p] = "idle" /\ v # Empty /\ result'[p] = v
        /\ Val(rings', local[p].rq, Cell(local[p].t)) = Empty
    BY <2>1 DEF Takes
  <2>3. local[p].rq \in Rings /\ Cell(local[p].t) \in Slots
    BY <2>2, CellOf
  <2>4. v \in 1 .. puts
    BY <2>1, <2>2, <2>3 DEF Valued, Unread
  <2>. QED
    BY <2>1, <2>2, <2>3, <2>4
<1>OwnedBySelf. Owned(p)'
  <2>1. ASSUME pc'[p] \in Putting
        PROVE  local'[p].arg \in 1 .. puts' /\ local'[p].arg \notin written'
    <3>1. \A a \in written' : a \in written
      BY <2>1, PlacesApart DEF Effect, Remembers
    <3>2. CASE puts' = puts + 1 /\ local'[p].arg = puts + 1
      BY <3>1, <3>2, Numbers DEF Valued, Begun
    <3>3. CASE pc[p] \in Putting /\ puts' = puts /\ local'[p].arg = local[p].arg
      BY <3>1, <3>3 DEF Valued, AllOwned, Owned
    <3>. QED
      BY <2>1, <3>2, <3>3 DEF Effect, Writes
  <2>2. ASSUME pc'[p] \in Unstored
        PROVE  /\ local'[p].arg \notin read'
               /\ \A r \in Rings', i \in Slots : Val(rings', r, i) # local'[p].arg
    <3>1. pc'[p] # "idle" /\ pc'[p] # "put_swing" /\ pc'[p] \in Putting
      BY <2>2, PlacesApart
    <3>2. \A a \in read' : a \in read
      BY <3>1, <1>ReadIs
    <3>3. \A r \in Rings', i \in Slots :
            Val(rings', r, i) # Empty => r \in Rings /\ Val(rings', r, i) = Val(rings, r, i)
      BY <3>1 DEF Effect, Grows, Kept, Stores
    <3>4. local'[p].arg # Empty
      <4>1. local'[p].arg \in 1 .. puts'
        BY <2>1, <3>1
      <4>2. Empty \notin 1 .. puts'
        BY SMTT(30) DEF Effect, TypeOK, Empty
      <4>. QED
        BY <4>1, <4>2
    <3>5. CASE local'[p].arg = puts + 1
      <4>1. puts + 1 \notin read
        BY Numbers DEF Valued, Begun
      <4>2. \A r \in Rings, i \in Slots : Val(rings, r, i) # Empty => Val(rings, r, i) # puts + 1
        BY Numbers DEF Valued, Unread
      <4>. QED
        BY <3>2, <3>3, <3>4, <3>5, <4>1, <4>2
    <3>6. CASE pc[p] \in Putting /\ local'[p].arg = local[p].arg
      <4>1. pc[p] \in Unstored
        BY <2>2, <3>6, PlacesApart DEF Effect, Writes
      <4>2. /\ local[p].arg \notin read
            /\ \A r \in Rings, i \in Slots : Val(rings, r, i) # local[p].arg
        BY <4>1 DEF Valued, AllOwned, Owned
      <4>. QED
        BY <3>2, <3>3, <3>4, <3>6, <4>2
    <3>. QED
      BY <3>1, <3>5, <3>6 DEF Effect, Writes
  <2>. QED
    BY <2>1, <2>2 DEF Owned
<1>OwnedByOther. ASSUME NEW q \in Procs, q # p
                 PROVE  Owned(q)'
  <2>. USE <1>OwnedByOther
  <2>1. pc'[q] = pc[q] /\ local'[q] = local[q]
    BY DEF Effect, Others
  <2>2. pc[q] \in Putting /\ pc[p] \in Putting => local[p].arg # local[q].arg
    BY DEF Valued, Distinct
  <2>3. ASSUME pc[q] \in Putting
        PROVE  local[q].arg \in 1 .. puts' /\ local[q].arg \notin written'
    <3>1. local[q].arg \in 1 .. puts /\ local[q].arg \notin written
      BY <2>3 DEF Valued, AllOwned, Owned
    <3>2. \A a \in written' : a \in written \/ (pc[p] \in Putting /\ a = local[p].arg)
      BY PlacesApart DEF Effect, Remembers
    <3>. QED
      BY <2>2, <2>3, <3>1, <3>2 DEF Effect, Remembers
  <2>4. ASSUME pc[q] \in Unstored
        PROVE  /\ local[q].arg \notin read'
               /\ \A r \in Rings', i \in Slots : Val(rings', r, i) # local[q].arg
    <3>1. /\ local[q].arg \notin read /\ local[q].arg \in 1 .. puts /\ pc[q] \in Putting
          /\ \A r \in Rings, i \in Slots : Val(rings, r, i) # local[q].arg
      BY <2>4, PlacesApart DEF Valued, AllOwned, Owned
    <3>2. local[q].arg \notin read'
      BY <3>1, <1>ReadIs
    <3>3. ASSUME NEW r \in Rings', NEW i \in Slots, Val(rings', r, i) = local[q].arg
          PROVE  FALSE
      <4>1. Val(rings', r, i) # Empty
        BY <3>1, <3>3, Numbers
      <4>2. CASE Kept(r, i)
        BY <3>1, <3>3, <4>2 DEF Kept
      <4>3. CASE Stores(p, r, i)
        <5>1. pc[p] \in Putting /\ Val(rings', r, i) = local[p].arg
          BY <4>3, PlacesApart DEF Stores
        <5>. QED
          BY <2>2, <3>1, <3>3, <5>1
      <4>. QED
        BY <4>1, <4>2, <4>3 DEF Effect, Grows
    <3>. QED
      BY <3>2, <3>3
  <2>. QED
    BY <2>1, <2>3, <2>4 DEF Owned
<1>StillDistinct. Distinct'
  <2>1. ASSUME NEW q \in Procs, q # p, pc[q] \in Putting, pc'[p] \in Putting
        PROVE  local'[p].arg # local[q].arg
    <3>1. CASE local'[p].arg = puts + 1
      BY <2>1, <3>1, Numbers DEF Valued, AllOwned, Owned
    <3>2. CASE pc[p] \in Putting /\ local'[p].arg = local[p].arg
      BY <2>1, <3>2 DEF Valued, Distinct
    <3>. QED
      BY <2>1, <3>1, <3>2 DEF Effect, Writes
  <2>2. \A q \in Procs : q # p => pc'[q] = pc[q] /\ local'[q] = local[q]
    BY DEF Effect, Others
  <2>3. ASSUME NEW q \in Procs, NEW o \in Procs, q # o, pc'[q] \in Putting, pc'[o] \in Putting
        PROVE  local'[q].arg # local'[o].arg
    <3>1. CASE q = p
      BY <2>1, <2>2, <2>3, <3>1
    <3>2. CASE o = p
      BY <2>1, <2>2, <2>3, <3>2
    <3>3. CASE q # p /\ o # p
      BY <2>2, <2>3, <3>3 DEF Valued, Distinct
    <3>. QED
      BY <3>1, <3>2, <3>3
  <2>. QED
    BY <2>3 DEF Distinct
<1>StillSingle. Single'
  <2>1. ASSUME NEW r \in Rings', NEW i \in Slots, NEW s \in Rings', NEW j \in Slots,
               Val(rings', r, i) # Empty, Val(rings', r, i) = Val(rings', s, j)
        PROVE  r = s /\ i = j
    <3>1. (Kept(r, i) \/ Stores(p, r, i)) /\ (Kept(s, j) \/ Stores(p, s, j))
      BY <2>1 DEF Effect, Grows
    <3>2. CASE Kept(r, i) /\ Kept(s, j)
      <4>1. /\ r \in Rings /\ s \in Rings
            /\ Val(rings, r, i) # Empty /\ Val(rings, r, i) = Val(rings, s, j)
        BY <2>1, <3>2 DEF Kept
      <4>2. Single
        BY DEF Valued
      <4>. QED
        BY <4>1, <4>2 DEF Single
    <3>3. CASE Kept(r, i) /\ Stores(p, s, j)
      BY <2>1, <3>3, StoredIs DEF Kept
    <3>4. CASE Stores(p, r, i) /\ Kept(s, j)
      BY <2>1, <3>4, StoredIs DEF Kept
    <3>5. CASE Stores(p, r, i) /\ Stores(p, s, j)
      BY <3>5 DEF Stores
    <3>. QED
      BY <3>1, <3>2, <3>3, <3>4, <3>5
  <2>. QED
    BY <2>1 DEF Single
<1>StillUnread. Unread'
  <2>1. 1 .. puts \subseteq 1 .. puts'
    BY DEF Effect, Remembers
  <2>2. ASSUME NEW r \in Rings', NEW i \in Slots, Val(rings', r, i) # Empty
        PROVE  Val(rings', r, i) \in 1 .. puts' /\ Val(rings', r, i) \notin read'
    <3>1. CASE Kept(r, i)
      <4>1. /\ r \in Rings /\ Val(rings', r, i) = Val(rings, r, i)
            /\ Val(rings, r, i) \in 1 .. puts /\ Val(rings, r, i) \notin read
        BY <2>2, <3>1 DEF Kept, Valued, Unread
      <4>2. ASSUME Val(rings, r, i) \in read'
            PROVE  FALSE
        <5>1. /\ local[p].rq \in Rings /\ Cell(local[p].t) \in Slots
              /\ Val(rings, local[p].rq, Cell(local[p].t)) = Val(rings, r, i)
              /\ Val(rings', local[p].rq, Cell(local[p].t)) = Empty
          BY <4>1, <4>2, <1>ReadIs
        <5>2. r = local[p].rq /\ i = Cell(local[p].t)
          BY <2>2, <4>1, <5>1 DEF Valued, Single
        <5>. QED
          BY <2>2, <5>1, <5>2
      <4>. QED
        BY <2>1, <4>1, <4>2
    <3>2. CASE Stores(p, r, i)
      <4>1. /\ Val(rings', r, i) = local[p].arg /\ local[p].arg \in 1 .. puts
            /\ local[p].arg \notin read /\ pc[p] # "get_take"
        BY <3>2, StoredIs
      <4>. QED
        BY <2>1, <4>1, <1>ReadIs
    <3>. QED
      BY <2>2, <3>1, <3>2 DEF Effect, Grows
  <2>. QED
    BY <2>2 DEF Unread
<1>StillDifferent. Begun' /\ Returned' /\ Different'
  <2>1. /\ 1 .. puts \subseteq 1 .. puts' /\ read \subseteq read'
        /\ \A q \in Procs : q # p => result'[q] = result[q]
    BY DEF Effect, Remembers, Others
  <2>2. Begun'
    <3>1. \A v \in read' : v \in 1 .. puts
      BY <1>ReadIs DEF Valued, Begun
    <3>2. \A v \in written' : v \in written \/ (pc[p] \in Putting /\ v = local[p].arg)
      BY PlacesApart DEF Effect, Remembers
    <3>3. \A v \in written' : v \in 1 .. puts
      BY <3>2 DEF Valued, AllOwned, Owned, Begun
    <3>. QED
      BY <2>1, <3>1, <3>3 DEF Begun
  <2>3. /\ Empty \notin read' /\ NoResult \notin read'
        /\ \A v \in read' : v \notin read => v # Empty /\ v # NoResult
    <3>1. Empty \notin 1 .. puts' /\ NoResult \notin 1 .. puts'
      BY SMTT(30) DEF Effect, TypeOK, Empty, NoResult
    <3>. QED
      BY <2>2, <3>1 DEF Begun
  <2>4. \A q \in Procs : result[q] \in read' => result[q] \in read
    BY <2>3 DEF Valued, Returned
  <2>5. \/ result'[p] = result[p]
        \/ result'[p] \in {NoResult, Empty}
        \/ result'[p] \in read' /\ result'[p] \notin read
    <3>1. ASSUME Takes(p, local[p].rq, Cell(local[p].t))
          PROVE  result'[p] \in read' /\ result'[p] \notin read
      <4>1. /\ result'[p] = Val(rings, local[p].rq, Cell(local[p].t))
            /\ result'[p] \in read' /\ pc[p] = "get_take"
            /\ Val(rings, local[p].rq, Cell(local[p].t)) # Empty
        BY <3>1 DEF Takes
      <4>2. local[p].rq \in Rings /\ Cell(local[p].t) \in Slots
        BY <4>1, CellOf
      <4>. QED
        BY <4>1, <4>2 DEF Valued, Unread
    <3>. QED
      BY <3>1 DEF Effect, Remembers
  <2>6. Returned'
    <3>1. ASSUME NEW q \in Procs
          PROVE  result'[q] \in read' \cup {Empty, NoResult}
      BY <2>1, <2>5 DEF Valued, Returned
    <3>. QED
      BY <3>1 DEF Returned
  <2>7. \A q, o \in Procs : q # o /\ result[q] \in read => result[q] # result[o]
    BY DEF Valued, Different
  <2>8. ASSUME NEW q \in Procs, NEW o \in Procs, q # o, result'[q] \in read'
        PROVE  result'[q] # result'[o]
    <3>1. CASE result'[q] = result[q]
      <4>1. result[q] \in read
        BY <2>4, <2>8, <3>1
      <4>2. CASE o # p
        BY <2>1, <2>7, <2>8, <3>1, <4>1, <4>2
      <4>3. CASE o = p
        BY <2>3, <2>5, <2>7, <2>8, <3>1, <4>1, <4>3
      <4>. QED
        BY <4>2, <4>3
    <3>2. CASE result'[q] # result[q]
      <4>1. q = p /\ result'[q] \notin read
        BY <2>1, <2>3, <2>5, <2>8, <3>2
      <4>2. result'[o] = result[o] /\ result[o] \in read \cup {Empty, NoResult}
        BY <2>1, <2>8, <4>1 DEF Valued, Returned
      <4>. QED
        BY <2>3, <2>8, <4>1, <4>2
    <3>. QED
      BY <3>1, <3>2
  <2>. QED
    BY <2>2, <2>6, <2>8 DEF Different, Begun
<1>StillAccounted. Accounted' /\ Finished'
  <2>1. /\ \A q \in Procs : q # p => pc'[q] = pc[q] /\ local'[q] = local[q]
        /\ written \subseteq written' /\ read \subseteq read'
    BY DEF Effect, Others, Remembers
  <2>2. ASSUME pc'[p] = "put_tail"
        PROVE  pc'[p] \in Unstored /\ pc'[p] \in Putting
    BY <2>2 DEF Unstored, Putting, PutPlaced
  <2>3. ASSUME NEW v \in 1 .. puts'
        PROVE  \/ v \in read'
               \/ \E r \in Rings', i \in Slots : Val(rings', r, i) = v
               \/ \E q \in Procs : pc'[q] \in Unstored /\ local'[q].arg = v
    <3>1. CASE v \notin 1 .. puts
      BY <2>2, <2>3, <3>1 DEF Effect, Remembers
    <3>2. CASE v \in 1 .. puts
      <4>1. CASE v \in read
        BY <2>1, <4>1
      <4>2. ASSUME NEW r \in Rings, NEW i \in Slots, Val(rings, r, i) = v
            PROVE  v \in read' \/ \E s \in Rings', j \in Slots : Val(rings', s, j) = v
        <5>1. Kept(r, i) \/ Takes(p, r, i)
          BY <3>2, <4>2, Numbers DEF Effect, Grows
        <5>2. CASE Kept(r, i)
          <6>1. r \in Rings' /\ Val(rings', r, i) = v
            BY <4>2, <5>2 DEF Kept, Effect, Grows
          <6>. QED
            BY <6>1
        <5>3. CASE Takes(p, r, i)
          BY <4>2, <5>3 DEF Takes
        <5>. QED
          BY <5>1, <5>2, <5>3
      <4>3. ASSUME NEW q \in Procs, pc[q] \in Unstored, local[q].arg = v
            PROVE  \/ \E s \in Rings', j \in Slots : Val(rings', s, j) = v
                   \/ \E o \in Procs : pc'[o] \in Unstored /\ local'[o].arg = v
        <5>1. CASE q # p
          BY <2>1, <4>3, <5>1
        <5>2. CASE q = p /\ pc'[p] \in Unstored
          <6>1. pc[p] \in Putting /\ pc'[p] # "idle"
            BY <4>3, <5>2, PlacesApart
          <6>2. local'[p].arg = local[p].arg
            BY <6>1 DEF Effect, Writes
          <6>. QED
            BY <4>3, <5>2, <6>2
        <5>3. CASE q = p /\ pc'[p] \notin Unstored
          <6>1. \/ local[p].rq \in Rings' /\ Val(rings', local[p].rq, Cell(local[p].t)) = v
                \/ local[p].rq + 1 \in Rings' /\ Val(rings', local[p].rq + 1, 0) = v
            BY <4>3, <5>3 DEF Effect, Writes
          <6>2. Cell(local[p].t) \in Slots /\ 0 \in Slots
            BY CellOf, CellFacts
          <6>. QED
            BY <6>1, <6>2
        <5>. QED
          BY <5>1, <5>2, <5>3
      <4>. QED
        BY <3>2, <4>1, <4>2, <4>3 DEF Valued, Accounted
    <3>. QED
      BY <3>1, <3>2
  <2>4. ASSUME NEW v \in 1 .. puts'
        PROVE  v \in written' \/ \E q \in Procs : pc'[q] \in Putting /\ local'[q].arg = v
    <3>1. CASE v \notin 1 .. puts
      BY <2>2, <2>4, <3>1 DEF Effect, Remembers
    <3>2. CASE v \in written
      BY <2>1, <3>2
    <3>3. ASSUME NEW q \in Procs, pc[q] \in Putting, local[q].arg = v
          PROVE  v \in written' \/ \E o \in Procs : pc'[o] \in Putting /\ local'[o].arg = v
      <4>1. CASE q # p
        BY <2>1, <3>3, <4>1
      <4>2. CASE q = p
        BY <3>3, <4>2 DEF Effect, Writes
      <4>. QED
        BY <4>1, <4>2
    <3>. QED
      BY <3>1, <3>2, <3>3 DEF Valued, Finished
  <2>5. Accounted'
    BY <2>3 DEF Accounted
  <2>6. Finished'
    BY <2>4 DEF Finished
  <2>. QED
    BY <2>5, <2>6
<1>1. AllOwned'
  BY <1>OwnedBySelf, <1>OwnedByOther DEF AllOwned
<1>. QED
  BY <1>1, <1>StillDistinct, <1>StillSingle, <1>StillUnread, <1>StillDifferent,
     <1>StillAccounted DEF Valued

-----------------------------------------------------------------------------
(* The first state, and a step of any process. *)

\* The first ring, and processes that are idle.
LEMMA InitShaped ==
  ASSUME Init
  PROVE  /\ TypeOK /\ Shaped /\ Rings = {1} /\ rings[1] = NewRing
         /\ \A p \in Procs : pc[p] = "idle" /\ local[p] = Idle /\ result[p] = NoResult
<1>1. rings = <<NewRing>> /\ NewRing \in RingRec
  BY NewRingType DEF Init
<1>2. rings \in Seq(RingRec) /\ Len(rings) = 1 /\ rings[1] = NewRing
  BY SMTT(30), <1>1
<1>3. Rings = {1} /\ ~(2 \in Rings) /\ 1 + 1 = 2
  BY SMTT(30), <1>2 DEF Rings
<1>4. \A p \in Procs : pc[p] = "idle" /\ local[p] = Idle /\ result[p] = NoResult
  BY DEF Init
<1>5. NoResult \in Int /\ 0 \in Nat /\ 1 \in Nat /\ "idle" \in Places
  BY SMTT(30) DEF NoResult, Places
<1>6. TypeOK
  BY <1>2, <1>5, IdleType DEF Init, TypeOK
<1>7. head \in Rings /\ tail \in Rings
  BY <1>3 DEF Init
<1>8. \A i \in Slots : Cell(NewRing.array[i].idx) = i /\ NewRing.array[i].val = Empty
  BY NewRingType, CellFacts
<1>9. NewRing.next = NULL
  BY NewRingType
<1>10. Shaped
  BY <1>2, <1>3, <1>7, <1>8, <1>9 DEF Shaped, Val, Idx
<1>. QED
  BY <1>2, <1>3, <1>4, <1>6, <1>10

\* Nobody has a place or a value at first.
LEMMA InitValued ==
  ASSUME Init
  PROVE  AllPlaced /\ Valued
<1>1. /\ TypeOK /\ Shaped /\ Rings = {1} /\ rings[1] = NewRing
      /\ \A p \in Procs : pc[p] = "idle" /\ local[p] = Idle /\ result[p] = NoResult
  BY InitShaped
<1>2. \A p \in Procs : /\ pc[p] \notin PutPlaced /\ pc[p] \notin Putting /\ pc[p] \notin Unstored
                       /\ pc[p] \notin Storing /\ pc[p] \notin GetPlaced /\ pc[p] \notin Positioned
  BY <1>1 DEF PutPlaced, Putting, Unstored, Storing, GetPlaced, Positioned, Looking, Checked
<1>3. AllPlaced
  BY <1>1, <1>2 DEF AllPlaced, Placed, WriterPlaced, ReaderPlaced
<1>4. \A r \in Rings, i \in Slots : Val(rings, r, i) = Empty
  BY <1>1, NewRingType DEF Val
<1>5. read = {} /\ written = {} /\ puts = 0
  BY DEF Init
<1>6. \A v \in 1 .. puts : FALSE
  BY SMTT(30), <1>5
<1>7. AllOwned /\ Distinct
  BY <1>2 DEF AllOwned, Owned, Distinct
<1>8. Single /\ Unread
  BY <1>4 DEF Single, Unread
<1>9. Begun /\ Returned /\ Different
  BY <1>1, <1>5 DEF Begun, Returned, Different
<1>10. Accounted /\ Finished
  BY <1>6 DEF Accounted, Finished
<1>. QED
  BY <1>3, <1>7, <1>8, <1>9, <1>10 DEF Valued

\* A step of the system is a step of a process.
LEMMA NextStep ==
  ASSUME Next
  PROVE  \E p \in Procs : Step(p)
  BY DEF Next, Step

\* What the proof of ReadOnce rests on.
Kind == TypeOK /\ Shaped /\ AllPlaced /\ Valued

\* Kind is about the variables, so it survives stuttering.
LEMMA KindStays ==
  ASSUME Kind, UNCHANGED vars
  PROVE  Kind'
<1>1. /\ rings' = rings /\ head' = head /\ tail' = tail /\ pc' = pc /\ local' = local
      /\ puts' = puts /\ gets' = gets /\ written' = written /\ precedes' = precedes
      /\ read' = read /\ overtaken' = overtaken /\ result' = result
  BY DEF vars
<1>2. TypeOK'
  BY <1>1 DEF Kind, TypeOK
<1>3. Shaped'
  BY <1>1 DEF Kind, Shaped, Rings
<1>4. AllPlaced'
  BY <1>1 DEF Kind, AllPlaced, Placed, WriterPlaced, ReaderPlaced, Rings
<1>5. AllOwned' /\ Distinct'
  BY <1>1 DEF Kind, Valued, AllOwned, Owned, Distinct, Rings
<1>6. Single' /\ Unread'
  <2>1. Rings' = Rings
    BY <1>1 DEF Rings
  <2>2. Single'
    <3>1. ASSUME NEW r \in Rings', NEW i \in Slots, NEW s \in Rings', NEW j \in Slots,
                 Val(rings', r, i) # Empty, Val(rings', r, i) = Val(rings', s, j)
          PROVE  r = s /\ i = j
      <4>1. /\ r \in Rings /\ s \in Rings
            /\ Val(rings, r, i) # Empty /\ Val(rings, r, i) = Val(rings, s, j)
        BY <1>1, <2>1, <3>1
      <4>2. Single /\ i \in Slots /\ j \in Slots
        BY DEF Kind, Valued
      <4>. QED
        BY <4>1, <4>2 DEF Single
    <3>. QED
      BY <3>1 DEF Single
  <2>3. Unread'
    BY <1>1, <2>1 DEF Kind, Valued, Unread
  <2>. QED
    BY <2>2, <2>3
<1>7. Begun' /\ Returned' /\ Different'
  BY <1>1 DEF Kind, Valued, Begun, Returned, Different
<1>8. Accounted' /\ Finished'
  <2>1. Rings' = Rings
    BY <1>1 DEF Rings
  <2>2. Accounted'
    BY <1>1, <2>1 DEF Kind, Valued, Accounted
  <2>3. Finished'
    BY <1>1 DEF Kind, Valued, Finished
  <2>. QED
    BY <2>2, <2>3
<1>. QED
  BY <1>2, <1>3, <1>4, <1>5, <1>6, <1>7, <1>8 DEF Kind, Valued

\* It holds in every state.
THEOREM KindHolds == Spec => []Kind
<1>1. Init => Kind
  BY InitShaped, InitValued DEF Kind
<1>2. Kind /\ [Next]_vars => Kind'
  <2>. SUFFICES ASSUME Kind, [Next]_vars
                PROVE  Kind'
    OBVIOUS
  <2>1. CASE UNCHANGED vars
    BY <2>1, KindStays
  <2>2. CASE Next
    <3>1. PICK p \in Procs : Step(p)
      BY <2>2, NextStep
    <3>2. Effect(p) /\ AllPlaced'
      BY <3>1, StepPlaced DEF Kind
    <3>3. Valued'
      BY <3>2, StepValued DEF Kind
    <3>. QED
      BY <3>2, <3>3 DEF Effect, Kind
  <2>. QED
    BY <2>1, <2>2
<1>. QED
  BY <1>1, <1>2, PTL DEF Spec

\* No two reads return the same value, and none one that was not written, for
\* any number of writers and readers of lcrq_put and lcrq_get.
THEOREM NothingIsReadTwice == Spec => []ReadOnce
<1>1. ASSUME Kind
      PROVE  ReadOnce
  <2>1. TypeOK /\ Valued
    BY <1>1 DEF Kind
  <2>2. ASSUME NEW r \in Rings, NEW i \in DOMAIN rings[r].array
        PROVE  Val(rings, r, i) \notin read
    <3>1. i \in Slots
      BY <2>1, <2>2, RingIs
    <3>. QED
      BY <2>1, <3>1, Numbers DEF Valued, Unread, Begun
  <2>. QED
    BY <2>1, <2>2 DEF ReadOnce, Valued, Begun, Different, Val, Rings
<1>. QED
  BY <1>1, KindHolds, PTL

-----------------------------------------------------------------------------
(* Nothing is lost: the rings that the readers leave behind hold nothing for *)
(* them, and no value is stored at a position that its reader has left.      *)

\* The readers are past everything in a ring.
Passed(r) ==
  /\ \A i \in Slots : Val(rings, r, i) # Empty => Idx(rings, r, i) < rings[r].head
  /\ \A w \in Procs : pc[w] \in Storing /\ local[w].rq = r => local[w].t < rings[r].head
LeftBehind ==
  /\ \A r \in Rings : r + 1 \in 1 .. head => Passed(r)
  /\ \A p \in Procs, r \in Rings : pc[p] = "get_swing" /\ local[p].rq = r => Passed(r)

\* Somebody waits for a position; nobody can store at a position any more.
Watched(r, t) == \E p \in Procs : pc[p] \in Looking /\ local[p].rq = r /\ local[p].t = t
Dead(c, t) == t < c.idx \/ (c.unsafe /\ (c.val = Empty \/ c.idx # t))
NoneMissed ==
  \A r \in Rings, t \in Nat :
    t < rings[r].head => Watched(r, t) \/ Dead(rings[r].array[Cell(t)], t)

\* A writer about to make an unsafe cell safe again takes no position from under
\* a reader: those that were reserved since are waited for.
Reopening(w, r, t) ==
  /\ pc[w] = "put_store" /\ local[w].rq = r /\ local[w].cell.unsafe
  /\ rings[r].array[Cell(t)] = local[w].cell
  /\ Cell(t) = Cell(local[w].t) /\ local[w].t <= t /\ t < rings[r].head
Reopened == \A w \in Procs, r \in Rings, t \in Nat : Reopening(w, r, t) => Watched(r, t)

\* A step leaves nothing behind: not in a ring that head has left, and at no
\* position that its reader has left.
LEMMA StillSafe ==
  ASSUME TypeOK, Shaped, AllPlaced, Valued, LeftBehind, NoneMissed, Reopened,
         NEW p \in Procs, Effect(p), Turns(p)
  PROVE  LeftBehind' /\ NoneMissed' /\ Reopened'
\* A closed ring gets no more positions, so what was passed in it stays passed.
<1>PassedStays. ASSUME NEW r \in Rings, r + 1 \in Rings, Passed(r)
                PROVE  Passed(r)'
  <2>. USE <1>PassedStays
  <2>1. /\ \A n \in Nat : n < rings[r].head => n < rings'[r].head
        /\ rings[r].closed
    BY DEF Effect, Grows, Shaped
  <2>2. \A q \in Procs : local[q].t \in Nat
    BY LocalIs DEF TypeOK
  <2>3. \A i \in Slots : Idx(rings, r, i) \in Nat
    BY RingIs DEF Idx
  <2>4. \A w \in Procs : pc[w] \in Storing /\ local[w].rq = r => local[w].t < rings'[r].head
    BY <2>1, <2>2 DEF Passed
  <2>5. ASSUME NEW i \in Slots, Val(rings', r, i) # Empty
        PROVE  Idx(rings', r, i) < rings'[r].head
    <3>1. Kept(r, i) \/ Stores(p, r, i)
      BY <2>5 DEF Effect, Grows
    <3>2. CASE Kept(r, i)
      <4>1. Val(rings, r, i) # Empty /\ Idx(rings', r, i) = Idx(rings, r, i)
        BY <2>5, <3>2 DEF Kept
      <4>2. Idx(rings, r, i) < rings[r].head
        BY <4>1 DEF Passed
      <4>. QED
        BY <2>1, <2>3, <4>1, <4>2
    <3>3. CASE Stores(p, r, i)
      <4>1. pc[p] = "put_store" /\ local[p].rq = r /\ Idx(rings', r, i) = local[p].t
        BY <3>3 DEF Stores
      <4>. QED
        BY <2>4, <4>1 DEF Storing
    <3>. QED
      BY <3>1, <3>2, <3>3
  <2>6. ASSUME NEW w \in Procs, pc'[w] \in Storing, local'[w].rq = r
        PROVE  local'[w].t < rings'[r].head
    <3>1. CASE w # p
      <4>1. pc[w] \in Storing /\ local[w].rq = r /\ local'[w].t = local[w].t
        BY <2>6, <3>1 DEF Effect, Others
      <4>. QED
        BY <2>4, <4>1
    <3>2. CASE w = p
      <4>1. pc'[p] \in PutPlaced
        BY <2>6, <3>2 DEF Storing, PutPlaced
      <4>2. \/ /\ pc[p] = "put_reserve" /\ ~rings[local[p].rq].closed
            \/ pc[p] \in Storing /\ local'[p].t = local[p].t
        BY <2>6, <3>2 DEF Effect, Writes
      <4>3. pc[p] # "put_tail"
        BY <4>2 DEF Storing
      <4>4. local'[p].rq = local[p].rq
        BY <4>1, <4>3 DEF Effect, Writes
      <4>. QED
        BY <2>1, <2>4, <2>6, <3>2, <4>2, <4>4
    <3>. QED
      BY <3>1, <3>2
  <2>. QED
    BY <2>5, <2>6 DEF Passed
\* The second look at the tail: the writers are not past the reader's position.
<1>PassedAtSwing. ASSUME pc'[p] = "get_swing", NEW r \in Rings, local[p].rq = r,
                         pc[p] = "get_recheck", rings[r].tail <= local[p].t + 1
                  PROVE  Passed(r)
  <2>. USE <1>PassedAtSwing
  <2>1. local[p].t < rings[r].head
    BY DEF AllPlaced, Placed, ReaderPlaced, Positioned, Checked
  <2>2. local[p].t \in Nat /\ rings[r].head \in Nat /\ rings[r].tail \in Nat
    BY LocalIs, RingIs DEF TypeOK
  <2>3. \A n \in Nat : n < rings[r].tail => n < rings[r].head
    BY SMTT(30), <2>1, <2>2
  <2>4. \A i \in Slots : Idx(rings, r, i) \in Nat
    BY RingIs DEF Idx
  <2>5. \A i \in Slots : Val(rings, r, i) # Empty => Idx(rings, r, i) < rings[r].head
    BY <2>3, <2>4 DEF Shaped
  <2>6. \A w \in Procs : local[w].t \in Nat
    BY LocalIs DEF TypeOK
  <2>7. ASSUME NEW w \in Procs, pc[w] \in Storing, local[w].rq = r
        PROVE  local[w].t < rings[r].head
    <3>1. local[w].t < rings[r].tail
      BY <2>7 DEF AllPlaced, Placed, WriterPlaced
    <3>. QED
      BY <2>3, <2>6, <3>1
  <2>. QED
    BY <2>5, <2>7 DEF Passed
<1>StillLeftBehind. LeftBehind'
  <2>1. \A q \in Procs : pc[q] \in {"get_recheck", "get_swing"} =>
                         local[q].rq \in Rings /\ local[q].rq + 1 \in Rings
    <3>1. \A q \in Procs : pc[q] \in {"get_recheck", "get_swing"} => local[q].rq \in 1 .. head
      BY DEF AllPlaced, Placed, ReaderPlaced, GetPlaced, Positioned, Checked
    <3>2. \A q \in Procs : pc[q] \in {"get_recheck", "get_swing"} => local[q].rq + 1 \in Rings
      BY DEF AllPlaced, Placed, ReaderPlaced
    <3>. QED
      BY <3>1, <3>2, InRings
  <2>2. ASSUME NEW r \in Rings', r + 1 \in 1 .. head'
        PROVE  Passed(r)'
    <3>1. CASE r + 1 \in 1 .. head
      <4>1. r + 1 \in Rings
        BY <3>1, InRings
      <4>2. r \in Rings
        <5>1. Len(rings) \in Nat /\ Len(rings') \in Nat
          BY SMTT(30) DEF TypeOK, Effect
        <5>. QED
          BY SMTT(30), <4>1, <5>1 DEF Rings
      <4>. QED
        BY <3>1, <4>1, <4>2, <1>PassedStays DEF LeftBehind
    <3>2. CASE r + 1 \notin 1 .. head
      <4>1. pc[p] = "get_swing" /\ head = local[p].rq /\ head' = local[p].rq + 1
        BY <2>2, <3>2 DEF Turns
      <4>2. local[p].rq \in Nat /\ head \in Nat /\ Len(rings') \in Nat
        BY SMTT(30), <4>1 DEF TypeOK, Effect
      <4>3. r = local[p].rq
        BY SMTT(30), <2>2, <3>2, <4>1, <4>2 DEF Rings
      <4>4. r \in Rings /\ r + 1 \in Rings
        BY <2>1, <4>1, <4>3
      <4>. QED
        BY <4>1, <4>3, <4>4, <1>PassedStays DEF LeftBehind
    <3>. QED
      BY <3>1, <3>2
  <2>3. ASSUME NEW q \in Procs, NEW r \in Rings', pc'[q] = "get_swing", local'[q].rq = r
        PROVE  Passed(r)'
    <3>1. CASE q # p
      <4>1. pc[q] = "get_swing" /\ local[q].rq = r
        BY <2>3, <3>1 DEF Effect, Others
      <4>2. r \in Rings /\ r + 1 \in Rings
        BY <2>1, <4>1
      <4>. QED
        BY <4>1, <4>2, <1>PassedStays DEF LeftBehind
    <3>2. CASE q = p
      <4>1. pc[p] = "get_recheck" /\ rings[local[p].rq].tail <= local[p].t + 1
        BY <2>3, <3>2 DEF Effect, Reads
      <4>2. pc'[p] \in GetPlaced
        BY <2>3, <3>2 DEF GetPlaced, Positioned, Checked
      <4>3. local[p].rq = r
        BY <2>3, <3>2, <4>1, <4>2 DEF Effect, Reads
      <4>4. r \in Rings /\ r + 1 \in Rings
        BY <2>1, <4>1, <4>3
      <4>5. Passed(r)
        BY <2>3, <3>2, <4>1, <4>3, <4>4, <1>PassedAtSwing
      <4>. QED
        BY <4>4, <4>5, <1>PassedStays
    <3>. QED
      BY <3>1, <3>2
  <2>. QED
    BY <2>2, <2>3 DEF LeftBehind
<1>RingBecomes. ASSUME TypeOK', NEW r \in Rings'
                PROVE  /\ rings'[r].head \in Nat
                       /\ \A i \in Slots : rings'[r].array[i].idx \in Nat
  <2>. USE <1>RingBecomes
  <2>1. rings'[r] \in RingRec
    BY SMTT(30) DEF TypeOK, Rings
  <2>2. rings'[r].head \in Nat /\ rings'[r].array \in [Slots -> CellRec]
    BY <2>1 DEF RingRec
  <2>3. \A c \in CellRec : c.idx \in Nat
    BY DEF CellRec
  <2>. QED
    BY <2>2, <2>3
<1>NoLongerWatched. ASSUME NEW r, NEW t, Watched(r, t), ~Watched(r, t)'
                    PROVE  LET d == rings'[r].array[Cell(t)]
                           IN  t < d.idx \/ (d.unsafe /\ d.val # Empty /\ d.idx # t)
  <2>. USE <1>NoLongerWatched
  <2>1. PICK q \in Procs : pc[q] \in Looking /\ local[q].rq = r /\ local[q].t = t
    BY DEF Watched
  <2>2. ~(pc'[q] \in Looking /\ local'[q].rq = r /\ local'[q].t = t)
    BY DEF Watched
  <2>3. q = p
    BY <2>1, <2>2 DEF Effect, Others
  <2>4. Leaves(p)
    BY <2>1, <2>3 DEF Turns
  <2>. QED
    BY <2>1, <2>2, <2>3, <2>4 DEF Leaves
\* A position that is dead stays so, or a store in its cell had it watched.
<1>DeadStays. ASSUME NEW r \in Rings, NEW t \in Nat, t < rings[r].head,
                     Dead(rings[r].array[Cell(t)], t)
              PROVE  Watched(r, t) \/ Dead(rings'[r].array[Cell(t)], t)
  <2>. USE <1>DeadStays
  <2> DEFINE c == rings[r].array[Cell(t)]
             d == rings'[r].array[Cell(t)]
  <2>1. Cell(t) \in Slots
    BY CellFacts
  <2>2. c.idx \in Nat /\ c.unsafe \in BOOLEAN
    BY <2>1, RingIs
  <2>3. Alters(p, r, Cell(t))
    BY <2>1 DEF Turns
  <2>4. CASE d = c
    BY <2>4
  <2>5. CASE /\ pc[p] = "put_store" /\ r = local[p].rq /\ Cell(t) = Cell(local[p].t)
             /\ c = local[p].cell /\ d.idx = local[p].t
    <3>1. local[p].t \in Nat /\ c.idx <= local[p].t
      BY <2>5, LocalIs DEF TypeOK, AllPlaced, Placed, WriterPlaced
    <3>2. CASE t < local[p].t
      BY <2>5, <3>2 DEF Dead
    <3>3. CASE ~(t < local[p].t)
      <4>1. local[p].t <= t /\ ~(t < c.idx)
        BY SMTT(30), <2>2, <3>1, <3>3
      <4>2. c.unsafe
        BY <4>1 DEF Dead
      <4>3. Reopening(p, r, t)
        BY <2>5, <4>1, <4>2 DEF Reopening
      <4>. QED
        BY <4>3 DEF Reopened
    <3>. QED
      BY <3>2, <3>3
  <2>6. CASE d.val = Empty /\ c.idx < d.idx /\ d.unsafe = c.unsafe
    <3>1. CASE t < c.idx
      <4>1. r \in Rings'
        BY DEF Effect, Grows
      <4>2. d.idx \in Nat
        BY <2>1, <4>1, <1>RingBecomes DEF Effect
      <4>. HIDE DEF c, d
      <4>3. t < d.idx
        BY SMTT(30), <2>2, <2>6, <3>1, <4>2
      <4>. QED
        BY <4>3 DEF Dead, d
    <3>2. CASE c.unsafe
      BY <2>6, <3>2 DEF Dead
    <3>. QED
      BY <3>1, <3>2 DEF Dead
  <2>7. CASE c.val # Empty /\ d.val = c.val /\ d.idx = c.idx /\ d.unsafe
    BY <2>7 DEF Dead
  <2>. QED
    BY <2>3, <2>4, <2>5, <2>6, <2>7 DEF Alters
<1>StillNoneMissed. NoneMissed'
  <2>1. ASSUME NEW r \in Rings', NEW t \in Nat, t < rings'[r].head
        PROVE  Watched(r, t)' \/ Dead(rings'[r].array[Cell(t)], t)
    <3>1. ~(t < 0)
      BY SMTT(30)
    <3>2. r \in Rings
      BY <2>1, <3>1 DEF Turns
    <3>3. CASE ~(t < rings[r].head)
      <4>1. pc'[p] \in Looking /\ local'[p].rq = r /\ local'[p].t = t
        BY <2>1, <3>2, <3>3 DEF Turns
      <4>. QED
        BY <4>1 DEF Watched
    <3>4. CASE t < rings[r].head /\ Watched(r, t)
      BY <3>4, <1>NoLongerWatched DEF Dead
    <3>5. CASE t < rings[r].head /\ ~Watched(r, t)
      <4>1. Dead(rings[r].array[Cell(t)], t)
        BY <3>2, <3>5 DEF NoneMissed
      <4>. QED
        BY <3>2, <3>5, <4>1, <1>DeadStays
    <3>. QED
      BY <3>3, <3>4, <3>5
  <2>. QED
    BY <2>1 DEF NoneMissed
<1>StillReopened. Reopened'
  <2>1. ASSUME NEW w \in Procs, NEW r \in Rings', NEW t \in Nat, Reopening(w, r, t)'
        PROVE  Watched(r, t)'
    <3> DEFINE c == rings[r].array[Cell(t)]
               d == rings'[r].array[Cell(t)]
    <3>1. /\ pc'[w] = "put_store" /\ local'[w].rq = r /\ local'[w].cell.unsafe
          /\ d = local'[w].cell
          /\ Cell(t) = Cell(local'[w].t) /\ local'[w].t <= t /\ t < rings'[r].head
      BY <2>1 DEF Reopening
    <3>2. CASE w = p
      <4>1. rings'[r].head < local'[p].t
        BY <3>1, <3>2 DEF Turns
      <4>2. local'[p].t \in Nat
        BY LocalIs DEF Effect, TypeOK
      <4>3. rings'[r].head \in Nat
        BY <1>RingBecomes DEF Effect
      <4>. QED
        BY SMTT(30), <3>1, <3>2, <4>1, <4>2, <4>3
    <3>3. CASE w # p
      <4>1. pc[w] = pc'[w] /\ local[w] = local'[w]
        BY <3>3 DEF Effect, Others
      <4>2. local[w].rq = r /\ r \in Rings /\ Cell(t) \in Slots /\ local[w].t \in Nat
        BY <3>1, <4>1, CellOf, CellFacts, LocalIs DEF PutPlaced, TypeOK
      <4>3. d.val = Empty /\ d.idx <= local[w].t /\ d.idx <= c.idx
        BY <3>1, <4>1, <4>2 DEF AllPlaced, Placed, WriterPlaced, Idx
      <4>4. c.idx \in Nat
        BY <4>2, RingIs
      <4>5. d.idx \in Nat
        BY <3>1, <4>1, LocalIs DEF TypeOK
      <4>. HIDE DEF d, c
      <4>6. ~(c.idx < d.idx) /\ ~(t < d.idx)
        BY SMTT(30), <3>1, <4>1, <4>2, <4>3, <4>4, <4>5
      <4>7. pc[p] = "put_store" => local[p].arg # Empty
        BY PlacesApart, Numbers DEF Valued, AllOwned, Owned
      <4>8. d = c
        BY <4>2, <4>3, <4>6, <4>7 DEF Turns, Alters, c, d
      <4>9. CASE ~(t < rings[r].head)
        <5>1. pc'[p] \in Looking /\ local'[p].rq = r /\ local'[p].t = t
          BY <3>1, <4>2, <4>9 DEF Turns
        <5>. QED
          BY <5>1 DEF Watched
      <4>10. CASE t < rings[r].head
        <5>1. Reopening(w, r, t)
          BY <3>1, <4>1, <4>2, <4>8, <4>10 DEF Reopening, c
        <5>2. Watched(r, t)
          BY <4>2, <5>1 DEF Reopened
        <5>. QED
          BY <4>3, <4>6, <5>2, <1>NoLongerWatched DEF d
      <4>. QED
        BY <4>9, <4>10
    <3>. QED
      BY <3>2, <3>3
  <2>. QED
    BY <2>1 DEF Reopened
<1>. QED
  BY <1>StillLeftBehind, <1>StillNoneMissed, <1>StillReopened

\* What Stored says, cell by cell.
LEMMA InStored ==
  ASSUME TypeOK, NEW v
  PROVE  v \in Stored <=> /\ v # Empty
                          /\ \E r \in Rings, i \in Slots : /\ head <= r /\ Val(rings, r, i) = v
                                                           /\ Idx(rings, r, i) >= rings[r].head
<1> DEFINE Open(r) == {x \in {rings[r].array[i] : i \in DOMAIN rings[r].array} :
                         x.idx >= rings[r].head}
           Held(r) == {c.val : c \in Open(r)}
<1>1. ASSUME NEW r \in Rings
      PROVE  v \in Held(r) <=> \E i \in Slots : /\ Val(rings, r, i) = v
                                                /\ Idx(rings, r, i) >= rings[r].head
  <2>1. DOMAIN rings[r].array = Slots
    BY RingIs
  <2>2. \A x : x \in Open(r) <=> /\ \E i \in Slots : x = rings[r].array[i]
                                 /\ x.idx >= rings[r].head
    BY <2>1
  <2>. HIDE DEF Open
  <2>3. v \in Held(r) <=> \E c \in Open(r) : v = c.val
    OBVIOUS
  <2>. QED
    BY <2>2, <2>3 DEF Val, Idx
<1>2. \A r : r \in Reachable <=> r \in Rings /\ head <= r
  BY DEF Reachable, Rings
<1>3. Stored = (UNION {Held(r) : r \in Reachable}) \ {Empty}
  BY DEF Stored
<1>. HIDE DEF Held
<1>4. v \in Stored <=> v # Empty /\ \E r \in Reachable : v \in Held(r)
  BY <1>3
<1>. QED
  BY <1>1, <1>2, <1>4

\* What the proof of NothingLost rests on.
Safe == Kind /\ LeftBehind /\ NoneMissed /\ Reopened

\* When nobody is at work, a value that was written and not read is in a ring
\* that head has not left, at a position the readers have not passed.
LEMMA SafeNothingLost ==
  ASSUME Safe
  PROVE  NothingLost
<1>. SUFFICES ASSUME \A p \in Procs : pc[p] = "idle"
              PROVE  Stored = written \ read
  BY DEF NothingLost
<1>1. \A p \in Procs : pc[p] \notin Putting /\ pc[p] \notin Unstored /\ pc[p] \notin Looking
  BY DEF Putting, PutPlaced, Unstored, Looking
<1>2. TypeOK /\ Shaped /\ Valued
  BY DEF Safe, Kind
<1>3. ASSUME NEW v \in Stored
      PROVE  v \in written \ read
  <2>1. /\ v # Empty
        /\ \E r \in Rings, i \in Slots : Val(rings, r, i) = v
    BY <1>2, <1>3, InStored
  <2>2. v \in 1 .. puts /\ v \notin read
    BY <1>2, <2>1 DEF Valued, Unread
  <2>. QED
    BY <1>1, <1>2, <2>2 DEF Valued, Finished
<1>4. ASSUME NEW v \in written \ read
      PROVE  v \in Stored
  <2>1. v \in 1 .. puts /\ v \notin read
    BY <1>2, <1>4 DEF Valued, Begun
  <2>2. PICK r \in Rings, i \in Slots : Val(rings, r, i) = v
    BY <1>1, <1>2, <2>1 DEF Valued, Accounted
  <2>3. v # Empty
    BY <1>2, <2>1, Numbers
  <2>4. /\ Idx(rings, r, i) \in Nat /\ rings[r].head \in Nat /\ head \in Nat /\ r \in Nat
        /\ Cell(Idx(rings, r, i)) = i
    <3>1. Idx(rings, r, i) \in Nat /\ rings[r].head \in Nat
      BY <1>2, RingIs DEF Idx
    <3>2. r \in Nat
      BY SMTT(30) DEF Rings
    <3>. QED
      BY <1>2, <3>1, <3>2 DEF Shaped, TypeOK
  <2>5. ~(Idx(rings, r, i) < rings[r].head)
    <3>1. SUFFICES ASSUME Idx(rings, r, i) < rings[r].head
                   PROVE  FALSE
      OBVIOUS
    <3> DEFINE t == Idx(rings, r, i)
    <3>2. t \in Nat /\ t < rings[r].head /\ Cell(t) = i
      BY <2>4, <3>1
    <3>3. ~(t < t)
      BY SMTT(30), <3>2
    <3>4. t = rings[r].array[i].idx /\ rings[r].array[i].val # Empty
      BY <2>2, <2>3 DEF Val, Idx
    <3>. HIDE DEF t
    <3>5. ~Watched(r, t)
      BY <1>1 DEF Watched
    <3>6. Dead(rings[r].array[i], t)
      BY <3>2, <3>5 DEF Safe, NoneMissed
    <3>. QED
      BY <3>3, <3>4, <3>6 DEF Dead
  <2>6. r + 1 \notin 1 .. head
    BY <2>2, <2>3, <2>5 DEF Safe, LeftBehind, Passed
  <2>7. Idx(rings, r, i) >= rings[r].head /\ head <= r
    <3>1. Idx(rings, r, i) >= rings[r].head
      BY SMTT(30), <2>4, <2>5
    <3>2. head <= r
      BY SMTT(30), <2>4, <2>6
    <3>. QED
      BY <3>1, <3>2
  <2>. QED
    BY <1>2, <2>2, <2>3, <2>7, InStored
<1>. QED
  BY <1>3, <1>4

\* At first the readers have passed nothing.
LEMMA InitSafe ==
  ASSUME Init
  PROVE  Safe
<1>1. /\ TypeOK /\ Shaped /\ Rings = {1} /\ rings[1] = NewRing
      /\ \A p \in Procs : pc[p] = "idle"
  BY InitShaped
<1>2. Kind
  BY InitShaped, InitValued DEF Kind
<1>3. head = 1 /\ 1 + 1 \notin 1 .. 1 /\ \A t \in Nat : ~(t < 0)
  BY SMTT(30) DEF Init
<1>4. LeftBehind
  BY <1>1, <1>3 DEF LeftBehind
<1>5. NoneMissed
  BY <1>1, <1>3, NewRingType DEF NoneMissed
<1>6. Reopened
  BY <1>1 DEF Reopened, Reopening
<1>. QED
  BY <1>2, <1>4, <1>5, <1>6 DEF Safe

\* Safe survives stuttering.
LEMMA SafeStays ==
  ASSUME Safe, UNCHANGED vars
  PROVE  Safe'
<1>1. /\ rings' = rings /\ head' = head /\ pc' = pc /\ local' = local
  BY DEF vars
<1>2. Kind'
  BY KindStays DEF Safe
<1>3. Rings' = Rings /\ (\A r : Passed(r)' <=> Passed(r)) /\ \A r, t : Watched(r, t)' <=> Watched(r, t)
  BY <1>1 DEF Rings, Passed, Watched
<1>4. LeftBehind'
  BY <1>1, <1>3 DEF Safe, LeftBehind
<1>5. NoneMissed'
  BY <1>1, <1>3 DEF Safe, NoneMissed
<1>6. Reopened'
  BY <1>1, <1>3 DEF Safe, Reopened, Reopening
<1>. QED
  BY <1>2, <1>4, <1>5, <1>6 DEF Safe

\* Every step keeps Safe, and is one of those that the lemmas describe.
LEMMA SafeNext ==
  ASSUME Safe, Next
  PROVE  Safe' /\ \E p \in Procs : Effect(p) /\ Turns(p)
<1>1. TypeOK /\ Shaped /\ AllPlaced /\ Valued /\ LeftBehind /\ NoneMissed /\ Reopened
  BY DEF Safe, Kind
<1>2. PICK p \in Procs : Step(p)
  BY NextStep
<1>3. Effect(p) /\ AllPlaced'
  BY <1>1, <1>2, StepPlaced
<1>4. Turns(p)
  BY <1>1, <1>2, StepDoes DEF AllPlaced
<1>5. Valued'
  BY <1>1, <1>3, StepValued
<1>6. LeftBehind'
  BY <1>1, <1>3, <1>4, StillSafe
<1>7. NoneMissed'
  BY <1>1, <1>3, <1>4, StillSafe
<1>8. Reopened'
  BY <1>1, <1>3, <1>4, StillSafe
<1>. QED
  BY <1>3, <1>4, <1>5, <1>6, <1>7, <1>8 DEF Safe, Kind, Effect

\* It holds in every state.
THEOREM SafeHolds == Spec => []Safe
<1>1. Init => Safe
  BY InitSafe
<1>2. Safe /\ [Next]_vars => Safe'
  BY SafeNext, SafeStays
<1>. QED
  BY <1>1, <1>2, PTL DEF Spec

\* When no call is under way, the queue holds exactly what was written and not
\* read: no value stays behind in a ring that lcrq_get left, in an unsafe cell
\* or at a position that the readers gave up.
THEOREM NothingIsLost == Spec => []NothingLost
<1>1. Safe => NothingLost
  BY SafeNothingLost
<1>. QED
  BY <1>1, SafeHolds, PTL

-----------------------------------------------------------------------------
(* First in, first out: where the values are that were written before another. *)

\* A value whose write returned is in a ring that tail has reached; one stored
\* in a new ring whose writer has not returned is behind the writer's ring.
Reached == /\ \A a, b \in Nat : <<a, b>> \in precedes => a \in written /\ b \in 1 .. puts
           /\ \A r \in Rings, i \in Slots : Val(rings, r, i) \in written => r \in 1 .. tail
           /\ \A p \in Procs, r \in Rings, i \in Slots :
                pc[p] = "put_swing" /\ Val(rings, r, i) = local[p].arg => r = local[p].rq + 1

\* What was written before a value is in an earlier ring or at an earlier
\* position than the one its writer is about to use, and so than the value.
Behind(p, r, i) ==
  <<Val(rings, r, i), local[p].arg>> \in precedes =>
    /\ pc[p] \in PutPlaced => r <= local[p].rq
    /\ pc[p] \in Storing /\ local[p].rq = r => Idx(rings, r, i) < local[p].t
Before(r, i, s, j) == r < s \/ (r = s /\ Idx(rings, r, i) < Idx(rings, s, j))
InOrder == /\ \A p \in Procs, r \in Rings, i \in Slots : Behind(p, r, i)
           /\ \A r \in Rings, i \in Slots : \A s \in Rings, j \in Slots :
                <<Val(rings, r, i), Val(rings, s, j)>> \in precedes => Before(r, i, s, j)

(* What a read may not return is never at the position it waits for. *)

\* What a read found written is not past its position, once the ring has
\* nothing for it.
Considers(p, r, i) ==
  pc[p] \in Checked /\ local[p].rq = r /\ Val(rings, r, i) \in local[p].there =>
    Idx(rings, r, i) <= local[p].t
\* What was overtaken when the read began is not at the position it waits for.
Avoids(p, r, i) ==
  pc[p] \in Looking /\ local[p].rq = r /\ Val(rings, r, i) \in local[p].gone =>
    Idx(rings, r, i) # local[p].t
Remembered == /\ overtaken \subseteq written
              /\ \A p \in Procs : local[p].there \subseteq written /\ local[p].gone \subseteq overtaken
Overtaken == \A r \in Rings, i \in Slots :
               Val(rings, r, i) \in overtaken => Idx(rings, r, i) < rings[r].head
Considered == \A p \in Procs, r \in Rings, i \in Slots : Considers(p, r, i) /\ Avoids(p, r, i)

\* A step keeps the values in the order of their writes, and no read gets one
\* that was passed over before it began.
LEMMA StillOrdered ==
  ASSUME TypeOK, Shaped, AllPlaced, Valued, LeftBehind, Reached, InOrder, Remembered, Overtaken,
         Considered, FifoOrder, NEW p \in Procs, Effect(p), Turns(p)
  PROVE  Reached' /\ InOrder' /\ Remembered' /\ Overtaken' /\ Considered' /\ FifoOrder'
\* A value whose write returned stays where it is until it is read.
<1>WrittenIsKept. ASSUME NEW r \in Rings', NEW i \in Slots, Val(rings', r, i) \in written
                  PROVE  /\ r \in Rings /\ Kept(r, i) /\ Val(rings', r, i) = Val(rings, r, i)
                         /\ Idx(rings', r, i) = Idx(rings, r, i) /\ Val(rings, r, i) \in Nat
  <2>. USE <1>WrittenIsKept
  <2>1. Val(rings', r, i) # Empty
    BY Numbers DEF Valued, Begun
  <2>2. ~Stores(p, r, i)
    BY StoredIs
  <2>3. Kept(r, i)
    BY <2>1, <2>2 DEF Effect, Grows
  <2>. QED
    BY <2>3, RingIs DEF Kept, Val
\* What precedes a value does so since the value was given.
<1>Precedent. ASSUME NEW a \in Nat, NEW b \in 1 .. puts, <<a, b>> \in precedes'
              PROVE  <<a, b>> \in precedes /\ a \in written
  <2>. USE <1>Precedent
  <2>1. b \in Nat /\ b # puts + 1
    BY Numbers
  <2>2. <<a, b>> \in precedes
    BY <2>1 DEF Effect, Remembers
  <2>. QED
    BY <2>1, <2>2 DEF Reached
<1>StillReached. Reached'
  <2>1. ASSUME NEW a \in Nat, NEW b \in Nat, <<a, b>> \in precedes'
        PROVE  a \in written' /\ b \in 1 .. puts'
    <3>1. CASE <<a, b>> \in precedes
      BY <3>1 DEF Reached, Effect, Remembers
    <3>2. CASE a \in written /\ b = puts + 1 /\ puts' = puts + 1
      BY <3>2, Numbers DEF Effect, Remembers
    <3>. QED
      BY <2>1, <3>1, <3>2 DEF Effect, Remembers
  <2>2. 1 .. tail \subseteq 1 .. tail' /\ \A v \in 1 .. puts : v # Empty
    BY Numbers DEF Effect, Grows
  <2>3. \A q \in Procs : q # p => pc'[q] = pc[q] /\ local'[q] = local[q]
    BY DEF Effect, Others
  <2>4. ASSUME NEW r \in Rings', NEW i \in Slots, Val(rings', r, i) \in written'
        PROVE  r \in 1 .. tail'
    <3>1. CASE Val(rings', r, i) \in written
      BY <2>2, <3>1, <1>WrittenIsKept DEF Reached
    <3>2. CASE Val(rings', r, i) \notin written
      <4>1. /\ pc[p] \in {"put_store", "put_swing"} /\ Val(rings', r, i) = local[p].arg
        BY <2>4, <3>2 DEF Effect, Remembers
      <4>2. pc[p] \in Putting
        BY <4>1, PlacesApart
      <4>3. Val(rings', r, i) # Empty
        BY <2>2, <4>1, <4>2 DEF Valued, AllOwned, Owned
      <4>4. CASE Kept(r, i)
        <5>1. r \in Rings /\ Val(rings, r, i) = local[p].arg
          BY <4>1, <4>4 DEF Kept
        <5>2. pc[p] = "put_swing"
          BY <4>1, <5>1, PlacesApart DEF Valued, AllOwned, Owned
        <5>. QED
          BY <5>1, <5>2 DEF Reached, Turns
      <4>5. CASE Stores(p, r, i)
        <5>1. pc[p] = "put_store" /\ r = local[p].rq
          BY <4>1, <4>5 DEF Stores
        <5>. QED
          BY <2>2, <5>1 DEF AllPlaced, Placed, WriterPlaced, PutPlaced
      <4>. QED
        BY <4>3, <4>4, <4>5 DEF Effect, Grows
    <3>. QED
      BY <3>1, <3>2
  <2>5. ASSUME NEW q \in Procs, NEW r \in Rings', NEW i \in Slots,
               pc'[q] = "put_swing", Val(rings', r, i) = local'[q].arg
        PROVE  r = local'[q].rq + 1
    <3>1. CASE q # p
      <4>1. pc[q] = "put_swing" /\ local'[q] = local[q] /\ pc[q] \in Putting
        BY <2>3, <2>5, <3>1, PlacesApart
      <4>2. Val(rings', r, i) # Empty /\ Val(rings', r, i) = local[q].arg
        BY <2>2, <2>5, <4>1 DEF Valued, AllOwned, Owned
      <4>3. ~Stores(p, r, i)
        <5>1. ASSUME Stores(p, r, i)
              PROVE  FALSE
          <6>1. pc[p] \in Putting /\ local[p].arg = local[q].arg
            BY <4>2, <5>1, StoredIs, PlacesApart
          <6>. QED
            BY <3>1, <4>1, <6>1 DEF Valued, Distinct
        <5>. QED
          BY <5>1
      <4>4. r \in Rings /\ Val(rings, r, i) = local[q].arg
        BY <4>2, <4>3 DEF Effect, Grows, Kept
      <4>. QED
        BY <4>1, <4>4 DEF Reached
    <3>2. CASE q = p
      <4>1. pc[p] = "put_link" /\ pc'[p] \in Putting /\ pc'[p] \in PutPlaced /\ pc[p] \in Unstored
        BY <2>5, <3>2, PlacesApart DEF Effect, Writes, PutPlaced
      <4>2. local'[p].arg = local[p].arg /\ local'[p].rq = local[p].rq
        BY <4>1 DEF Effect, Writes
      <4>3. /\ local[p].arg \in 1 .. puts
            /\ \A s \in Rings, j \in Slots : Val(rings, s, j) # local[p].arg
        BY <4>1, PlacesApart DEF Valued, AllOwned, Owned
      <4>4. Val(rings', r, i) # Empty /\ Val(rings', r, i) = local[p].arg
        BY <2>2, <2>5, <3>2, <4>2, <4>3
      <4>5. ~Kept(r, i)
        BY <4>3, <4>4 DEF Kept
      <4>6. Stores(p, r, i)
        BY <4>4, <4>5 DEF Effect, Grows
      <4>. QED
        BY <3>2, <4>1, <4>2, <4>6 DEF Stores
    <3>. QED
      BY <3>1, <3>2
  <2>. QED
    BY <2>1, <2>4, <2>5 DEF Reached
\* A pair of what precedes what is a pair of values.
<1>PairIs. ASSUME TypeOK', NEW a, NEW b, <<a, b>> \in precedes'
           PROVE  a \in Nat /\ b \in Nat
  <2>. USE <1>PairIs
  <2>1. <<a, b>> \in Nat \X Nat
    BY DEF TypeOK
  <2>. QED
    BY <2>1
<1>StillBehind. ASSUME NEW q \in Procs, NEW r \in Rings', NEW i \in Slots
                PROVE  Behind(q, r, i)'
  <2>. USE <1>StillBehind
  <2>. SUFFICES ASSUME <<Val(rings', r, i), local'[q].arg>> \in precedes', pc'[q] \in PutPlaced
                PROVE  /\ r <= local'[q].rq
                       /\ pc'[q] \in Storing /\ local'[q].rq = r =>
                            Idx(rings', r, i) < local'[q].t
    <3>1. Storing \subseteq PutPlaced
      BY DEF Storing, PutPlaced
    <3>. QED
      BY <3>1 DEF Behind
  <2>1. Val(rings', r, i) \in Nat
    BY <1>PairIs DEF Effect
  <2>2. pc'[q] \in Putting /\ pc'[q] # "put_tail"
    BY DEF Putting, PutPlaced
  <2>3. pc[q] \in Putting /\ local'[q].arg = local[q].arg
    <3>1. CASE q # p
      BY <2>2, <3>1 DEF Effect, Others
    <3>2. CASE q = p
      BY <2>2, <3>2 DEF Effect, Writes
    <3>. QED
      BY <3>1, <3>2
  <2>4. local[q].arg \in 1 .. puts
    BY <2>3 DEF Valued, AllOwned, Owned
  <2>5. <<Val(rings', r, i), local[q].arg>> \in precedes /\ Val(rings', r, i) \in written
    BY <2>1, <2>3, <2>4, <1>Precedent
  <2>6. /\ r \in Rings /\ Val(rings', r, i) = Val(rings, r, i)
        /\ Idx(rings', r, i) = Idx(rings, r, i)
    BY <2>5, <1>WrittenIsKept
  <2>7. Behind(q, r, i) /\ <<Val(rings, r, i), local[q].arg>> \in precedes
    BY <2>5, <2>6 DEF InOrder
  <2>8. CASE q # p
    BY <2>6, <2>7, <2>8 DEF Effect, Others, Behind
  <2>9. CASE q = p
    <3>1. r <= local'[p].rq
      <4>1. CASE local'[p].rq = tail
        <5>1. r \in 1 .. tail
          BY <2>5, <2>6 DEF Reached
        <5>. QED
          BY SMTT(30), <4>1, <5>1 DEF TypeOK
      <4>2. CASE pc[p] \in PutPlaced /\ local'[p].rq = local[p].rq
        BY <2>7, <2>9, <4>2 DEF Behind
      <4>. QED
        BY <2>9, <4>1, <4>2 DEF Effect, Writes
    <3>2. ASSUME pc'[p] \in Storing, local'[p].rq = r
          PROVE  Idx(rings', r, i) < local'[p].t
      <4>1. CASE pc[p] = "put_reserve" /\ local'[p].t = rings[local[p].rq].tail
        <5>1. local[p].rq = r
          BY <2>9, <3>2, <4>1 DEF Effect, Writes
        <5>2. Val(rings, r, i) # Empty
          BY <2>5, <2>6, Numbers DEF Valued, Begun
        <5>3. Idx(rings, r, i) < rings[r].tail
          BY <2>6, <5>2 DEF Shaped
        <5>. QED
          BY <2>6, <4>1, <5>1, <5>3
      <4>2. CASE pc[p] \in Storing /\ local'[p].t = local[p].t
        <5>1. pc[p] # "put_tail"
          BY <4>2 DEF Storing
        <5>2. local[p].rq = r
          BY <2>9, <3>2, <5>1 DEF Effect, Writes
        <5>. QED
          BY <2>6, <2>7, <2>9, <4>2, <5>2 DEF Behind
      <4>. QED
        BY <3>2, <4>1, <4>2 DEF Effect, Writes
    <3>. QED
      BY <2>9, <3>1, <3>2
  <2>. QED
    BY <2>8, <2>9
<1>StillInOrder. InOrder'
  <2>1. ASSUME NEW r \in Rings', NEW i \in Slots, NEW s \in Rings', NEW j \in Slots,
               <<Val(rings', r, i), Val(rings', s, j)>> \in precedes'
        PROVE  Before(r, i, s, j)'
    <3>1. Val(rings', r, i) \in Nat /\ Val(rings', s, j) \in Nat
      BY <2>1, <1>PairIs DEF Effect
    <3>2. Val(rings', s, j) # Empty
      <4>1. Val(rings', s, j) \in 1 .. puts \/ Val(rings', s, j) = puts + 1
        BY <2>1, <3>1 DEF Effect, Remembers, Reached
      <4>2. puts + 1 # Empty
        BY SMTT(30) DEF TypeOK, Empty
      <4>. QED
        BY <4>1, <4>2, Numbers
    <3>3. Kept(s, j) \/ Stores(p, s, j)
      BY <3>2 DEF Effect, Grows
    <3>4. Val(rings', s, j) \in 1 .. puts
      BY <3>2, <3>3, StoredIs DEF Kept, Valued, Unread
    <3>5. <<Val(rings', r, i), Val(rings', s, j)>> \in precedes /\ Val(rings', r, i) \in written
      BY <2>1, <3>1, <3>4, <1>Precedent
    <3>6. /\ r \in Rings /\ Val(rings', r, i) = Val(rings, r, i)
          /\ Idx(rings', r, i) = Idx(rings, r, i)
      BY <3>5, <1>WrittenIsKept
    <3>7. CASE Kept(s, j)
      <4>1. /\ s \in Rings /\ Val(rings', s, j) = Val(rings, s, j)
            /\ Idx(rings', s, j) = Idx(rings, s, j)
        BY <3>7 DEF Kept
      <4>2. Before(r, i, s, j)
        BY <3>5, <3>6, <4>1 DEF InOrder
      <4>. QED
        BY <3>6, <4>1, <4>2 DEF Before
    <3>8. CASE Stores(p, s, j)
      <4>1. Behind(p, r, i) /\ <<Val(rings, r, i), local[p].arg>> \in precedes
        BY <3>5, <3>6, <3>8 DEF InOrder, Stores
      <4>2. pc[p] \in PutPlaced
        BY <3>8 DEF Stores, PutPlaced
      <4>3. r <= local[p].rq
        BY <4>1, <4>2 DEF Behind
      <4>4. local[p].rq \in Nat /\ r \in Nat
        <5>1. local[p].rq \in Nat
          BY LocalIs DEF TypeOK
        <5>2. r \in Nat
          BY SMTT(30), <3>6 DEF Rings
        <5>. QED
          BY <5>1, <5>2
      <4>5. (r < local[p].rq \/ r = local[p].rq) /\ r < local[p].rq + 1
        BY SMTT(30), <4>3, <4>4
      <4>6. CASE s = local[p].rq + 1
        BY <4>5, <4>6 DEF Before
      <4>7. CASE pc[p] = "put_store" /\ s = local[p].rq /\ Idx(rings', s, j) = local[p].t
        <5>1. r = local[p].rq => Idx(rings, r, i) < local[p].t
          BY <4>1, <4>7 DEF Behind, Storing
        <5>. QED
          BY <3>6, <4>5, <4>7, <5>1 DEF Before
      <4>. QED
        BY <3>8, <4>6, <4>7 DEF Stores
    <3>. QED
      BY <3>3, <3>7, <3>8
  <2>2. \A q \in Procs, r \in Rings', i \in Slots : Behind(q, r, i)'
    BY <1>StillBehind
  <2>. QED
    BY <2>1, <2>2 DEF InOrder
<1>StillRemembered. Remembered'
  <2>1. /\ written \subseteq written' /\ overtaken \subseteq overtaken'
        /\ \A q \in Procs : q # p => local'[q] = local[q]
    BY DEF Effect, Remembers, Others
  <2>2. overtaken' \subseteq written'
    <3>1. \A a \in overtaken' : a \in overtaken \/ a \in local[p].there \/ a \in written
      BY DEF Effect, Remembers
    <3>. QED
      BY <2>1, <3>1 DEF Remembered
  <2>3. local'[p].there \subseteq written'
    <3>1. local'[p].there \in {local[p].there, {}, written}
      BY DEF Effect, Remembers
    <3>. QED
      BY <2>1, <3>1 DEF Remembered
  <2>4. local'[p].gone \subseteq overtaken'
    <3>1. local'[p].gone \in {local[p].gone, {}, overtaken}
      BY DEF Effect, Remembers
    <3>. QED
      BY <2>1, <3>1 DEF Remembered
  <2>5. \A q \in Procs : local'[q].there \subseteq written' /\ local'[q].gone \subseteq overtaken'
    BY <2>1, <2>3, <2>4 DEF Remembered
  <2>. QED
    BY <2>2, <2>5 DEF Remembered
\* What a read overtakes is at a position that the readers have passed.
<1>StillOvertaken. Overtaken'
  <2>1. ASSUME NEW r \in Rings', NEW i \in Slots, Val(rings', r, i) \in overtaken'
        PROVE  Idx(rings', r, i) < rings'[r].head
    <3>1. Val(rings', r, i) \in written
      BY <2>1 DEF Effect, Remembers, Remembered
    <3>2. /\ r \in Rings /\ Val(rings', r, i) = Val(rings, r, i)
          /\ Idx(rings', r, i) = Idx(rings, r, i)
      BY <3>1, <1>WrittenIsKept
    <3>3. Val(rings, r, i) # Empty
      BY <3>1, <3>2, Numbers DEF Valued, Begun
    <3>4. /\ Idx(rings, r, i) \in Nat /\ rings[r].head \in Nat /\ local[p].t \in Nat
          /\ local[p].rq \in Nat /\ r \in Nat
      <4>1. Idx(rings, r, i) \in Nat /\ rings[r].head \in Nat
        BY <3>2, RingIs DEF Idx
      <4>2. local[p].t \in Nat /\ local[p].rq \in Nat
        BY LocalIs DEF TypeOK
      <4>3. r \in Nat
        BY SMTT(30), <3>2 DEF Rings
      <4>. QED
        BY <4>1, <4>2, <4>3
    <3>5. SUFFICES Idx(rings, r, i) < rings[r].head
      BY <3>2, <3>4 DEF Effect, Grows
    <3>6. ASSUME pc[p] \in {"get_next", "get_take"}, r < local[p].rq
          PROVE  Idx(rings, r, i) < rings[r].head
      <4>1. local[p].rq \in 1 .. head
        BY <3>6 DEF AllPlaced, Placed, ReaderPlaced, GetPlaced, Positioned, Looking, Checked
      <4>2. r + 1 \in 1 .. head
        BY SMTT(30), <3>4, <3>6, <4>1 DEF TypeOK
      <4>. QED
        BY <3>2, <3>3, <4>2 DEF LeftBehind, Passed
    <3>7. ASSUME pc[p] \in {"get_next", "get_take"}, r = local[p].rq,
                 Idx(rings, r, i) <= local[p].t
          PROVE  Idx(rings, r, i) < rings[r].head
      <4>1. local[p].t < rings[r].head
        BY <3>7 DEF AllPlaced, Placed, ReaderPlaced, Positioned, Looking, Checked
      <4>. QED
        BY SMTT(30), <3>4, <3>7, <4>1
    <3>8. CASE Val(rings, r, i) \in overtaken
      BY <3>2, <3>8 DEF Overtaken
    <3>9. CASE /\ pc[p] = "get_next" /\ rings[local[p].rq].next = NULL
               /\ Val(rings, r, i) \in local[p].there
      <4>1. local[p].rq \in Rings
        BY <3>9, CellOf DEF GetPlaced, Positioned, Checked
      <4>2. local[p].rq + 1 \notin Rings
        <5>1. local[p].rq + 1 # NULL
          BY SMTT(30), <3>4 DEF NULL
        <5>. QED
          BY <3>9, <4>1, <5>1 DEF Shaped
      <4>3. r < local[p].rq \/ r = local[p].rq
        <5>1. Len(rings) \in Nat
          BY SMTT(30) DEF TypeOK
        <5>. QED
          BY SMTT(30), <3>2, <3>4, <4>1, <4>2, <5>1 DEF Rings
      <4>4. ASSUME r = local[p].rq
            PROVE  Idx(rings, r, i) <= local[p].t
        BY <3>2, <3>9, <4>4 DEF Considered, Considers, Checked
      <4>. QED
        BY <3>6, <3>7, <3>9, <4>3, <4>4
    <3>10. CASE /\ Takes(p, local[p].rq, Cell(local[p].t))
                /\ <<Val(rings, r, i), Val(rings, local[p].rq, Cell(local[p].t))>> \in precedes
      <4>1. /\ pc[p] = "get_take" /\ local[p].rq \in Rings /\ Cell(local[p].t) \in Slots
            /\ Idx(rings, local[p].rq, Cell(local[p].t)) = local[p].t
        BY <3>10, CellOf DEF Takes
      <4>2. Before(r, i, local[p].rq, Cell(local[p].t))
        BY <3>2, <3>10, <4>1 DEF InOrder
      <4>3. CASE r = local[p].rq /\ Idx(rings, r, i) < local[p].t
        <5>1. Idx(rings, r, i) <= local[p].t
          BY SMTT(30), <3>4, <4>3
        <5>. QED
          BY <3>7, <4>1, <4>3, <5>1
      <4>. QED
        BY <3>6, <4>1, <4>2, <4>3 DEF Before
    <3>. QED
      BY <2>1, <3>2, <3>8, <3>9, <3>10 DEF Effect, Remembers
  <2>. QED
    BY <2>1 DEF Overtaken
<1>StillConsidered. Considered'
  <2>1. \A q \in Procs : q # p => pc'[q] = pc[q] /\ local'[q] = local[q]
    BY DEF Effect, Others
  <2>2. ASSUME NEW q \in Procs, NEW r \in Rings', NEW i \in Slots,
               pc'[q] \in Checked, local'[q].rq = r, Val(rings', r, i) \in local'[q].there
        PROVE  Idx(rings', r, i) <= local'[q].t
    <3>1. local'[q].there = local[q].there
      BY <2>1, <2>2 DEF Effect, Reads
    <3>2. Val(rings', r, i) \in written
      BY <2>2, <3>1 DEF Remembered
    <3>3. /\ r \in Rings /\ Val(rings', r, i) = Val(rings, r, i)
          /\ Idx(rings', r, i) = Idx(rings, r, i)
      BY <3>2, <1>WrittenIsKept
    <3>4. Considers(q, r, i)
      BY <3>3 DEF Considered
    <3>5. CASE q # p
      BY <2>1, <2>2, <3>1, <3>3, <3>4, <3>5 DEF Considers
    <3>6. CASE q = p
      <4>1. /\ local'[p].t = local[p].t
            /\ \/ pc[p] = "get_check" /\ rings[local[p].rq].tail <= local[p].t + 1
               \/ pc[p] \in Checked
        BY <2>2, <3>6 DEF Effect, Reads
      <4>2. pc'[p] \in GetPlaced /\ pc[p] # "get_head"
        BY <2>2, <3>6, <4>1 DEF GetPlaced, Positioned, Checked
      <4>3. local[p].rq = r
        BY <2>2, <3>6, <4>2 DEF Effect, Reads
      <4>4. CASE pc[p] \in Checked
        BY <2>2, <3>1, <3>3, <3>4, <3>6, <4>1, <4>3, <4>4 DEF Considers
      <4>5. CASE rings[r].tail <= local[p].t + 1
        <5>1. Val(rings, r, i) # Empty
          BY <3>2, <3>3, Numbers DEF Valued, Begun
        <5>2. Idx(rings, r, i) < rings[r].tail
          BY <3>3, <5>1 DEF Shaped
        <5>3. Idx(rings, r, i) \in Nat /\ rings[r].tail \in Nat /\ local[p].t \in Nat
          BY <3>3, RingIs, LocalIs DEF Idx, TypeOK
        <5>4. Idx(rings, r, i) <= local[p].t
          BY SMTT(30), <4>5, <5>2, <5>3
        <5>. QED
          BY <3>3, <3>6, <4>1, <5>4
      <4>. QED
        BY <4>1, <4>3, <4>4, <4>5
    <3>. QED
      BY <3>5, <3>6
  <2>3. ASSUME NEW q \in Procs, NEW r \in Rings', NEW i \in Slots,
               pc'[q] \in Looking, local'[q].rq = r, Val(rings', r, i) \in local'[q].gone
        PROVE  Idx(rings', r, i) # local'[q].t
    <3>1. local'[q].gone = local[q].gone
      BY <2>1, <2>3 DEF Effect, Reads
    <3>2. Val(rings', r, i) \in overtaken /\ Val(rings', r, i) \in written
      BY <2>3, <3>1 DEF Remembered
    <3>3. /\ r \in Rings /\ Val(rings', r, i) = Val(rings, r, i)
          /\ Idx(rings', r, i) = Idx(rings, r, i)
      BY <3>2, <1>WrittenIsKept
    <3>4. Avoids(q, r, i)
      BY <3>3 DEF Considered
    <3>5. CASE q # p
      BY <2>1, <2>3, <3>1, <3>3, <3>4, <3>5 DEF Avoids
    <3>6. CASE q = p
      <4>1. \/ pc[p] = "get_reserve" /\ local'[p].t = rings[local[p].rq].head
            \/ pc[p] \in Looking /\ local'[p].t = local[p].t
        BY <2>3, <3>6 DEF Effect, Reads
      <4>2. pc'[p] \in GetPlaced /\ pc[p] # "get_head"
        BY <2>3, <3>6, <4>1 DEF GetPlaced, Positioned, Looking
      <4>3. local[p].rq = r
        BY <2>3, <3>6, <4>2 DEF Effect, Reads
      <4>4. CASE pc[p] \in Looking /\ local'[p].t = local[p].t
        BY <2>3, <3>1, <3>3, <3>4, <3>6, <4>3, <4>4 DEF Avoids
      <4>5. CASE local'[p].t = rings[r].head
        <5>1. Idx(rings, r, i) < rings[r].head
          BY <3>2, <3>3 DEF Overtaken
        <5>2. Idx(rings, r, i) \in Nat /\ rings[r].head \in Nat
          BY <3>3, RingIs DEF Idx
        <5>3. Idx(rings, r, i) # rings[r].head
          BY SMTT(30), <5>1, <5>2
        <5>. QED
          BY <3>3, <3>6, <4>5, <5>3
      <4>. QED
        BY <4>1, <4>3, <4>4, <4>5
    <3>. QED
      BY <3>5, <3>6
  <2>4. \A q \in Procs, r \in Rings', i \in Slots : Considers(q, r, i)'
    BY <2>2 DEF Considers
  <2>5. \A q \in Procs, r \in Rings', i \in Slots : Avoids(q, r, i)'
    BY <2>3 DEF Avoids
  <2>. QED
    BY <2>4, <2>5 DEF Considered
<1>StillFifo. FifoOrder'
  <2>1. \A q \in Procs : q # p => result'[q] = result[q] /\ local'[q] = local[q]
    BY DEF Effect, Others
  <2>2. \A v \in written : v # Empty /\ v # NoResult
    BY Numbers DEF Valued, Begun
  <2>3. result'[p] \notin local'[p].gone
    <3>1. CASE result'[p] = result[p] /\ local'[p].gone \in {local[p].gone, {}}
      BY <3>1 DEF FifoOrder
    <3>2. CASE result'[p] = NoResult /\ local'[p].gone = overtaken
      BY <2>2, <3>2 DEF Remembered
    <3>3. CASE result'[p] = Empty /\ local'[p].gone = local[p].gone
      BY <2>2, <3>3 DEF Remembered
    <3>4. CASE Takes(p, local[p].rq, Cell(local[p].t)) /\ local'[p].gone = local[p].gone
      <4>1. /\ pc[p] = "get_take" /\ local[p].rq \in Rings /\ Cell(local[p].t) \in Slots
            /\ Idx(rings, local[p].rq, Cell(local[p].t)) = local[p].t
            /\ result'[p] = Val(rings, local[p].rq, Cell(local[p].t))
        BY <3>4, CellOf DEF Takes
      <4>2. pc[p] \in Looking /\ Avoids(p, local[p].rq, Cell(local[p].t))
        BY <4>1 DEF Considered, Looking
      <4>. QED
        BY <3>4, <4>1, <4>2 DEF Avoids
    <3>. QED
      BY <3>1, <3>2, <3>3, <3>4 DEF Effect, Remembers
  <2>. QED
    BY <2>1, <2>3 DEF FifoOrder
<1>. QED
  BY <1>StillReached, <1>StillInOrder, <1>StillRemembered, <1>StillOvertaken,
     <1>StillConsidered, <1>StillFifo

\* What the proof of FifoOrder rests on.
Ordered == /\ Safe /\ Reached /\ InOrder /\ Remembered /\ Overtaken /\ Considered /\ FifoOrder

\* There is nothing to order at first.
LEMMA InitOrdered ==
  ASSUME Init
  PROVE  Ordered
<1>1. \A p \in Procs : pc[p] = "idle" /\ local[p] = Idle /\ result[p] = NoResult
  BY InitShaped
<1>2. Idle.there = {} /\ Idle.gone = {}
  BY DEF Idle
<1>3. precedes = {} /\ written = {} /\ overtaken = {}
  BY DEF Init
<1>4. Reached
  BY <1>1, <1>3 DEF Reached
<1>5. InOrder
  BY <1>3 DEF InOrder, Behind
<1>6. Remembered /\ Overtaken
  BY <1>1, <1>2, <1>3 DEF Remembered, Overtaken
<1>7. Considered
  BY <1>1, <1>2 DEF Considered, Considers, Avoids
<1>8. FifoOrder
  BY <1>1, <1>2 DEF FifoOrder
<1>. QED
  BY <1>4, <1>5, <1>6, <1>7, <1>8, InitSafe DEF Ordered

\* Ordered survives stuttering.
LEMMA OrderedStays ==
  ASSUME Ordered, UNCHANGED vars
  PROVE  Ordered'
<1>1. /\ rings' = rings /\ tail' = tail /\ pc' = pc /\ local' = local /\ puts' = puts
      /\ written' = written /\ precedes' = precedes /\ overtaken' = overtaken
      /\ result' = result
  BY DEF vars
<1>2. Safe'
  BY SafeStays DEF Ordered
<1>3. Rings' = Rings
  BY <1>1 DEF Rings
<1>4. Reached'
  BY <1>1, <1>3 DEF Ordered, Reached
<1>5. InOrder'
  BY <1>1, <1>3 DEF Ordered, InOrder, Behind, Before
<1>6. Remembered' /\ Overtaken'
  BY <1>1, <1>3 DEF Ordered, Remembered, Overtaken
<1>7. Considered'
  BY <1>1, <1>3 DEF Ordered, Considered, Considers, Avoids
<1>8. FifoOrder'
  BY <1>1 DEF Ordered, FifoOrder
<1>. QED
  BY <1>2, <1>4, <1>5, <1>6, <1>7, <1>8 DEF Ordered

\* Every step keeps Ordered.
LEMMA OrderedNext ==
  ASSUME Ordered, Next
  PROVE  Ordered'
<1>1. /\ TypeOK /\ Shaped /\ AllPlaced /\ Valued /\ LeftBehind
      /\ Reached /\ InOrder /\ Remembered /\ Overtaken /\ Considered /\ FifoOrder
  BY DEF Ordered, Safe, Kind
<1>2. Safe' /\ \E p \in Procs : Effect(p) /\ Turns(p)
  BY SafeNext DEF Ordered
<1>3. PICK p \in Procs : Effect(p) /\ Turns(p)
  BY <1>2
<1>4. Reached'
  BY <1>1, <1>3, StillOrdered
<1>5. InOrder'
  BY <1>1, <1>3, StillOrdered
<1>6. Remembered'
  BY <1>1, <1>3, StillOrdered
<1>7. Overtaken'
  BY <1>1, <1>3, StillOrdered
<1>8. Considered'
  BY <1>1, <1>3, StillOrdered
<1>9. FifoOrder'
  BY <1>1, <1>3, StillOrdered
<1>. QED
  BY <1>2, <1>4, <1>5, <1>6, <1>7, <1>8, <1>9 DEF Ordered

\* First in, first out, in real time: no lcrq_get returns a value that an
\* earlier one passed over, for a value whose lcrq_put began after that of the
\* first had returned, or to say that the queue is empty.
THEOREM AlwaysFifo == Spec => []FifoOrder
<1>1. Init => Ordered
  BY InitOrdered
<1>2. Ordered /\ [Next]_vars => Ordered'
  BY OrderedNext, OrderedStays
<1>3. Ordered => FifoOrder
  BY DEF Ordered
<1>. QED
  BY <1>1, <1>2, <1>3, PTL DEF Spec

=============================================================================

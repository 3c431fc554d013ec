----------------------------- MODULE MpscProofs -----------------------------
(***************************************************************************)
(* What Mpsc promises for any producers, writes and nodes: no node is used *)
(* after its deletion, and the list of nodes is a queue of items.          *)
(***************************************************************************)
EXTENDS Mpsc, SequenceTheorems, TLAPS

\* Leaves are proved by Zenon, unless they name another prover.
USE ZenonT(30)

TypeOK ==
  /\ head \in Nodes /\ tail \in Nodes
  /\ next \in [Nodes -> Nodes \cup {null}]
  /\ data \in [Nodes -> Items \union {null}]
  /\ writes \in [Producers -> 0 .. MaxWrites]
  /\ order \in Seq(Nodes)
  /\ allocated \in SUBSET Nodes
  /\ pc \in [Producers -> {"idle", "exchange", "link"}]
  /\ node \in [Producers -> Nodes \cup {null}]
  /\ prev_head \in [Producers -> Nodes \cup {null}]
  /\ reader \in {"idle", "move"}

\* Nobody in the list leads to n.
Unreferenced(n) == n # tail /\ \A m \in allocated : next[m] # n

\* The list: it ends with the head, no node has two predecessors, and the tail
\* has none.
List ==
  /\ head \in allocated /\ tail \in allocated
  /\ next[head] = null
  /\ \A m \in allocated : next[m] # null => next[m] \in allocated /\ next[m] # tail
  /\ \A m, n \in allocated : m # n /\ next[m] # null => next[m] # next[n]
  /\ reader = "move" => next[tail] # null

\* A node is its producer's until the link: nothing leads to it, and before
\* the exchange nobody knows it.
Private ==
  /\ \A p \in Producers : pc[p] # "idle" => node[p] \in allocated /\ Unreferenced(node[p])
  /\ \A p \in Producers : pc[p] = "exchange" => node[p] # head /\ next[node[p]] = null
  /\ \A p, q \in Producers : p # q /\ pc[p] # "idle" /\ pc[q] # "idle" => node[p] # node[q]

\* What an exchange returned is a node without successor, for one producer to
\* link from, and not the head any more.
Gaps ==
  /\ \A p \in Producers : pc[p] = "link" =>
       prev_head[p] \in allocated /\ next[prev_head[p]] = null /\ prev_head[p] # head
  /\ \A p, q \in Producers : p # q /\ pc[p] = "link" /\ pc[q] = "link" => prev_head[p] # prev_head[q]
  /\ \A p, q \in Producers : pc[p] = "exchange" /\ pc[q] = "link" => node[p] # prev_head[q]

\* The list goes from the tail to the head through different nodes.  Each leads
\* to the next one, or to none while the producer of the next one has yet to
\* link it.
Line ==
  /\ order # <<>> /\ order[1] = tail /\ order[Len(order)] = head
  /\ \A i \in 1 .. Len(order) : order[i] \in allocated
  /\ \A i, j \in 1 .. Len(order) : order[i] = order[j] => i = j
  /\ \A i \in 1 .. Len(order) - 1 : next[order[i]] \in {null, order[i + 1]}
  /\ \A p \in Producers : pc[p] = "link" =>
       \E i \in 1 .. Len(order) - 1 : order[i] = prev_head[p] /\ order[i + 1] = node[p]
  /\ \A p \in Producers : pc[p] = "exchange" =>
       data[node[p]] \in Items /\ \A i \in 1 .. Len(order) : order[i] # node[p]

IInv == TypeOK /\ List /\ Private /\ Gaps /\ Line
-----------------------------------------------------------------------------
\* Every step keeps the types.
LEMMA TypeStep ==
  ASSUME IInv, [Next]_vars
  PROVE  TypeOK'
<1> USE MpscAssumption DEF IInv
<1>1. ASSUME NEW p \in Producers, Allocate(p)  PROVE TypeOK'
  <2>1. <<p, writes[p] + 1>> \in Items /\ writes' \in [Producers -> 0 .. MaxWrites]
    BY SMTT(30), <1>1 DEF Allocate, TypeOK, Items
  <2>. QED
    BY SMTT(30), <1>1, <2>1 DEF Allocate, TypeOK
<1>2. ASSUME NEW p \in Producers, Exchange(p)  PROVE TypeOK'
  BY SMTT(30), <1>2 DEF Exchange, TypeOK, Private
<1>3. ASSUME NEW p \in Producers, LinkNode(p)  PROVE TypeOK'
  BY <1>3 DEF LinkNode, TypeOK
<1>4. ASSUME LoadNext  PROVE TypeOK'
  BY <1>4 DEF LoadNext, TypeOK
<1>5. ASSUME MoveOut  PROVE TypeOK'
  <2>1. order' \in Seq(Nodes)
    BY <1>5, HeadTailProperties DEF MoveOut, TypeOK, Line
  <2>. QED
    BY <1>5, <2>1 DEF MoveOut, TypeOK, List
<1>6. ASSUME UNCHANGED vars  PROVE TypeOK'
  BY <1>6 DEF vars, TypeOK
<1> QED
  BY <1>1, <1>2, <1>3, <1>4, <1>5, <1>6 DEF Next

\* Every step keeps the list, the private nodes and the gaps.
LEMMA NodesStep ==
  ASSUME IInv, TypeOK', [Next]_vars
  PROVE  List' /\ Private' /\ Gaps'
<1> USE MpscAssumption DEF IInv
<1>1. ASSUME NEW p \in Producers, Allocate(p)  PROVE List' /\ Private' /\ Gaps'
  <2>1. List'
    BY SMTT(30), <1>1 DEF Allocate, TypeOK, List, Private, Gaps, Unreferenced
  <2>2. Private'
    BY SMTT(30), <1>1 DEF Allocate, TypeOK, List, Private, Gaps, Unreferenced
  <2>3. Gaps'
    BY SMTT(30), <1>1 DEF Allocate, TypeOK, List, Private, Gaps, Unreferenced
  <2> QED
    BY <2>1, <2>2, <2>3
<1>2. ASSUME NEW p \in Producers, Exchange(p)  PROVE List' /\ Private' /\ Gaps'
  <2>1. List'
    BY SMTT(30), <1>2 DEF Exchange, TypeOK, List, Private, Gaps, Unreferenced
  <2>2. Private'
    BY SMTT(30), <1>2 DEF Exchange, TypeOK, List, Private, Gaps, Unreferenced
  <2>3. Gaps'
    BY SMTT(30), <1>2 DEF Exchange, TypeOK, List, Private, Gaps, Unreferenced
  <2> QED
    BY <2>1, <2>2, <2>3
<1>3. ASSUME NEW p \in Producers, LinkNode(p)  PROVE List' /\ Private' /\ Gaps'
  <2>1. List'
    BY SMTT(30), <1>3 DEF LinkNode, TypeOK, List, Private, Gaps, Unreferenced
  <2>2. Private'
    BY SMTT(30), <1>3 DEF LinkNode, TypeOK, List, Private, Gaps, Unreferenced
  <2>3. Gaps'
    BY SMTT(30), <1>3 DEF LinkNode, TypeOK, List, Private, Gaps, Unreferenced
  <2> QED
    BY <2>1, <2>2, <2>3
<1>4. ASSUME LoadNext  PROVE List' /\ Private' /\ Gaps'
  <2>1. List'
    BY SMTT(30), <1>4 DEF LoadNext, TypeOK, List, Private, Gaps, Unreferenced
  <2>2. Private'
    BY <1>4 DEF LoadNext, TypeOK, List, Private, Gaps, Unreferenced
  <2>3. Gaps'
    BY SMTT(30), <1>4 DEF LoadNext, TypeOK, List, Private, Gaps, Unreferenced
  <2> QED
    BY <2>1, <2>2, <2>3
<1>5. ASSUME MoveOut  PROVE List' /\ Private' /\ Gaps'
  <2>1. List'
    BY SMTT(30), <1>5 DEF MoveOut, TypeOK, List, Private, Gaps, Unreferenced
  <2>2. Private'
    BY SMTT(30), <1>5 DEF MoveOut, TypeOK, List, Private, Gaps, Unreferenced
  <2>3. Gaps'
    BY SMTT(30), <1>5 DEF MoveOut, TypeOK, List, Private, Gaps, Unreferenced
  <2> QED
    BY <2>1, <2>2, <2>3
<1>6. ASSUME UNCHANGED vars  PROVE List' /\ Private' /\ Gaps'
  BY SMTT(30), <1>6 DEF vars, List, Private, Gaps, Unreferenced
<1> QED
  BY <1>1, <1>2, <1>3, <1>4, <1>5, <1>6 DEF Next

\* Every step keeps the line of nodes.
LEMMA LineStep ==
  ASSUME IInv, [Next]_vars
  PROVE  Line'
<1> USE MpscAssumption DEF IInv
<1>0. Len(order) \in Nat \ {0} /\ \A i \in 1 .. Len(order) : order[i] \in Nodes
  BY SMTT(30) DEF TypeOK, Line
<1>1. ASSUME NEW p \in Producers, Allocate(p)  PROVE Line'
  <2>1. PICK n \in Nodes \ allocated :
          /\ allocated' = allocated \union {n}
          /\ node' = [node EXCEPT ![p] = n]
          /\ data' = [data EXCEPT ![n] = <<p, writes[p] + 1>>]
          /\ next' = [next EXCEPT ![n] = null]
    BY <1>1 DEF Allocate
  <2>2. /\ UNCHANGED <<head, tail, prev_head, order>>
        /\ pc' = [pc EXCEPT ![p] = "exchange"] /\ pc[p] = "idle"
        /\ <<p, writes[p] + 1>> \in Items
    BY SMTT(30), <1>1 DEF Allocate, TypeOK, Items
  <2>3. \A i \in 1 .. Len(order) : order[i] # n /\ next'[order[i]] = next[order[i]]
    BY SMTT(30), <1>0, <2>1 DEF TypeOK, Line
  <2>4. \A q \in Producers : pc'[q] = "link" => pc[q] = "link" /\ node'[q] = node[q]
    BY <2>1, <2>2 DEF TypeOK
  <2>5. ASSUME NEW q \in Producers, pc'[q] = "exchange"
        PROVE  data'[node'[q]] \in Items /\ \A i \in 1 .. Len(order) : order[i] # node'[q]
    <3>1. CASE q = p
      BY <2>1, <2>2, <2>3, <3>1 DEF TypeOK
    <3>2. CASE q # p
      <4>1. pc[q] = "exchange" /\ node'[q] = node[q] /\ node[q] \in allocated
        BY <2>1, <2>2, <2>5, <3>2 DEF TypeOK, Private
      <4>2. data'[node[q]] = data[node[q]]
        BY <2>1, <4>1 DEF TypeOK
      <4>. QED
        BY <4>1, <4>2 DEF Line
    <3>. QED
      BY <3>1, <3>2
  <2>. QED
    BY SMTT(30), <2>1, <2>2, <2>3, <2>4, <2>5 DEF Line
<1>2. ASSUME NEW p \in Producers, Exchange(p)  PROVE Line'
  <2>1. /\ UNCHANGED <<tail, next, data, allocated, node>>
        /\ prev_head' = [prev_head EXCEPT ![p] = head] /\ head' = node[p]
        /\ order' = Append(order, node[p])
        /\ pc' = [pc EXCEPT ![p] = "link"] /\ pc[p] = "exchange"
    BY <1>2 DEF Exchange
  <2>2. /\ node[p] \in allocated /\ node[p] \in Nodes
        /\ \A i \in 1 .. Len(order) : order[i] # node[p]
        /\ \A q \in Producers : pc[q] = "exchange" /\ q # p => node[q] # node[p]
    BY <2>1 DEF TypeOK, Private, Line
  <2>3. /\ Len(order') = Len(order) + 1 /\ order'[Len(order) + 1] = node[p]
        /\ \A i \in 1 .. Len(order) : order'[i] = order[i]
    BY SMTT(30), <1>0, <2>1, <2>2 DEF TypeOK
  <2>4. next[order[Len(order)]] = null
    BY DEF List, Line
  <2>5. /\ order' # <<>> /\ order'[1] = tail' /\ order'[Len(order')] = head'
        /\ \A i \in 1 .. Len(order') : order'[i] \in allocated'
    BY SMTT(30), <1>0, <2>1, <2>2, <2>3 DEF Line
  <2>6. \A i, j \in 1 .. Len(order') : order'[i] = order'[j] => i = j
    BY SMTT(30), <1>0, <2>2, <2>3 DEF Line
  <2>7. \A i \in 1 .. Len(order') - 1 : next'[order'[i]] \in {null, order'[i + 1]}
    BY SMTT(30), <1>0, <2>1, <2>3, <2>4 DEF Line
  <2>8. ASSUME NEW q \in Producers, pc'[q] = "link"
        PROVE  \E i \in 1 .. Len(order') - 1 :
                 order'[i] = prev_head'[q] /\ order'[i + 1] = node'[q]
    <3>1. CASE q = p
      <4>1. order'[Len(order)] = prev_head'[q] /\ order'[Len(order) + 1] = node'[q]
        BY SMTT(30), <1>0, <2>1, <2>3, <3>1 DEF TypeOK, Line
      <4>. QED
        BY SMTT(30), <1>0, <2>3, <4>1
    <3>2. CASE q # p
      <4>1. pc[q] = "link" /\ prev_head'[q] = prev_head[q]
        BY <2>1, <2>8, <3>2 DEF TypeOK
      <4>2. PICK i \in 1 .. Len(order) - 1 : order[i] = prev_head[q] /\ order[i + 1] = node[q]
        BY <4>1 DEF Line
      <4>. QED
        BY SMTT(30), <1>0, <2>1, <2>3, <4>1, <4>2
    <3>. QED
      BY <3>1, <3>2
  <2>9. ASSUME NEW q \in Producers, pc'[q] = "exchange"
        PROVE  data'[node'[q]] \in Items /\ \A i \in 1 .. Len(order') : order'[i] # node'[q]
    <3>1. pc[q] = "exchange" /\ q # p
      BY <2>1, <2>9 DEF TypeOK
    <3>. QED
      BY SMTT(30), <1>0, <2>1, <2>2, <2>3, <3>1 DEF Line
  <2>. QED
    BY <2>5, <2>6, <2>7, <2>8, <2>9 DEF Line
<1>3. ASSUME NEW p \in Producers, LinkNode(p)  PROVE Line'
  <2>1. /\ UNCHANGED <<head, tail, data, allocated, node, prev_head, order>>
        /\ next' = [next EXCEPT ![prev_head[p]] = node[p]]
        /\ pc' = [pc EXCEPT ![p] = "idle"] /\ pc[p] = "link"
    BY <1>3 DEF LinkNode
  <2>2. PICK k \in 1 .. Len(order) - 1 : order[k] = prev_head[p] /\ order[k + 1] = node[p]
    BY <2>1 DEF Line
  <2>3. \A i \in 1 .. Len(order) - 1 : next'[order[i]] \in {null, order[i + 1]}
    BY SMTT(30), <1>0, <2>1, <2>2 DEF TypeOK, Line
  <2>4. \A q \in Producers : pc'[q] # "idle" => pc'[q] = pc[q]
    BY <2>1 DEF TypeOK
  <2>. QED
    BY SMTT(30), <2>1, <2>3, <2>4 DEF Line
<1>4. ASSUME MoveOut  PROVE Line'
  <2>1. /\ UNCHANGED <<head, next, data, pc, node, prev_head>>
        /\ order' = Tail(order) /\ tail' = next[tail] /\ allocated' = allocated \ {tail}
        /\ next[tail] # null
    BY <1>4 DEF MoveOut, List
  <2>2. Len(order) > 1 /\ next[tail] = order[2]
    <3>1. order[Len(order)] # order[1]
      BY <2>1 DEF List, Line
    <3>2. Len(order) > 1
      BY SMTT(30), <1>0, <3>1
    <3>. QED
      BY SMTT(30), <1>0, <2>1, <3>2 DEF Line
  <2>3. Len(order') = Len(order) - 1 /\ \A i \in 1 .. Len(order) - 1 : order'[i] = order[i + 1]
    BY SMTT(30), <1>0, <2>1, HeadTailProperties DEF TypeOK, Line
  <2>4. /\ order' # <<>> /\ order'[1] = tail' /\ order'[Len(order')] = head'
        /\ \A i \in 1 .. Len(order') : order'[i] \in allocated'
        /\ \A i, j \in 1 .. Len(order') : order'[i] = order'[j] => i = j
    <3>1. order' # <<>> /\ order'[1] = tail'
      <4>1. Len(order') > 0 /\ order'[1] = order[2]
        BY SMTT(30), <1>0, <2>2, <2>3
      <4>2. Len(<<>>) = 0
        OBVIOUS
      <4>3. order' # <<>>
        BY SMTT(30), <4>1, <4>2
      <4>. QED
        BY <2>1, <2>2, <4>1, <4>3
    <3>2. order'[Len(order')] = head'
      BY SMTT(30), <1>0, <2>1, <2>2, <2>3 DEF Line
    <3>3. \A i \in 1 .. Len(order') : order'[i] \in allocated'
      BY SMTT(30), <1>0, <2>1, <2>2, <2>3 DEF Line
    <3>4. ASSUME NEW i \in 1 .. Len(order'), NEW j \in 1 .. Len(order'), order'[i] = order'[j]
          PROVE  i = j
      <4>1. i + 1 \in 1 .. Len(order) /\ j + 1 \in 1 .. Len(order) /\ order[i + 1] = order[j + 1]
        BY SMTT(30), <1>0, <2>3, <3>4
      <4>2. i + 1 = j + 1
        BY <4>1 DEF Line
      <4>. QED
        BY SMTT(30), <1>0, <2>3, <4>2
    <3>. QED
      BY <3>1, <3>2, <3>3, <3>4
  <2>5. \A i \in 1 .. Len(order') - 1 : next'[order'[i]] \in {null, order'[i + 1]}
    BY SMTT(30), <1>0, <2>1, <2>2, <2>3 DEF Line
  <2>6. ASSUME NEW q \in Producers, pc'[q] = "link"
        PROVE  \E i \in 1 .. Len(order') - 1 :
                 order'[i] = prev_head'[q] /\ order'[i + 1] = node'[q]
    <3>1. PICK i \in 1 .. Len(order) - 1 : order[i] = prev_head[q] /\ order[i + 1] = node[q]
      BY <2>1, <2>6 DEF Line
    <3>2. i # 1
      BY SMTT(30), <2>1, <2>6, <3>1 DEF Gaps, Line
    <3>3. i - 1 \in 1 .. Len(order') - 1
      BY SMTT(30), <1>0, <2>3, <3>1, <3>2
    <3>4. order'[i - 1] = prev_head'[q] /\ order'[(i - 1) + 1] = node'[q]
      BY SMTT(30), <1>0, <2>1, <2>3, <3>1, <3>3
    <3>. QED
      BY <3>3, <3>4
  <2>7. \A q \in Producers : pc'[q] = "exchange" =>
          data'[node'[q]] \in Items /\ \A i \in 1 .. Len(order') : order'[i] # node'[q]
    BY SMTT(30), <1>0, <2>1, <2>2, <2>3 DEF Line
  <2>. QED
    BY <2>4, <2>5, <2>6, <2>7 DEF Line
<1>5. ASSUME LoadNext \/ UNCHANGED vars  PROVE Line'
  BY SMTT(30), <1>5 DEF LoadNext, vars, Line
<1>. QED
  BY <1>1, <1>2, <1>3, <1>4, <1>5 DEF Next

\* All of this holds when the queue is built, and after every step.
LEMMA Invariance == Spec => []IInv
<1>1. Init => IInv
  <2> SUFFICES ASSUME Init PROVE IInv
    OBVIOUS
  <2>1. /\ order \in Seq(Nodes) /\ Len(order) = 1 /\ order[1] = Stub /\ order # <<>>
    BY SMTT(30), MpscAssumption DEF Init
  <2>2. TypeOK /\ List /\ Private /\ Gaps
    BY SMTT(30), <2>1, MpscAssumption DEF Init, TypeOK, List, Private, Gaps
  <2>3. Line
    BY SMTT(30), <2>1 DEF Init, Line
  <2>. QED
    BY <2>2, <2>3 DEF IInv
<1>2. IInv /\ [Next]_vars => IInv'
  BY TypeStep, NodesStep, LineStep DEF IInv
<1>. QED
  BY <1>1, <1>2, PTL DEF Spec

\* A node is deleted only after the last access to it: whatever producers and
\* consumer do, and however soon a deleted node is handed out again, the head,
\* the tail, its successor and what a producer links are allocated.
THEOREM NodesInUseAllocated == Spec => []NoUseAfterFree
<1>1. IInv => NoUseAfterFree
  BY DEF IInv, List, Private, Gaps, NoUseAfterFree
<1>. QED
  BY <1>1, Invariance, PTL

-----------------------------------------------------------------------------
(***************************************************************************)
(* The refinement of LinkedFifo.                                           *)
(***************************************************************************)
Entries == [item : Items \union {null}, linked : BOOLEAN]

\* The queue that the line of nodes stands for.
QueueFits ==
  /\ Queue \in Seq(Entries) /\ Len(Queue) = Len(order) - 1
  /\ \A i \in 1 .. Len(order) - 1 :
       Queue[i] = Entry(data[order[i + 1]], next[order[i]])

\* The line of nodes always stands for a queue.
LEMMA QueueIs == IInv => QueueFits
<1> SUFFICES ASSUME IInv PROVE QueueFits
  OBVIOUS
<1> DEFINE n == Len(order) - 1
<1>1. n \in Nat /\ \A i \in 1 .. n : order[i] \in Nodes /\ order[i + 1] \in Nodes
  BY SMTT(30) DEF IInv, TypeOK, Line
<1>2. \A i \in 1 .. n : Entry(data[order[i + 1]], next[order[i]]) \in Entries
  BY <1>1 DEF IInv, TypeOK, Entries, Entry
<1> HIDE DEF n
<1>3. Queue = [i \in 1 .. n |-> Entry(data[order[i + 1]], next[order[i]])]
  BY DEF Queue, n
<1>4. Queue \in [1 .. n -> Entries]
  BY <1>2, <1>3
<1>5. Queue \in Seq(Entries) /\ Len(Queue) = n
  BY SMTT(30), <1>1, <1>4, SeqDef
<1>. QED
  BY <1>3, <1>5 DEF n, QueueFits

\* Every step of the nodes is a step of the queue or none: the exchange enters
\* an item, the link makes it readable, the move of the tail takes the first.
LEMMA FifoStep == IInv /\ IInv' /\ [Next]_vars => [Fifo!FifoNext]_(Fifo!fifoVars)
<1> USE MpscAssumption
<1>a. IInv => QueueFits
  BY QueueIs
<1>b. IInv' => QueueFits'
  BY QueueIs, PTL
<1> SUFFICES ASSUME IInv, IInv', [Next]_vars
             PROVE  Fifo!FifoNext \/ UNCHANGED <<Queue, output>>
  BY DEF Fifo!fifoVars
<1>0. QueueFits /\ QueueFits' /\ Len(order) \in Nat \ {0}
  BY SMTT(30), <1>a, <1>b DEF IInv, TypeOK, Line
<1>e. /\ \A d : Entry(d, null) = [item |-> d, linked |-> FALSE]
      /\ \A d, m : m # null => Entry(d, m) = [item |-> d, linked |-> TRUE]
  BY DEF Entry
<1>f. ASSUME NEW d, NEW e, NEW f,
             e = [item |-> d, linked |-> FALSE], f = [item |-> d, linked |-> TRUE]
      PROVE  [e EXCEPT !.linked = TRUE] = f
  <2>1. \A b, c : [[item |-> d, linked |-> b] EXCEPT !.linked = c] = [item |-> d, linked |-> c]
    BY SMTT(30)
  <2>. QED
    BY <1>f, <2>1
<1>1. ASSUME NEW p \in Producers, Allocate(p)  PROVE UNCHANGED <<Queue, output>>
  <2>1. PICK n \in Nodes \ allocated : /\ data' = [data EXCEPT ![n] = <<p, writes[p] + 1>>]
                                       /\ next' = [next EXCEPT ![n] = null]
    BY <1>1 DEF Allocate
  <2>2. UNCHANGED <<order, output>>
    BY <1>1 DEF Allocate
  <2>3. \A i \in 1 .. Len(order) : next'[order[i]] = next[order[i]] /\ data'[order[i]] = data[order[i]]
    BY SMTT(30), <2>1 DEF IInv, TypeOK, Line
  <2>4. \A i \in 1 .. Len(Queue) : Queue'[i] = Queue[i]
    BY SMTT(30), <1>0, <2>2, <2>3 DEF QueueFits
  <2>5. Queue' = Queue
    BY <1>0, <2>2, <2>4, SeqEqual DEF QueueFits
  <2>. QED
    BY <2>2, <2>5
<1>2. ASSUME NEW p \in Producers, Exchange(p)  PROVE Fifo!Enter(data[node[p]]) /\ data[node[p]] \in Items
  <2>1. /\ order' = Append(order, node[p]) /\ UNCHANGED <<next, data, output>>
        /\ pc[p] = "exchange" /\ node[p] \in Nodes /\ data[node[p]] \in Items
    BY <1>2 DEF Exchange, IInv, TypeOK, Private, Line
  <2>2. /\ Len(order') = Len(order) + 1 /\ order'[Len(order) + 1] = node[p]
        /\ \A i \in 1 .. Len(order) : order'[i] = order[i]
    BY SMTT(30), <2>1 DEF IInv, TypeOK
  <2>3. next[order[Len(order)]] = null
    BY DEF IInv, List, Line
  <2> DEFINE new == Entry(data[node[p]], null)
  <2>4. /\ new \in Entries /\ Append(Queue, new) \in Seq(Entries)
        /\ Len(Append(Queue, new)) = Len(order) /\ Append(Queue, new)[Len(order)] = new
        /\ \A i \in 1 .. Len(order) - 1 : Append(Queue, new)[i] = Queue[i]
    BY SMTT(30), <1>0, <2>1 DEF QueueFits, Entries, Entry
  <2>5. Queue'[Len(order)] = new
    BY SMTT(30), <1>0, <2>1, <2>2, <2>3 DEF QueueFits
  <2>6. \A i \in 1 .. Len(order) - 1 : Queue'[i] = Queue[i]
    BY SMTT(30), <1>0, <2>1, <2>2 DEF QueueFits
  <2> HIDE DEF new
  <2>7. Len(Queue') = Len(order)
    BY SMTT(30), <1>0, <2>2 DEF QueueFits
  <2>8. \A i \in 1 .. Len(Queue') : Queue'[i] = Append(Queue, new)[i]
    BY SMTT(30), <1>0, <2>4, <2>5, <2>6, <2>7
  <2>9. Queue' = Append(Queue, new)
    BY <1>0, <2>4, <2>7, <2>8, SeqEqual DEF QueueFits
  <2>. QED
    BY <2>1, <2>9 DEF Fifo!Enter, new, Entry
<1>3. ASSUME NEW p \in Producers, LinkNode(p)  PROVE Fifo!Link
  <2>1. /\ UNCHANGED <<data, order, output>> /\ pc[p] = "link"
        /\ next' = [next EXCEPT ![prev_head[p]] = node[p]]
    BY <1>3 DEF LinkNode
  <2>2. PICK k \in 1 .. Len(order) - 1 : order[k] = prev_head[p] /\ order[k + 1] = node[p]
    BY <2>1 DEF IInv, Line
  <2>3. /\ next[order[k]] = null /\ next'[order[k]] = node[p] /\ node[p] \in Nodes
        /\ \A i \in 1 .. Len(order) - 1 : i # k => next'[order[i]] = next[order[i]]
    <3>1. order[k] \in Nodes /\ \A i \in 1 .. Len(order) : order[i] = order[k] => i = k
      BY SMTT(30), <1>0, <2>2 DEF IInv, TypeOK, Line
    <3>2. next[order[k]] = null /\ node[p] \in Nodes
      BY SMTT(30), <2>1, <2>2 DEF IInv, TypeOK, Gaps, Private
    <3>3. next'[order[k]] = node[p]
      BY <2>1, <2>2, <3>1 DEF IInv, TypeOK
    <3>. QED
      BY SMTT(30), <1>0, <2>1, <2>2, <3>1, <3>2, <3>3 DEF IInv, TypeOK
  <2>a. /\ k \in 1 .. Len(Queue) /\ Queue[k] = Entry(data[order[k + 1]], null)
        /\ Queue'[k] = Entry(data[order[k + 1]], node[p])
    BY SMTT(30), <1>0, <2>1, <2>2, <2>3 DEF QueueFits
  <2>b. /\ Queue[k] = [item |-> data[order[k + 1]], linked |-> FALSE]
        /\ Queue'[k] = [item |-> data[order[k + 1]], linked |-> TRUE]
    BY <1>e, <2>3, <2>a
  <2>4. k \in 1 .. Len(Queue) /\ ~Queue[k].linked
    BY SMTT(30), <2>a, <2>b
  <2> DEFINE linked == [Queue[k] EXCEPT !.linked = TRUE]
  <2>c. linked = Queue'[k]
    BY <1>f, <2>b
  <2>5. linked \in Entries /\ Queue'[k] = linked
    BY SMTT(30), <1>0, <2>1, <2>4, <2>c DEF QueueFits
  <2>6. \A i \in 1 .. Len(Queue) : i # k => Queue'[i] = Queue[i]
    BY SMTT(30), <1>0, <2>1, <2>3 DEF QueueFits
  <2> HIDE DEF linked
  <2>7. /\ [Queue EXCEPT ![k] = linked] \in Seq(Entries)
        /\ Len([Queue EXCEPT ![k] = linked]) = Len(Queue)
        /\ \A i \in 1 .. Len(Queue) :
             [Queue EXCEPT ![k] = linked][i] = IF i = k THEN linked ELSE Queue[i]
    BY SMTT(30), <1>0, <2>4, <2>5, ExceptSeq DEF QueueFits
  <2>8. Len(Queue') = Len(Queue)
    BY <1>0, <2>1 DEF QueueFits
  <2>9. \A i \in 1 .. Len(Queue') : Queue'[i] = [Queue EXCEPT ![k] = linked][i]
    BY <2>4, <2>5, <2>6, <2>7, <2>8
  <2>10. Queue' = [Queue EXCEPT ![k] = linked]
    BY <1>0, <2>7, <2>8, <2>9, SeqEqual DEF QueueFits
  <2>. QED
    BY <2>1, <2>4, <2>10 DEF Fifo!Link, linked
<1>4. ASSUME MoveOut  PROVE Fifo!Take
  <2>1. /\ UNCHANGED <<next, data>> /\ order' = Tail(order) /\ next[tail] # null
        /\ output' = Append(output, data[next[tail]])
    BY <1>4 DEF MoveOut, IInv, List
  <2>2. Len(order) > 1 /\ next[tail] = order[2] /\ order[1] = tail
    <3>1. order[Len(order)] # order[1]
      BY <2>1 DEF IInv, List, Line
    <3>2. Len(order) > 1
      BY SMTT(30), <1>0, <3>1
    <3>. QED
      BY SMTT(30), <1>0, <2>1, <3>2 DEF IInv, Line
  <2>3. Len(order') = Len(order) - 1 /\ \A i \in 1 .. Len(order) - 1 : order'[i] = order[i + 1]
    BY SMTT(30), <1>0, <2>1, HeadTailProperties DEF IInv, TypeOK, Line
  <2>4. Queue # <<>> /\ Queue[1].linked /\ Queue[1].item = data[next[tail]]
    <3>1. Len(Queue) > 0 /\ Queue[1] = Entry(data[next[tail]], next[tail])
      BY SMTT(30), <1>0, <2>2 DEF QueueFits
    <3>2. Len(<<>>) = 0
      OBVIOUS
    <3>3. Queue[1] = [item |-> data[next[tail]], linked |-> TRUE]
      BY <1>e, <2>1, <3>1
    <3>4. Queue # <<>>
      BY SMTT(30), <3>1, <3>2
    <3>. QED
      BY SMTT(30), <3>3, <3>4
  <2>5. /\ Tail(Queue) \in Seq(Entries) /\ Len(Tail(Queue)) = Len(Queue) - 1
        /\ \A i \in 1 .. Len(Queue) - 1 : Tail(Queue)[i] = Queue[i + 1]
    BY <1>0, <2>4, HeadTailProperties DEF QueueFits
  <2>6. Len(Queue') = Len(Queue) - 1
    BY <1>0, <2>3 DEF QueueFits
  <2>7. ASSUME NEW i \in 1 .. Len(Queue') PROVE Queue'[i] = Queue[i + 1]
    <3>1. i \in 1 .. Len(order') - 1 /\ i + 1 \in 1 .. Len(order) - 1
      BY SMTT(30), <1>0, <2>3, <2>6 DEF QueueFits
    <3>2. order'[i] = order[i + 1] /\ order'[i + 1] = order[(i + 1) + 1]
      BY SMTT(30), <1>0, <2>3, <3>1
    <3>3. Queue'[i] = Entry(data[order[(i + 1) + 1]], next[order[i + 1]])
      BY <1>0, <2>1, <3>1, <3>2 DEF QueueFits
    <3>. QED
      BY <1>0, <3>1, <3>3 DEF QueueFits
  <2>8. \A i \in 1 .. Len(Queue') : Queue'[i] = Tail(Queue)[i]
    BY <1>0, <2>5, <2>6, <2>7
  <2>9. Queue' = Tail(Queue)
    BY <1>0, <2>5, <2>6, <2>8, SeqEqual DEF QueueFits
  <2>. QED
    BY <2>1, <2>4, <2>9 DEF Fifo!Take
<1>5. ASSUME LoadNext \/ UNCHANGED vars  PROVE UNCHANGED <<Queue, output>>
  BY <1>5 DEF LoadNext, vars, Queue
<1>6. CASE Next
  <2>1. CASE LoadNext \/ \E p \in Producers : Allocate(p)
    BY <1>1, <1>5, <2>1
  <2>2. CASE MoveOut \/ \E p \in Producers : Exchange(p) \/ LinkNode(p)
    BY <1>2, <1>3, <1>4, <2>2 DEF Fifo!FifoNext
  <2>. QED
    BY <1>6, <2>1, <2>2 DEF Next
<1>. QED
  BY <1>5, <1>6

\* queues::mpsc is a queue ordered by the exchanges, whatever the interleaving
\* of any producers with the consumer and the reuse of deleted nodes.
THEOREM MpscIsFifo == Spec => ImplementsFifo
<1>1. Init => Fifo!FifoInit
  BY SMTT(30) DEF Init, Fifo!FifoInit, Queue
<1>2. IInv /\ IInv' /\ [Next]_vars => [Fifo!FifoNext]_(Fifo!fifoVars)
  BY FifoStep
<1>. QED
  BY <1>1, <1>2, Invariance, PTL DEF Spec, ImplementsFifo, Fifo!FifoSpec

=============================================================================

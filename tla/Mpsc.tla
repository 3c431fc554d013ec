-------------------------------- MODULE Mpsc --------------------------------
(***************************************************************************)
(* queues::mpsc, the queue of commands to an engine, to a thread and to an *)
(* event loop: a linked list of nodes whose head any producer exchanges    *)
(* and whose tail only the consumer moves.  A node that was deleted may be *)
(* handed out again by the next allocation.                                *)
(***************************************************************************)
EXTENDS Integers, Sequences, FiniteSets

CONSTANTS Producers,
          MaxWrites,   \* bound: writes of each producer
          Nodes,       \* what the allocator can hand out
          Stub,        \* the node the constructor allocates
          null         \* nullptr, not a node

ASSUME MpscAssumption == Stub \in Nodes /\ null \notin Nodes /\ MaxWrites \in Nat

VARIABLES
  head, tail,    \* _head and _tail
  next, data,    \* the nodes' fields
  allocated,     \* the nodes that are not deleted
  pc,            \* place of each producer in write
  node,          \* its node
  prev_head,     \* what its exchange returned
  writes,        \* how many writes it began
  reader,        \* the consumer: "idle" or, its load of next done, "move"
  order,         \* history: the nodes of the list, in the order of the exchanges
  output         \* history: what reads returned

vars == <<head, tail, next, data, allocated, pc, node, prev_head, writes, reader, order, output>>

Items == Producers \X (1 .. MaxWrites)

Init == /\ head = Stub /\ tail = Stub
        /\ next = [n \in Nodes |-> null]
        /\ data = [n \in Nodes |-> null]
        /\ allocated = {Stub}
        /\ pc = [p \in Producers |-> "idle"]
        /\ node = [p \in Producers |-> null]
        /\ prev_head = [p \in Producers |-> null]
        /\ writes = [p \in Producers |-> 0]
        /\ reader = "idle"
        /\ order = <<Stub>>
        /\ output = <<>>

\* The new node, that nobody else knows.
Allocate(p) == /\ pc[p] = "idle"
               /\ writes[p] < MaxWrites
               /\ writes' = [writes EXCEPT ![p] = @ + 1]
               /\ \E n \in Nodes \ allocated :
                    /\ allocated' = allocated \union {n}
                    /\ node' = [node EXCEPT ![p] = n]
                    /\ data' = [data EXCEPT ![n] = <<p, writes[p] + 1>>]
                    /\ next' = [next EXCEPT ![n] = null]
               /\ pc' = [pc EXCEPT ![p] = "exchange"]
               /\ UNCHANGED <<head, tail, prev_head, reader, order, output>>

\* Mutant: the node is linked from the tail.
ExchangeTail(p) ==
  /\ pc[p] = "exchange"
  /\ prev_head' = [prev_head EXCEPT ![p] = tail]
  /\ head' = node[p]
  /\ order' = Append(order, node[p])
  /\ pc' = [pc EXCEPT ![p] = "link"]
  /\ UNCHANGED <<tail, next, data, allocated, node, writes, reader, output>>

Exchange(p) == /\ pc[p] = "exchange"
               /\ prev_head' = [prev_head EXCEPT ![p] = head]
               /\ head' = node[p]
               /\ order' = Append(order, node[p])
               /\ pc' = [pc EXCEPT ![p] = "link"]
               /\ UNCHANGED <<tail, next, data, allocated, node, writes, reader, output>>

LinkNode(p) == /\ pc[p] = "link"
               /\ next' = [next EXCEPT ![prev_head[p]] = node[p]]
               /\ pc' = [pc EXCEPT ![p] = "idle"]
               /\ UNCHANGED <<head, tail, data, allocated, node, prev_head, writes, reader,
                              order, output>>

\* read: a null successor makes it return false.
LoadNext == /\ reader = "idle"
            /\ next[tail] # null
            /\ reader' = "move"
            /\ UNCHANGED <<head, tail, next, data, allocated, pc, node, prev_head, writes,
                           order, output>>

\* Mutant: the node deleted is the new tail.
MoveOutDeletesNext == /\ reader = "move"
                      /\ output' = Append(output, data[next[tail]])
                      /\ order' = Tail(order)
                      /\ tail' = next[tail]
                      /\ allocated' = allocated \ {next[tail]}
                      /\ reader' = "idle"
                      /\ UNCHANGED <<head, next, data, pc, node, prev_head, writes>>

\* Moves the data out, moves the tail and deletes the node it left.
MoveOut == /\ reader = "move"
           /\ output' = Append(output, data[next[tail]])
           /\ order' = Tail(order)
           /\ tail' = next[tail]
           /\ allocated' = allocated \ {tail}
           /\ reader' = "idle"
           /\ UNCHANGED <<head, next, data, pc, node, prev_head, writes>>

Next == \/ LoadNext \/ MoveOut
        \/ \E p \in Producers : Allocate(p) \/ Exchange(p) \/ LinkNode(p)

Spec == Init /\ [][Next]_vars
-----------------------------------------------------------------------------
\* The consumer deletes a node only after the last access of a producer to
\* it, and what either of them follows is allocated.
NoUseAfterFree ==
  /\ head \in allocated /\ tail \in allocated
  /\ next[tail] # null => next[tail] \in allocated
  /\ \A p \in Producers : pc[p] = "link" => prev_head[p] \in allocated /\ node[p] \in allocated

\* The queue: every node of the list but the one the tail points to, its item
\* readable once its predecessor leads to it.
Entry(item, successor) == [item |-> item, linked |-> successor # null]
Queue == [i \in 1 .. Len(order) - 1 |-> Entry(data[order[i + 1]], next[order[i]])]

\* queues::mpsc is a queue whose items are ordered by the exchange.
Fifo == INSTANCE LinkedFifo WITH fifo <- Queue
ImplementsFifo == Fifo!FifoSpec

=============================================================================

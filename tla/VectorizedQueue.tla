--------------------------- MODULE VectorizedQueue ---------------------------
(***************************************************************************)
(* queues::vectorized_queue, the waiters of a semaphore: a doubly linked   *)
(* list threaded through an array whose free cells form a list of their    *)
(* own.  semaphore::free withdraws a waiter by its index, which may not be *)
(* in the queue any more: lazy_free then does nothing.                     *)
(*                                                                         *)
(* The semaphore makes every call under waiters_lock_, so each is one      *)
(* step.  Indexes start at 0, as in the code.                              *)
(***************************************************************************)
EXTENDS Integers, Sequences, FiniteSets, Functions

CONSTANTS Values,
          MaxCells    \* bound: the size of the array

ASSUME QueueAssumption == MaxCells \in Nat /\ Values # {}

\* numeric_limits<size_t>::max(), which is no index.
empty == -1

VARIABLES
  data,             \* data_, from index 0
  first_free_cell,
  head, tail,
  result,           \* history: what the last read returned
  occupied, unused  \* history: the cells in the queue, oldest first, and the free ones

vars == <<data, first_free_cell, head, tail, result, occupied, unused>>

Size == Cardinality(DOMAIN data)
Indexes == 0 .. MaxCells - 1

\* A cell whose previous is itself is free.
has(index) == index \in DOMAIN data /\ data[index].previous # index

\* A default constructed queue.
Init == /\ data = [i \in {} |-> empty]
        /\ first_free_cell = empty
        /\ head = empty
        /\ tail = empty
        /\ result = <<>>
        /\ occupied = <<>>
        /\ unused = <<>>

\* emplace_back of a free cell when there is none left.
Grown == IF first_free_cell # empty THEN data
         ELSE [i \in 0 .. Size |-> IF i = Size THEN [value |-> <<>>, previous |-> Size, next |-> empty]
                                               ELSE data[i]]

\* A cell of d with a new value for one of its links; empty is no cell.
SetNext(d, index, next) ==
  IF index = empty THEN d ELSE [d EXCEPT ![index] = [@ EXCEPT !.next = next]]
SetPrevious(d, index, previous) ==
  IF index = empty THEN d ELSE [d EXCEPT ![index] = [@ EXCEPT !.previous = previous]]

write(value) ==
  LET index == IF first_free_cell = empty THEN Size ELSE first_free_cell
      node == [value |-> <<value>>, previous |-> tail, next |-> empty]
  IN  /\ index < MaxCells
      /\ first_free_cell' = Grown[index].next
      /\ data' = SetNext([Grown EXCEPT ![index] = node], tail, index)
      /\ head' = IF head = empty THEN index ELSE head
      /\ tail' = index
      /\ occupied' = Append(occupied, index)
      /\ unused' = IF unused = <<>> THEN <<>> ELSE Tail(unused)
      /\ UNCHANGED result

\* A list without the cell at one of its places.
Without(list, i) == [j \in 1 .. Len(list) - 1 |-> IF j < i THEN list[j] ELSE list[j + 1]]

\* What the histories say once a cell is free.
Withdrawn(index) ==
  /\ occupied' = Without(occupied, CHOOSE i \in DOMAIN occupied : occupied[i] = index)
  /\ unused' = <<index>> \o unused

\* Mutants: the cell after the freed one is not linked back, or the freed cell
\* is not marked.
freeForward(index) ==
  LET node == data[index]
      freed == [value |-> <<>>, previous |-> index, next |-> first_free_cell]
      unlinked == CASE index = head -> SetPrevious(data, node.next, empty)
                    [] OTHER -> SetNext(data, node.previous, node.next)
  IN  /\ data' = [unlinked EXCEPT ![index] = freed]
      /\ head' = IF index = head THEN node.next ELSE head
      /\ tail' = CASE index # tail -> tail
                   [] index = tail /\ index = head -> empty
                   [] OTHER -> node.previous
      /\ first_free_cell' = index
      /\ Withdrawn(index)

freeUnmarked(index) ==
  LET node == data[index]
      freed == [value |-> <<>>, previous |-> node.previous, next |-> first_free_cell]
      unlinked == CASE index = head -> SetPrevious(data, node.next, empty)
                    [] index # head /\ index = tail -> SetNext(data, node.previous, empty)
                    [] OTHER -> SetPrevious(SetNext(data, node.previous, node.next),
                                            node.next, node.previous)
  IN  /\ data' = [unlinked EXCEPT ![index] = freed]
      /\ head' = IF index = head THEN node.next ELSE head
      /\ tail' = CASE index # tail -> tail
                   [] index = tail /\ index = head -> empty
                   [] OTHER -> node.previous
      /\ first_free_cell' = index
      /\ Withdrawn(index)

\* free: unlinks the cell as the first, the last or in the middle, and puts it
\* in front of the free cells.
free(index) ==
  LET node == data[index]
      freed == [value |-> <<>>, previous |-> index, next |-> first_free_cell]
      unlinked == CASE index = head -> SetPrevious(data, node.next, empty)
                    [] index # head /\ index = tail -> SetNext(data, node.previous, empty)
                    [] OTHER -> SetPrevious(SetNext(data, node.previous, node.next),
                                            node.next, node.previous)
  IN  /\ data' = [unlinked EXCEPT ![index] = freed]
      /\ head' = IF index = head THEN node.next ELSE head
      /\ tail' = CASE index # tail -> tail
                   [] index = tail /\ index = head -> empty
                   [] OTHER -> node.previous
      /\ first_free_cell' = index
      /\ Withdrawn(index)

lazy_free(index) == \/ has(index) /\ free(index) /\ UNCHANGED result
                    \/ ~has(index) /\ UNCHANGED vars

\* Mutant: the last one written is read.
readLast == /\ tail # empty
            /\ result' = data[tail].value
            /\ free(tail)

\* A read of an empty queue returns false and changes nothing.
read == /\ head # empty
        /\ result' = data[head].value
        /\ free(head)

Next == \/ \E value \in Values : write(value)
        \/ \E index \in Indexes : lazy_free(index)
        \/ read

Spec == Init /\ [][Next]_vars
-----------------------------------------------------------------------------
\* The cell at a place of a list; there is none before the first and after the last.
At(list, i) == IF i \in DOMAIN list THEN list[i] ELSE empty

\* Whatever is withdrawn, the list reads the same in both directions: from head
\* along next and from tail along previous are the cells in the order they were
\* written.
ListIsSymmetric ==
  /\ head = At(occupied, 1)
  /\ tail = At(occupied, Len(occupied))
  /\ \A i \in DOMAIN occupied : /\ data[occupied[i]].next = At(occupied, i + 1)
                                /\ data[occupied[i]].previous = At(occupied, i - 1)

\* The comment on struct cell: a cell is free if its previous is itself and
\* occupied otherwise.  The cells that are not in the queue are those met from
\* first_free_cell on, last freed first: all of them, none of them twice.
CellsAccountedFor ==
  /\ IsInjective(occupied) /\ IsInjective(unused)
  /\ Range(occupied) \intersect Range(unused) = {}
  /\ Range(occupied) \union Range(unused) = DOMAIN data
  /\ \A i \in DOMAIN data : has(i) <=> i \in Range(occupied)
  /\ first_free_cell = At(unused, 1)
  /\ \A i \in DOMAIN unused : data[unused[i]].next = At(unused, i + 1)

\* Values are read in the order of the writes, without those withdrawn, and
\* an index belongs to one value at a time.
Entries == [i \in DOMAIN occupied |-> <<occupied[i], data[occupied[i]].value[1]>>]
Queue == INSTANCE IndexedFifo WITH entries <- Entries
ImplementsQueue == Queue!QueueSpec

=============================================================================

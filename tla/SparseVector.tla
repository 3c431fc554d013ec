---------------------------- MODULE SparseVector ----------------------------
(***************************************************************************)
(* boson::memory::sparse_vector: a vector whose freed cells are chained    *)
(* and given out again, the last one freed first.  A thread keeps in one   *)
(* the slots of its suspended routines, and hands the index of a slot to   *)
(* semaphores, timers and the event loop.  Operators on the value of the   *)
(* vector; cells are numbered from 1, and 0 stands for the code's -1.      *)
(***************************************************************************)
EXTENDS Integers, Sequences

NoCell == 0

EmptyVector == [data |-> <<>>, free_cells |-> <<>>, first |-> NoCell, last |-> NoCell]

\* The last cell of the chain is the one whose link says nothing.
Has(v, i) == i \in DOMAIN v.data /\ v.last # i /\ v.free_cells[i] = NoCell

\* The cell that allocate() returns, and the vector once it is assigned.
Allocated(v) == IF v.first = NoCell THEN Len(v.data) + 1 ELSE v.first

Stored(v, value) ==
  IF v.first = NoCell
  THEN [v EXCEPT !.data = Append(@, value), !.free_cells = Append(@, NoCell)]
  ELSE [v EXCEPT !.data[v.first] = value,
                 !.free_cells[v.first] = NoCell,
                 !.first = v.free_cells[v.first],
                 !.last = IF @ = v.first THEN NoCell ELSE @]

Freed(v, i) == [v EXCEPT !.free_cells[i] = v.first,
                         !.first = i,
                         !.last = IF @ = NoCell THEN i ELSE @]

=============================================================================

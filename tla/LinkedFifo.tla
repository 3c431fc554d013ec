----------------------------- MODULE LinkedFifo -----------------------------
(***************************************************************************)
(* What queues::mpsc promises: items are ordered by the first step of      *)
(* their write, become readable with the second, and are read in order,    *)
(* each once.  An item whose write is finished can still be unreadable,    *)
(* behind one whose write is not.                                          *)
(***************************************************************************)
EXTENDS Naturals, Sequences

CONSTANT Items

VARIABLES fifo,    \* the items, each with its write finished or not
          output   \* what was read

fifoVars == <<fifo, output>>

FifoInit == fifo = <<>> /\ output = <<>>

Enter(item) == /\ fifo' = Append(fifo, [item |-> item, linked |-> FALSE])
               /\ UNCHANGED output

Link == /\ \E i \in 1 .. Len(fifo) : /\ ~fifo[i].linked
                                     /\ fifo' = [fifo EXCEPT ![i].linked = TRUE]
        /\ UNCHANGED output

Take == /\ fifo # <<>>
        /\ fifo[1].linked
        /\ fifo' = Tail(fifo)
        /\ output' = Append(output, fifo[1].item)

FifoNext == Link \/ Take \/ \E item \in Items : Enter(item)

FifoSpec == FifoInit /\ [][FifoNext]_fifoVars

=============================================================================

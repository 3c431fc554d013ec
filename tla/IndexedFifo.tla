----------------------------- MODULE IndexedFifo -----------------------------
(***************************************************************************)
(* What a semaphore expects of its queue of waiters: values come out in    *)
(* the order they were written, except those withdrawn in between by the   *)
(* index that their write returned.  Two values in the queue never have    *)
(* the same index; an index is reused once its value has left.             *)
(***************************************************************************)
EXTENDS Naturals, Sequences

CONSTANTS Values, Indexes

VARIABLES entries,  \* <<index, value>>, the next to be read first
          result    \* what the last read returned

queueVars == <<entries, result>>

Used == {entries[i][1] : i \in DOMAIN entries}

\* The entries without the one at i.
Without(i) == [j \in 1 .. Len(entries) - 1 |-> IF j < i THEN entries[j] ELSE entries[j + 1]]

QueueInit == entries = <<>> /\ result = <<>>

QueueWrite(index, value) == /\ index \notin Used
                            /\ entries' = Append(entries, <<index, value>>)
                            /\ UNCHANGED result

QueueRead == /\ entries # <<>>
             /\ entries' = Tail(entries)
             /\ result' = <<Head(entries)[2]>>

QueueFree(index) == /\ \E i \in DOMAIN entries : /\ entries[i][1] = index
                                                 /\ entries' = Without(i)
                    /\ UNCHANGED result

QueueNext == \/ \E index \in Indexes, value \in Values : QueueWrite(index, value)
             \/ QueueRead
             \/ \E index \in Indexes : QueueFree(index)

QueueSpec == QueueInit /\ [][QueueNext]_queueVars

=============================================================================

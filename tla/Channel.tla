------------------------------- MODULE Channel -------------------------------
(***************************************************************************)
(* boson::channel: a ring of Size cells between two semaphores.  Writers   *)
(* take a ticket of writer_slots_, claim a cell with head_, fill it and    *)
(* give a ticket to readers_slots_; readers do the converse with tail_.    *)
(* Closing disables the writers' semaphore; the readers' one is disabled   *)
(* by whoever, after that, finds the ring empty.                           *)
(*                                                                         *)
(* A channel of nothing (nullptr_t) has no ring: a ticket taken from one   *)
(* semaphore becomes one of the other, and close disables both.            *)
(*                                                                         *)
(* The semaphores are ticket pools, which Semaphore implements; a read or  *)
(* a write without timeout waits for a ticket or for the pool to close.    *)
(***************************************************************************)
EXTENDS Integers, Sequences, FiniteSets

CONSTANTS Writers, Readers, Closers,  \* routines, by what they do
          Size,                       \* cells of the ring
          MaxWrites                   \* bound: writes of each writer

Routines == Writers \union Readers \union Closers

ASSUME ChannelAssumption ==
  /\ Size \in Nat \ {0}
  /\ MaxWrites \in Nat
  /\ IsFiniteSet(Writers) /\ IsFiniteSet(Readers)
  /\ Writers \intersect Readers = {} /\ Closers \intersect (Writers \union Readers) = {}

\* What a channel may hold, its ContentType.
Contents == {"values", "nothing"}

VARIABLES
  holds,                    \* of the Contents
  wTaken, wGiven, wClosed,  \* writer_slots_
  rTaken, rGiven, rClosed,  \* readers_slots_
  head, tail,               \* head_ and tail_
  buffer,                   \* buffer_
  pc,                       \* place of each routine
  mine,                     \* the value of head_ or tail_ it loaded last
  writes,                   \* writes each writer began
  cells,                    \* history: what each value of head_ was claimed for
  received,                 \* history: what each value of tail_ got
  early                     \* history: values of head_ whose write returned before close

writerPool == <<wTaken, wGiven, wClosed>>
readerPool == <<rTaken, rGiven, rClosed>>
history == <<writes, cells, received, early>>
vars == <<holds, writerPool, readerPool, head, tail, buffer, pc, mine, history>>

writer_slots == INSTANCE TicketPool
                  WITH Capacity <- Size, taken <- wTaken, given <- wGiven, closed <- wClosed
readers_slots == INSTANCE TicketPool
                   WITH Capacity <- 0, taken <- rTaken, given <- rGiven, closed <- rClosed

Values == Writers \X (1 .. MaxWrites)
Moved == <<>>     \* a cell not written yet, or whose value was moved out

\* Mutant: one writer more than there are cells.
InitOneTooMany ==
  /\ holds \in Contents
  /\ wTaken = 0 /\ wGiven = 1 /\ wClosed = FALSE
  /\ readers_slots!PoolInit
  /\ head = 0 /\ tail = 0
  /\ buffer = [i \in 0 .. Size - 1 |-> Moved]
  /\ pc = [r \in Routines |-> "idle"]
  /\ mine = [r \in Routines |-> 0]
  /\ writes = [w \in Writers |-> 0]
  /\ cells = <<>> /\ received = <<>> /\ early = {}

Init == /\ holds \in Contents
        /\ writer_slots!PoolInit
        /\ readers_slots!PoolInit
        /\ head = 0 /\ tail = 0
        /\ buffer = [i \in 0 .. Size - 1 |-> Moved]
        /\ pc = [r \in Routines |-> "idle"]
        /\ mine = [r \in Routines |-> 0]
        /\ writes = [w \in Writers |-> 0]
        /\ cells = <<>>
        /\ received = <<>>
        /\ early = {}

GoTo(r, place) == pc' = [pc EXCEPT ![r] = place] /\ UNCHANGED holds

\* Where a call goes on once it has its ticket, and close once the writers'
\* semaphore is disabled.
WithTicket == IF holds = "values" THEN "claim" ELSE "post"
OnceClosed == IF holds = "values" THEN "load" ELSE "disable"
-----------------------------------------------------------------------------
(***************************************************************************)
(* write and consume_write.                                                *)
(***************************************************************************)
WriteWait(w) ==
  /\ pc[w] = "idle"
  /\ writes[w] < MaxWrites
  /\ \/ writer_slots!Take /\ GoTo(w, WithTicket) /\ writes' = [writes EXCEPT ![w] = @ + 1]
     \/ wClosed /\ GoTo(w, "closed") /\ UNCHANGED <<writerPool, writes>>
  /\ UNCHANGED <<readerPool, head, tail, buffer, mine, cells, received, early>>

WriteClaim(w) ==
  /\ pc[w] = "claim"
  /\ mine' = [mine EXCEPT ![w] = head]
  /\ head' = head + 1
  /\ cells' = Append(cells, <<w, writes[w]>>)
  /\ GoTo(w, "store")
  /\ UNCHANGED <<writerPool, readerPool, tail, buffer, writes, received, early>>

WriteStore(w) ==
  /\ pc[w] = "store"
  /\ buffer' = [buffer EXCEPT ![mine[w] % Size] = <<w, writes[w]>>]
  /\ GoTo(w, "post")
  /\ UNCHANGED <<writerPool, readerPool, head, tail, mine, history>>

\* The result of the post is not looked at.
WritePost(w) ==
  /\ pc[w] = "post"
  /\ \/ readers_slots!Give
     \/ rClosed /\ UNCHANGED readerPool
  /\ early' = IF wClosed \/ holds = "nothing" THEN early ELSE early \union {mine[w]}
  /\ GoTo(w, "idle")
  /\ UNCHANGED <<writerPool, head, tail, buffer, mine, writes, cells, received>>

(***************************************************************************)
(* read and consume_read.                                                  *)
(***************************************************************************)
ReadWait(r) ==
  /\ pc[r] = "idle"
  /\ \/ readers_slots!Take /\ GoTo(r, WithTicket)
     \/ rClosed /\ GoTo(r, "closed") /\ UNCHANGED readerPool
  /\ UNCHANGED <<writerPool, head, tail, buffer, mine, history>>

\* Mutant: the ticket goes back to the writers before the value is moved out.
ReadClaimPostsFirst(r) ==
  /\ pc[r] = "claim"
  /\ \/ writer_slots!Give
     \/ wClosed /\ UNCHANGED writerPool
  /\ mine' = [mine EXCEPT ![r] = tail]
  /\ tail' = tail + 1
  /\ received' = Append(received, Moved)
  /\ GoTo(r, "move")
  /\ UNCHANGED <<readerPool, head, buffer, writes, cells, early>>

ReadClaim(r) ==
  /\ pc[r] = "claim"
  /\ mine' = [mine EXCEPT ![r] = tail]
  /\ tail' = tail + 1
  /\ received' = Append(received, Moved)
  /\ GoTo(r, "move")
  /\ UNCHANGED <<writerPool, readerPool, head, buffer, writes, cells, early>>

ReadMove(r) ==
  /\ pc[r] = "move"
  /\ received' = [received EXCEPT ![mine[r] + 1] = buffer[mine[r] % Size]]
  /\ buffer' = [buffer EXCEPT ![mine[r] % Size] = Moved]
  /\ GoTo(r, "post")
  /\ UNCHANGED <<writerPool, readerPool, head, tail, mine, writes, cells, early>>

\* Mutant: the result of the post is not looked at.
ReadPostBlind(r) ==
  /\ pc[r] = "post"
  /\ \/ writer_slots!Give
     \/ wClosed /\ UNCHANGED writerPool
  /\ GoTo(r, "idle")
  /\ UNCHANGED <<readerPool, head, tail, buffer, mine, history>>

\* A post that fails tells that the channel was closed; without a ring there
\* is nothing left to do.
ReadPost(r) ==
  /\ pc[r] = "post"
  /\ \/ writer_slots!Give /\ GoTo(r, "idle")
     \/ wClosed /\ GoTo(r, IF holds = "values" THEN "load" ELSE "idle") /\ UNCHANGED writerPool
  /\ UNCHANGED <<readerPool, head, tail, buffer, mine, history>>

(***************************************************************************)
(* close.                                                                  *)
(***************************************************************************)
\* Mutants: close leaves the readers to the readers, or releases them at once.
CloseWritersOnly(c) ==
  /\ pc[c] = "idle"
  /\ writer_slots!Close
  /\ GoTo(c, "out")
  /\ UNCHANGED <<readerPool, head, tail, buffer, mine, history>>

CloseWritersAtOnce(c) ==
  /\ pc[c] = "idle"
  /\ writer_slots!Close
  /\ GoTo(c, "disable")
  /\ UNCHANGED <<readerPool, head, tail, buffer, mine, history>>

CloseWriters(c) ==
  /\ pc[c] = "idle"
  /\ writer_slots!Close
  /\ GoTo(c, OnceClosed)
  /\ UNCHANGED <<readerPool, head, tail, buffer, mine, history>>

(***************************************************************************)
(* The test for an empty ring, by a reader or by close: one counter is     *)
(* loaded, then the other, in the order the compiler chose.                *)
(***************************************************************************)
LoadFirst(r) ==
  /\ pc[r] = "load"
  /\ \/ mine' = [mine EXCEPT ![r] = head] /\ GoTo(r, "load_tail")
     \/ mine' = [mine EXCEPT ![r] = tail] /\ GoTo(r, "load_head")
  /\ UNCHANGED <<writerPool, readerPool, head, tail, buffer, history>>

\* Equal counters disable the readers' semaphore.
LoadSecond(r) ==
  /\ \/ pc[r] = "load_tail" /\ GoTo(r, IF mine[r] = tail THEN "disable" ELSE "out")
     \/ pc[r] = "load_head" /\ GoTo(r, IF mine[r] = head THEN "disable" ELSE "out")
  /\ UNCHANGED <<writerPool, readerPool, head, tail, buffer, mine, history>>

DisableReaders(r) ==
  /\ pc[r] = "disable"
  /\ readers_slots!Close
  /\ GoTo(r, "out")
  /\ UNCHANGED <<writerPool, head, tail, buffer, mine, history>>

\* A reader goes on reading, close is over.
Out(r) == /\ pc[r] = "out"
          /\ GoTo(r, IF r \in Closers THEN "closed" ELSE "idle")
          /\ UNCHANGED <<writerPool, readerPool, head, tail, buffer, mine, history>>

WriterStep(w) == WriteClaim(w) \/ WriteStore(w) \/ WritePost(w)
ReaderStep(r) == ReadClaim(r) \/ ReadMove(r) \/ ReadPost(r)
EmptyTest(r) == LoadFirst(r) \/ LoadSecond(r) \/ DisableReaders(r) \/ Out(r)

Write(w) == WriteWait(w) \/ WriterStep(w)
Read(r) == ReadWait(r) \/ ReaderStep(r) \/ EmptyTest(r)

Next == \/ \E w \in Writers : Write(w)
        \/ \E r \in Readers : Read(r)
        \/ \E c \in Closers : CloseWriters(c) \/ EmptyTest(c)

Spec == Init /\ [][Next]_vars

\* A routine that has its ticket goes on to the end of the call, and readers
\* read until they are told that the channel is closed.
Fairness == /\ \A w \in Writers : WF_vars(WriterStep(w))
            /\ \A r \in Readers : WF_vars(ReaderStep(r)) /\ WF_vars(ReadWait(r))
            /\ \A r \in Readers \union Closers : WF_vars(EmptyTest(r))

FairSpec == Spec /\ Fairness
-----------------------------------------------------------------------------
\* What a read returns is what was written: the n-th cell claimed by readers
\* holds the value of the n-th cell claimed by writers, and reads in the
\* middle of a write or overtaken by one do not happen.
ReadsWhatWasWritten ==
  \A i \in 1 .. Len(received) :
    (\A r \in Readers : ~(pc[r] = "move" /\ mine[r] + 1 = i)) => received[i] = cells[i]

\* Two routines are never inside the same cell of buffer_, of which the
\* accesses are not atomic: one has moved its value in or out before the
\* semaphores let the next one in.
CellsNotShared ==
  \A r, s \in Routines :
    r # s /\ {pc[r], pc[s]} \subseteq {"store", "move"} => mine[r] % Size # mine[s] % Size

Settled == \A r \in Routines : pc[r] \in {"idle", "closed"}

\* close, and the reader that finds its post refused, leave it to each other
\* to release the readers.  One of them does: a closed channel that was read
\* to the end has released its readers.
ClosedAndEmptyReleases ==
  Settled /\ wClosed /\ rTaken = rGiven => rClosed

\* Values written before close are read: the readers' semaphore is not
\* disabled before readers claimed them.  (A channel of nothing does not
\* promise this: close drops the tickets of its readers.)
EarlyWritesDelivered == rClosed => \A i \in early : i < tail

\* After close, every reader is told so in the end.
ReadersTold == \A r \in Readers : wClosed ~> (pc[r] = "closed")

=============================================================================

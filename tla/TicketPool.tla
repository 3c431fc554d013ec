----------------------------- MODULE TicketPool -----------------------------
(***************************************************************************)
(* The contract that boson::semaphore keeps with its users, without saying *)
(* how: a pool of tickets from which wait() takes one, to which post()     *)
(* gives one, and which disable() closes for good.  A ticket can only be   *)
(* taken when one is left, and a closed pool neither gives nor receives    *)
(* any.  That is the contract of the code: the comment on disable() in     *)
(* semaphore.h says "Posts will be accepted" of a disabled semaphore, and  *)
(* post() refuses them (semaphore.cc:100-103).                             *)
(*                                                                         *)
(* Semaphore implements this specification; Channel is built on it.        *)
(***************************************************************************)
EXTENDS Naturals

CONSTANT Capacity     \* tickets the pool starts with

VARIABLES taken,      \* tickets handed out since the beginning
          given,      \* tickets added by post since the beginning
          closed      \* has the pool been disabled?

poolVars == <<taken, given, closed>>

PoolInit == taken = 0 /\ given = 0 /\ closed = FALSE

\* A wait that returns semaphore_return_value::ok.
Take == /\ ~closed
        /\ taken < Capacity + given
        /\ taken' = taken + 1
        /\ UNCHANGED <<given, closed>>

\* A post that returns semaphore_return_value::ok; one that finds the semaphore
\* disabled takes back what it added, returns disabled, and changes nothing here.
Give == /\ ~closed
        /\ given' = given + 1
        /\ UNCHANGED <<taken, closed>>

\* disable().
Close == /\ closed' = TRUE
         /\ UNCHANGED <<taken, given>>

PoolNext == Take \/ Give \/ Close

PoolSpec == PoolInit /\ [][PoolNext]_poolVars

=============================================================================

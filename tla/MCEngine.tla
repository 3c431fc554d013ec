------------------------------ MODULE MCEngine ------------------------------
(***************************************************************************)
(* Two threads and three routines, each of which may start others.         *)
(***************************************************************************)
EXTENDS Engine

CONSTANTS t1, t2, r1, r2, r3

MCRing == <<t1, t2>>
MCRoutines == {r1, r2, r3}

=============================================================================

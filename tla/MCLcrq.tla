------------------------------- MODULE MCLcrq -------------------------------
(* An instance of Lcrq: rings of two cells, so that they fill up and close. *)
EXTENDS Lcrq, TLC

CONSTANTS p1, p2, p3

MCProcs == {p1, p2, p3}
MCSymmetry == Permutations(MCProcs)
=============================================================================

-------------------------- MODULE MCVectorizedQueue --------------------------
EXTENDS VectorizedQueue

CONSTANTS v1, v2

MCValues == {v1, v2}

=============================================================================

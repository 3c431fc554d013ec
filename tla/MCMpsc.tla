------------------------------- MODULE MCMpsc -------------------------------
EXTENDS Mpsc

CONSTANTS p1, p2, p3, n0, n1, n2, n3

MCProducers == {p1, p2, p3}
MCNodes == {n0, n1, n2, n3}

=============================================================================

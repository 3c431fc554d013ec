------------------------------ MODULE MCChannel ------------------------------
EXTENDS Channel

CONSTANTS w1, w2, r1, r2, c1

TwoWriters == {w1, w2}
OneReader == {r1}
TwoReaders == {r1, r2}
OneCloser == {c1}

=============================================================================

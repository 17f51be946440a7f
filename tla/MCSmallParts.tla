---------------------------- MODULE MCSmallParts ----------------------------
EXTENDS SmallParts

CONSTANTS t1, t2, t3

ThreeThreads == {t1, t2, t3}

\* A call may fail, move nothing, or move bytes.
AnyResult == {-1, 0, 1, 2}
=============================================================================

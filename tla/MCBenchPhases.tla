--------------------------- MODULE MCBenchPhases ---------------------------
EXTENDS BenchPhases

CONSTANTS n1, n2, old1, tx1, tx2

MCNode == {n1, n2}
MCOld == {old1}
MCTxs == {tx1, tx2}
=============================================================================

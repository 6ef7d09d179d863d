------------------------------ MODULE MCReport ------------------------------
EXTENDS Report

\* a block may be older than its parent, or so late that its window has no
\* transaction in a second
MCGaps == {-1, 0, 1, 3, 4000}

\* a block with only its cellbase, and one with two transactions more
MCLoads == {[txs |-> 1, size |-> 1], [txs |-> 3, size |-> 4]}
=============================================================================

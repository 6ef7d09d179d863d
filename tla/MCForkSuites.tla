---------------------------- MODULE MCForkSuites ----------------------------
EXTENDS ForkSuites

\* from the start, at the edges of what the suites can tell, a block early, in
\* time, a block late, never
MCActivations == {0, 2250, 2251, 2990, 2991, 2999, 3000, 3001, 3012, 3013, 3017, 3018, Never}
=============================================================================

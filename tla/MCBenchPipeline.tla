--------------------------- MODULE MCBenchPipeline ---------------------------
(* Two users and two nodes; the first user starts with two cells of one lock. *)
EXTENDS BenchPipeline

Cell(id, user, kind) ==
  [out_point |-> <<id>>, number |-> 0, index |-> 3, lock |-> [user |-> user, kind |-> kind]]

\* one cell for each user, as after `dispatch --cells-per-user 1`
OneCellEach == {Cell(1, 1, "data"), Cell(2, 2, "data")}

\* cells-per-user 2 for the first user
ThreeCells == OneCellEach \cup {Cell(3, 1, "data")}
=============================================================================

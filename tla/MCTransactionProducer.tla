----------------------- MODULE MCTransactionProducer -----------------------
(* Two users: u1 has two cells of one lock and one of another, u2 one cell. *)
EXTENDS TransactionProducer

CONSTANTS u1, u2

MCUsers == {u1, u2}
Cell(id, user, kind) ==
  [out_point |-> id, lock |-> [user |-> user, kind |-> kind], index |-> 0]
MCCells == {Cell(1, u1, "data"), Cell(2, u1, "data"), Cell(3, u1, "type"),
            Cell(4, u2, "data")}
=============================================================================

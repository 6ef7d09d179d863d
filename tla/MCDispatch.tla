----------------------------- MODULE MCDispatch -----------------------------
(***************************************************************************)
(* The two subcommands that prepare a bench and undo it, one at a time.    *)
(***************************************************************************)
EXTENDS Dispatch, Collect

VARIABLE subcommand

\* one to three cells: too small for one user, just enough for one, two, more
CellCapacities == SeqOf({66, 75, 147, 230, 310}, 3) \ {<<>>}
\* get_spendable_single_secp256k1_cells: lock after lock
InOrder(locks) == \A j, k \in DOMAIN locks : j < k =>
  locks[j] = "type" \/ locks[k] = "data1" \/ locks[j] = locks[k]
MCOwners ==
  UNION {{[k \in DOMAIN c |-> [lock |-> locks[k], capacity |-> c[k]]] :
            locks \in {l \in [DOMAIN c -> HashTypes] : InOrder(l)}} : c \in CellCapacities}

MCInit ==
  /\ subcommand \in {"dispatch", "collect"} /\ Init /\ CollectInit
  /\ subcommand = "collect" => owner = <<[lock |-> "data", capacity |-> 66]>>
  /\ subcommand = "dispatch" => cells = [u \in Users |-> [t \in HashTypes |-> 0]]
MCNext ==
  \/ subcommand = "dispatch" /\ Next /\ UNCHANGED <<subcommand, cvars>>
  \/ subcommand = "collect" /\ CollectNext /\ UNCHANGED <<subcommand, vars>>
MCSpec ==
  /\ MCInit /\ [][MCNext]_<<subcommand, vars, cvars>>
  /\ subcommand = "dispatch" => Fairness
\* Of dispatch: its wait ends although the node drops transactions meanwhile.
MCDispatchEnds == subcommand = "dispatch" => DispatchEnds
=============================================================================

--------------------------- MODULE MCAlertIngestion ---------------------------
(* Batches for model checking AlertIngestion.                              *)
EXTENDS AlertIngestion, TLC

CONSTANTS f1, f2

HookSymmetry == Permutations(Hooks)

P(f, n, s) == [fp |-> f, start |-> n, status |-> s]

\* One alert that fires, is resolved and fires again.
Episodes == {<<P(f1, 1, "firing")>>, <<P(f1, 1, "resolved")>>, <<P(f1, 2, "firing")>>}

\* Batches that meet in opposite orders, and one with two alerts of one row.
Groups == {<<P(f1, 1, "firing"), P(f2, 1, "firing")>>,
           <<P(f2, 2, "firing"), P(f1, 2, "firing")>>,
           <<P(f1, 3, "resolved"), P(f1, 2, "firing")>>}

=============================================================================

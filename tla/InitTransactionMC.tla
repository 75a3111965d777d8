------------------------- MODULE InitTransactionMC --------------------------
(***************************************************************************)
(* Small instances of InitTransaction.  The last file lies in a root of    *)
(* its own; the first one is an index that the plan may have to create.    *)
(***************************************************************************)
EXTENDS InitTransaction, TLC

CONSTANTS r1, r2

TwoRoots == [i \in Files |-> IF i < FileCount THEN r1 ELSE r2]
OneRoot == [i \in Files |-> r1]
FirstIsIndex == {1}
Symmetric == Permutations(Servers)
=============================================================================

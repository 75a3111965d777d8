--------------------------- MODULE RootMonitorMC ----------------------------
(* Small instances of RootMonitor: two contents, one of which lacks        *)
(* metadata that source initialization adds.                               *)
EXTENDS RootMonitor, TLC

CONSTANTS v, w

CompletedAsV == [h \in Hashes |-> IF h = w THEN v ELSE h]
Symmetric == Permutations(Tasks)
=============================================================================

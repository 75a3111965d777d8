-------------------------- MODULE RootInventoryMC ---------------------------
(***************************************************************************)
(* What directories are found to hold: every pair of inventories of a      *)
(* small root; the scan that makes an inventory; and the directory of the  *)
(* browser, which is compared with the packaged files before it is         *)
(* replaced.  They share no state: a behaviour is of one of the three.       *)
(***************************************************************************)
EXTENDS RootReview, Admission, BrowserInstall

VARIABLE shape

vars == <<shape, reviewVars, admissionVars, installVars>>

\* The entries of a root in the order of their names: a hidden directory with
\* a document, two directories whose names differ in case, each with one, a
\* document, and a file that is none.
Name(p, c, k) == [parent |-> p, class |-> c, key |-> k]
SmallTree == <<Name(0, "hidden", 1), Name(1, "plain", 2), Name(0, "plain", 3), Name(3, "plain", 4),
               Name(0, "plain", 3), Name(5, "plain", 4), Name(0, "plain", 5), Name(0, "unsupported", 6)>>
Generous == [file |-> 2, entries |-> 9, depth |-> 3, total |-> 9]
SmallBounds == {Generous, [Generous EXCEPT !.entries = 4], [Generous EXCEPT !.depth = 1],
                [Generous EXCEPT !.file = 1], [Generous EXCEPT !.total = 3]}
Short == [kind |-> "file", size |-> 1, text |-> TRUE]

\* What is at an entry when a scan begins: anything, or the same everywhere if
\* something is to change.
Something == Regular \cup {Gap, Odd}
AtFirst ==
  {<<h, Short, a, x, b, y, z, u>> :
     h \in {Gap, Folder}, a \in {Short, Folder}, b \in {Gap, Folder},
     x \in Something, y \in Something, z \in Something, u \in {Gap, Short}}
Plain == <<Folder, Short, Folder, Short, Folder, Gap, Short, Gap>>

Empty == [p \in Paths |-> None]
NoReview == baseline = Empty /\ current = Empty /\ complete = TRUE
NoScan == content = <<>> /\ scan = [at |-> "none"] /\ changes = 0
NoInstall ==
  /\ browser = NoDirectory /\ staging = <<>> /\ backup = <<>> /\ installs = <<>>
  /\ written = {} /\ incidents = [beside |-> TRUE]

Init ==
  \/ shape = "review" /\ ReviewInit /\ NoScan /\ NoInstall
  \/ /\ shape \in {"scan", "work"}
     /\ \E b \in Bounds : scan = Start(b)
     /\ changes = 0
     /\ IF shape = "scan" THEN content \in {Placed(c) : c \in AtFirst} ELSE content = Placed(Plain)
     /\ NoReview /\ NoInstall
  \/ shape = "install" /\ InstallInit /\ NoReview /\ NoScan

Next ==
  /\ UNCHANGED shape
  /\ \/ shape = "review" /\ Accept /\ UNCHANGED <<admissionVars, installVars>>
     \/ shape \in {"scan", "work"} /\ AdmissionNext /\ UNCHANGED <<reviewVars, installVars>>
     \/ /\ shape = "work" /\ UNCHANGED <<reviewVars, installVars>>
        /\ \E n \in Nodes : \E c \in Something \cup {Folder} :
             (c = Folder => n \in {1, 3, 5}) /\ Work(n, c)
     \/ shape = "install" /\ InstallNext /\ UNCHANGED <<reviewVars, admissionVars>>

Spec == Init /\ [][Next]_vars
=============================================================================

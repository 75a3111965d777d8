----------------------------- MODULE RootReview ------------------------------
(***************************************************************************)
(* What the comparison of inventories means for people who review it: for  *)
(* every baseline and everything the root may hold now.  Accepting moves   *)
(* the baseline.                                                           *)
(***************************************************************************)
EXTENDS RootInventory

VARIABLES
  baseline,   \* the inventory that was accepted last
  current,    \* what a scan finds now
  complete    \* did that scan get to its end (AdmissionStatus)

reviewVars == <<baseline, current, complete>>

Roots == {inv \in Inventories : \A p \in Paths : inv[p] \in Possible(p)}

\* A scan that a limit ended has found any part of the root.
ReviewInit == baseline \in Roots /\ current \in Roots /\ complete \in BOOLEAN

\* The comparison does not ask whether the scan was complete.
Accept == /\ Changes(baseline, current) # {}
          /\ baseline' = current
          /\ UNCHANGED <<current, complete>>

ReviewSpec == ReviewInit /\ [][Accept]_reviewVars
-----------------------------------------------------------------------------
\* The paths a change speaks of.
Named(c) == {c.path} \cup IF c.previous = None THEN {} ELSE {c.previous}
Noticed == UNION {Named(c) : c \in Changes(baseline, current)}

(* Whatever a review still has to decide on is excluded from document      *)
(* responses: no path a pending change names is served, although allows    *)
(* compares the bytes with the baseline only and never looks at the        *)
(* pending changes, and although a CSV file can lose its declaration, or a *)
(* file its unambiguous name, without a change of its own bytes.           *)
PendingIsExcluded == \A p \in Noticed : ~Served(baseline, current, complete, p)

(* While the scan of the root is complete nothing is withheld silently,    *)
(* and nothing goes silently: a file that the scan admits with complete    *)
(* metadata, and one that the baseline accepted, is served or named by a   *)
(* change that a review can decide on, as the old path of a rename         *)
(* candidate if need be.  So where nothing is to be reviewed, exactly the  *)
(* documents of the baseline are served.  A root that is over a limit is   *)
(* outside of it: no file of it resolves, and the comparison, which looks  *)
(* at the entries only, need not name any of them.                         *)
NothingIsSilent ==
  complete =>
    \A p \in Paths : Accepted(current, p) \/ Accepted(baseline, p)
                      => Served(baseline, current, complete, p) \/ p \in Noticed
=============================================================================

--------------------------- MODULE RootInventory ----------------------------
(***************************************************************************)
(* Inventories of a document root and their comparison, after              *)
(* compare_inventory of crates/okf-http/src/monitoring.rs, and the two     *)
(* checks a document passes before it is served.                           *)
(*                                                                         *)
(* Paths are numbered in the order of a BTreeMap.  A hash stands for the   *)
(* bytes it was computed from.  The wording of "detail" is left out.       *)
(***************************************************************************)
EXTENDS Integers, FiniteSets, FiniteSetsExt

CONSTANTS
  PathCount,   \* the paths of the root are 1..PathCount
  Resources,   \* the paths that are CSV files, which an index.md declares
  Hashes,      \* the contents a file may have
  Valid,       \* those with complete metadata, when the file is Markdown
  None         \* no entry, no hash

Paths == 1..PathCount

\* What the scan and the compliance analysis say of one path.
Rejection == {"hidden", "conflict", "rejected"}
Entries == [state : {"accepted", "metadata_invalid"}, hash : Hashes]
           \cup [state : Rejection, hash : {None}]

ASSUME InventoryConstants ==
  /\ PathCount \in Nat \ {0}
  /\ Resources \subseteq Paths
  /\ Valid \subseteq Hashes
  /\ None \notin Hashes \cup Entries \cup Paths

Inventories == [Paths -> Entries \cup {None}]

\* The entry of a Markdown file whose bytes the scan admitted.
Entry(h) == [state |-> IF h \in Valid THEN "accepted" ELSE "metadata_invalid",
             hash |-> h]

\* The entries path p may get.  The metadata of a Markdown file lie in its
\* own bytes; those of a CSV file lie in the index that declares it.
Possible(p) ==
  {None} \cup [state : Rejection, hash : {None}]
  \cup IF p \in Resources
       THEN [state : {"accepted", "metadata_invalid"}, hash : Hashes]
       ELSE {Entry(h) : h \in Hashes}

Change(kind, p, previous) == [kind |-> kind, path |-> p, previous |-> previous]

Classify(e) == CASE e.state = "hidden" -> "newly_hidden"
                 [] e.state = "conflict" -> "conflict"
                 [] e.state = "metadata_invalid" -> "metadata-invalid"
                 [] OTHER -> "newly_rejected"

Accepted(inv, p) == inv[p] # None /\ inv[p].state = "accepted"

Deleted(old, new) == {p \in Paths : Accepted(old, p) /\ new[p] = None}
Added(old, new) == {p \in Paths : old[p] = None /\ Accepted(new, p)}

\* The paths both inventories have, in the order of the match arms.
Altered(old, new) ==
  LET Both == {p \in Paths : old[p] # None /\ new[p] # None}
      Kind(p) == IF \/ Accepted(old, p) /\ ~Accepted(new, p)
                    \/ old[p].hash = new[p].hash
                 THEN Classify(new[p])
                 ELSE IF new[p].state = "metadata_invalid"
                      THEN "metadata-invalid" ELSE "modified"
  IN  {Change(Kind(p), p, None) : p \in {q \in Both : old[q] # new[q]}}

\* New entries that are not admitted or not complete.
Appeared(old, new) ==
  {Change(Classify(new[p]), p, None) :
     p \in {q \in Paths : /\ old[q] = None /\ new[q] # None
                          /\ ~Accepted(new, q)}}

\* The deleted path an added one may come from: of several with its hash the
\* last one, the others having been overwritten in the map of old hashes.
Origins(old, new, p) == {q \in Deleted(old, new) : old[q].hash = new[p].hash}
Renamed(old, new) == {p \in Added(old, new) : Origins(old, new, p) # {}}
OldPath(old, new, p) == Max(Origins(old, new, p))

Arrived(old, new) ==
  {Change("renamed_candidate", p, OldPath(old, new, p)) : p \in Renamed(old, new)}
  \cup {Change("added", p, None) : p \in Added(old, new) \ Renamed(old, new)}

\* A mutant: every deletion whose bytes live on elsewhere is taken for a rename.
GoneUnlessCopied(old, new) ==
  {Change("deleted", p, None) :
     p \in {q \in Deleted(old, new) :
              ~\E r \in Added(old, new) : old[q].hash = new[r].hash}}

Gone(old, new) ==
  {Change("deleted", p, None) :
     p \in Deleted(old, new) \ {OldPath(old, new, q) : q \in Renamed(old, new)}}

Changes(old, new) == Altered(old, new) \cup Appeared(old, new)
                     \cup Arrived(old, new) \cup Gone(old, new)

\* RootMonitor::allows: the baseline accepts these bytes under this path.
Allows(baseline, p, h) == Accepted(baseline, p) /\ baseline[p].hash = h

\* A mutant: an undeclared CSV file is resolved like a declared one.
ResolvableUndeclared(inv, complete, p) ==
  complete /\ inv[p] # None /\ inv[p].hash # None

\* resolve_admitted_file: a fresh scan is complete (can_confirm), admits the
\* file, and declares it when it is a CSV file.
Resolvable(inv, complete, p) ==
  /\ complete
  /\ inv[p] # None
  /\ inv[p].state \in IF p \in Resources THEN {"accepted"}
                      ELSE {"accepted", "metadata_invalid"}

Served(baseline, inv, complete, p) ==
  /\ Resolvable(inv, complete, p)
  /\ Allows(baseline, p, inv[p].hash)
=============================================================================

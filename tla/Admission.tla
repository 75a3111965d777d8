------------------------------ MODULE Admission ------------------------------
(***************************************************************************)
(* The scan of a document root (crates/okf/src/admission.rs): a walk over  *)
(* directories in the order of their names, within limits, while people go *)
(* on working, and the paths that collide in a namespace without case      *)
(* (crates/okf/src/identity.rs).                                           *)
(*                                                                         *)
(* The entries a root may have are numbered in the order of the walk.  The *)
(* name of an entry is fixed: where it lies, whether it is refused for its *)
(* name, and its comparison key.  What is there changes.                   *)
(***************************************************************************)
EXTENDS Integers, Sequences, FiniteSets, FiniteSetsExt

CONSTANTS
  Tree,       \* for each entry its parent (0: the root), class and key
  Bounds,     \* the limits a scan may be given
  FileSizes,  \* the lengths a file may have
  MaxChanges  \* how often something changes during the scan

VARIABLES
  content,    \* what is on disk
  scan,       \* the scanner
  changes     \* history: how often something changed

admissionVars == <<content, scan, changes>>

Nodes == DOMAIN Tree

ASSUME AdmissionConstants ==
  /\ Tree \in Seq([parent : Nat, class : {"plain", "unsupported", "hidden"}, key : Nat])
  /\ \A n \in Nodes : Tree[n].parent < n
  /\ \A b \in Bounds : \A k \in {"file", "entries", "depth", "total"} : b[k] \in Nat \ {0}
  /\ FileSizes \subseteq Nat
  /\ MaxChanges \in Nat

\* "other" is a link, a device or an executable; text: does it pass the checks?
Gap == [kind |-> "absent", size |-> 0, text |-> FALSE]
Folder == [Gap EXCEPT !.kind = "dir"]
Odd == [Gap EXCEPT !.kind = "other"]
Regular == [kind : {"file"}, size : FileSizes, text : BOOLEAN]
Things == Regular \cup {Gap, Folder, Odd}

Inside(n) == {c \in Nodes : Tree[c].parent = n}

\* The entries above an entry, and how deep it lies.
Above[n \in Nodes] ==
  IF Tree[n].parent = 0 THEN {} ELSE {Tree[n].parent} \cup Above[Tree[n].parent]
DepthOf(n) == Cardinality(Above[n]) + 1

\* Only what is in a directory is there.
Placed(c) ==
  [n \in Nodes |-> IF \A a \in Above[n] : c[a].kind = "dir" THEN c[n] ELSE Gap]

\* scan_document_root begins with its limits validated and the root looked at.
Start(b) ==
  [at |-> "list", limits |-> b, stack |-> <<>>, node |-> 0, size |-> 0, entries |-> 0, bytes |-> 0,
   complete |-> TRUE, accepted |-> {}, rejected |-> {}, folders |-> {}]

\* A file of the inventory: its size is the one it had before it was read.
Admitted(n, size) == [node |-> n, size |-> size]

Top == scan.stack[Len(scan.stack)]
Rest == [scan.stack EXCEPT ![Len(scan.stack)].left = @ \ {Min(@)}]

(* detect_path_collisions, and reject_collisions *)
Key(f) == Tree[f.node].key
Colliding(files) == {f \in files : \E g \in files \ {f} : Key(f) = Key(g)}

\* A mutant: of the paths that collide one is retained.
FinishFirst(s) ==
  LET dropped == {f \in Colliding(s.accepted) :
                    \E g \in s.accepted : g.node < f.node /\ Key(g) = Key(f)}
  IN [s EXCEPT !.at = "over", !.accepted = @ \ dropped,
               !.rejected = @ \cup {f.node : f \in dropped}]

\* The end of a scan, complete or not: every path that collides is rejected.
Finish(s) ==
  [s EXCEPT !.at = "over", !.accepted = @ \ Colliding(@),
            !.rejected = @ \cup {f.node : f \in Colliding(s.accepted)}]

Reject(s, n) == [s EXCEPT !.at = "entry", !.rejected = @ \cup {n}]

\* exceed: a limit ends the whole walk.
Exceed(s) == Finish([s EXCEPT !.complete = FALSE])

\* walk reads a directory.  If it has gone, or cannot be read, the scan fails.
List ==
  /\ scan.at = "list"
  /\ LET there == scan.node # 0 => content[scan.node].kind = "dir"
     IN scan' = IF ~there THEN [scan EXCEPT !.at = "failed"]
                ELSE [scan EXCEPT !.at = "entry", !.stack = Append(@,
                        [dir |-> scan.node,
                         left |-> {c \in Inside(scan.node) : content[c].kind # "absent"}])]
  /\ UNCHANGED <<content, changes>>

\* The end of a directory.
Leave ==
  /\ scan.at = "entry" /\ Top.left = {}
  /\ scan' = IF Len(scan.stack) = 1 THEN Finish(scan)
             ELSE [scan EXCEPT !.stack = SubSeq(@, 1, Len(@) - 1)]
  /\ UNCHANGED <<content, changes>>

\* An entry is counted, judged by its name and looked at.  A file that may be
\* admitted is within the limits before it is read.
Enter ==
  /\ scan.at = "entry" /\ Top.left # {}
  /\ LET n == Min(Top.left)
         c == content[n]
         s == [scan EXCEPT !.entries = @ + 1, !.stack = Rest]
     IN scan' =
          IF s.entries > s.limits.entries \/ Len(s.stack) > s.limits.depth THEN Exceed(s)
          ELSE IF Tree[n].class = "hidden" \/ c.kind = "absent" THEN Reject(s, n)
          ELSE IF c.kind = "dir"
               THEN [s EXCEPT !.at = "list", !.node = n, !.folders = @ \cup {n}]
          ELSE IF c.kind = "other" \/ Tree[n].class = "unsupported" THEN Reject(s, n)
          ELSE IF c.size > s.limits.file \/ s.bytes + c.size > s.limits.total THEN Exceed(s)
          ELSE [s EXCEPT !.at = "read", !.node = n, !.size = c.size, !.bytes = @ + c.size]
  /\ UNCHANGED <<content, changes>>

\* It is read, and admitted if it is text.
ReadText ==
  /\ scan.at = "read"
  /\ LET n == scan.node
         c == content[n]
     IN \E passes \in IF c.kind = "other" THEN BOOLEAN ELSE {c.text} :
          scan' = IF passes
                  THEN [scan EXCEPT !.at = "entry", !.accepted = @ \cup {Admitted(n, scan.size)}]
                  ELSE Reject(scan, n)
  /\ UNCHANGED <<content, changes>>

\* People create, change and remove entries while the scan runs.
Work(n, c) ==
  /\ scan.at \notin {"over", "failed"} /\ changes < MaxChanges
  /\ c # content[n] /\ \A a \in Above[n] : content[a].kind = "dir"
  /\ content' = Placed([content EXCEPT ![n] = c])
  /\ changes' = changes + 1
  /\ UNCHANGED scan

AdmissionNext == List \/ Leave \/ Enter \/ ReadText

\* A scan of any root.
AdmissionInit ==
  /\ content \in {Placed(c) : c \in [Nodes -> Things]}
  /\ scan \in {Start(b) : b \in Bounds}
  /\ changes = 0

AdmissionSpec ==
  AdmissionInit /\ [][AdmissionNext \/ \E n \in Nodes, c \in Things : Work(n, c)]_admissionVars
-----------------------------------------------------------------------------
(* What a complete inventory is said to be. *)
Visible == {n \in Nodes : content[n].kind # "absent"
                          /\ \A a \in Above[n] : Tree[a].class # "hidden"}
Candidates == {n \in Visible : Tree[n].class = "plain" /\ content[n].kind = "file"}

\* How many bytes some files have: a byte is a file and an offset.
Sizes(files) == Cardinality(UNION {{f} \X (1..f.size) : f \in files})

Fits ==
  LET b == scan.limits
      candidates == {Admitted(n, content[n].size) : n \in Candidates}
  IN /\ Cardinality(Visible) <= b.entries
     /\ \A n \in Visible : DepthOf(n) <= b.depth
     /\ \A f \in candidates : f.size <= b.file
     /\ Sizes(candidates) <= b.total

\* The texts whose paths no other text's path collides with.
Sole(n) == \A m \in Candidates \ {n} : content[m].text => Tree[m].key # Tree[n].key
Retained == {n \in Candidates : content[n].text /\ Sole(n)}

(* A scan beside which nothing changes is complete exactly when the root   *)
(* is within the limits, and then it admits every text with a path of its  *)
(* own and rejects all the rest.  Whatever changes, no two paths that are  *)
(* admitted collide, what is admitted is within the limits, and a complete *)
(* scan accounts for each entry it has counted, once.                      *)
ScanIsExact ==
  scan.at = "over" =>
    /\ changes = 0 =>
         /\ scan.complete = Fits
         /\ scan.complete =>
              /\ scan.accepted = {Admitted(n, content[n].size) : n \in Retained}
              /\ scan.rejected = {n \in Visible \ Retained :
                                    content[n].kind = "dir" => Tree[n].class = "hidden"}
    /\ Colliding(scan.accepted) = {} /\ {f.node : f \in scan.accepted} \cap scan.rejected = {}
    /\ Sizes(scan.accepted) <= scan.limits.total /\ scan.bytes <= scan.limits.total
    /\ scan.complete =>
         scan.entries = Cardinality(scan.accepted) + Cardinality(scan.rejected \cup scan.folders)
=============================================================================

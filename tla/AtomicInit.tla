----------------------------- MODULE AtomicInit -----------------------------
(***************************************************************************)
(* What confirm_source_initialization promises about the documents of the  *)
(* registered roots, with no journal, no lock and no server in sight: the  *)
(* generated metadata of one confirmation appears in every file of a root  *)
(* that needs it at once, a person's own text is changed by that person    *)
(* only, and nothing else ever happens to a source file.                   *)
(*                                                                         *)
(* With one exception.  A rollback goes from the last file to the first    *)
(* and refuses at one that a person wrote since the review, so the files   *)
(* before that one may carry the metadata of an initialization that never  *)
(* commits.  Such files are half; no later review accepts a root while     *)
(* one is left.                                                            *)
(*                                                                         *)
(* InitTransaction is the protocol of crates/okf/src/transaction.rs that   *)
(* implements this promise.                                                *)
(***************************************************************************)
EXTENDS RootFiles

VARIABLE half   \* the files with metadata of an initialization not committed

avars == <<tree, text, edited, committed, half>>

AInit == Untouched /\ half = {}

\* A later file of the same root was written by a person since the review.
Behind(i, written) == \E j \in written : j > i /\ RootOf[j] = RootOf[i]

\* A file shows the metadata of an initialization that has not committed, or
\* loses it again.
Shown(i) == \E id \in Ids : /\ i \in half' \ half
                            /\ NeedsChange(i, tree[i])
                            /\ tree'[i] = Generated(id, tree[i])

TakenBack(i) == \E id \in Ids : /\ i \in half \ half'
                                /\ NeedsChange(i, tree'[i])
                                /\ tree[i] = Generated(id, tree'[i])

\* Of the given files only some behind an edited one are shown or taken back.
HalfDone(files) ==
  /\ tree' \in [Files -> Content]
  /\ half' \in SUBSET {i \in Files : Behind(i, edited')}
  /\ \A i \in files : \/ (tree'[i] = tree[i] /\ (i \in half' <=> i \in half))
                       \/ Shown(i)
                       \/ TakenBack(i)

\* A person writes or deletes one file with an editor; files before it may
\* now be out of the reach of a rollback, or within it again.
AEdit(i, c) == /\ text' = [text EXCEPT ![i] = c.text]
               /\ edited' = edited \cup {i}
               /\ HalfDone(Files \ {i})
               /\ tree'[i] = c
               /\ UNCHANGED committed

\* An initialization works on files that no rollback can reach.
AHalf == /\ HalfDone(Files)
         /\ UNCHANGED <<text, edited, committed>>

\* A confirmation finds the sources to be those the reviewer approved; no
\* file of any root carries metadata of an unfinished initialization.
AReview == /\ half = {}
           /\ \A i \in Files : tree[i].by \in committed \cup {Nobody}
           /\ edited' = {}
           /\ UNCHANGED <<tree, text, committed, half>>

\* Every file of the root that needs metadata gets it in one step.  Only a
\* file that a person wrote after the review may be left out.
ACommit(id, r) ==
  \E S \in SUBSET FilesOf(r) :
    /\ \A i \in S : NeedsChange(i, tree[i])
    /\ \A i \in FilesOf(r) \ edited : NeedsChange(i, tree[i]) => i \in S
    /\ \A i \in half : tree[i].by = id
    /\ tree' = [i \in Files |-> IF i \in S THEN Generated(id, tree[i])
                                           ELSE tree[i]]
    /\ committed' = committed \cup {id}
    /\ half' = {}
    /\ UNCHANGED <<text, edited>>

ANext == \/ \E i \in Files, c \in Content : AEdit(i, c)
         \/ AHalf
         \/ AReview
         \/ \E id \in Ids, r \in Roots : ACommit(id, r)

ASpec == AInit /\ [][ANext]_avars
=============================================================================

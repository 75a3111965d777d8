----------------------------- MODULE RootFiles ------------------------------
(***************************************************************************)
(* The documents of the registered roots, as people and initializations    *)
(* write them: the vocabulary that AtomicInit and InitTransaction share.   *)
(***************************************************************************)
EXTENDS Naturals

CONSTANTS
  FileCount,    \* the candidate files of all roots are numbered 1..FileCount
  Roots,        \* the document roots
  RootOf,       \* the root each file lies in
  Indexes,      \* the files that are an index.md, created when missing
  Texts,        \* what a person may write into a file
  Absent,       \* the text of a file that does not exist
  MaxProposals  \* proposals are numbered 1..MaxProposals

Files == 1..FileCount
Ids == 1..MaxProposals
Nobody == 0

ASSUME InitConstants ==
  /\ FileCount \in Nat
  /\ MaxProposals \in Nat
  /\ Roots # {}
  /\ RootOf \in [Files -> Roots]
  /\ Indexes \subseteq Files
  /\ Absent \notin Texts

(***************************************************************************)
(* A file is the text a person wrote and the proposal whose generated      *)
(* metadata it carries.  [text |-> Absent, by |-> Nobody] is no file;      *)
(* [text |-> Absent, by |-> id] is an index generated from nothing.        *)
(***************************************************************************)
Content == [text : Texts \cup {Absent}, by : Ids \cup {Nobody}]
Missing == [text |-> Absent, by |-> Nobody]
Raw == {c \in Content : c.by = Nobody}

\* Adding missing frontmatter keeps the body and the metadata already there.
Generated(id, c) == [text |-> c.text, by |-> id]

\* The plan has a change for a document without the generated metadata and
\* for an index that does not exist.
NeedsChange(i, c) == /\ c.by = Nobody
                     /\ c = Missing => i \in Indexes

FilesOf(r) == {i \in Files : RootOf[i] = r}
-----------------------------------------------------------------------------
VARIABLES
  tree,       \* the content of every file
  text,       \* the text the last person to write the file left in it
  edited,     \* the files a person wrote since the confirmation's review
  committed   \* the proposals whose initialization took effect

\* The documents as people left them.
Untouched == /\ tree \in [Files -> Raw]
             /\ text = [i \in Files |-> tree[i].text]
             /\ edited = {}
             /\ committed = {}
=============================================================================

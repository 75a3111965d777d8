---------------------------- MODULE RelationApply ----------------------------
(***************************************************************************)
(* Applying accepted suggestions to documents (api_edges_apply of          *)
(* crates/okf-http/src/lib.rs, and relations.rs): relations are merged     *)
(* into the frontmatter of their source document, the document is replaced *)
(* and the database records them.  No guard keeps two of these, or one of  *)
(* these and a job, apart.                                                 *)
(***************************************************************************)
EXTENDS WorkingIndex

CONSTANT Applies  \* the requests that may run at once

VARIABLES
  apply,  \* what each request has in hand, or None
  taken   \* history: the relations that people took out of their document, or a
          \* request wrote over that had read it before they were there

applyVars == <<apply, taken>>

ApplyInit == apply = [a \in Applies |-> None] /\ taken = {}

(* Each request holds the accepted suggestions it found, the chunks it      *)
(* found them current against, the documents it has still to treat, and    *)
(* the one it is treating: what it read of it, and the relations it adds.  *)
Ready(d) == {s \in DOMAIN d.sug : d.sug[s] = "accepted" /\ s \notin d.applied
                                  /\ Ends(s) \subseteq d.chunks}

Groups(those) == {s.source.doc : s \in those}

Collect(a) ==
  /\ apply[a] = None
  /\ db' = Opened
  /\ IF Ready(Opened) = {} THEN UNCHANGED apply
     ELSE apply' = [apply EXCEPT ![a] =
            [at |-> "next", all |-> Ready(Opened), chunks |-> Chunks,
             left |-> Groups(Ready(Opened)), valid |-> {}, read |-> None]]
  /\ UNCHANGED <<servers, docs, files, job, env, acked, hurt, taken>>

\* suggestion_is_current: both chunks were found, both documents are there.
Current(s, chunks) ==
  Ends(s) \subseteq chunks /\ \A c \in Ends(s) : docs[c.doc].body # None

\* A document is read, unless none of its suggestions is current.
Read(a) ==
  /\ apply[a] # None /\ apply[a].at = "next" /\ apply[a].left # {}
  /\ LET t     == apply[a]
         d     == CHOOSE e \in t.left : \A f \in t.left : e <= f
         valid == {s \in t.all : s.source.doc = d /\ Current(s, t.chunks)}
     IN apply' = [apply EXCEPT ![a] =
          IF valid = {} THEN [t EXCEPT !.left = @ \ {d}]
          ELSE [t EXCEPT !.at = "replace", !.left = @ \ {d}, !.valid = valid,
                         !.read = [doc |-> d, was |-> docs[d]]]]
  /\ UNCHANGED <<indexVars, taken>>

\* A mutant: relations are added without a look at the ones there are.
MergedAlways(relations, those) == relations \o SetToSeq(those)

\* merge_relations_into_frontmatter: what is there already is not added.
Merged(relations, those) == relations \o SetToSeq(those \ Range(relations))

\* What came into a document after it was read.
Added(was, now) == Range(now.relations) \ Range(was.relations)

\* A mutant: a document that cannot be replaced is recorded all the same.
ReplaceOrNot(a) ==
  /\ apply[a] # None /\ apply[a].at = "replace"
  /\ LET t   == apply[a]
         d   == t.read.doc
         was == t.read.was
         new == [was EXCEPT !.relations = Merged(@, t.valid)]
     IN /\ docs' = IF docs[d].body = None THEN docs ELSE [docs EXCEPT ![d] = new]
        /\ taken' = (taken \cup Added(was, docs[d])) \ Range(docs'[d].relations)
  /\ apply' = [apply EXCEPT ![a].at = "record"]
  /\ UNCHANGED <<servers, db, files, job, env, acked, hurt>>

\* atomic_replace_preserving_permissions, unless there is nothing to add.
Replace(a) ==
  /\ apply[a] # None /\ apply[a].at = "replace"
  /\ LET t   == apply[a]
         d   == t.read.doc
         was == t.read.was
         new == [was EXCEPT !.relations = Merged(@, t.valid)]
     IN IF new = was THEN
          /\ apply' = [apply EXCEPT ![a].at = "record"]
          /\ UNCHANGED <<docs, taken>>
        ELSE IF docs[d].body = None THEN
          /\ apply' = [apply EXCEPT ![a].at = "next"]
          /\ UNCHANGED <<docs, taken>>
        ELSE
          /\ docs' = [docs EXCEPT ![d] = new]
          /\ taken' = (taken \cup Added(was, docs[d])) \ Range(new.relations)
          /\ apply' = [apply EXCEPT ![a].at = "record"]
  /\ UNCHANGED <<servers, db, files, job, env, acked, hurt>>

\* record_applied_relations: all of them, or none if a suggestion has gone.
Record(a) ==
  /\ apply[a] # None /\ apply[a].at = "record"
  /\ db' = IF db # Missing /\ apply[a].valid \subseteq DOMAIN db.sug
           THEN [db EXCEPT !.applied = @ \cup apply[a].valid] ELSE db
  /\ apply' = [apply EXCEPT ![a].at = "next"]
  /\ UNCHANGED <<servers, docs, files, job, env, acked, hurt, taken>>

Done(a) ==
  /\ apply[a] # None /\ apply[a].at = "next" /\ apply[a].left = {}
  /\ apply' = [apply EXCEPT ![a] = None]
  /\ UNCHANGED <<indexVars, taken>>

\* A document cannot be edited or replaced, or the audit cannot be written:
\* the request goes on with the next document.
Skip(a) ==
  /\ apply[a] # None /\ apply[a].at \in {"replace", "record"} /\ Fault
  /\ apply' = [apply EXCEPT ![a].at = "next"]
  /\ UNCHANGED <<servers, docs, db, files, job, acked, hurt, taken>>

\* Every server stops; what they were doing is forgotten.
Crash ==
  /\ Fault
  /\ \E p \in Servers : pc[p] # "idle" \/ \E a \in Applies : apply[a] # None
  /\ hurt' = (hurt \/ \E p \in Servers : pc[p] \in Mirroring)
  /\ pc' = [p \in Servers |-> "idle"] /\ work' = [p \in Servers |-> None]
  /\ apply' = [a \in Applies |-> None]
  /\ UNCHANGED <<servers, docs, db, files, acked, taken>>

\* People edit documents beside all of this.
Person(d) ==
  /\ Edit(d)
  /\ taken' = (taken \cup Range(docs[d].relations)) \ Range(docs'[d].relations)
  /\ UNCHANGED apply

Apply(a) == Collect(a) \/ Read(a) \/ Replace(a) \/ Record(a) \/ Done(a) \/ Skip(a)

Running == {p \in Servers : pc[p] # "idle"} \cup {a \in Applies : apply[a] # None}

IndexNext ==
  \/ \E p \in servers : Job(p) /\ UNCHANGED applyVars
  \/ Running = {} /\ Lose /\ UNCHANGED applyVars
  \/ \E d \in Docs : Person(d)
  \/ \E a \in Applies : Apply(a)
  \/ Crash

ApplySpec == IndexInit /\ ApplyInit /\ [][IndexNext]_<<indexVars, applyVars>>
-----------------------------------------------------------------------------
(* The triggers and the check before a commit never end a job: whatever    *)
(* was loaded, from the database or the mirror, before people changed      *)
(* documents or another server committed, fits the chunks it is committed  *)
(* with.  Only a review set may come too late, and not with one server.    *)
NeverRefused ==
  \A p \in servers :
    /\ pc[p] = "commit" => Sound(Synced(Opened, work[p].chunks, work[p].index))
    /\ Alone /\ pc[p] = "insert" => work[p].index.emb \subseteq db.chunks

(* The database never holds what its integrity check reports, whatever two *)
(* servers read before one of them wrote.                                  *)
SqliteSound == db # Missing => Sound(db)

(* A decision that a server acknowledged is in the index there is, and     *)
(* after the loss of the database in the mirror that takes its place, as   *)
(* long as the chunks it is about are found.                               *)
DecisionsStick ==
  Alone => \A s \in DOMAIN acked :
             s \in DOMAIN Existing.sug /\ Existing.sug[s] = acked[s]

(* Between jobs the mirror is in step with the database unless a step of   *)
(* mirroring failed since it was last complete, so every job that comes to *)
(* its end repairs what an earlier one left.                               *)
HealthyUnlessHurt ==
  Alone /\ (\A p \in Servers : pc[p] = "idle") /\ ~hurt /\ (db = Missing \/ db.gen > 0)
    => ~RecoveryRequired

(* A retry after a crash, a lost database or beside another request never  *)
(* writes a relation a second time.                                        *)
AppliedOnce == \A d \in Docs : IsInjective(docs[d].relations)

(* A suggestion that is recorded as applied, and is not looked at again,   *)
(* is in its document, unless a person took it out, or a request wrote the *)
(* document that had read it before the suggestion was there.  Neither a   *)
(* crash, a failing step, a removed document nor a relation that was there *)
(* already makes the audit tell of a relation nobody wrote.                *)
AuditIsTrue ==
  db # Missing => \A s \in db.applied :
    s \in Range(docs[s.source.doc].relations) \/ s \in taken
=============================================================================

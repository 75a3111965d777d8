---------------------------- MODULE WorkingIndex -----------------------------
(***************************************************************************)
(* The derived index of a repository: okf.sqlite, which is authoritative,  *)
(* its mirror of three files that are replaced one after the other, and    *)
(* the jobs of crates/okf-http/src/lib.rs that write both: indexing,       *)
(* rebuilding, generating suggestions and reviewing them.  A server runs   *)
(* one job at a time; several servers may share an index root.             *)
(*                                                                         *)
(* A document has one chunk, whose id contains the hash of its text, so a  *)
(* chunk is a document with a body.  A transaction is one step: each of    *)
(* them writes first, or fails when somebody wrote after what it has read. *)
(***************************************************************************)
EXTENDS Integers, Sequences, FiniteSets, Functions, SequencesExt

CONSTANTS
  None,
  DocCount,   \* the documents are numbered in the order of their paths
  Bodies,     \* the texts a document may have
  Servers,    \* the servers that may share the index root
  MaxGen, MaxSets, MaxEdits, MaxFaults  \* bounds of the model

ASSUME IndexConstants ==
  /\ DocCount \in Nat /\ None \notin Bodies \cup Nat
  /\ IsFiniteSet(Bodies) /\ IsFiniteSet(Servers)
  /\ MaxGen \in Nat /\ MaxSets \in Nat /\ MaxEdits \in Nat /\ MaxFaults \in Nat

VARIABLES
  servers,  \* the servers that run
  docs,     \* the documents: a body, or None, and the relations in the frontmatter
  db,       \* okf.sqlite, or Missing
  files,    \* embeddings.tsv, suggestions.tsv and file-index-generation
  pc, work, \* the job of each server
  env,      \* how often each thing has happened
  acked,    \* history: the decisions that were acknowledged as durable
  hurt      \* history: something failed since the mirror was last completed

job == <<pc, work>>
indexVars == <<servers, docs, db, files, job, env, acked, hurt>>

Docs == 1..DocCount
Chunk == [doc : Docs, body : Bodies]
Status == {"suggested", "accepted", "denied"}

\* A suggested edge of a review set.  Its id is made of these.
Suggestion == [set : Nat, source : Chunk, target : Chunk]

Nothing == <<>>
Ends(s) == {s.source, s.target}
NoIndex == [emb |-> {}, sug |-> Nothing]
EmptyDb == [gen |-> 0, chunks |-> {}, emb |-> {}, sug |-> Nothing, sets |-> {}, applied |-> {}]
Missing == [EmptyDb EXCEPT !.gen = None]

Alone == Cardinality(servers) = 1

IndexInit ==
  /\ servers \in {S \in SUBSET Servers : S # {}}
  /\ docs \in [Docs -> [body : Bodies \cup {None}, relations : {<<>>}]]
  /\ db = Missing
  /\ files = [emb |-> {}, sug |-> Nothing, marker |-> None]
  /\ pc = [p \in Servers |-> "idle"]
  /\ work = [p \in Servers |-> None]
  /\ env = [edits |-> 0, faults |-> 0, sets |-> 0]
  /\ acked = Nothing
  /\ hurt = FALSE
-----------------------------------------------------------------------------
(* What is read and what is written. *)

\* chunk_repository
Chunks == {[doc |-> d, body |-> docs[d].body] : d \in {e \in Docs : docs[e].body # None}}

\* SqliteWorkingIndex::open creates and migrates a database that is not there.
Opened == IF db = Missing THEN EmptyDb ELSE db

Content(d) == [emb |-> d.emb, sug |-> d.sug]

\* A mutant: any database is preferred to the mirror.
ExistingAny == IF db # Missing THEN Content(db) ELSE Content(files)

\* A database nothing was committed to gives way to the mirror.
Existing ==
  IF db # Missing /\ (db.gen > 0 \/ Content(db) # NoIndex) THEN Content(db) ELSE Content(files)

\* sqlite_integrity_violations, and the triggers of the schema.
Sound(d) ==
  /\ d.emb \subseteq d.chunks
  /\ \A s \in DOMAIN d.sug : Ends(s) \subseteq d.chunks /\ s.set \in d.sets
  /\ d.applied \subseteq DOMAIN d.sug

\* A mutant: what was embedded of chunks that are gone is kept.
EmbeddedBeside(index, chunks) == [index EXCEPT !.emb = @ \cup chunks]

\* What indexing has after every changed chunk was embedded.
Embedded(index, chunks) ==
  [index EXCEPT !.emb = (@ \cap chunks) \cup (chunks \ @)]

\* What rebuilding keeps: embeddings of the chunks there are, and suggestions
\* between them.
Retained(index, chunks) ==
  LET emb == index.emb \cap chunks
  IN [emb |-> emb, sug |-> Restrict(index.sug, {s \in DOMAIN index.sug : Ends(s) \subseteq emb})]

\* sync_repository_index.  A row that is deleted takes the rows derived from
\* it along, and a review set nobody knows comes back as a recovered one.
Synced(d, chunks, index) ==
  LET live == {s \in DOMAIN index.sug : Ends(s) \subseteq chunks}
  IN [gen     |-> d.gen + 1,
      chunks  |-> chunks,
      emb     |-> index.emb,
      sug     |-> Restrict(index.sug, live),
      sets    |-> d.sets \cup {s.set : s \in live},
      applied |-> d.applied \cap live]

\* suggest_edges: the pairs of embedded chunks of two documents, in their order.
Pairs(emb) == {e \in [source : emb, target : emb] : e.source.doc < e.target.doc}

Decided(d, those, status) ==
  [d EXCEPT !.gen = d.gen + 1,
            !.sug = [s \in DOMAIN d.sug |-> IF s \in those THEN status ELSE d.sug[s]]]

\* local_index_snapshots_match
SnapshotsMatch(left, right) == Content(left) = Content(right)

\* inspect_index_integrity
RecoveryRequired ==
  IF db = Missing THEN files # [emb |-> {}, sug |-> Nothing, marker |-> None]
  ELSE ~Sound(db) \/ ~SnapshotsMatch(db, files) \/ db.gen # files.marker
-----------------------------------------------------------------------------
(* The jobs. *)

\* IndexJobRegistry::try_begin
Free(p) == pc[p] = "idle"

Goto(p, label, w) == pc' = [pc EXCEPT ![p] = label] /\ work' = [work EXCEPT ![p] = w]
Idle(p) == Goto(p, "idle", None)

\* The decisions that are about chunks which this job no longer finds.
StillTrue(chunks) == {s \in DOMAIN acked : Ends(s) \subseteq chunks}

\* Index and rebuild read the documents first,
Scan(p, op) ==
  /\ Free(p) /\ Opened.gen < MaxGen
  /\ Goto(p, "load", [op |-> op, chunks |-> Chunks, index |-> NoIndex, gen |-> 0, acks |-> Nothing])
  /\ acked' = Restrict(acked, StillTrue(Chunks))
  /\ UNCHANGED <<servers, docs, db, files, env, hurt>>

\* then the index there is.
Load(p) ==
  /\ pc[p] = "load"
  /\ LET w == work[p]
     IN IF w.op = "index" THEN Goto(p, "embed", [w EXCEPT !.index = Existing])
        ELSE Goto(p, "commit", [w EXCEPT !.index = Retained(Existing, w.chunks)])
  /\ UNCHANGED <<servers, docs, db, files, env, acked, hurt>>

\* The provider has answered for every changed chunk.
Embed(p) ==
  /\ pc[p] = "embed"
  /\ Goto(p, "commit", [work[p] EXCEPT !.index = Embedded(@, work[p].chunks)])
  /\ UNCHANGED <<servers, docs, db, files, env, acked, hurt>>

\* A transaction is committed and the mirror is to follow.
Committed(p, d, w) ==
  /\ d.gen <= MaxGen /\ Sound(d)
  /\ db' = d
  /\ Goto(p, "reload", [w EXCEPT !.gen = d.gen])
  /\ UNCHANGED <<servers, docs, files, hurt>>

Commit(p) ==
  /\ pc[p] = "commit"
  /\ Committed(p, Synced(Opened, work[p].chunks, work[p].index), work[p])
  /\ UNCHANGED <<env, acked>>

Fresh == [op |-> "review", chunks |-> {}, index |-> NoIndex, gen |-> 0, acks |-> Nothing]

\* create_similarity_review_set reads the embeddings,
Similar(p) ==
  /\ Free(p) /\ Opened.gen < MaxGen /\ env.sets < MaxSets
  /\ db' = Opened
  /\ IF Opened.emb = {} THEN UNCHANGED job
     ELSE Goto(p, "insert", [Fresh EXCEPT !.index = Content(Opened)])
  /\ UNCHANGED <<servers, docs, files, env, acked, hurt>>

\* and stores the pairs above the threshold as a new review set.
Insert(p) ==
  /\ pc[p] = "insert"
  /\ \E pairs \in SUBSET Pairs(work[p].index.emb) :
       LET n   == env.sets + 1
           new == {[set |-> n, source |-> e.source, target |-> e.target] : e \in pairs}
       IN Committed(p, [db EXCEPT !.gen = db.gen + 1, !.sets = @ \cup {n},
                          !.sug = [s \in DOMAIN db.sug \cup new |->
                                     IF s \in new THEN "suggested" ELSE db.sug[s]]], work[p])
  /\ env' = [env EXCEPT !.sets = @ + 1]
  /\ UNCHANGED acked

\* Suggestions are decided in one transaction.  What was acknowledged of them
\* before is overwritten; the decision is acknowledged after the mirror.
Decide(p, those, status) ==
  /\ Free(p) /\ db # Missing /\ those \subseteq DOMAIN db.sug
  /\ Committed(p, Decided(db, those, status), [Fresh EXCEPT !.acks = [s \in those |-> status]])
  /\ acked' = Restrict(acked, DOMAIN acked \ those)
  /\ UNCHANGED env

\* A search, or a review of something that is not there, leaves an opened
\* database behind.
Search ==
  /\ db = Missing /\ db' = Opened
  /\ UNCHANGED <<servers, docs, files, job, env, acked, hurt>>

Decision == {"accepted", "denied"}

SetOf(n) == {s \in DOMAIN db.sug : s.set = n}

\* set_suggestion_status
ReviewOne(p) ==
  /\ db # Missing
  /\ \E s \in DOMAIN db.sug, status \in Decision : Decide(p, {s}, status)

\* set_review_set_status: a set whose suggestions are gone is decided as well.
ReviewSet(p) ==
  /\ db # Missing
  /\ \E n \in db.sets, status \in Decision : Decide(p, SetOf(n), status)

\* imported_edges_match: what an artifact names is stored, in its review set.
Matching(n) == (SUBSET SetOf(n)) \ {{}}

\* accept_imported_suggestions: all of them, or none.
AcceptImported(p, edges) == Decide(p, edges, "accepted")

Import(p) ==
  /\ db # Missing
  /\ \E n \in db.sets : \E edges \in Matching(n) : AcceptImported(p, edges)
-----------------------------------------------------------------------------
(* mirror_sqlite_generation *)

Reload(p) ==
  /\ pc[p] = "reload" /\ db # Missing
  /\ Goto(p, "embeddings", [work[p] EXCEPT !.index = Content(db)])
  /\ UNCHANGED <<servers, docs, db, files, env, acked, hurt>>

SaveEmbeddings(p) ==
  /\ pc[p] = "embeddings"
  /\ files' = [files EXCEPT !.emb = work[p].index.emb]
  /\ Goto(p, "suggestions", work[p])
  /\ UNCHANGED <<servers, docs, db, env, acked, hurt>>

SaveSuggestions(p) ==
  /\ pc[p] = "suggestions"
  /\ files' = [files EXCEPT !.sug = work[p].index.sug]
  /\ Goto(p, "mark", work[p])
  /\ UNCHANGED <<servers, docs, db, env, acked, hurt>>

\* A mutant: the marker that is there is kept.
MarkOnce(p) ==
  /\ pc[p] = "mark"
  /\ files' = [files EXCEPT !.marker = IF @ = None THEN work[p].gen ELSE @]
  /\ hurt' = FALSE
  /\ Idle(p)
  /\ UNCHANGED <<servers, docs, db, env, acked>>

\* The last step of a job: the generation it committed, and its answer.
Mark(p) ==
  /\ pc[p] = "mark"
  /\ files' = [files EXCEPT !.marker = work[p].gen]
  /\ LET new == work[p].acks
     IN acked' = [s \in DOMAIN acked \cup DOMAIN new |->
                    IF s \in DOMAIN new THEN new[s] ELSE acked[s]]
  /\ hurt' = FALSE
  /\ Idle(p)
  /\ UNCHANGED <<servers, docs, db, env>>

-----------------------------------------------------------------------------
(* What may go wrong. *)

Mirroring == {"reload", "embeddings", "suggestions", "mark"}

Fault == env.faults < MaxFaults /\ env' = [env EXCEPT !.faults = @ + 1]

\* A step of a job fails, or what it wants to commit is refused.
Fail(p) ==
  /\ pc[p] # "idle" /\ Fault
  /\ hurt' = (hurt \/ pc[p] \in Mirroring)
  /\ Idle(p)
  /\ UNCHANGED <<servers, docs, db, files, acked>>

Refused(p) ==
  /\ pc[p] = "insert" /\ ~ work[p].index.emb \subseteq db.chunks
  /\ Idle(p)
  /\ UNCHANGED <<servers, docs, db, files, env, acked, hurt>>

\* The database file is lost while nothing runs.
Lose ==
  /\ db # Missing /\ Fault
  /\ db' = Missing /\ hurt' = TRUE
  /\ UNCHANGED <<servers, docs, files, job, acked>>

\* The relations of a document that a person may know of.
Known(d) == {s \in Range(docs[d].relations) \cup DOMAIN db.sug : s.source.doc = d}

\* People write, remove and restore documents, their relations too.
Edit(d) ==
  /\ env.edits < MaxEdits /\ env' = [env EXCEPT !.edits = @ + 1]
  /\ \E b \in Bodies \cup {None}, those \in SUBSET Known(d) :
       /\ b = None => those = {}
       /\ b # docs[d].body \/ those # Range(docs[d].relations)
       /\ docs' = [docs EXCEPT ![d] = [body |-> b, relations |-> SetToSeq(those)]]
  /\ UNCHANGED <<servers, db, files, job, acked, hurt>>

Job(p) ==
  \/ \E op \in {"index", "rebuild"} : Scan(p, op)
  \/ Load(p) \/ Embed(p) \/ Commit(p)
  \/ Similar(p) \/ Insert(p) \/ Refused(p)
  \/ ReviewOne(p) \/ ReviewSet(p) \/ Import(p) \/ Search
  \/ Reload(p) \/ SaveEmbeddings(p) \/ SaveSuggestions(p) \/ Mark(p)
  \/ Fail(p)
=============================================================================

----------------------------- MODULE IndexProofs ------------------------------
(***************************************************************************)
(* The index and the audit of relations are sound, for any number of       *)
(* documents, servers, requests, jobs and failures; and with one server    *)
(* decisions stick and the mirror is in step.                              *)
(***************************************************************************)
EXTENDS RelationApply, FiniteSetTheorems, TLAPS

\* The suggestions there are, with what was decided about each of them.
Reviews == UNION {[S -> Status] : S \in {T \in SUBSET Suggestion : IsFiniteSet(T)}}

Snapshots == [emb : SUBSET Chunk, sug : Reviews]

Database == [gen : Nat \cup {None}, chunks : SUBSET Chunk, emb : SUBSET Chunk, sug : Reviews,
             sets : SUBSET Nat, applied : SUBSET Suggestion]

Jobs == [op : {"index", "rebuild", "review"}, chunks : SUBSET Chunk, index : Snapshots,
         gen : Nat, acks : Reviews]

Labels == {"idle", "load", "embed", "commit", "insert"} \cup Mirroring

Documents == [body : Bodies \cup {None}, relations : Seq(Suggestion)]

Requests == [at : {"next", "replace", "record"}, all : SUBSET Suggestion, chunks : SUBSET Chunk,
             left : SUBSET Docs, valid : SUBSET Suggestion,
             read : [doc : Docs, was : Documents] \cup {None}]

TypeOK ==
  /\ servers \subseteq Servers
  /\ docs \in [Docs -> Documents]
  /\ db \in Database
  /\ files \in [emb : SUBSET Chunk, sug : Reviews, marker : Nat \cup {None}]
  /\ pc \in [Servers -> Labels] /\ work \in [Servers -> Jobs \cup {None}]
  /\ \A p \in Servers : pc[p] # "idle" => work[p] \in Jobs
  /\ env \in [edits : Nat, faults : Nat, sets : Nat]
  /\ hurt \in BOOLEAN
  /\ apply \in [Applies -> Requests \cup {None}]
  /\ taken \subseteq Suggestion

\* A database that is there is sound, and one nothing was committed to is empty.
Stored(d) == d # Missing => d.gen \in Nat /\ Sound(d) /\ (d.gen = 0 => d = EmptyDb)

StoreOK ==
  /\ Stored(db)
  /\ \A p \in Servers : pc[p] = "insert" => db # Missing
-----------------------------------------------------------------------------
(* One server: what holds of its job, pc[p] = j and work[p] = w, of the    *)
(* database d, the files F, the decisions K, hurt and env.sets.            *)
Kept(K, sug, emb) ==
  \A s \in DOMAIN K : s \in DOMAIN sug /\ sug[s] = K[s] /\ Ends(s) \subseteq emb

Numbered(sug, n) == \A s \in DOMAIN sug : s.set <= n

Linked(sug, emb) == \A s \in DOMAIN sug : Ends(s) \subseteq emb

\* Decisions survive in every place an index may be loaded from.
Durable(d, F, K, n) ==
  /\ Kept(K, F.sug, F.emb) /\ Numbered(F.sug, n)
  /\ d # Missing => Numbered(d.sug, n) /\ Linked(d.sug, d.emb)
  /\ d # Missing /\ d.gen > 0 => Kept(K, d.sug, d.emb)

\* Before the commit: what was read and loaded has the decisions.
Loaded(j, w, d, K, n) ==
  /\ j \in {"load", "embed", "commit", "insert"} => DOMAIN w.acks = {}
  /\ j \in {"load", "embed", "commit"} => \A s \in DOMAIN K : Ends(s) \subseteq w.chunks
  /\ j \in {"embed", "commit"} => Kept(K, w.index.sug, w.index.emb) /\ Numbered(w.index.sug, n)
  /\ j = "commit" => \A s \in DOMAIN w.index.sug : Ends(s) \subseteq w.chunks => Ends(s) \subseteq w.index.emb
  /\ j = "insert" => d # Missing /\ d.gen > 0 /\ w.index.emb = d.emb

\* After the commit: how far the mirror has followed.
Followed(j, w, d, F) ==
  /\ j \in Mirroring =>
       /\ d # Missing /\ d.gen > 0 /\ w.gen = d.gen
       /\ \A s \in DOMAIN w.acks : s \in DOMAIN d.sug /\ d.sug[s] = w.acks[s]
  /\ j \in {"embeddings", "suggestions", "mark"} => w.index = Content(d)
  /\ j \in {"suggestions", "mark"} => F.emb = d.emb
  /\ j = "mark" => F.sug = d.sug

Blank == [emb |-> {}, sug |-> Nothing, marker |-> None]

\* Between jobs.
InStep(j, d, F, h) ==
  j \notin Mirroring /\ ~h =>
    /\ d = Missing => F = Blank
    /\ d # Missing /\ d.gen > 0 => F.emb = d.emb /\ F.sug = d.sug /\ F.marker = d.gen

One(j, w, d, F, K, h, n) ==
  Durable(d, F, K, n) /\ Loaded(j, w, d, K, n) /\ Followed(j, w, d, F) /\ InStep(j, d, F, h)

OneServer == Alone => \A p \in servers : One(pc[p], work[p], db, files, acked, hurt, env.sets)
-----------------------------------------------------------------------------
(* Requests. *)

\* A relation is in its document, or was taken out of it.
Written(s, D, C) == s \in C \/ s \in Range(D[s.source.doc].relations)

\* The relations of a document belong to it, each of them once.
Fit(relations, d) == IsInjective(relations) /\ \A s \in Range(relations) : s.source.doc = d

RequestFine(t, D, C) ==
  /\ IsFiniteSet(t.all)
  /\ t.at \in {"replace", "record"} =>
       /\ t.read \in [doc : Docs, was : Documents] /\ IsFiniteSet(t.valid)
       /\ \A s \in t.valid : s.source.doc = t.read.doc
  /\ t.at = "replace" =>
       /\ Fit(t.read.was.relations, t.read.doc)
       /\ \A s \in Range(t.read.was.relations) : Written(s, D, C)
  /\ t.at = "record" => \A s \in t.valid : Written(s, D, C)

RequestsFine == \A a \in Applies : apply[a] # None => RequestFine(apply[a], docs, taken)

Audited == db # Missing => \A s \in db.applied : Written(s, docs, taken)

Tidy == \A d \in Docs : Fit(docs[d].relations, d)

IndexInv == TypeOK /\ StoreOK /\ OneServer /\ RequestsFine /\ Audited /\ Tidy
-----------------------------------------------------------------------------
(* Types. *)
LEMMA ReviewsElim ==
  ASSUME NEW f \in Reviews
  PROVE  DOMAIN f \subseteq Suggestion /\ IsFiniteSet(DOMAIN f) /\ f \in [DOMAIN f -> Status]
<1>1. PICK S \in {T \in SUBSET Suggestion : IsFiniteSet(T)} : f \in [S -> Status]
  BY DEF Reviews
<1>2. QED
  BY <1>1

LEMMA ReviewsIntro ==
  ASSUME NEW S \in SUBSET Suggestion, IsFiniteSet(S), NEW f \in [S -> Status]
  PROVE  f \in Reviews
  BY DEF Reviews

LEMMA NothingIsReview == Nothing \in Reviews /\ DOMAIN Nothing = {}
<1>1. Nothing \in [{} -> Status]
  BY DEF Nothing
<1>2. QED
  BY <1>1, ReviewsIntro, FS_EmptySet

LEMMA RestrictedReview ==
  ASSUME NEW f \in Reviews, NEW S, S \subseteq DOMAIN f
  PROVE  Restrict(f, S) \in Reviews /\ DOMAIN Restrict(f, S) = S
<1>1. DOMAIN f \subseteq Suggestion /\ IsFiniteSet(DOMAIN f) /\ f \in [DOMAIN f -> Status]
  BY ReviewsElim
<1>2. Restrict(f, S) \in [S -> Status]
  BY <1>1 DEF Restrict
<1>3. IsFiniteSet(S)
  BY <1>1, FS_Subset
<1>4. QED
  BY <1>1, <1>2, <1>3, ReviewsIntro

LEMMA EmptyIsDatabase ==
  /\ EmptyDb \in Database /\ EmptyDb.gen = 0 /\ EmptyDb # Missing
  /\ EmptyDb.emb = {} /\ EmptyDb.sug = Nothing /\ EmptyDb.applied = {} /\ EmptyDb.sets = {}
  /\ Missing \in Database /\ Missing.gen = None
  /\ Sound(EmptyDb)
<1>1. None \notin Nat
  BY IndexConstants
<1>2. EmptyDb \in Database
  BY NothingIsReview DEF EmptyDb, Database
<1>3. Missing \in Database /\ Missing.gen = None /\ EmptyDb.gen = 0
  BY <1>2 DEF Missing, EmptyDb, Database
<1>4. Sound(EmptyDb)
  BY NothingIsReview DEF Sound, EmptyDb
<1>5. QED
  BY <1>1, <1>2, <1>3, <1>4 DEF EmptyDb

LEMMA OpenedFine ==
  ASSUME TypeOK, Stored(db)
  PROVE  /\ Opened \in Database /\ Opened # Missing /\ Stored(Opened) /\ Opened.gen \in Nat
         /\ Sound(Opened)
  BY EmptyIsDatabase DEF TypeOK, Opened, Stored

LEMMA ChunksType == TypeOK => Chunks \subseteq Chunk
  BY DEF TypeOK, Chunks, Chunk, Documents

LEMMA ExistingType == TypeOK => Existing \in Snapshots
  BY DEF TypeOK, Existing, Content, Snapshots, Database

LEMMA ChunkFinite == IsFiniteSet(Chunk)
<1> DEFINE f == [x \in Docs \X Bodies |-> [doc |-> x[1], body |-> x[2]]]
<1>1. IsFiniteSet(Docs \X Bodies)
  <2>1. DocCount \in Int /\ 1 \in Int /\ IsFiniteSet(Bodies)
    BY IndexConstants
  <2>2. IsFiniteSet(Docs)
    BY <2>1, FS_Interval DEF Docs
  <2>3. QED
    BY <2>1, <2>2, FS_Product
<1>2. f \in Surjection(Docs \X Bodies, Chunk)
  <2>1. f \in [Docs \X Bodies -> Chunk]
    BY DEF Chunk
  <2>2. ASSUME NEW c \in Chunk
        PROVE  \E x \in Docs \X Bodies : f[x] = c
    <3>1. <<c.doc, c.body>> \in Docs \X Bodies
      BY DEF Chunk
    <3>2. f[<<c.doc, c.body>>] = c
      BY <3>1 DEF Chunk
    <3>3. QED
      BY <3>1, <3>2
  <2>3. QED
    BY <2>1, <2>2 DEF Surjection
<1>3. QED
  BY <1>1, <1>2, FS_Surjection

\* A set of new suggestions is finite, and names what it was made of.
LEMMA NewFinite ==
  ASSUME NEW pairs \in SUBSET [source : Chunk, target : Chunk], NEW n \in Nat
  PROVE  LET new == {[set |-> n, source |-> e.source, target |-> e.target] : e \in pairs}
         IN new \subseteq Suggestion /\ IsFiniteSet(new)
<1> DEFINE new == {[set |-> n, source |-> e.source, target |-> e.target] : e \in pairs}
           P == {x \in Chunk \X Chunk : [source |-> x[1], target |-> x[2]] \in pairs}
           f == [x \in P |-> [set |-> n, source |-> x[1], target |-> x[2]]]
<1>1. new \subseteq Suggestion
  BY DEF Suggestion
<1>2. IsFiniteSet(Chunk \X Chunk)
  BY ChunkFinite, FS_Product
<1>3. IsFiniteSet(P)
  BY <1>2, FS_Subset
<1>4. f \in [P -> new]
  <2>1. ASSUME NEW x \in P
        PROVE  [set |-> n, source |-> x[1], target |-> x[2]] \in new
    <3>1. [source |-> x[1], target |-> x[2]] \in pairs
      OBVIOUS
    <3>2. QED
      BY <3>1
  <2>2. QED
    BY <2>1
<1>5. ASSUME NEW y \in new
      PROVE  \E x \in P : f[x] = y
  <2>1. PICK e \in pairs : y = [set |-> n, source |-> e.source, target |-> e.target]
    OBVIOUS
  <2>2. e = [source |-> e.source, target |-> e.target] /\ e.source \in Chunk /\ e.target \in Chunk
    OBVIOUS
  <2>3. <<e.source, e.target>> \in P
    BY <2>2
  <2>4. f[<<e.source, e.target>>] = y
    BY <2>1, <2>3
  <2>5. QED
    BY <2>3, <2>4
<1>6. f \in Surjection(P, new)
  BY <1>4, <1>5 DEF Surjection
<1>7. IsFiniteSet(new)
  BY <1>3, <1>6, FS_Surjection
<1>8. QED
  BY <1>1, <1>7
-----------------------------------------------------------------------------
LEMMA InvInit == IndexInit /\ ApplyInit => IndexInv
<1> SUFFICES ASSUME IndexInit, ApplyInit
             PROVE  IndexInv
  OBVIOUS
<1>1. files = Blank /\ db = Missing
  BY DEF IndexInit, Blank
<1>2. TypeOK
  <2>1. docs \in [Docs -> Documents]
    <3>1. <<>> \in Seq(Suggestion)
      OBVIOUS
    <3>2. [body : Bodies \cup {None}, relations : {<<>>}] \subseteq Documents
      BY <3>1 DEF Documents
    <3>3. QED
      BY <3>2 DEF IndexInit
  <2>2. files \in [emb : SUBSET Chunk, sug : Reviews, marker : Nat \cup {None}]
    BY <1>1, NothingIsReview DEF Blank
  <2>3. apply \in [Applies -> Requests \cup {None}] /\ taken \subseteq Suggestion
    BY DEF ApplyInit
  <2>4. /\ pc \in [Servers -> Labels] /\ work \in [Servers -> Jobs \cup {None}]
        /\ \A p \in Servers : pc[p] # "idle" => work[p] \in Jobs
    BY DEF IndexInit, Labels
  <2>5. servers \subseteq Servers /\ env \in [edits : Nat, faults : Nat, sets : Nat] /\ hurt \in BOOLEAN
    BY DEF IndexInit
  <2>6. db \in Database
    BY <1>1, EmptyIsDatabase
  <2>7. QED
    BY <2>1, <2>2, <2>3, <2>4, <2>5, <2>6 DEF TypeOK
<1>3. StoreOK
  BY <1>1 DEF StoreOK, Stored, IndexInit
<1>4. OneServer
  <2>1. DOMAIN acked = {} /\ hurt = FALSE /\ pc = [p \in Servers |-> "idle"]
    BY NothingIsReview DEF IndexInit
  <2>2. files.sug = Nothing /\ files.emb = {}
    BY <1>1 DEF Blank
  <2>3. Durable(db, files, acked, env.sets)
    BY <1>1, <2>1, <2>2, NothingIsReview DEF Durable, Kept, Numbered
  <2>4. \A p \in servers : pc[p] = "idle"
    BY <2>1 DEF IndexInit
  <2>5. QED
    BY <1>1, <2>3, <2>4 DEF OneServer, One, Loaded, Followed, InStep, Mirroring
<1>5. RequestsFine /\ Audited /\ Tidy
  <2>1. \A d \in Docs : docs[d].relations = <<>>
    BY DEF IndexInit
  <2>2. Range(<<>>) = {} /\ IsInjective(<<>>)
    BY DEF Range, IsInjective
  <2>3. Tidy
    BY <2>1, <2>2 DEF Tidy, Fit
  <2>4. QED
    BY <1>1, <2>3 DEF RequestsFine, Audited, ApplyInit
<1>6. QED
  BY <1>2, <1>3, <1>4, <1>5 DEF IndexInv
-----------------------------------------------------------------------------
(* What a job does is one server's step.                                   *)
Job1(p) == One(pc[p], work[p], db, files, acked, hurt, env.sets)

\* One step of a job keeps the invariant if it keeps types, the database and
\* its own part: documents and requests are not touched.
LEMMA JobStepKeeps ==
  ASSUME IndexInv, NEW p \in servers, TypeOK', Stored(db'), servers' = servers,
         \A q \in Servers \ {p} : pc'[q] = pc[q],
         db' = Missing => db = Missing, pc'[p] = "insert" => db' # Missing,
         Job1(p) => Job1(p)',
         docs' = docs, UNCHANGED applyVars,
         db' # Missing => db'.applied \subseteq (IF db = Missing THEN {} ELSE db.applied)
  PROVE  IndexInv'
<1>1. servers \subseteq Servers /\ p \in Servers
  BY DEF IndexInv, TypeOK
<1>2. StoreOK'
  BY <1>1 DEF IndexInv, StoreOK
<1>3. OneServer'
  <2>1. SUFFICES ASSUME Alone', NEW q \in servers
                 PROVE  Job1(q)'
    BY DEF OneServer, Job1
  <2>2. Alone
    BY <2>1 DEF Alone
  <2>3. q = p
    <3>1. IsFiniteSet(servers)
      BY <1>1, IndexConstants, FS_Subset
    <3>2. \E x : servers = {x}
      BY <2>2, <3>1, FS_Singleton DEF Alone
    <3>3. QED
      BY <3>2
  <2>4. Job1(p)
    BY <2>2 DEF IndexInv, OneServer, Job1
  <2>5. QED
    BY <2>3, <2>4
<1>4. apply' = apply /\ taken' = taken
  BY DEF applyVars
<1>5. RequestsFine' /\ Tidy'
  BY <1>4 DEF IndexInv, RequestsFine, Tidy
<1>6. Audited'
  BY <1>4 DEF IndexInv, Audited
<1>7. QED
  BY <1>2, <1>3, <1>5, <1>6 DEF IndexInv

LEMMA GotoTypes ==
  ASSUME TypeOK, NEW p \in Servers, NEW l \in Labels, NEW w \in Jobs, Goto(p, l, w)
  PROVE  /\ pc' \in [Servers -> Labels] /\ work' \in [Servers -> Jobs \cup {None}]
         /\ \A q \in Servers : pc'[q] # "idle" => work'[q] \in Jobs
         /\ pc'[p] = l /\ work'[p] = w
         /\ \A q \in Servers \ {p} : pc'[q] = pc[q]
  BY DEF TypeOK, Goto

LEMMA IdleTypes ==
  ASSUME TypeOK, NEW p \in Servers, Idle(p)
  PROVE  /\ pc' \in [Servers -> Labels] /\ work' \in [Servers -> Jobs \cup {None}]
         /\ \A q \in Servers : pc'[q] # "idle" => work'[q] \in Jobs
         /\ pc'[p] = "idle"
         /\ \A q \in Servers \ {p} : pc'[q] = pc[q]
<1>1. pc' = [pc EXCEPT ![p] = "idle"] /\ work' = [work EXCEPT ![p] = None]
  BY DEF Idle, Goto
<1>2. pc' \in [Servers -> Labels] /\ work' \in [Servers -> Jobs \cup {None}]
  BY <1>1 DEF TypeOK, Labels
<1>3. pc'[p] = "idle" /\ \A q \in Servers \ {p} : pc'[q] = pc[q] /\ work'[q] = work[q]
  BY <1>1 DEF TypeOK
<1>4. QED
  BY <1>2, <1>3 DEF TypeOK

FilesType(F) == F \in [emb : SUBSET Chunk, sug : Reviews, marker : Nat \cup {None}]
EnvType(e) == e \in [edits : Nat, faults : Nat, sets : Nat]

\* A job goes on with w at l.
LEMMA JobKeeps ==
  ASSUME IndexInv, NEW p \in servers, NEW l \in Labels, NEW w \in Jobs, Goto(p, l, w),
         UNCHANGED <<servers, docs>>, UNCHANGED applyVars,
         db' \in Database, Stored(db'), db' # Missing, FilesType(files)', EnvType(env)',
         hurt' \in BOOLEAN,
         db'.applied \subseteq (IF db = Missing THEN {} ELSE db.applied),
         Job1(p) => One(l, w, db', files', acked', hurt', env'.sets)
  PROVE  IndexInv'
<1>1. TypeOK /\ p \in Servers
  BY DEF IndexInv, TypeOK
<1>2. /\ pc' \in [Servers -> Labels] /\ work' \in [Servers -> Jobs \cup {None}]
      /\ \A q \in Servers : pc'[q] # "idle" => work'[q] \in Jobs
      /\ pc'[p] = l /\ work'[p] = w
      /\ \A q \in Servers \ {p} : pc'[q] = pc[q]
  BY <1>1, GotoTypes
<1>3. TypeOK'
  BY <1>1, <1>2 DEF TypeOK, applyVars, FilesType, EnvType
<1>4. Job1(p) => Job1(p)'
  BY <1>2 DEF Job1
<1>5. QED
  BY <1>2, <1>3, <1>4, JobStepKeeps

\* The same, where the database is left alone.
LEMMA QuietJobKeeps ==
  ASSUME IndexInv, NEW p \in servers, NEW l \in Labels \ {"insert"}, NEW w \in Jobs, Goto(p, l, w),
         UNCHANGED <<servers, docs, db, env>>, UNCHANGED applyVars,
         FilesType(files)', hurt' \in BOOLEAN,
         Job1(p) => One(l, w, db, files', acked', hurt', env.sets)
  PROVE  IndexInv'
<1>1. TypeOK /\ p \in Servers /\ Stored(db)
  BY DEF IndexInv, TypeOK, StoreOK
<1>2. /\ pc' \in [Servers -> Labels] /\ work' \in [Servers -> Jobs \cup {None}]
      /\ \A q \in Servers : pc'[q] # "idle" => work'[q] \in Jobs
      /\ pc'[p] = l /\ work'[p] = w
      /\ \A q \in Servers \ {p} : pc'[q] = pc[q]
  BY <1>1, GotoTypes
<1>3. TypeOK'
  BY <1>1, <1>2 DEF TypeOK, applyVars, FilesType
<1>4. Job1(p) => Job1(p)'
  BY <1>2 DEF Job1
<1>5. QED
  BY <1>1, <1>2, <1>3, <1>4, JobStepKeeps

\* A job ends.
LEMMA IdleKeeps ==
  ASSUME IndexInv, NEW p \in servers, Idle(p),
         UNCHANGED <<servers, docs, db>>, UNCHANGED applyVars,
         FilesType(files)', EnvType(env)', hurt' \in BOOLEAN,
         Job1(p) => \A w : One("idle", w, db, files', acked', hurt', env'.sets)
  PROVE  IndexInv'
<1>1. TypeOK /\ p \in Servers /\ Stored(db)
  BY DEF IndexInv, TypeOK, StoreOK
<1>2. /\ pc' \in [Servers -> Labels] /\ work' \in [Servers -> Jobs \cup {None}]
      /\ \A q \in Servers : pc'[q] # "idle" => work'[q] \in Jobs
      /\ pc'[p] = "idle"
      /\ \A q \in Servers \ {p} : pc'[q] = pc[q]
  BY <1>1, IdleTypes
<1>3. TypeOK'
  BY <1>1, <1>2 DEF TypeOK, applyVars, FilesType, EnvType
<1>4. Job1(p) => Job1(p)'
  BY <1>2 DEF Job1
<1>5. QED
  BY <1>1, <1>2, <1>3, <1>4, JobStepKeeps
-----------------------------------------------------------------------------
(* Reading: what is loaded has every decision that is still about          *)
(* something.                                                              *)
LEMMA ScanKeeps ==
  ASSUME IndexInv, NEW p \in servers, NEW op \in {"index", "rebuild"}, Scan(p, op), UNCHANGED applyVars
  PROVE  IndexInv'
<1> DEFINE w == [op |-> op, chunks |-> Chunks, index |-> NoIndex, gen |-> 0, acks |-> Nothing]
<1>1. TypeOK
  BY DEF IndexInv
<1>2. Goto(p, "load", w) /\ UNCHANGED <<servers, docs, db, files, env, hurt>> /\ pc[p] = "idle"
      /\ acked' = Restrict(acked, StillTrue(Chunks))
  BY DEF Scan, Free
<1>3. NoIndex \in Snapshots
  BY NothingIsReview DEF NoIndex, Snapshots
<1>4. w \in Jobs
  BY <1>1, <1>3, ChunksType, NothingIsReview DEF Jobs
<1>5. w.chunks = Chunks /\ w.acks = Nothing
  OBVIOUS
<1> HIDE DEF w
<1>6. ASSUME Job1(p)
      PROVE  One("load", w, db, files, acked', hurt, env.sets)
  <2>1. One("idle", work[p], db, files, acked, hurt, env.sets)
    BY <1>2, <1>6 DEF Job1
  <2>2. /\ DOMAIN acked' \subseteq DOMAIN acked /\ \A s \in DOMAIN acked' : acked'[s] = acked[s]
        /\ \A s \in DOMAIN acked' : Ends(s) \subseteq Chunks
    BY <1>2 DEF Restrict, StillTrue
  <2>3. Durable(db, files, acked', env.sets)
    BY <2>1, <2>2 DEF One, Durable, Kept
  <2>4. QED
    BY <1>5, <2>1, <2>2, <2>3, NothingIsReview DEF One, Loaded, Followed, InStep, Mirroring
<1>7. QED
  BY <1>1, <1>2, <1>4, <1>6, QuietJobKeeps DEF Labels, TypeOK, FilesType

\* What is loaded is the database, or the mirror where that is empty.
LEMMA ExistingKept ==
  ASSUME TypeOK, Stored(db), NEW n, NEW K, Durable(db, files, K, n)
  PROVE  Kept(K, Existing.sug, Existing.emb) /\ Numbered(Existing.sug, n)
<1>1. CASE db # Missing /\ db.gen > 0
  BY <1>1 DEF Existing, Content, Durable
<1>2. CASE ~(db # Missing /\ db.gen > 0)
  <2>1. db # Missing => db = EmptyDb
    BY <1>2 DEF Stored
  <2>2. db # Missing => Content(db) = NoIndex
    BY <2>1, EmptyIsDatabase DEF Content, NoIndex
  <2>3. Existing = Content(files)
    BY <1>2, <2>2 DEF Existing
  <2>4. QED
    BY <2>3 DEF Content, Durable
<1>3. QED
  BY <1>1, <1>2

LEMMA RetainedKept ==
  ASSUME NEW index \in Snapshots, NEW chunks \in SUBSET Chunk, NEW K, NEW n,
         Kept(K, index.sug, index.emb), Numbered(index.sug, n),
         \A s \in DOMAIN K : Ends(s) \subseteq chunks
  PROVE  LET r == Retained(index, chunks)
         IN /\ r \in Snapshots /\ Kept(K, r.sug, r.emb) /\ Numbered(r.sug, n)
            /\ Linked(r.sug, r.emb)
<1> DEFINE emb == index.emb \cap chunks
           live == {s \in DOMAIN index.sug : Ends(s) \subseteq emb}
           sug == Restrict(index.sug, live)
           r == Retained(index, chunks)
<1>1. r = [emb |-> emb, sug |-> sug]
  BY DEF Retained
<1>2. index.sug \in Reviews /\ emb \in SUBSET Chunk
  BY DEF Snapshots
<1>3. sug \in Reviews /\ DOMAIN sug = live
  BY <1>2, RestrictedReview
<1>4. \A s \in live : sug[s] = index.sug[s]
  BY DEF Restrict
<1>5. r \in Snapshots /\ r.emb = emb /\ r.sug = sug
  BY <1>1, <1>2, <1>3 DEF Snapshots
<1>6. Kept(K, sug, emb) /\ Numbered(sug, n) /\ Linked(sug, emb)
  BY <1>3, <1>4 DEF Kept, Numbered, Linked
<1>7. QED
  BY <1>5, <1>6

LEMMA LoadKeeps ==
  ASSUME IndexInv, NEW p \in servers, Load(p), UNCHANGED applyVars
  PROVE  IndexInv'
<1> DEFINE w == work[p]
           l == IF w.op = "index" THEN "embed" ELSE "commit"
           index == IF w.op = "index" THEN Existing ELSE Retained(Existing, w.chunks)
           v == [w EXCEPT !.index = index]
<1>1. TypeOK /\ Stored(db) /\ p \in Servers
  BY DEF IndexInv, StoreOK, TypeOK
<1>2. pc[p] = "load" /\ Goto(p, l, v) /\ UNCHANGED <<servers, docs, db, files, env, acked, hurt>>
  BY DEF Load
<1>3. w \in Jobs /\ Existing \in Snapshots
  BY <1>1, <1>2, ExistingType DEF TypeOK
<1>4. index \in Snapshots
  <2>1. Existing.sug \in Reviews /\ Existing.emb \subseteq Chunk
    BY <1>3 DEF Snapshots
  <2>2. Retained(Existing, w.chunks) \in Snapshots
    BY <2>1, RestrictedReview DEF Retained, Snapshots
  <2>3. QED
    BY <1>3, <2>2
<1>5. v \in Jobs /\ v.index = index /\ v.chunks = w.chunks /\ v.acks = w.acks
  <2> HIDE DEF index
  <2>1. w \in Jobs
    BY <1>3
  <2> HIDE DEF w
  <2>2. QED
    BY <2>1, <1>4 DEF Jobs
<1> HIDE DEF v
<1>6. ASSUME Job1(p)
      PROVE  One(l, v, db, files, acked, hurt, env.sets)
  <2>1. One("load", w, db, files, acked, hurt, env.sets)
    BY <1>2, <1>6 DEF Job1
  <2>2. Durable(db, files, acked, env.sets) /\ DOMAIN w.acks = {}
        /\ \A s \in DOMAIN acked : Ends(s) \subseteq w.chunks
    BY <2>1 DEF One, Loaded
  <2>3. Kept(acked, Existing.sug, Existing.emb) /\ Numbered(Existing.sug, env.sets)
    BY <1>1, <2>2, ExistingKept
  <2>4. Kept(acked, index.sug, index.emb) /\ Numbered(index.sug, env.sets)
        /\ (l = "commit" => Linked(index.sug, index.emb))
    <3>1. w.chunks \in SUBSET Chunk
      BY <1>3 DEF Jobs
    <3>2. LET r == Retained(Existing, w.chunks)
          IN Kept(acked, r.sug, r.emb) /\ Numbered(r.sug, env.sets) /\ Linked(r.sug, r.emb)
      BY <1>3, <2>2, <2>3, <3>1, RetainedKept
    <3>3. QED
      BY <2>3, <3>2
  <2>5. Loaded(l, v, db, acked, env.sets)
    <3> HIDE DEF index, w
    <3>1. l \in {"embed", "commit"}
      OBVIOUS
    <3>2. QED
      BY <1>5, <2>2, <2>4, <3>1 DEF Loaded, Linked
  <2>6. Followed(l, v, db, files) /\ InStep(l, db, files, hurt)
    BY <2>1 DEF One, Followed, InStep, Mirroring
  <2>7. QED
    BY <2>2, <2>5, <2>6 DEF One
<1>7. l \in Labels \ {"insert"}
  BY DEF Labels
<1>8. FilesType(files)' /\ hurt' \in BOOLEAN
  BY <1>1, <1>2 DEF TypeOK, FilesType
<1>9. QED
  BY <1>2, <1>5, <1>6, <1>7, <1>8, QuietJobKeeps

LEMMA EmbedKeeps ==
  ASSUME IndexInv, NEW p \in servers, Embed(p), UNCHANGED applyVars
  PROVE  IndexInv'
<1> DEFINE w == work[p]
           index == Embedded(w.index, w.chunks)
           v == [w EXCEPT !.index = index]
<1>1. TypeOK /\ p \in Servers
  BY DEF IndexInv, TypeOK
<1>2. pc[p] = "embed" /\ Goto(p, "commit", v) /\ UNCHANGED <<servers, docs, db, files, env, acked, hurt>>
  BY DEF Embed
<1>3. w \in Jobs /\ w.index \in Snapshots /\ w.chunks \subseteq Chunk
  BY <1>1, <1>2 DEF TypeOK, Jobs
<1>4. index \in Snapshots /\ index.sug = w.index.sug /\ index.emb = w.chunks
  <2> HIDE DEF w
  <2>1. index = [w.index EXCEPT !.emb = w.chunks]
    BY <1>3 DEF Embedded, Snapshots
  <2>2. QED
    BY <1>3, <2>1 DEF Snapshots
<1>5. v \in Jobs /\ v.index = index /\ v.chunks = w.chunks /\ v.acks = w.acks
  <2> HIDE DEF index, w
  <2>1. QED
    BY <1>3, <1>4 DEF Jobs
<1> HIDE DEF v
<1>6. ASSUME Job1(p)
      PROVE  One("commit", v, db, files, acked, hurt, env.sets)
  <2>1. One("embed", w, db, files, acked, hurt, env.sets)
    BY <1>2, <1>6 DEF Job1
  <2>2. /\ DOMAIN w.acks = {} /\ \A s \in DOMAIN acked : Ends(s) \subseteq w.chunks
        /\ Kept(acked, w.index.sug, w.index.emb) /\ Numbered(w.index.sug, env.sets)
    BY <2>1 DEF One, Loaded
  <2>3. Loaded("commit", v, db, acked, env.sets)
    <3> HIDE DEF index, w
    <3>1. QED
      BY <1>4, <1>5, <2>2 DEF Loaded, Kept
  <2>4. Followed("commit", v, db, files) /\ InStep("commit", db, files, hurt)
    BY <2>1 DEF One, Followed, InStep, Mirroring
  <2>5. QED
    BY <2>1, <2>3, <2>4 DEF One
<1>7. FilesType(files)' /\ hurt' \in BOOLEAN
  BY <1>1, <1>2 DEF TypeOK, FilesType
<1>8. QED
  BY <1>2, <1>5, <1>6, <1>7, QuietJobKeeps DEF Labels
-----------------------------------------------------------------------------
(* Committing.                                                             *)

\* A commit goes on with the mirror; what it wrote has the decisions.
LEMMA CommittedKeeps ==
  ASSUME IndexInv, NEW p \in servers, NEW d \in Database, NEW w \in Jobs, Committed(p, d, w),
         d.gen \in Nat \ {0}, EnvType(env)', UNCHANGED applyVars,
         d.applied \subseteq (IF db = Missing THEN {} ELSE db.applied),
         Job1(p) => Durable(d, files, acked', env'.sets),
         Job1(p) => \A s \in DOMAIN w.acks : s \in DOMAIN d.sug /\ d.sug[s] = w.acks[s]
  PROVE  IndexInv'
<1> DEFINE v == [w EXCEPT !.gen = d.gen]
<1>1. TypeOK
  BY DEF IndexInv
<1>2. Sound(d) /\ db' = d /\ Goto(p, "reload", v) /\ UNCHANGED <<servers, docs, files, hurt>>
  BY DEF Committed
<1>3. d # Missing /\ Stored(d)
  BY <1>2, EmptyIsDatabase, IndexConstants DEF Stored
<1>4. v \in Jobs /\ v.gen = d.gen /\ v.acks = w.acks
  BY DEF Jobs
<1> HIDE DEF v
<1>5. Job1(p) => One("reload", v, db', files', acked', hurt', env'.sets)
  <2>1. Loaded("reload", v, d, acked', env'.sets) /\ InStep("reload", d, files, hurt)
    BY DEF Loaded, InStep, Mirroring
  <2>2. Job1(p) => Followed("reload", v, d, files)
    BY <1>3, <1>4 DEF Followed
  <2>3. QED
    BY <1>2, <2>1, <2>2 DEF One
<1>6. FilesType(files)' /\ hurt' \in BOOLEAN
  BY <1>1, <1>2 DEF TypeOK, FilesType
<1>7. QED
  BY <1>2, <1>3, <1>4, <1>5, <1>6, JobKeeps DEF Labels, Mirroring

LEMMA CommitKeeps ==
  ASSUME IndexInv, NEW p \in servers, Commit(p), UNCHANGED applyVars
  PROVE  IndexInv'
<1> DEFINE w == work[p]
           d == Synced(Opened, w.chunks, w.index)
           live == {s \in DOMAIN w.index.sug : Ends(s) \subseteq w.chunks}
           sug == Restrict(w.index.sug, live)
<1>1. TypeOK /\ Stored(db) /\ p \in Servers
  BY DEF IndexInv, StoreOK, TypeOK
<1>2. pc[p] = "commit" /\ Committed(p, d, w) /\ UNCHANGED <<env, acked>>
  BY DEF Commit
<1>3. w \in Jobs
  BY <1>1, <1>2 DEF TypeOK
<1>4. w.index.sug \in Reviews /\ w.index.emb \in SUBSET Chunk /\ w.chunks \in SUBSET Chunk
  BY <1>3 DEF Jobs, Snapshots
<1>5. sug \in Reviews /\ DOMAIN sug = live /\ live \subseteq Suggestion
  BY <1>4, RestrictedReview, ReviewsElim
<1>6. \A s \in live : sug[s] = w.index.sug[s]
  BY DEF Restrict
<1>7. Opened \in Database /\ Opened.gen \in Nat
  BY <1>1, OpenedFine
<1>8. d = [gen |-> Opened.gen + 1, chunks |-> w.chunks, emb |-> w.index.emb, sug |-> sug,
           sets |-> Opened.sets \cup {s.set : s \in live}, applied |-> Opened.applied \cap live]
  BY DEF Synced
<1>9. d \in Database /\ d.gen \in Nat \ {0} /\ d.sug = sug /\ d.emb = w.index.emb
      /\ d.applied \subseteq Opened.applied
  <2>1. {s.set : s \in live} \subseteq Nat
    BY <1>5 DEF Suggestion
  <2>2. Opened.gen + 1 \in Nat \ {0} /\ Opened.sets \subseteq Nat /\ Opened.applied \subseteq Suggestion
    BY <1>7 DEF Database
  <2> HIDE DEF sug, live, w
  <2>3. QED
    BY <1>4, <1>5, <1>8, <2>1, <2>2 DEF Database
<1>10. d.applied \subseteq (IF db = Missing THEN {} ELSE db.applied)
  BY <1>9, EmptyIsDatabase DEF Opened
<1> HIDE DEF d
<1>11. ASSUME Job1(p)
       PROVE  Durable(d, files, acked, env.sets) /\ DOMAIN w.acks = {}
  <2>1. One("commit", w, db, files, acked, hurt, env.sets)
    BY <1>2, <1>11 DEF Job1
  <2>2. /\ DOMAIN w.acks = {} /\ \A s \in DOMAIN acked : Ends(s) \subseteq w.chunks
        /\ Kept(acked, w.index.sug, w.index.emb) /\ Numbered(w.index.sug, env.sets)
        /\ \A s \in DOMAIN w.index.sug : Ends(s) \subseteq w.chunks => Ends(s) \subseteq w.index.emb
    BY <2>1 DEF One, Loaded
  <2>3. Kept(acked, d.sug, d.emb)
    BY <1>5, <1>6, <1>9, <2>2 DEF Kept
  <2>4. Numbered(d.sug, env.sets) /\ Linked(d.sug, d.emb)
    BY <1>5, <1>9, <2>2 DEF Numbered, Linked
  <2>5. QED
    BY <2>1, <2>2, <2>3, <2>4 DEF One, Durable
<1>12. EnvType(env)'
  BY <1>1, <1>2 DEF TypeOK, EnvType
<1>13. QED
  BY <1>2, <1>3, <1>9, <1>10, <1>11, <1>12, CommittedKeeps

LEMMA SimilarKeeps ==
  ASSUME IndexInv, NEW p \in servers, Similar(p), UNCHANGED applyVars
  PROVE  IndexInv'
<1> DEFINE w == [Fresh EXCEPT !.index = Content(Opened)]
<1>1. TypeOK /\ Stored(db) /\ p \in Servers
  BY DEF IndexInv, StoreOK, TypeOK
<1>2. pc[p] = "idle" /\ db' = Opened /\ UNCHANGED <<servers, docs, files, env, acked, hurt>>
  BY DEF Similar, Free
<1>3. Opened \in Database /\ Opened # Missing /\ Stored(Opened)
  BY <1>1, OpenedFine
<1>4. Opened.applied \subseteq (IF db = Missing THEN {} ELSE db.applied)
  BY EmptyIsDatabase DEF Opened
<1>5. FilesType(files)' /\ hurt' \in BOOLEAN /\ EnvType(env)'
  BY <1>1, <1>2 DEF TypeOK, FilesType, EnvType
<1>6. ASSUME Job1(p)
      PROVE  /\ Durable(Opened, files, acked, env.sets)
             /\ \A l : l \notin Mirroring => InStep(l, Opened, files, hurt)
  <2>1. One("idle", work[p], db, files, acked, hurt, env.sets)
    BY <1>2, <1>6 DEF Job1
  <2>2. CASE db = Missing
    <3>1. Opened = EmptyDb
      BY <2>2 DEF Opened
    <3>2. QED
      BY <2>1, <3>1, EmptyIsDatabase, NothingIsReview DEF One, Durable, InStep, Numbered, Linked
  <2>3. CASE db # Missing
    <3>1. Opened = db
      BY <2>3 DEF Opened
    <3>2. QED
      BY <2>1, <2>3, <3>1 DEF One, Durable, InStep, Mirroring
  <2>4. QED
    BY <2>2, <2>3
<1>7. CASE Opened.emb = {}
  <2>1. UNCHANGED job
    BY <1>7 DEF Similar
  <2>2. TypeOK'
    BY <1>1, <1>2, <1>3, <2>1 DEF TypeOK, applyVars, job
  <2>3. Job1(p) => Job1(p)'
    BY <1>2, <1>6, <2>1 DEF Job1, One, Loaded, Followed, Mirroring, job
  <2>4. QED
    BY <1>1, <1>2, <1>3, <1>4, <2>1, <2>2, <2>3, JobStepKeeps DEF job
<1>8. CASE Opened.emb # {}
  <2>1. Goto(p, "insert", w)
    BY <1>8 DEF Similar
  <2>2. Content(Opened) \in Snapshots /\ Content(Opened).emb = Opened.emb
    BY <1>3 DEF Content, Snapshots, Database
  <2>3. Fresh \in Jobs /\ Fresh.acks = Nothing
    BY NothingIsReview DEF Fresh, Jobs, NoIndex, Snapshots
  <2>4. w \in Jobs /\ w.index = Content(Opened) /\ w.acks = Nothing
    BY <2>2, <2>3 DEF Jobs
  <2> HIDE DEF w
  <2>5. Opened.gen > 0
    BY <1>3, <1>8, EmptyIsDatabase DEF Stored
  <2>6. Loaded("insert", w, Opened, acked, env.sets) /\ Followed("insert", w, Opened, files)
    BY <1>3, <2>2, <2>4, <2>5, NothingIsReview DEF Loaded, Followed, Mirroring
  <2>7. Job1(p) => One("insert", w, db', files', acked', hurt', env'.sets)
    BY <1>2, <1>6, <2>6 DEF One, Mirroring
  <2>8. QED
    BY <1>2, <1>3, <1>4, <1>5, <2>1, <2>4, <2>7, JobKeeps DEF Labels
<1>9. QED
  BY <1>7, <1>8

LEMMA InsertKeeps ==
  ASSUME IndexInv, NEW p \in servers, Insert(p), UNCHANGED applyVars
  PROVE  IndexInv'
<1> DEFINE w == work[p]
           n == env.sets + 1
<1>1. TypeOK /\ Stored(db) /\ p \in Servers /\ StoreOK
  BY DEF IndexInv, StoreOK, TypeOK
<1>2. pc[p] = "insert" /\ env' = [env EXCEPT !.sets = @ + 1] /\ UNCHANGED acked
  BY DEF Insert
<1>3. db # Missing /\ db.gen \in Nat /\ db \in Database
  BY <1>1, <1>2 DEF StoreOK, Stored, TypeOK
<1>4. w \in Jobs /\ n \in Nat /\ env.sets \in Nat /\ env'.sets = n /\ EnvType(env)'
  BY <1>1, <1>2 DEF TypeOK, EnvType
<1>5. PICK pairs \in SUBSET Pairs(w.index.emb) :
        LET new == {[set |-> n, source |-> e.source, target |-> e.target] : e \in pairs}
        IN Committed(p, [db EXCEPT !.gen = db.gen + 1, !.sets = @ \cup {n},
                           !.sug = [s \in DOMAIN db.sug \cup new |->
                                      IF s \in new THEN "suggested" ELSE db.sug[s]]], w)
  BY DEF Insert
<1> DEFINE new == {[set |-> n, source |-> e.source, target |-> e.target] : e \in pairs}
           sug == [s \in DOMAIN db.sug \cup new |-> IF s \in new THEN "suggested" ELSE db.sug[s]]
           d == [db EXCEPT !.gen = db.gen + 1, !.sets = @ \cup {n}, !.sug = sug]
<1>6. pairs \in SUBSET [source : Chunk, target : Chunk]
      /\ \A e \in pairs : {e.source, e.target} \subseteq w.index.emb
  <2>1. w.index.emb \subseteq Chunk
    BY <1>4 DEF Jobs, Snapshots
  <2>2. QED
    BY <2>1 DEF Pairs
<1>7. new \subseteq Suggestion /\ IsFiniteSet(new)
  BY <1>4, <1>6, NewFinite
<1>8. \A s \in new : s.set = n /\ Ends(s) \subseteq w.index.emb
  BY <1>6 DEF Ends
<1>9. DOMAIN db.sug \subseteq Suggestion /\ IsFiniteSet(DOMAIN db.sug)
      /\ db.sug \in [DOMAIN db.sug -> Status]
  BY <1>3, ReviewsElim DEF Database
<1> HIDE DEF new
<1>10. sug \in Reviews
  <2>1. sug \in [DOMAIN db.sug \cup new -> Status]
    BY <1>9 DEF Status
  <2>2. IsFiniteSet(DOMAIN db.sug \cup new) /\ DOMAIN db.sug \cup new \subseteq Suggestion
    BY <1>7, <1>9, FS_Union
  <2>3. QED
    BY <2>1, <2>2, ReviewsIntro
<1>11. d = [db EXCEPT !.gen = db.gen + 1, !.sets = @ \cup {n}, !.sug = sug]
  OBVIOUS
<1> HIDE DEF d, sug
<1>12. d \in Database /\ d.gen \in Nat \ {0} /\ d.sug = sug /\ d.emb = db.emb
       /\ d.applied = db.applied
  <2>1. db.gen + 1 \in Nat \ {0} /\ db.sets \cup {n} \subseteq Nat
    BY <1>3, <1>4 DEF Database
  <2>2. d \in Database
    BY <1>3, <1>10, <1>11, <2>1 DEF Database
  <2>3. d.gen = db.gen + 1 /\ d.sug = sug /\ d.emb = db.emb /\ d.applied = db.applied
    BY <1>3, <1>11 DEF Database
  <2>4. QED
    BY <2>1, <2>2, <2>3
<1>13. ASSUME Job1(p)
       PROVE  Durable(d, files, acked, n) /\ DOMAIN w.acks = {}
  <2>1. One("insert", w, db, files, acked, hurt, env.sets)
    BY <1>2, <1>13 DEF Job1
  <2>2. w.index.emb = db.emb /\ DOMAIN w.acks = {} /\ db.gen > 0
    BY <2>1 DEF One, Loaded
  <2>3. Durable(db, files, acked, env.sets)
    BY <2>1 DEF One
  <2>4. Numbered(files.sug, env.sets) /\ Numbered(db.sug, env.sets) /\ Linked(db.sug, db.emb)
        /\ Kept(acked, db.sug, db.emb) /\ Kept(acked, files.sug, files.emb)
    BY <1>3, <2>2, <2>3 DEF Durable
  <2>5. Numbered(files.sug, n)
    <3>1. DOMAIN files.sug \subseteq Suggestion
      BY <1>1, ReviewsElim DEF TypeOK
    <3>2. QED
      BY <1>4, <2>4, <3>1 DEF Numbered, Suggestion
  <2>6. Numbered(sug, n)
    BY <1>4, <1>8, <1>9, <2>4 DEF Numbered, Suggestion, sug
  <2>7. Linked(sug, db.emb)
    BY <1>8, <2>2, <2>4 DEF Linked, sug
  <2>8. Kept(acked, sug, db.emb)
    <3>1. ASSUME NEW s \in DOMAIN acked
          PROVE  s \in DOMAIN db.sug /\ s \notin new
      <4>1. s \in DOMAIN db.sug /\ s.set <= env.sets
        BY <2>4 DEF Kept, Numbered
      <4>2. s.set # n
        BY <1>4, <1>9, <4>1 DEF Suggestion
      <4>3. QED
        BY <1>8, <4>1, <4>2
    <3>2. QED
      BY <2>4, <3>1 DEF Kept, sug
  <2>9. QED
    BY <1>12, <2>2, <2>4, <2>5, <2>6, <2>7, <2>8 DEF Durable
<1>14. Committed(p, d, w)
  BY <1>5 DEF d, new, sug
<1>15. QED
  BY <1>2, <1>3, <1>4, <1>12, <1>13, <1>14, CommittedKeeps

LEMMA RefusedKeeps ==
  ASSUME IndexInv, NEW p \in servers, Refused(p), UNCHANGED applyVars
  PROVE  IndexInv'
<1>1. TypeOK
  BY DEF IndexInv
<1>2. pc[p] = "insert" /\ Idle(p) /\ UNCHANGED <<servers, docs, db, files, env, acked, hurt>>
  BY DEF Refused
<1>3. Job1(p) => \A w : One("idle", w, db, files, acked, hurt, env.sets)
  BY <1>2 DEF Job1, One, Loaded, Followed, InStep, Mirroring
<1>4. QED
  BY <1>1, <1>2, <1>3, IdleKeeps DEF TypeOK, FilesType, EnvType

LEMMA DecideKeeps ==
  ASSUME IndexInv, NEW p \in servers, NEW those, NEW status \in Decision,
         Decide(p, those, status), those = {} => db.sets # {}, UNCHANGED applyVars
  PROVE  IndexInv'
<1> DEFINE acks == [s \in those |-> status]
           w == [Fresh EXCEPT !.acks = acks]
           d == Decided(db, those, status)
           sug == [s \in DOMAIN db.sug |-> IF s \in those THEN status ELSE db.sug[s]]
<1>1. TypeOK /\ Stored(db) /\ p \in Servers
  BY DEF IndexInv, StoreOK, TypeOK
<1>2. /\ pc[p] = "idle" /\ db # Missing /\ those \subseteq DOMAIN db.sug
      /\ Committed(p, d, w) /\ acked' = Restrict(acked, DOMAIN acked \ those) /\ UNCHANGED env
  BY DEF Decide, Free
<1>3. db.gen \in Nat /\ db \in Database
  BY <1>1, <1>2 DEF Stored, TypeOK
<1>4. db.gen > 0
  <2>1. db.gen # 0
    <3>1. SUFFICES ASSUME db = EmptyDb
                   PROVE  FALSE
      BY <1>1, <1>2 DEF Stored
    <3>2. DOMAIN db.sug = {} /\ db.sets = {}
      BY <3>1, EmptyIsDatabase, NothingIsReview
    <3>3. QED
      BY <1>2, <3>2
  <2>2. QED
    BY <1>3, <2>1
<1>5. DOMAIN db.sug \subseteq Suggestion /\ IsFiniteSet(DOMAIN db.sug)
      /\ db.sug \in [DOMAIN db.sug -> Status]
  BY <1>3, ReviewsElim DEF Database
<1>6. sug \in Reviews
  <2>1. sug \in [DOMAIN db.sug -> Status]
    BY <1>5 DEF Status, Decision
  <2>2. QED
    BY <1>5, <2>1, ReviewsIntro
<1>7. acks \in Reviews
  <2>1. acks \in [those -> Status] /\ IsFiniteSet(those)
    BY <1>2, <1>5, FS_Subset DEF Status, Decision
  <2>2. QED
    BY <1>2, <1>5, <2>1, ReviewsIntro
<1>8. w \in Jobs /\ w.acks = acks
  <2>1. Fresh \in Jobs
    BY NothingIsReview DEF Fresh, Jobs, NoIndex, Snapshots
  <2> HIDE DEF acks
  <2>2. QED
    BY <1>7, <2>1 DEF Jobs
<1>9. d = [db EXCEPT !.gen = db.gen + 1, !.sug = sug]
  BY DEF Decided
<1> HIDE DEF d, sug
<1>10. d \in Database /\ d.gen \in Nat \ {0} /\ d.sug = sug /\ d.emb = db.emb
       /\ d.applied = db.applied
  <2>1. db.gen + 1 \in Nat \ {0}
    BY <1>3
  <2>2. d \in Database
    BY <1>3, <1>6, <1>9, <2>1 DEF Database
  <2>3. d.gen = db.gen + 1 /\ d.sug = sug /\ d.emb = db.emb /\ d.applied = db.applied
    BY <1>3, <1>9 DEF Database
  <2>4. QED
    BY <2>1, <2>2, <2>3
<1>11. ASSUME Job1(p)
       PROVE  Durable(d, files, acked', env.sets)
  <2>1. Durable(db, files, acked, env.sets)
    BY <1>11 DEF Job1, One
  <2>2. /\ Numbered(files.sug, env.sets) /\ Numbered(db.sug, env.sets) /\ Linked(db.sug, db.emb)
        /\ Kept(acked, db.sug, db.emb) /\ Kept(acked, files.sug, files.emb)
    BY <1>2, <1>4, <2>1 DEF Durable
  <2>3. DOMAIN acked' = DOMAIN acked \ those /\ \A s \in DOMAIN acked' : acked'[s] = acked[s]
    BY <1>2 DEF Restrict
  <2>4. Kept(acked', files.sug, files.emb) /\ Kept(acked', sug, db.emb)
    BY <2>2, <2>3 DEF Kept, sug
  <2>5. Numbered(sug, env.sets) /\ Linked(sug, db.emb)
    BY <2>2 DEF Numbered, Linked, sug
  <2>6. QED
    BY <1>10, <2>2, <2>4, <2>5 DEF Durable
<1>12. \A s \in DOMAIN w.acks : s \in DOMAIN d.sug /\ d.sug[s] = w.acks[s]
  <2>1. \A s \in those : s \in DOMAIN sug /\ sug[s] = status
    BY <1>2 DEF sug
  <2>2. DOMAIN acks = those /\ \A s \in those : acks[s] = status
    OBVIOUS
  <2> HIDE DEF acks, w
  <2>3. QED
    BY <1>8, <1>10, <2>1, <2>2
<1>13. EnvType(env)'
  BY <1>1, <1>2 DEF TypeOK, EnvType
<1>14. QED
  <2> HIDE DEF w, acks
  <2>1. QED
    BY <1>2, <1>8, <1>10, <1>11, <1>12, <1>13, CommittedKeeps

LEMMA ReviewsKeep ==
  ASSUME IndexInv, NEW p \in servers, ReviewOne(p) \/ ReviewSet(p) \/ Import(p), UNCHANGED applyVars
  PROVE  IndexInv'
<1>1. CASE ReviewOne(p)
  <2>1. PICK s \in DOMAIN db.sug, status \in Decision : Decide(p, {s}, status)
    BY <1>1 DEF ReviewOne
  <2>2. QED
    BY <2>1, DecideKeeps
<1>2. CASE ReviewSet(p)
  <2>1. PICK n \in db.sets, status \in Decision : Decide(p, SetOf(n), status)
    BY <1>2 DEF ReviewSet
  <2>2. QED
    BY <2>1, DecideKeeps
<1>3. CASE Import(p)
  <2>1. PICK n \in db.sets : \E edges \in Matching(n) : AcceptImported(p, edges)
    BY <1>3 DEF Import
  <2>2. PICK edges \in Matching(n) : Decide(p, edges, "accepted")
    BY <2>1 DEF AcceptImported
  <2>3. "accepted" \in Decision
    BY DEF Decision
  <2>4. QED
    BY <2>1, <2>2, <2>3, DecideKeeps
<1>4. QED
  BY <1>1, <1>2, <1>3

\* An opened database is empty, and nobody's job needs it to be missing.
LEMMA OpenedOne ==
  ASSUME NEW j, NEW w, NEW F, NEW K, NEW h, NEW n, db = Missing,
         One(j, w, db, F, K, h, n)
  PROVE  One(j, w, EmptyDb, F, K, h, n)
<1>1. EmptyDb.gen = 0 /\ EmptyDb.emb = {} /\ DOMAIN EmptyDb.sug = {}
  BY EmptyIsDatabase, NothingIsReview
<1>2. j \notin Mirroring /\ j # "insert"
  BY DEF One, Loaded, Followed
<1>3. Durable(EmptyDb, F, K, n)
  BY <1>1 DEF One, Durable, Numbered, Linked
<1>4. Loaded(j, w, EmptyDb, K, n)
  BY <1>2 DEF One, Loaded
<1>5. Followed(j, w, EmptyDb, F)
  BY <1>2 DEF Followed, Mirroring
<1>6. InStep(j, EmptyDb, F, h)
  BY <1>1, EmptyIsDatabase DEF InStep
<1>7. QED
  BY <1>3, <1>4, <1>5, <1>6 DEF One

LEMMA SearchKeeps ==
  ASSUME IndexInv, NEW p \in servers, Search, UNCHANGED applyVars
  PROVE  IndexInv'
<1>1. TypeOK /\ StoreOK /\ p \in Servers
  BY DEF IndexInv, TypeOK
<1>2. db = Missing /\ db' = EmptyDb /\ UNCHANGED <<servers, docs, files, job, env, acked, hurt>>
  BY DEF Search, Opened
<1>3. TypeOK'
  BY <1>1, <1>2, EmptyIsDatabase DEF TypeOK, applyVars, job
<1>4. Stored(db') /\ db' # Missing /\ db'.applied = {}
  BY <1>2, EmptyIsDatabase DEF Stored
<1>5. Job1(p) => Job1(p)'
  BY <1>2, OpenedOne DEF Job1, job
<1>6. QED
  BY <1>2, <1>3, <1>4, <1>5, JobStepKeeps DEF job
-----------------------------------------------------------------------------
(* The mirror.                                                             *)
LEMMA ReloadKeeps ==
  ASSUME IndexInv, NEW p \in servers, Reload(p), UNCHANGED applyVars
  PROVE  IndexInv'
<1> DEFINE w == work[p]
           v == [w EXCEPT !.index = Content(db)]
<1>1. TypeOK /\ p \in Servers
  BY DEF IndexInv, TypeOK
<1>2. pc[p] = "reload" /\ Goto(p, "embeddings", v)
      /\ UNCHANGED <<servers, docs, db, files, env, acked, hurt>>
  BY DEF Reload
<1>3. w \in Jobs /\ Content(db) \in Snapshots
  BY <1>1, <1>2 DEF TypeOK, Content, Snapshots, Database
<1>4. v \in Jobs /\ v.index = Content(db) /\ v.gen = w.gen /\ v.acks = w.acks
  <2> HIDE DEF w
  <2>1. QED
    BY <1>3 DEF Jobs
<1> HIDE DEF v
<1>5. Job1(p) => One("embeddings", v, db, files, acked, hurt, env.sets)
  BY <1>2, <1>4 DEF Job1, One, Loaded, Followed, InStep, Mirroring
<1>6. QED
  BY <1>1, <1>2, <1>4, <1>5, QuietJobKeeps DEF Labels, Mirroring, TypeOK, FilesType

LEMMA SaveEmbeddingsKeeps ==
  ASSUME IndexInv, NEW p \in servers, SaveEmbeddings(p), UNCHANGED applyVars
  PROVE  IndexInv'
<1> DEFINE w == work[p]
<1>1. TypeOK /\ p \in Servers
  BY DEF IndexInv, TypeOK
<1>2. pc[p] = "embeddings" /\ Goto(p, "suggestions", w) /\ files' = [files EXCEPT !.emb = w.index.emb]
      /\ UNCHANGED <<servers, docs, db, env, acked, hurt>>
  BY DEF SaveEmbeddings
<1>3. w \in Jobs /\ w.index.emb \subseteq Chunk
  BY <1>1, <1>2 DEF TypeOK, Jobs, Snapshots
<1>4. FilesType(files') /\ files'.emb = w.index.emb /\ files'.sug = files.sug
  BY <1>1, <1>2, <1>3 DEF TypeOK, FilesType
<1>5. ASSUME Job1(p)
      PROVE  One("suggestions", w, db, files', acked, hurt, env.sets)
  <2>1. One("embeddings", w, db, files, acked, hurt, env.sets)
    BY <1>2, <1>5 DEF Job1
  <2>2. w.index = Content(db) /\ db # Missing /\ db.gen > 0
    BY <2>1 DEF One, Followed, Mirroring
  <2>3. files'.emb = db.emb
    BY <1>4, <2>2 DEF Content
  <2>4. Durable(db, files', acked, env.sets)
    BY <1>4, <2>1, <2>2, <2>3 DEF One, Durable, Kept
  <2>5. QED
    BY <2>1, <2>3, <2>4 DEF One, Loaded, Followed, InStep, Mirroring
<1>6. QED
  BY <1>1, <1>2, <1>3, <1>4, <1>5, QuietJobKeeps DEF Labels, Mirroring, TypeOK, FilesType

LEMMA SaveSuggestionsKeeps ==
  ASSUME IndexInv, NEW p \in servers, SaveSuggestions(p), UNCHANGED applyVars
  PROVE  IndexInv'
<1> DEFINE w == work[p]
<1>1. TypeOK /\ p \in Servers
  BY DEF IndexInv, TypeOK
<1>2. pc[p] = "suggestions" /\ Goto(p, "mark", w) /\ files' = [files EXCEPT !.sug = w.index.sug]
      /\ UNCHANGED <<servers, docs, db, env, acked, hurt>>
  BY DEF SaveSuggestions
<1>3. w \in Jobs /\ w.index.sug \in Reviews
  BY <1>1, <1>2 DEF TypeOK, Jobs, Snapshots
<1>4. FilesType(files') /\ files'.sug = w.index.sug /\ files'.emb = files.emb
  BY <1>1, <1>2, <1>3 DEF TypeOK, FilesType
<1>5. ASSUME Job1(p)
      PROVE  One("mark", w, db, files', acked, hurt, env.sets)
  <2>1. One("suggestions", w, db, files, acked, hurt, env.sets)
    BY <1>2, <1>5 DEF Job1
  <2>2. w.index = Content(db) /\ db # Missing /\ db.gen > 0 /\ files.emb = db.emb
    BY <2>1 DEF One, Followed, Mirroring
  <2>3. files'.sug = db.sug /\ files'.emb = db.emb
    BY <1>4, <2>2 DEF Content
  <2>4. Durable(db, files', acked, env.sets)
    BY <2>1, <2>2, <2>3 DEF One, Durable, Kept, Numbered
  <2>5. QED
    BY <2>1, <2>3, <2>4 DEF One, Loaded, Followed, InStep, Mirroring
<1>6. QED
  BY <1>1, <1>2, <1>3, <1>4, <1>5, QuietJobKeeps DEF Labels, Mirroring, TypeOK, FilesType

LEMMA MarkKeeps ==
  ASSUME IndexInv, NEW p \in servers, Mark(p), UNCHANGED applyVars
  PROVE  IndexInv'
<1> DEFINE w == work[p]
<1>1. TypeOK /\ p \in Servers
  BY DEF IndexInv, TypeOK
<1>2. pc[p] = "mark" /\ Idle(p) /\ files' = [files EXCEPT !.marker = w.gen] /\ hurt' = FALSE
      /\ UNCHANGED <<servers, docs, db, env>>
  BY DEF Mark
<1>3. acked' = [s \in DOMAIN acked \cup DOMAIN w.acks |->
                  IF s \in DOMAIN w.acks THEN w.acks[s] ELSE acked[s]]
  BY DEF Mark
<1>4. w \in Jobs /\ w.gen \in Nat
  BY <1>1, <1>2 DEF TypeOK, Jobs
<1>5. FilesType(files') /\ files'.sug = files.sug /\ files'.emb = files.emb /\ files'.marker = w.gen
  BY <1>1, <1>2, <1>4 DEF TypeOK, FilesType
<1>6. ASSUME Job1(p), NEW v
      PROVE  One("idle", v, db, files', acked', FALSE, env.sets)
  <2>1. One("mark", w, db, files, acked, hurt, env.sets)
    BY <1>2, <1>6 DEF Job1
  <2>2. /\ db # Missing /\ db.gen > 0 /\ w.gen = db.gen /\ files.emb = db.emb /\ files.sug = db.sug
        /\ \A s \in DOMAIN w.acks : s \in DOMAIN db.sug /\ db.sug[s] = w.acks[s]
    BY <2>1 DEF One, Followed, Mirroring
  <2>3. /\ Kept(acked, db.sug, db.emb) /\ Linked(db.sug, db.emb)
        /\ Numbered(db.sug, env.sets)
    BY <2>1, <2>2 DEF One, Durable
  <2>4. Kept(acked', db.sug, db.emb)
    BY <1>3, <2>2, <2>3 DEF Kept, Linked
  <2>5. Durable(db, files', acked', env.sets)
    BY <1>5, <2>2, <2>3, <2>4 DEF Durable
  <2>6. InStep("idle", db, files', FALSE)
    BY <1>5, <2>2 DEF InStep
  <2>7. QED
    BY <2>5, <2>6 DEF One, Loaded, Followed, Mirroring
<1>7. QED
  BY <1>1, <1>2, <1>5, <1>6, IdleKeeps DEF TypeOK, FilesType, EnvType

LEMMA FailKeeps ==
  ASSUME IndexInv, NEW p \in servers, Fail(p), UNCHANGED applyVars
  PROVE  IndexInv'
<1>1. TypeOK
  BY DEF IndexInv
<1>2. /\ Idle(p) /\ env' = [env EXCEPT !.faults = @ + 1]
      /\ hurt' = (hurt \/ pc[p] \in Mirroring)
      /\ UNCHANGED <<servers, docs, db, files, acked>>
  BY DEF Fail, Fault
<1>3. EnvType(env') /\ env'.sets = env.sets
  BY <1>1, <1>2 DEF TypeOK, EnvType
<1>4. hurt' \in BOOLEAN
  BY <1>2
<1>5. ASSUME Job1(p), NEW w
      PROVE  One("idle", w, db, files, acked, hurt', env.sets)
  <2>1. One(pc[p], work[p], db, files, acked, hurt, env.sets)
    BY <1>5 DEF Job1
  <2>2. InStep("idle", db, files, hurt')
    BY <1>2, <2>1 DEF One, InStep
  <2>3. QED
    BY <2>1, <2>2 DEF One, Loaded, Followed, Mirroring
<1>6. QED
  BY <1>1, <1>2, <1>3, <1>4, <1>5, IdleKeeps DEF TypeOK, FilesType

LEMMA JobKeepsAll ==
  ASSUME IndexInv, NEW p \in servers, Job(p), UNCHANGED applyVars
  PROVE  IndexInv'
  BY ScanKeeps, LoadKeeps, EmbedKeeps, CommitKeeps, SimilarKeeps, InsertKeeps, RefusedKeeps,
     ReviewsKeep, SearchKeeps, ReloadKeeps, SaveEmbeddingsKeeps, SaveSuggestionsKeeps,
     MarkKeeps, FailKeeps
     DEF Job

-----------------------------------------------------------------------------
(* Requests beside jobs.                                                   *)

\* What a job relies on of the database.
Agrees(d, e) ==
  /\ (e = Missing) = (d = Missing)
  /\ e.gen = d.gen /\ e.sug = d.sug /\ e.emb = d.emb

LEMMA AgreedOne ==
  ASSUME NEW d, NEW e, Agrees(d, e), NEW j, NEW w, NEW F, NEW K, NEW h, NEW n,
         One(j, w, d, F, K, h, n)
  PROVE  One(j, w, e, F, K, h, n)
<1>1. Content(e) = Content(d)
  BY DEF Agrees, Content
<1>2. Durable(e, F, K, n)
  BY DEF One, Durable, Agrees
<1>3. Loaded(j, w, e, K, n)
  BY DEF One, Loaded, Agrees
<1>4. Followed(j, w, e, F)
  BY <1>1 DEF One, Followed, Agrees
<1>5. InStep(j, e, F, h)
  BY DEF One, InStep, Agrees
<1>6. QED
  BY <1>2, <1>3, <1>4, <1>5 DEF One

\* What was written stays, or is taken out.
Grown(D, C, Dn, Cn) == \A s \in Suggestion : Written(s, D, C) => Written(s, Dn, Cn)

LEMMA WrittenStays ==
  ASSUME NEW D, NEW C, NEW Dn, NEW Cn, Grown(D, C, Dn, Cn), NEW s \in Suggestion, Written(s, D, C)
  PROVE  Written(s, Dn, Cn)
  BY DEF Grown

\* The relations of a sequence are suggestions, and finitely many.
LEMMA RangeFine ==
  ASSUME NEW r \in Seq(Suggestion)
  PROVE  Range(r) \subseteq Suggestion /\ IsFiniteSet(Range(r))
<1>1. Len(r) \in Nat /\ DOMAIN r = 1..Len(r) /\ r \in [1..Len(r) -> Suggestion]
  OBVIOUS
<1>2. Range(r) \subseteq Suggestion
  BY <1>1 DEF Range
<1>3. r \in Surjection(1..Len(r), Range(r))
  BY <1>1 DEF Surjection, Range
<1>4. IsFiniteSet(1..Len(r))
  BY <1>1, FS_Interval
<1>5. QED
  BY <1>2, <1>3, <1>4, FS_Surjection

LEMMA RequestStays ==
  ASSUME NEW D, NEW C, NEW Dn, NEW Cn, Grown(D, C, Dn, Cn), NEW t \in Requests, RequestFine(t, D, C)
  PROVE  RequestFine(t, Dn, Cn)
<1>1. t.valid \subseteq Suggestion
  BY DEF Requests
<1>2. t.at = "record" => \A s \in t.valid : Written(s, Dn, Cn)
  BY <1>1, WrittenStays DEF RequestFine
<1>3. ASSUME t.at = "replace"
      PROVE  \A s \in Range(t.read.was.relations) : Written(s, Dn, Cn)
  <2>1. t.read.was.relations \in Seq(Suggestion)
    BY <1>3 DEF RequestFine, Documents
  <2>2. Range(t.read.was.relations) \subseteq Suggestion
    BY <2>1, RangeFine
  <2>3. QED
    BY <1>3, <2>2, WrittenStays DEF RequestFine
<1>4. QED
  BY <1>2, <1>3 DEF RequestFine

\* A step of a request keeps the invariant if what it leaves is fine.
LEMMA ApplyStepKeeps ==
  ASSUME IndexInv, NEW a \in Applies, NEW t \in Requests \cup {None},
         apply' = [apply EXCEPT ![a] = t],
         t # None => RequestFine(t, docs', taken'),
         UNCHANGED <<servers, files, job, acked, hurt>>, EnvType(env'), env'.sets = env.sets,
         docs' \in [Docs -> Documents], taken' \subseteq Suggestion, Tidy',
         Grown(docs, taken, docs', taken'),
         db' \in Database, Stored(db'), Agrees(db, db') \/ (db = Missing /\ db' = EmptyDb),
         db' # Missing => \A s \in db'.applied : s \in db.applied \/ Written(s, docs', taken')
  PROVE  IndexInv'
<1>1. TypeOK /\ StoreOK /\ RequestsFine /\ Audited /\ OneServer
  BY DEF IndexInv
<1>2. TypeOK'
  BY <1>1 DEF TypeOK, job, EnvType
<1>3. StoreOK'
  BY <1>1, EmptyIsDatabase DEF StoreOK, Agrees, job
<1>4. OneServer'
  <2>1. SUFFICES ASSUME Alone', NEW p \in servers'
                 PROVE  One(pc[p], work[p], db', files, acked, hurt, env.sets)
    BY DEF OneServer, job
  <2>2. One(pc[p], work[p], db, files, acked, hurt, env.sets)
    BY <1>1, <2>1 DEF OneServer, Alone
  <2>3. QED
    BY <2>2, AgreedOne, OpenedOne
<1>5. RequestsFine'
  <2>1. SUFFICES ASSUME NEW b \in Applies, apply'[b] # None
                 PROVE  RequestFine(apply'[b], docs', taken')
    BY DEF RequestsFine
  <2>2. CASE b = a
    BY <1>1, <2>1, <2>2 DEF TypeOK
  <2>3. CASE b # a
    <3>1. apply'[b] = apply[b] /\ apply[b] \in Requests
      BY <1>1, <2>1, <2>3 DEF TypeOK
    <3>2. RequestFine(apply[b], docs, taken)
      BY <1>1, <2>1, <3>1 DEF RequestsFine
    <3>3. QED
      BY <3>1, <3>2, RequestStays
  <2>4. QED
    BY <2>2, <2>3
<1>6. Audited'
  <2>1. SUFFICES ASSUME db' # Missing, NEW s \in db'.applied, s \in db.applied
                 PROVE  Written(s, docs', taken')
    BY DEF Audited
  <2>2. db # Missing
    BY <2>1, EmptyIsDatabase DEF Agrees
  <2>3. Written(s, docs, taken)
    BY <1>1, <2>1, <2>2 DEF Audited
  <2>4. s \in Suggestion
    BY <1>1, <2>1 DEF TypeOK, Database
  <2>5. QED
    BY <2>3, <2>4, WrittenStays
<1>7. QED
  BY <1>2, <1>3, <1>4, <1>5, <1>6 DEF IndexInv

LEMMA SameGrown == \A D, C : Grown(D, C, D, C)
  BY DEF Grown

\* A step that leaves documents and database as they are.
LEMMA QuietApplyKeeps ==
  ASSUME IndexInv, NEW a \in Applies, NEW t \in Requests \cup {None},
         apply' = [apply EXCEPT ![a] = t], t # None => RequestFine(t, docs, taken),
         UNCHANGED <<servers, docs, db, files, job, acked, hurt, taken>>,
         EnvType(env'), env'.sets = env.sets
  PROVE  IndexInv'
<1>1. TypeOK /\ Stored(db) /\ Tidy
  BY DEF IndexInv, StoreOK
<1>2. docs' \in [Docs -> Documents] /\ taken' \subseteq Suggestion /\ db' \in Database
  BY <1>1 DEF TypeOK
<1>3. Tidy' /\ Agrees(db, db') /\ Grown(docs, taken, docs', taken')
  BY <1>1, SameGrown DEF Tidy, Agrees
<1>4. QED
  BY <1>1, <1>2, <1>3, ApplyStepKeeps

LEMMA CollectKeeps ==
  ASSUME IndexInv, NEW a \in Applies, Collect(a)
  PROVE  IndexInv'
<1> DEFINE all == Ready(Opened)
           t == [at |-> "next", all |-> all, chunks |-> Chunks,
                 left |-> Groups(all), valid |-> {}, read |-> None]
<1>1. TypeOK /\ Stored(db) /\ Tidy
  BY DEF IndexInv, StoreOK
<1>2. apply[a] = None /\ db' = Opened
      /\ UNCHANGED <<servers, docs, files, job, env, acked, hurt, taken>>
  BY DEF Collect
<1>3. Opened \in Database /\ Stored(Opened)
  BY <1>1, OpenedFine
<1>4. all \subseteq Suggestion /\ IsFiniteSet(all)
  <2>1. Opened.sug \in Reviews
    BY <1>3 DEF Database
  <2>2. all \subseteq DOMAIN Opened.sug
    BY DEF Ready
  <2>3. QED
    BY <2>1, <2>2, ReviewsElim, FS_Subset
<1>5. t \in Requests
  <2>1. Groups(all) \subseteq Docs
    BY <1>4 DEF Groups, Suggestion, Chunk
  <2> HIDE DEF all
  <2>2. QED
    BY <1>1, <1>4, <2>1, ChunksType DEF Requests
<1>6. RequestFine(t, docs, taken)
  <2> HIDE DEF all
  <2>1. QED
    BY <1>4 DEF RequestFine
<1>7. docs' \in [Docs -> Documents] /\ taken' \subseteq Suggestion /\ EnvType(env')
  BY <1>1, <1>2 DEF TypeOK, EnvType
<1>8. Tidy' /\ Grown(docs, taken, docs', taken')
  BY <1>1, <1>2, SameGrown DEF Tidy
<1>9. /\ Agrees(db, db') \/ (db = Missing /\ db' = EmptyDb)
      /\ db' # Missing => \A s \in db'.applied : s \in db.applied
  BY <1>2, EmptyIsDatabase DEF Agrees, Opened
<1>10. PICK u \in {t, None} : apply' = [apply EXCEPT ![a] = u]
  <2>1. CASE all = {}
    <3>1. apply' = apply
      BY <2>1 DEF Collect
    <3>2. apply' = [apply EXCEPT ![a] = None]
      BY <1>1, <1>2, <3>1 DEF TypeOK
    <3>3. QED
      BY <3>2
  <2>2. CASE all # {}
    <3>1. apply' = [apply EXCEPT ![a] = t]
      BY <2>2 DEF Collect
    <3>2. QED
      BY <3>1
  <2>3. QED
    BY <2>1, <2>2
<1> HIDE DEF t
<1>11. u \in Requests \cup {None} /\ (u # None => RequestFine(u, docs', taken'))
  BY <1>2, <1>5, <1>6, <1>10
<1>12. QED
  BY <1>2, <1>3, <1>7, <1>8, <1>9, <1>10, <1>11, ApplyStepKeeps

LEMMA RequestOf ==
  ASSUME IndexInv, NEW a \in Applies, apply[a] # None
  PROVE  apply[a] \in Requests /\ RequestFine(apply[a], docs, taken)
  BY DEF IndexInv, TypeOK, RequestsFine

LEMMA ReadKeeps ==
  ASSUME IndexInv, NEW a \in Applies, Read(a)
  PROVE  IndexInv'
<1> DEFINE t     == apply[a]
           d     == CHOOSE e \in t.left : \A f \in t.left : e <= f
           valid == {s \in t.all : s.source.doc = d /\ Current(s, t.chunks)}
           rest  == [t EXCEPT !.left = @ \ {d}]
           began == [t EXCEPT !.at = "replace", !.left = @ \ {d}, !.valid = valid,
                       !.read = [doc |-> d, was |-> docs[d]]]
<1>1. TypeOK /\ Tidy
  BY DEF IndexInv
<1>2. t # None /\ t.at = "next" /\ UNCHANGED <<indexVars, taken>>
      /\ apply' = [apply EXCEPT ![a] = IF valid = {} THEN rest ELSE began]
  BY DEF Read
<1>3. t \in Requests /\ RequestFine(t, docs, taken)
  BY <1>2, RequestOf
<1>4. rest \in Requests /\ RequestFine(rest, docs, taken)
  <2> HIDE DEF t, d
  <2>1. rest \in Requests /\ rest.at = "next" /\ rest.all = t.all
    BY <1>2, <1>3 DEF Requests
  <2>2. QED
    BY <1>3, <2>1 DEF RequestFine
<1>5. ASSUME valid # {}
      PROVE  began \in Requests /\ RequestFine(began, docs, taken)
  <2>1. valid \subseteq Suggestion /\ IsFiniteSet(valid) /\ valid \subseteq t.all
    BY <1>3, FS_Subset DEF RequestFine, Requests
  <2>2. d \in Docs
    BY <1>5, <2>1 DEF Suggestion, Chunk
  <2>3. /\ docs[d] \in Documents /\ Fit(docs[d].relations, d)
        /\ \A s \in Range(docs[d].relations) : Written(s, docs, taken)
    BY <1>1, <2>2 DEF TypeOK, Tidy, Fit, Written
  <2>4. \A s \in valid : s.source.doc = d
    OBVIOUS
  <2> HIDE DEF t, d, valid
  <2> DEFINE r == [doc |-> d, was |-> docs[d]]
  <2>5. r \in [doc : Docs, was : Documents] /\ r.doc = d /\ r.was = docs[d]
    BY <2>2, <2>3
  <2> HIDE DEF r
  <2>6. began = [t EXCEPT !.at = "replace", !.left = @ \ {d}, !.valid = valid, !.read = r]
    BY DEF r
  <2> HIDE DEF began
  <2>7. began \in Requests
    BY <1>3, <2>1, <2>5, <2>6 DEF Requests
  <2>8. began.at = "replace" /\ began.valid = valid /\ began.read = r /\ began.all = t.all
    BY <1>3, <2>6 DEF Requests
  <2>9. QED
    BY <1>3, <2>1, <2>3, <2>4, <2>5, <2>7, <2>8 DEF RequestFine
<1>6. EnvType(env') /\ env'.sets = env.sets
  BY <1>1, <1>2 DEF TypeOK, EnvType, indexVars
<1>7. UNCHANGED <<servers, docs, db, files, job, acked, hurt, taken>>
  BY <1>2 DEF indexVars
<1>8. QED
  <2> HIDE DEF rest, began, valid
  <2>1. CASE valid = {}
    BY <1>2, <1>4, <1>6, <1>7, <2>1, QuietApplyKeeps
  <2>2. CASE valid # {}
    BY <1>2, <1>5, <1>6, <1>7, <2>2, QuietApplyKeeps
  <2>3. QED
    BY <2>1, <2>2

\* The elements of a finite set, each of them once.
LEMMA SetToSeqFine ==
  ASSUME NEW S, IsFiniteSet(S)
  PROVE  SetToSeq(S) \in Seq(S) /\ IsInjective(SetToSeq(S)) /\ Range(SetToSeq(S)) = S
<1> DEFINE n == Cardinality(S)
           q == SetToSeq(S)
<1>1. n \in Nat /\ ExistsBijection(1..n, S)
  BY FS_CardinalityType
<1>2. \E f \in [1..n -> S] : IsInjective(f)
  BY <1>1 DEF ExistsBijection, Bijection, Injection, IsInjective
<1>3. q \in [1..n -> S] /\ IsInjective(q)
  BY <1>2 DEF SetToSeq
<1>4. q \in Injection(1..n, S)
  BY <1>3 DEF Injection, IsInjective
<1>5. Cardinality(1..n) = n
  BY <1>1, FS_Interval
<1>6. q \in Surjection(1..n, S)
  BY <1>4, <1>5, FS_Injection
<1>7. Range(q) = S
  BY <1>3, <1>6 DEF Surjection, Range
<1>8. QED
  BY <1>1, <1>3, <1>7

\* Merging adds what is not there, and nothing twice.
LEMMA MergedFine ==
  ASSUME NEW r \in Seq(Suggestion), IsInjective(r), NEW those \in SUBSET Suggestion, IsFiniteSet(those)
  PROVE  /\ Merged(r, those) \in Seq(Suggestion) /\ IsInjective(Merged(r, those))
         /\ Range(Merged(r, those)) = Range(r) \cup those
<1> DEFINE S == those \ Range(r)
           q == SetToSeq(S)
           m == Merged(r, those)
<1>1. IsFiniteSet(S)
  BY FS_Subset
<1>2. q \in Seq(S) /\ IsInjective(q) /\ Range(q) = S
  BY <1>1, SetToSeqFine
<1>3. q \in Seq(Suggestion) /\ m = r \o q
  BY <1>2 DEF Merged
<1> HIDE DEF q, m, S
<1>4. m \in Seq(Suggestion) /\ DOMAIN m = 1..(Len(r) + Len(q)) /\ Len(r) \in Nat /\ Len(q) \in Nat
      /\ DOMAIN r = 1..Len(r) /\ DOMAIN q = 1..Len(q)
  BY <1>3
<1>5. \A i \in 1..Len(r) : m[i] = r[i]
  BY <1>3
<1>6. \A i \in 1..Len(q) : m[Len(r) + i] = q[i]
  BY <1>3
<1>7. \A i \in DOMAIN m : i \in 1..Len(r) \/ \E k \in 1..Len(q) : i = Len(r) + k
  <2>1. ASSUME NEW i \in DOMAIN m, i \notin 1..Len(r)
        PROVE  i - Len(r) \in 1..Len(q) /\ i = Len(r) + (i - Len(r))
    BY <1>4, <2>1
  <2>2. QED
    BY <2>1
<1>8. \A i \in 1..Len(r), k \in 1..Len(q) : r[i] # q[k]
  <2>1. SUFFICES ASSUME NEW i \in 1..Len(r), NEW k \in 1..Len(q), r[i] = q[k]
                 PROVE  FALSE
    OBVIOUS
  <2>2. r[i] \in Range(r) /\ q[k] \in Range(q)
    BY <1>4 DEF Range
  <2>3. QED
    BY <1>2, <2>1, <2>2 DEF S
<1>9. IsInjective(m)
  <2>1. SUFFICES ASSUME NEW i \in DOMAIN m, NEW k \in DOMAIN m, m[i] = m[k]
                 PROVE  i = k
    BY DEF IsInjective
  <2>2. CASE i \in 1..Len(r) /\ k \in 1..Len(r)
    BY <1>4, <1>5, <2>1, <2>2 DEF IsInjective
  <2>3. CASE i \in 1..Len(r) /\ k \notin 1..Len(r)
    BY <1>5, <1>6, <1>7, <1>8, <2>1, <2>3
  <2>4. CASE i \notin 1..Len(r) /\ k \in 1..Len(r)
    BY <1>5, <1>6, <1>7, <1>8, <2>1, <2>4
  <2>5. CASE i \notin 1..Len(r) /\ k \notin 1..Len(r)
    <3>1. PICK x \in 1..Len(q), y \in 1..Len(q) : i = Len(r) + x /\ k = Len(r) + y
      BY <1>7, <2>5
    <3>2. q[x] = q[y]
      BY <1>6, <2>1, <3>1
    <3>3. QED
      BY <1>2, <1>4, <3>1, <3>2 DEF IsInjective
  <2>6. QED
    BY <2>2, <2>3, <2>4, <2>5
<1>10. Range(r) \subseteq Range(m)
  BY <1>4, <1>5 DEF Range
<1>11. Range(q) \subseteq Range(m)
  <2>1. \A k \in 1..Len(q) : Len(r) + k \in DOMAIN m
    BY <1>4
  <2>2. QED
    BY <1>4, <1>6, <2>1 DEF Range
<1>12. Range(m) \subseteq Range(r) \cup Range(q)
  BY <1>4, <1>5, <1>6, <1>7 DEF Range
<1>13. Range(m) = Range(r) \cup those
  BY <1>2, <1>10, <1>11, <1>12 DEF S
<1>14. QED
  BY <1>4, <1>9, <1>13 DEF m

\* A request goes on with the next document, or to the audit.
LEMMA GoesOn ==
  ASSUME NEW t \in Requests, NEW l \in {"next", "record"}, NEW D, NEW C, RequestFine(t, D, C),
         l = "record" => /\ t.read \in [doc : Docs, was : Documents] /\ IsFiniteSet(t.valid)
                         /\ \A s \in t.valid : s.source.doc = t.read.doc /\ Written(s, D, C)
  PROVE  [t EXCEPT !.at = l] \in Requests /\ RequestFine([t EXCEPT !.at = l], D, C)
<1> DEFINE u == [t EXCEPT !.at = l]
<1>1. u \in Requests /\ u.at = l /\ u.all = t.all /\ u.valid = t.valid /\ u.read = t.read
  BY DEF Requests
<1> HIDE DEF u
<1>2. RequestFine(u, D, C)
  BY <1>1 DEF RequestFine
<1>3. QED
  BY <1>1, <1>2 DEF u

LEMMA ReplaceKeeps ==
  ASSUME IndexInv, NEW a \in Applies, Replace(a)
  PROVE  IndexInv'
<1> DEFINE t   == apply[a]
           d   == t.read.doc
           was == t.read.was
           m   == Merged(was.relations, t.valid)
           new == [was EXCEPT !.relations = m]
           on(l) == [t EXCEPT !.at = l]
<1>1. TypeOK /\ Tidy /\ Stored(db)
  BY DEF IndexInv, StoreOK
<1>2. /\ t # None /\ t.at = "replace"
      /\ UNCHANGED <<servers, db, files, job, env, acked, hurt>>
  BY DEF Replace
<1>3. t \in Requests /\ RequestFine(t, docs, taken)
  BY <1>2, RequestOf
<1>4. /\ t.read \in [doc : Docs, was : Documents] /\ IsFiniteSet(t.valid)
      /\ Fit(was.relations, d) /\ \A s \in Range(was.relations) : Written(s, docs, taken)
      /\ \A s \in t.valid : s.source.doc = d
  BY <1>2, <1>3 DEF RequestFine
<1>5. d \in Docs /\ was \in Documents /\ t.valid \in SUBSET Suggestion
  BY <1>3, <1>4 DEF Requests
<1>6. was.relations \in Seq(Suggestion)
  BY <1>5 DEF Documents
<1>7. m \in Seq(Suggestion) /\ Fit(m, d) /\ Range(m) = Range(was.relations) \cup t.valid
  BY <1>4, <1>5, <1>6, MergedFine DEF Fit
<1>8. EnvType(env')
  BY <1>1, <1>2 DEF TypeOK, EnvType
<1>9. \/ /\ new = was /\ apply' = [apply EXCEPT ![a].at = "record"] /\ UNCHANGED <<docs, taken>>
      \/ apply' = [apply EXCEPT ![a].at = "next"] /\ UNCHANGED <<docs, taken>>
      \/ /\ docs' = [docs EXCEPT ![d] = new]
         /\ taken' = (taken \cup Added(was, docs[d])) \ Range(new.relations)
         /\ apply' = [apply EXCEPT ![a].at = "record"]
  BY DEF Replace
<1> HIDE DEF m
<1>10. new \in Documents /\ new.relations = m
  BY <1>5, <1>7 DEF Documents
<1> HIDE DEF d, was, new
<1>11. CASE new = was /\ apply' = [apply EXCEPT ![a].at = "record"] /\ UNCHANGED <<docs, taken>>
  <2>1. t.valid \subseteq Range(was.relations)
    BY <1>7, <1>10, <1>11
  <2>2. \A s \in t.valid : Written(s, docs, taken)
    BY <1>4, <2>1
  <2>3. on("record") \in Requests /\ RequestFine(on("record"), docs, taken)
    <3> HIDE DEF t
    <3>1. QED
      BY <1>3, <1>4, <2>2, GoesOn DEF d
  <2>4. apply' = [apply EXCEPT ![a] = on("record")]
    BY <1>11
  <2> HIDE DEF on, t
  <2>5. QED
    BY <1>2, <1>8, <1>11, <2>3, <2>4, QuietApplyKeeps
<1>12. CASE apply' = [apply EXCEPT ![a].at = "next"] /\ UNCHANGED <<docs, taken>>
  <2>1. on("next") \in Requests /\ RequestFine(on("next"), docs, taken)
    <3> HIDE DEF t
    <3>1. QED
      BY <1>3, GoesOn
  <2>2. apply' = [apply EXCEPT ![a] = on("next")]
    BY <1>12
  <2> HIDE DEF on, t
  <2>3. QED
    BY <1>2, <1>8, <1>12, <2>1, <2>2, QuietApplyKeeps
<1>13. CASE /\ docs' = [docs EXCEPT ![d] = new]
            /\ taken' = (taken \cup Added(was, docs[d])) \ Range(new.relations)
            /\ apply' = [apply EXCEPT ![a].at = "record"]
  <2>1. docs' \in [Docs -> Documents] /\ docs'[d] = new /\ \A e \in Docs \ {d} : docs'[e] = docs[e]
    BY <1>1, <1>5, <1>10, <1>13 DEF TypeOK
  <2>2. /\ taken' \subseteq Suggestion
        /\ taken' = (taken \cup (Range(docs[d].relations) \ Range(was.relations))) \ Range(m)
    <3>1. Range(docs[d].relations) \subseteq Suggestion
      BY <1>1, <1>5, RangeFine DEF TypeOK, Documents
    <3>2. QED
      BY <1>1, <1>10, <1>13, <3>1 DEF TypeOK, Added
  <2>3. Tidy'
    BY <1>1, <1>7, <1>10, <2>1 DEF Tidy
  <2>4. Grown(docs, taken, docs', taken')
    <3>1. SUFFICES ASSUME NEW s \in Suggestion, Written(s, docs, taken)
                   PROVE  Written(s, docs', taken')
      BY DEF Grown
    <3>2. s.source.doc \in Docs
      BY DEF Suggestion, Chunk
    <3>3. CASE s.source.doc = d
      BY <1>7, <1>10, <2>1, <2>2, <3>1, <3>3 DEF Written
    <3>4. CASE s.source.doc # d
      <4>1. s \notin Range(m) /\ docs'[s.source.doc] = docs[s.source.doc]
        BY <1>7, <2>1, <3>2, <3>4 DEF Fit
      <4>2. QED
        BY <2>2, <3>1, <4>1 DEF Written
    <3>5. QED
      BY <3>3, <3>4
  <2>5. \A s \in t.valid : Written(s, docs', taken')
    BY <1>4, <1>7, <1>10, <2>1 DEF Written
  <2>6. RequestFine(t, docs', taken')
    BY <1>3, <2>4, RequestStays
  <2>7. on("record") \in Requests /\ RequestFine(on("record"), docs', taken')
    <3> HIDE DEF t
    <3>1. QED
      BY <1>3, <1>4, <2>5, <2>6, GoesOn DEF d
  <2>8. apply' = [apply EXCEPT ![a] = on("record")]
    BY <1>13
  <2>9. db' \in Database /\ Stored(db') /\ Agrees(db, db') /\ env'.sets = env.sets
    BY <1>1, <1>2 DEF TypeOK, Agrees
  <2>10. \A s \in db'.applied : s \in db.applied
    BY <1>2
  <2>11. UNCHANGED <<servers, files, job, acked, hurt>>
    BY <1>2
  <2> HIDE DEF on, t
  <2>12. QED
    BY <1>8, <2>1, <2>2, <2>3, <2>4, <2>7, <2>8, <2>9, <2>10, <2>11, ApplyStepKeeps
<1>14. QED
  BY <1>9, <1>11, <1>12, <1>13

LEMMA RecordKeeps ==
  ASSUME IndexInv, NEW a \in Applies, Record(a)
  PROVE  IndexInv'
<1> DEFINE t   == apply[a]
           u   == [t EXCEPT !.at = "next"]
           new == [db EXCEPT !.applied = db.applied \cup t.valid]
<1>1. TypeOK /\ Tidy /\ Stored(db)
  BY DEF IndexInv, StoreOK
<1>2. /\ t # None /\ t.at = "record" /\ apply' = [apply EXCEPT ![a] = u]
      /\ UNCHANGED <<servers, docs, files, job, env, acked, hurt, taken>>
  BY DEF Record
<1>3. t \in Requests /\ RequestFine(t, docs, taken)
  BY <1>2, RequestOf
<1>4. t.valid \subseteq Suggestion /\ \A s \in t.valid : Written(s, docs, taken)
  BY <1>2, <1>3 DEF RequestFine, Requests
<1>5. u \in Requests /\ RequestFine(u, docs, taken)
  <2> HIDE DEF t
  <2>1. QED
    BY <1>3, GoesOn
<1>6. docs' \in [Docs -> Documents] /\ taken' \subseteq Suggestion /\ EnvType(env') /\ Tidy'
      /\ Grown(docs, taken, docs', taken') /\ env'.sets = env.sets
  BY <1>1, <1>2, SameGrown DEF TypeOK, EnvType, Tidy
<1>7. /\ db' \in Database /\ Stored(db') /\ Agrees(db, db')
      /\ db' # Missing => \A s \in db'.applied : s \in db.applied \/ Written(s, docs', taken')
  <2>1. CASE db' = db
    BY <1>1, <2>1 DEF TypeOK, Agrees
  <2>2. CASE db # Missing /\ t.valid \subseteq DOMAIN db.sug /\ db' = new
    <3>1. db \in Database /\ db.gen \in Nat /\ Sound(db) /\ (db.gen = 0 => db = EmptyDb)
      BY <1>1, <2>2 DEF TypeOK, Stored
    <3>2. new \in Database /\ new.applied = db.applied \cup t.valid
      BY <1>4, <3>1 DEF Database
    <3>3. new.gen = db.gen /\ new.chunks = db.chunks /\ new.emb = db.emb /\ new.sug = db.sug
          /\ new.sets = db.sets
      BY <3>1 DEF Database
    <3> HIDE DEF t
    <3>4. db.gen = 0 => new = EmptyDb
      <4>1. SUFFICES ASSUME db.gen = 0
                     PROVE  new = EmptyDb
        OBVIOUS
      <4>2. db = EmptyDb /\ DOMAIN db.sug = {} /\ db.applied = {}
        BY <3>1, <4>1, EmptyIsDatabase, NothingIsReview
      <4>3. db.applied \cup t.valid = db.applied
        BY <2>2, <4>2
      <4>4. new = db
        BY <3>1, <4>3 DEF Database
      <4>5. QED
        BY <4>2, <4>4
    <3> HIDE DEF new
    <3>5. Sound(new)
      BY <2>2, <3>1, <3>2, <3>3 DEF Sound
    <3>6. new # Missing
      <4>1. new.gen \in Nat /\ Missing.gen = None /\ None \notin Nat
        BY <3>1, <3>3, EmptyIsDatabase, IndexConstants
      <4>2. QED
        BY <4>1
    <3>7. QED
      BY <1>2, <1>4, <2>2, <3>1, <3>2, <3>3, <3>4, <3>5, <3>6 DEF Stored, Agrees
  <2>3. QED
    BY <2>1, <2>2 DEF Record
<1>8. UNCHANGED <<servers, files, job, acked, hurt>>
  BY <1>2
<1> HIDE DEF u, t
<1>9. QED
  BY <1>2, <1>5, <1>6, <1>7, <1>8, ApplyStepKeeps

LEMMA DoneKeeps ==
  ASSUME IndexInv, NEW a \in Applies, Done(a)
  PROVE  IndexInv'
<1>1. EnvType(env') /\ env'.sets = env.sets
  BY DEF IndexInv, TypeOK, EnvType, Done, indexVars
<1>2. apply' = [apply EXCEPT ![a] = None]
      /\ UNCHANGED <<servers, docs, db, files, job, acked, hurt, taken>>
  BY DEF Done, indexVars
<1>3. QED
  BY <1>1, <1>2, QuietApplyKeeps

LEMMA FaultType ==
  ASSUME TypeOK, Fault
  PROVE  EnvType(env') /\ env'.sets = env.sets
  BY DEF TypeOK, Fault, EnvType

LEMMA SkipKeeps ==
  ASSUME IndexInv, NEW a \in Applies, Skip(a)
  PROVE  IndexInv'
<1> DEFINE t == apply[a]
           u == [t EXCEPT !.at = "next"]
<1>1. TypeOK
  BY DEF IndexInv
<1>2. t # None /\ Fault /\ apply' = [apply EXCEPT ![a] = u]
      /\ UNCHANGED <<servers, docs, db, files, job, acked, hurt, taken>>
  BY DEF Skip
<1>3. t \in Requests /\ RequestFine(t, docs, taken)
  BY <1>2, RequestOf
<1>4. u \in Requests /\ RequestFine(u, docs, taken)
  <2> HIDE DEF t
  <2>1. QED
    BY <1>3, GoesOn
<1>5. EnvType(env') /\ env'.sets = env.sets
  BY <1>1, <1>2, FaultType
<1> HIDE DEF u, t
<1>6. QED
  BY <1>2, <1>4, <1>5, QuietApplyKeeps
-----------------------------------------------------------------------------
(* What goes wrong, and people.                                            *)
LEMMA LoseKeeps ==
  ASSUME IndexInv, Running = {}, Lose, UNCHANGED applyVars
  PROVE  IndexInv'
<1>1. TypeOK /\ StoreOK /\ OneServer /\ RequestsFine /\ Tidy
  BY DEF IndexInv
<1>2. db' = Missing /\ hurt' = TRUE /\ Fault
      /\ UNCHANGED <<servers, docs, files, job, acked, apply, taken>>
  BY DEF Lose, applyVars
<1>3. \A p \in Servers : pc[p] = "idle"
  BY DEF Running
<1>4. EnvType(env') /\ env'.sets = env.sets
  BY <1>1, <1>2, FaultType
<1>5. TypeOK'
  BY <1>1, <1>2, <1>4, EmptyIsDatabase DEF TypeOK, job, EnvType
<1>6. StoreOK'
  BY <1>2, <1>3 DEF StoreOK, Stored, job
<1>7. OneServer'
  <2>1. SUFFICES ASSUME Alone', NEW p \in servers'
                 PROVE  One(pc[p], work[p], Missing, files, acked, TRUE, env.sets)
    BY <1>2, <1>4 DEF OneServer, job
  <2>2. One(pc[p], work[p], db, files, acked, hurt, env.sets) /\ pc[p] = "idle"
    BY <1>1, <1>2, <1>3, <2>1 DEF OneServer, Alone, TypeOK
  <2>3. QED
    BY <2>2 DEF One, Durable, Loaded, Followed, InStep, Mirroring
<1>8. RequestsFine' /\ Audited' /\ Tidy'
  BY <1>1, <1>2 DEF RequestsFine, Audited, Tidy
<1>9. QED
  BY <1>5, <1>6, <1>7, <1>8 DEF IndexInv

LEMMA EditKeeps ==
  ASSUME IndexInv, NEW d \in Docs, Person(d)
  PROVE  IndexInv'
<1>1. TypeOK /\ StoreOK /\ OneServer /\ RequestsFine /\ Audited /\ Tidy
  BY DEF IndexInv
<1>2. PICK b \in Bodies \cup {None}, those \in SUBSET Known(d) :
        docs' = [docs EXCEPT ![d] = [body |-> b, relations |-> SetToSeq(those)]]
  BY DEF Person, Edit
<1>3. /\ env' = [env EXCEPT !.edits = @ + 1]
      /\ taken' = (taken \cup Range(docs[d].relations)) \ Range(docs'[d].relations)
      /\ UNCHANGED <<servers, db, files, job, acked, hurt, apply>>
  BY DEF Person, Edit
<1>4. EnvType(env') /\ env'.sets = env.sets
  BY <1>1, <1>3 DEF TypeOK, EnvType
<1>5. docs \in [Docs -> Documents] /\ docs[d].relations \in Seq(Suggestion)
  BY <1>1 DEF TypeOK, Documents
<1>6. those \subseteq Suggestion /\ IsFiniteSet(those) /\ \A s \in those : s.source.doc = d
  <2>1. Range(docs[d].relations) \subseteq Suggestion /\ IsFiniteSet(Range(docs[d].relations))
    BY <1>5, RangeFine
  <2>2. db.sug \in Reviews
    BY <1>1 DEF TypeOK, Database
  <2>3. DOMAIN db.sug \subseteq Suggestion /\ IsFiniteSet(DOMAIN db.sug)
    BY <2>2, ReviewsElim
  <2>4. IsFiniteSet(Range(docs[d].relations) \cup DOMAIN db.sug)
    BY <2>1, <2>3, FS_Union
  <2>5. those \subseteq Range(docs[d].relations) \cup DOMAIN db.sug /\ \A s \in those : s.source.doc = d
    BY DEF Known
  <2>6. QED
    BY <2>1, <2>3, <2>4, <2>5, FS_Subset
<1> DEFINE q == SetToSeq(those)
<1>7. q \in Seq(those) /\ IsInjective(q) /\ Range(q) = those
  BY <1>6, SetToSeqFine
<1>8. q \in Seq(Suggestion) /\ Fit(q, d)
  BY <1>6, <1>7 DEF Fit
<1> HIDE DEF q
<1>9. /\ docs' \in [Docs -> Documents] /\ docs'[d].relations = q
      /\ \A e \in Docs \ {d} : docs'[e] = docs[e]
  <2>1. docs' = [docs EXCEPT ![d] = [body |-> b, relations |-> q]]
    BY <1>2 DEF q
  <2>2. [body |-> b, relations |-> q] \in Documents
    BY <1>8 DEF Documents
  <2>3. QED
    BY <1>5, <2>1, <2>2
<1>10. taken' \subseteq Suggestion
  <2>1. Range(docs[d].relations) \subseteq Suggestion
    BY <1>5, RangeFine
  <2>2. QED
    BY <1>1, <1>3, <2>1 DEF TypeOK
<1>11. TypeOK'
  BY <1>1, <1>3, <1>4, <1>9, <1>10 DEF TypeOK, job, EnvType
<1>12. StoreOK' /\ Tidy'
  <2>1. Tidy'
    BY <1>1, <1>8, <1>9 DEF Tidy
  <2>2. QED
    BY <1>1, <1>3, <2>1 DEF StoreOK, job
<1>13. OneServer'
  BY <1>1, <1>3, <1>4 DEF OneServer, Alone, job
<1>14. Grown(docs, taken, docs', taken')
  <2>1. SUFFICES ASSUME NEW s \in Suggestion, Written(s, docs, taken)
                 PROVE  Written(s, docs', taken')
    BY DEF Grown
  <2>2. s.source.doc \in Docs
    BY DEF Suggestion, Chunk
  <2>3. CASE s.source.doc = d
    BY <1>3, <1>9, <2>1, <2>3 DEF Written
  <2>4. CASE s.source.doc # d
    <3>1. s \notin Range(q) /\ docs'[s.source.doc] = docs[s.source.doc]
      BY <1>6, <1>7, <1>9, <2>2, <2>4
    <3>2. QED
      BY <1>3, <1>9, <2>1, <3>1 DEF Written
  <2>5. QED
    BY <2>3, <2>4
<1>15. RequestsFine'
  <2>1. SUFFICES ASSUME NEW a \in Applies, apply[a] # None
                 PROVE  RequestFine(apply[a], docs', taken')
    BY <1>3 DEF RequestsFine
  <2>2. QED
    BY <1>14, <2>1, RequestOf, RequestStays
<1>16. Audited'
  <2>1. SUFFICES ASSUME db # Missing, NEW s \in db.applied
                 PROVE  Written(s, docs', taken')
    BY <1>3 DEF Audited
  <2>2. s \in Suggestion /\ Written(s, docs, taken)
    BY <1>1, <2>1 DEF TypeOK, Database, Audited
  <2>3. QED
    BY <1>14, <2>2, WrittenStays
<1>17. QED
  BY <1>11, <1>12, <1>13, <1>15, <1>16 DEF IndexInv

LEMMA CrashKeeps ==
  ASSUME IndexInv, Crash
  PROVE  IndexInv'
<1>1. TypeOK /\ StoreOK /\ OneServer /\ Audited /\ Tidy
  BY DEF IndexInv
<1>2. /\ Fault /\ hurt' = (hurt \/ \E p \in Servers : pc[p] \in Mirroring)
      /\ pc' = [p \in Servers |-> "idle"] /\ work' = [p \in Servers |-> None]
      /\ apply' = [a \in Applies |-> None]
      /\ UNCHANGED <<servers, docs, db, files, acked, taken>>
  BY DEF Crash
<1>3. EnvType(env') /\ env'.sets = env.sets
  BY <1>1, <1>2, FaultType
<1>4. TypeOK'
  <2>1. pc' \in [Servers -> Labels] /\ work' \in [Servers -> Jobs \cup {None}]
        /\ \A p \in Servers : pc'[p] = "idle"
    BY <1>2 DEF Labels
  <2>2. hurt' \in BOOLEAN /\ apply' \in [Applies -> Requests \cup {None}]
    BY <1>1, <1>2 DEF TypeOK
  <2>3. QED
    BY <1>1, <1>2, <1>3, <2>1, <2>2 DEF TypeOK, EnvType
<1>5. StoreOK'
  BY <1>1, <1>2 DEF StoreOK
<1>6. OneServer'
  <2>1. SUFFICES ASSUME Alone', NEW p \in servers'
                 PROVE  One("idle", None, db, files, acked, hurt', env.sets)
    BY <1>1, <1>2, <1>3 DEF OneServer, TypeOK
  <2>2. One(pc[p], work[p], db, files, acked, hurt, env.sets) /\ p \in Servers
    BY <1>1, <1>2, <2>1 DEF OneServer, Alone, TypeOK
  <2>3. ~hurt' => ~hurt /\ pc[p] \notin Mirroring
    BY <1>2, <2>2
  <2>4. InStep("idle", db, files, hurt')
    BY <2>2, <2>3 DEF One, InStep
  <2>5. QED
    BY <2>2, <2>4 DEF One, Loaded, Followed, Mirroring
<1>7. RequestsFine' /\ Audited' /\ Tidy'
  BY <1>1, <1>2 DEF RequestsFine, Audited, Tidy
<1>8. QED
  BY <1>4, <1>5, <1>6, <1>7 DEF IndexInv
-----------------------------------------------------------------------------
(* A job commits only embeddings of chunks it has found.                   *)
CommitFits(p) == pc[p] = "commit" => work[p].index.emb \subseteq work[p].chunks

CommitsFit == \A p \in Servers : CommitFits(p)

LEMMA GotoFits ==
  ASSUME TypeOK, CommitsFit, NEW p \in Servers, NEW l, NEW w, Goto(p, l, w),
         l = "commit" => w.index.emb \subseteq w.chunks
  PROVE  CommitsFit'
<1>1. /\ pc'[p] = l /\ work'[p] = w
      /\ \A q \in Servers \ {p} : pc'[q] = pc[q] /\ work'[q] = work[q]
  BY DEF TypeOK, Goto
<1>2. QED
  BY <1>1 DEF CommitsFit, CommitFits

LEMMA JobFits ==
  ASSUME TypeOK, CommitsFit, NEW p \in servers, Job(p)
  PROVE  CommitsFit'
<1>1. p \in Servers
  BY DEF TypeOK
<1>2. ASSUME NEW l, NEW w, Goto(p, l, w), l # "commit"
      PROVE  CommitsFit'
  BY <1>1, <1>2, GotoFits
<1>3. ASSUME Idle(p)
      PROVE  CommitsFit'
  BY <1>2, <1>3 DEF Idle
<1>4. ASSUME NEW d, NEW w, Committed(p, d, w)
      PROVE  CommitsFit'
  BY <1>2, <1>4 DEF Committed
<1>5. CASE \E op \in {"index", "rebuild"} : Scan(p, op)
  BY <1>2, <1>5 DEF Scan
<1>6. CASE Load(p)
  <2>1. work[p] \in Jobs /\ Existing \in Snapshots
    BY <1>1, <1>6, ExistingType DEF Load, TypeOK
  <2>2. CASE work[p].op = "index"
    BY <1>2, <1>6, <2>2 DEF Load
  <2>3. CASE work[p].op # "index"
    <3> DEFINE R == Retained(Existing, work[p].chunks)
               w == [work[p] EXCEPT !.index = R]
    <3>1. R.emb \subseteq work[p].chunks
      BY DEF Retained
    <3>2. Goto(p, "commit", w)
      BY <1>6, <2>3 DEF Load
    <3> HIDE DEF R
    <3>3. w.index.emb \subseteq w.chunks
      BY <2>1, <3>1 DEF Jobs
    <3> HIDE DEF w
    <3>4. QED
      BY <1>1, <3>2, <3>3, GotoFits
  <2>4. QED
    BY <2>2, <2>3
<1>7. CASE Embed(p)
  <2> DEFINE I == Embedded(work[p].index, work[p].chunks)
             w == [work[p] EXCEPT !.index = I]
  <2>1. work[p] \in Jobs
    BY <1>1, <1>7 DEF Embed, TypeOK
  <2>2. I.emb \subseteq work[p].chunks
    BY <2>1 DEF Embedded, Jobs, Snapshots
  <2>3. Goto(p, "commit", w)
    BY <1>7 DEF Embed
  <2> HIDE DEF I
  <2>4. w.index.emb \subseteq w.chunks
    BY <2>1, <2>2 DEF Jobs
  <2> HIDE DEF w
  <2>5. QED
    BY <1>1, <2>3, <2>4, GotoFits
<1>8. CASE Commit(p) \/ Insert(p) \/ ReviewOne(p) \/ ReviewSet(p) \/ Import(p)
  BY <1>4, <1>8 DEF Commit, Insert, ReviewOne, ReviewSet, Import, AcceptImported, Decide
<1>9. CASE Similar(p) \/ Search
  BY <1>2, <1>9 DEF Similar, Search, job, CommitsFit, CommitFits
<1>10. CASE Refused(p) \/ Fail(p) \/ Mark(p)
  BY <1>3, <1>10 DEF Refused, Fail, Mark
<1>11. CASE Reload(p) \/ SaveEmbeddings(p) \/ SaveSuggestions(p)
  BY <1>2, <1>11 DEF Reload, SaveEmbeddings, SaveSuggestions
<1>12. QED
  BY <1>5, <1>6, <1>7, <1>8, <1>9, <1>10, <1>11 DEF Job

LEMMA FitsNext ==
  ASSUME TypeOK, CommitsFit, [IndexNext]_<<indexVars, applyVars>>
  PROVE  CommitsFit'
<1>1. CASE \E p \in servers : Job(p)
  BY <1>1, JobFits
<1>2. CASE UNCHANGED job
  BY <1>2 DEF job, CommitsFit, CommitFits
<1>3. CASE Crash
  BY <1>3 DEF Crash, CommitsFit, CommitFits
<1>4. CASE \E a \in Applies : Apply(a)
  BY <1>2, <1>4 DEF Apply, Collect, Read, Replace, Record, Done, Skip, indexVars
<1>5. QED
  BY <1>1, <1>2, <1>3, <1>4 DEF IndexNext, Lose, Person, Edit, indexVars

LEMMA FitsInit == IndexInit => CommitsFit
  BY DEF IndexInit, CommitsFit, CommitFits

\* What fits the chunks is sound beside any database that was opened.
LEMMA SyncedSound ==
  ASSUME TypeOK, Stored(db), NEW w \in Jobs, w.index.emb \subseteq w.chunks
  PROVE  Sound(Synced(Opened, w.chunks, w.index))
<1> DEFINE live == {s \in DOMAIN w.index.sug : Ends(s) \subseteq w.chunks}
           S    == Synced(Opened, w.chunks, w.index)
<1>1. w.index \in Snapshots /\ w.index.sug \in Reviews
  BY DEF Jobs, Snapshots
<1>2. DOMAIN Restrict(w.index.sug, live) = live
  BY <1>1, RestrictedReview
<1>3. /\ S.emb = w.index.emb /\ S.chunks = w.chunks /\ S.sug = Restrict(w.index.sug, live)
      /\ S.sets = Opened.sets \cup {s.set : s \in live}
      /\ S.applied = Opened.applied \cap live
  BY DEF Synced
<1>4. \A s \in live : Ends(s) \subseteq w.chunks /\ s.set \in S.sets
  BY <1>3
<1> HIDE DEF live, S
<1>5. Sound(S)
  BY <1>2, <1>3, <1>4 DEF Sound
<1>6. QED
  BY <1>5 DEF S
-----------------------------------------------------------------------------
LEMMA InvNext == IndexInv /\ [IndexNext]_<<indexVars, applyVars>> => IndexInv'
<1> SUFFICES ASSUME IndexInv, [IndexNext]_<<indexVars, applyVars>>
             PROVE  IndexInv'
  OBVIOUS
<1>1. CASE \E p \in servers : Job(p) /\ UNCHANGED applyVars
  BY <1>1, JobKeepsAll
<1>2. CASE Running = {} /\ Lose /\ UNCHANGED applyVars
  BY <1>2, LoseKeeps
<1>3. CASE \E d \in Docs : Person(d)
  BY <1>3, EditKeeps
<1>4. CASE \E a \in Applies : Apply(a)
  BY <1>4, CollectKeeps, ReadKeeps, ReplaceKeeps, RecordKeeps, DoneKeeps, SkipKeeps DEF Apply
<1>5. CASE Crash
  BY <1>5, CrashKeeps
<1>6. CASE UNCHANGED <<indexVars, applyVars>>
  BY <1>6 DEF indexVars, applyVars, job, IndexInv, TypeOK, StoreOK, OneServer, Alone,
              RequestsFine, Audited, Tidy
<1>7. QED
  BY <1>1, <1>2, <1>3, <1>4, <1>5, <1>6 DEF IndexNext

(* The inductive invariant: what a job holds between its steps agrees with *)
(* the database, with the mirror and with the decisions there are, and     *)
(* what a request holds agrees with the documents.                         *)
THEOREM IndexInvariance == ApplySpec => []IndexInv
<1>1. QED
  BY InvInit, InvNext, PTL DEF ApplySpec

(* For any number of servers that share an index, whatever they loaded     *)
(* before people changed documents or another server committed, the        *)
(* triggers of the schema and sqlite_integrity_violations end no job that  *)
(* reaches its commit; a review set can come too late only beside another  *)
(* server.                                                                 *)
THEOREM JobsAreNeverRefused == ApplySpec => []NeverRefused
<1>1. IndexInit /\ ApplyInit => CommitsFit
  BY FitsInit
<1>2. IndexInv /\ CommitsFit /\ [IndexNext]_<<indexVars, applyVars>> => CommitsFit'
  BY FitsNext DEF IndexInv
<1>3. IndexInv /\ CommitsFit => NeverRefused
  <2>1. SUFFICES ASSUME IndexInv, CommitsFit, NEW p \in servers
                 PROVE  /\ pc[p] = "commit" => Sound(Synced(Opened, work[p].chunks, work[p].index))
                        /\ Alone /\ pc[p] = "insert" => work[p].index.emb \subseteq db.chunks
    BY DEF NeverRefused
  <2>2. TypeOK /\ p \in Servers /\ Stored(db)
    BY <2>1 DEF IndexInv, TypeOK, StoreOK
  <2>3. ASSUME pc[p] = "commit"
        PROVE  Sound(Synced(Opened, work[p].chunks, work[p].index))
    <3>1. work[p] \in Jobs /\ work[p].index.emb \subseteq work[p].chunks
      BY <2>1, <2>2, <2>3 DEF TypeOK, CommitsFit, CommitFits
    <3>2. QED
      BY <2>2, <3>1, SyncedSound
  <2>4. ASSUME Alone, pc[p] = "insert"
        PROVE  work[p].index.emb \subseteq db.chunks
    <3>1. db # Missing /\ work[p].index.emb = db.emb
      BY <2>1, <2>4 DEF IndexInv, OneServer, One, Loaded
    <3>2. Sound(db)
      BY <2>2, <3>1 DEF Stored
    <3>3. QED
      BY <3>1, <3>2 DEF Sound
  <2>5. QED
    BY <2>3, <2>4
<1>4. QED
  BY <1>1, <1>2, <1>3, IndexInvariance, PTL DEF ApplySpec

(* The database never holds what sqlite_integrity_violations reports, for  *)
(* any number of servers that share it.                                    *)
THEOREM DatabaseIsSound == ApplySpec => []SqliteSound
<1>1. IndexInv => SqliteSound
  BY DEF IndexInv, StoreOK, Stored, SqliteSound
<1>2. QED
  BY <1>1, IndexInvariance, PTL

(* With one server, a decision it acknowledged (set_suggestion_status,     *)
(* set_review_set_status, accept_imported_suggestions) is in the index     *)
(* that the next job loads, after any failures and losses.                 *)
THEOREM DecisionsAreKept == ApplySpec => []DecisionsStick
<1>1. IndexInv => DecisionsStick
  <2>1. SUFFICES ASSUME IndexInv, Alone
                 PROVE  \A s \in DOMAIN acked : s \in DOMAIN Existing.sug /\ Existing.sug[s] = acked[s]
    BY DEF DecisionsStick
  <2>2. PICK p : servers = {p}
    <3>1. IsFiniteSet(servers)
      BY <2>1, IndexConstants, FS_Subset DEF IndexInv, TypeOK
    <3>2. QED
      BY <2>1, <3>1, FS_Singleton DEF Alone
  <2>3. Durable(db, files, acked, env.sets)
    BY <2>1, <2>2 DEF IndexInv, OneServer, One
  <2>4. Kept(acked, Existing.sug, Existing.emb)
    BY <2>1, <2>3, ExistingKept DEF IndexInv, StoreOK
  <2>5. QED
    BY <2>4 DEF Kept
<1>2. QED
  BY <1>1, IndexInvariance, PTL

(* With one server, inspect_index_integrity finds the mirror in step with  *)
(* the database between jobs, unless a mirroring step failed since it was  *)
(* last complete.                                                          *)
THEOREM MirrorFollows == ApplySpec => []HealthyUnlessHurt
<1>1. IndexInv => HealthyUnlessHurt
  <2>1. SUFFICES ASSUME IndexInv, Alone, \A p \in Servers : pc[p] = "idle", ~hurt,
                        db = Missing \/ db.gen > 0
                 PROVE  ~RecoveryRequired
    BY DEF HealthyUnlessHurt
  <2>2. PICK p : servers = {p}
    <3>1. IsFiniteSet(servers)
      BY <2>1, IndexConstants, FS_Subset DEF IndexInv, TypeOK
    <3>2. QED
      BY <2>1, <3>1, FS_Singleton DEF Alone
  <2>3. pc[p] = "idle"
    BY <2>1, <2>2 DEF IndexInv, TypeOK
  <2>4. InStep("idle", db, files, FALSE)
    BY <2>1, <2>2, <2>3 DEF IndexInv, OneServer, One, TypeOK, InStep
  <2>5. /\ db = Missing => files = Blank
        /\ db # Missing => files.emb = db.emb /\ files.sug = db.sug /\ files.marker = db.gen
    BY <2>1, <2>4 DEF InStep, Mirroring
  <2>6. db # Missing => Sound(db)
    BY <2>1 DEF IndexInv, StoreOK, Stored
  <2>7. QED
    BY <2>5, <2>6 DEF RecoveryRequired, SnapshotsMatch, Content, Blank
<1>2. QED
  BY <1>1, IndexInvariance, PTL

(* No interleaving of requests, jobs, edits and crashes makes              *)
(* merge_relations_into_frontmatter write a relation twice.                *)
THEOREM NothingIsAddedTwice == ApplySpec => []AppliedOnce
<1>1. IndexInv => AppliedOnce
  BY DEF IndexInv, Tidy, Fit, AppliedOnce
<1>2. QED
  BY <1>1, IndexInvariance, PTL

(* What record_applied_relations records is in its document, or a person   *)
(* took it out, or a request wrote the document that had read it before    *)
(* the relation was there.                                                 *)
THEOREM AuditIsBacked == ApplySpec => []AuditIsTrue
<1>1. IndexInv => AuditIsTrue
  BY DEF IndexInv, Audited, Written, AuditIsTrue
<1>2. QED
  BY <1>1, IndexInvariance, PTL
=============================================================================

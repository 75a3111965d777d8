----------------------- MODULE InitTransactionProofs ------------------------
(***************************************************************************)
(* What InitTransaction guarantees for every number of files, roots,       *)
(* servers, proposals, edits, crashes and faults; and at the end that it   *)
(* implements AtomicInit.                                                  *)
(***************************************************************************)
EXTENDS InitTransaction, TLAPS

\* The values of the next type-correct state that the steps build.
LEMMA ContentTypes ==
  /\ Missing \in Content
  /\ \A id \in Ids, c \in Content : Generated(id, c) \in Content
BY DEF Missing, Content, Generated

LEMMA BeforeType ==
  ASSUME TypeOK, NEW id \in Ids, NEW i \in Files
  PROVE  /\ Before(id, i) \in Content
         /\ After(id, i) \in Content
BY ContentTypes DEF TypeOK, Snapshot, Before, After

LEMMA ScanType ==
  ASSUME TypeOK, NEW r \in Roots
  PROVE  Scan(r) \in Snapshot
<1>1. [i \in Files |-> IF RootOf[i] = r THEN tree[i] ELSE Missing] \in [Files -> Content]
  BY ContentTypes DEF TypeOK
<1>2. Temporaries(r) \in SUBSET Files
  BY DEF Temporaries, FilesOf
<1> QED
  BY <1>1, <1>2 DEF Scan, Snapshot

-----------------------------------------------------------------------------
LEMMA InitType == Init => TypeOK
<1> SUFFICES ASSUME Init PROVE TypeOK
  OBVIOUS
<1>1. EmptySnapshot \in Snapshot
  BY InitConstants, ContentTypes DEF EmptySnapshot, Snapshot
<1>2. tree \in [Files -> Content] /\ text \in [Files -> Texts \cup {Absent}]
  BY DEF Init, Untouched, Raw, Content
<1>3. next \in 1..(MaxProposals + 1)
  BY InitConstants DEF Init
<1>4. at \in [Servers -> 0..(FileCount + 1)]
  BY InitConstants DEF Init
<1> QED
  BY <1>1, <1>2, <1>3, <1>4
  DEF Init, Untouched, TypeOK, DirStatus, Pc, Outside, Idle, Nobody

-----------------------------------------------------------------------------
\* The control state of server t is what it was.
Stays(t) == /\ pc'[t] = pc[t] /\ at'[t] = at[t] /\ cur'[t] = cur[t]
            /\ tgt'[t] = tgt[t] /\ why'[t] = why[t] /\ prop'[t] = prop[t]
            /\ last'[t] = last[t]

\* The proposals that were built stay as they are.
KeepsProposals == /\ next <= next'
                  /\ \A id \in Ids : id < next => snap'[id] = snap[id]

LEMMA OthersOutside ==
  ASSUME IInv, NEW s \in Servers, lock = s, lock' \in {s, Free},
         committed \subseteq committed', UNCHANGED proposals,
         NEW t \in Servers, t # s, Stays(t)
  PROVE  Local(t)'
<1>1. pc[t] \in Outside /\ Local(t) /\ lock' # t
  BY ProtocolConstants DEF IInv, Local, Locking
<1>2. pc[t] \in {"up", "down", "waiting"}
  BY <1>1 DEF Outside, Idle
<1>3. Locking(t)'
  BY <1>1 DEF Locking, Stays
<1>4. Handling(t)'
  BY <1>1, <1>2 DEF Local, Handling, Stays, proposals, Idle, Entries, Before
<1>5. Directory(t)'
  BY <1>2 DEF Directory, Stays, Preparing, Applying
<1>6. Unwinding(t)'
  BY <1>2 DEF Unwinding, Stays
<1>7. Window(t)'
  BY <1>2 DEF Window, Stays
<1>8. Progress(t)'
  BY <1>2 DEF Progress, Stays
<1> QED
  BY <1>3, <1>4, <1>5, <1>6, <1>7, <1>8 DEF Local

LEMMA OthersQuiet ==
  ASSUME IInv, NEW t \in Servers, Stays(t), UNCHANGED <<tree, dir, committed, edited>>,
         lock' = t <=> lock = t, KeepsProposals, next \in Nat, next' \in Nat
  PROVE  Local(t)'
<1>1. Local(t) /\ TypeOK
  BY DEF IInv
<1>a. cur[t] < next /\ tgt[t] < next /\ prop[t] < next /\ {cur[t], tgt[t], prop[t]} \subseteq Nat
  BY <1>1, InitConstants DEF Local, Handling, TypeOK, Ids, Nobody
<1>2. \A id \in {cur[t], tgt[t]} : id \in Ids => snap'[id] = snap[id]
  BY <1>a DEF KeepsProposals
<1>3. Locking(t)'
  BY <1>1 DEF Local, Locking, Stays
<1>4. Handling(t)'
  BY <1>1, <1>2, <1>a DEF Local, Handling, Stays, KeepsProposals, Entries, Before
<1>5. Directory(t)'
  BY <1>1 DEF Local, Directory, Stays
<1>6. Unwinding(t)'
  BY <1>1, <1>2 DEF Local, Unwinding, Stays, Entries, Before, Pending
<1>7. Window(t)'
  <2>1. pc[t] = "replacing" => cur[t] \in Ids
    BY <1>1 DEF Local, Handling, Idle
  <2>2. pc[t] = "restoring" => tgt[t] \in Ids
    BY <1>1 DEF Local, Unwinding
  <2> QED
    BY <1>1, <1>2, <2>1, <2>2 DEF Local, Window, Stays, Entries, Before, AsReviewed, After
<1>8. Progress(t)'
  BY <1>1, <1>2 DEF Local, Progress, Stays, Entries, Before, AsReviewed, After
<1> QED
  BY <1>3, <1>4, <1>5, <1>6, <1>7, <1>8 DEF Local

LEMMA SharedQuiet ==
  ASSUME IInv, UNCHANGED <<tree, dir, committed, text>>,
         edited' = edited \/ \A id \in Ids : dir[id] = "none",
         KeepsProposals, next \in Nat, next' \in Nat
  PROVE  Shared'
<1>1. Shared /\ TypeOK
  BY DEF IInv
<1>2. OneDirectory'
  BY <1>1 DEF Shared, OneDirectory
<1>3. Numbered'
  <2>1. \A i \in Files : tree[i].by \in Nat
    BY <1>1 DEF TypeOK, Content, Ids, Nobody
  <2> QED
    BY <1>1, <2>1, InitConstants DEF Shared, Numbered, KeepsProposals, Ids
<1>4. NoOrphanMetadata'
  BY <1>1 DEF Shared, NoOrphanMetadata, Pending
<1>5. AsPlanned'
  <2>1. \A i \in Files : tree[i].by # Nobody => tree[i].by \in Ids /\ tree[i].by < next
    BY <1>1 DEF TypeOK, Content, Shared, Numbered
  <2>2. \A i \in Files : tree[i].by # Nobody => snap'[tree[i].by] = snap[tree[i].by]
    BY <2>1 DEF KeepsProposals
  <2> QED
    BY <1>1, <2>2 DEF Shared, AsPlanned, Entries, Before
<1>6. RacyEditor \/ NoLostText'
  BY <1>1 DEF Shared, NoLostText
<1>7. Unwindable'
  <2> SUFFICES ASSUME NEW id \in Ids, Pending(id), NEW i \in Entries(id)', i \notin edited'
               PROVE  tree[i] \in {Before(id, i)', After(id, i)'}
    BY DEF Unwindable, Pending
  <2>1. dir[id] # "none" /\ edited' = edited
    BY DEF Pending
  <2>2. id < next /\ snap'[id] = snap[id]
    BY <1>1, <2>1 DEF Shared, Numbered, KeepsProposals
  <2>3. i \in Entries(id) \ edited
    BY <2>1, <2>2 DEF Entries, Before
  <2> QED
    BY <1>1, <2>2, <2>3 DEF Shared, Unwindable, Before, After
<1> QED
  BY <1>2, <1>3, <1>4, <1>5, <1>6, <1>7 DEF Shared


\* What a returning confirmation knows.
LEMMA Returned ==
  ASSUME IInv, NEW s \in Servers, NEW result \in {"ok", "failed"},
         pc[s] \notin Outside, Return(s, result),
         prop'[s] \in {prop[s], Nobody}, cur' = cur, committed \subseteq committed',
         UNCHANGED proposals,
         result = "ok" => cur[s] \in committed \/ Entries(cur[s]) = {}
  PROVE  Local(s)'
<1>1. Local(s) /\ TypeOK
  BY DEF IInv
<1>2. /\ pc'[s] = "up" /\ at'[s] = 0 /\ tgt'[s] = Nobody /\ why'[s] = "recover"
      /\ last'[s] = result /\ lock' = Free
  BY <1>1 DEF Return, Goto, TypeOK
<1>3. cur[s] \in Ids /\ cur[s] < next /\ prop[s] < next /\ next \in Nat /\ next > Nobody
  BY <1>1, InitConstants DEF Local, Handling, TypeOK, Idle, Outside, Nobody
<1>4. Locking(s)'
  BY <1>2, ProtocolConstants DEF Locking, Outside, Idle
<1>5. Handling(s)'
  BY <1>2, <1>3 DEF Handling, Idle, proposals, Entries, Before
<1>6. Directory(s)'
  BY <1>2 DEF Directory, Preparing, Applying
<1>7. Unwinding(s)'
  BY <1>2 DEF Unwinding
<1>8. Window(s)'
  BY <1>2 DEF Window
<1>9. Progress(s)'
  BY <1>2 DEF Progress
<1> QED
  BY <1>4, <1>5, <1>6, <1>7, <1>8, <1>9 DEF Local

\* What the invariant says of the holder of the lock.
LEMMA Insider ==
  ASSUME IInv, NEW s \in Servers, pc[s] \notin Outside
  PROVE  /\ TypeOK /\ Shared /\ Local(s) /\ lock = s
         /\ cur[s] \in Ids /\ cur[s] < next /\ prop[s] < next /\ next \in Nat
         /\ prop[s] \in Nat /\ tgt[s] < next /\ Nobody < next
BY InitConstants DEF IInv, Local, Locking, Handling, TypeOK, Outside, Idle, Ids, Nobody

LEMMA RecoverKeeps ==
  ASSUME IInv, NEW s \in Servers, Recover(s)
  PROVE  IInv'
<1>1. pc[s] = "recovering" /\ TypeOK /\ Shared /\ Local(s) /\ lock = s
  BY Insider DEF Recover, Outside, Idle
<1>2. UNCHANGED <<disk, ghosts, proposals, cur, prop, env>>
  BY DEF Recover
<1>3. cur[s] \in Ids /\ cur[s] < next /\ prop[s] < next /\ next \in Nat
  BY <1>1, Insider DEF Outside, Idle
<1>4. Shared'
  BY <1>2, <1>3, SharedQuiet DEF disk, ghosts, proposals, KeepsProposals
<1>5. ASSUME NEW t \in Servers, t # s
      PROVE  Local(t)'
  <2>1. Stays(t) /\ lock' \in {s, Free}
    BY <1>1, <1>5 DEF Recover, Stays, Return, Target, Goto, TypeOK
  <2> QED
    BY <1>1, <1>2, <1>5, <2>1, OthersOutside DEF ghosts
<1>6. CASE \E id \in Ids : dir[id] = "bare" /\ Return(s, "failed")
  <2>1. Local(s)'
    BY <1>1, <1>2, <1>6, Returned DEF Outside, Idle, ghosts
  <2>2. TypeOK'
    BY <1>1, <1>2, <1>6, InitConstants DEF TypeOK, Return, Goto, disk, ghosts, proposals, Pc, Outside, Idle, Ids, Nobody
  <2> QED
    BY <1>4, <1>5, <2>1, <2>2 DEF IInv
<1>7. CASE /\ \A id \in Ids : dir[id] = "none"
           /\ Goto(s, "revalidating")
           /\ UNCHANGED <<lock, at, tgt, why, last>>
  <2>1. pc'[s] = "revalidating"
    BY <1>1, <1>7 DEF TypeOK, Goto
  <2>2. TypeOK'
    BY <1>1, <1>2, <1>7, <2>1 DEF TypeOK, Goto, disk, ghosts, proposals, Pc
  <2>3. Locking(s)' /\ Handling(s)' /\ Unwinding(s)' /\ Window(s)' /\ Progress(s)'
    BY <1>1, <1>2, <1>7, <2>1 DEF Local, Locking, Handling, Unwinding, Window, Progress, Outside, Idle, disk, ghosts, proposals, Entries, Before
  <2>4. Directory(s)'
    BY <1>1, <1>2, <1>7, <2>1 DEF TypeOK, Content, Shared, NoOrphanMetadata, Pending, Directory, disk, ghosts, Preparing, Applying
  <2> QED
    BY <1>4, <1>5, <2>2, <2>3, <2>4 DEF IInv, Local
<1>8. ASSUME NEW id \in Ids, dir[id] = "committed", Target(s, id, "recover"),
             Goto(s, "removing"), UNCHANGED <<lock, at, last>>
      PROVE  IInv'
  <2>1. pc'[s] = "removing" /\ tgt'[s] = id /\ why'[s] = "recover" /\ id < next
    BY <1>1, <1>8 DEF TypeOK, Goto, Target, Shared, Numbered
  <2>2. TypeOK'
    BY <1>1, <1>2, <1>8, <2>1 DEF TypeOK, Goto, Target, disk, ghosts, proposals, Pc, Recovery
  <2>3. Local(s)'
    BY <1>1, <1>2, <1>8, <2>1 DEF Local, Locking, Handling, Directory, Unwinding, Window, Progress, Outside, Idle, Preparing, Applying, disk, ghosts, proposals, Entries, Before
  <2> QED
    BY <1>4, <1>5, <2>2, <2>3 DEF IInv
<1>9. ASSUME NEW id \in Ids, dir[id] \in {"prepared", "applying"}, Target(s, id, "recover"),
             at' = [at EXCEPT ![s] = FileCount],
             Goto(s, "undoing"), UNCHANGED <<lock, last>>
      PROVE  IInv'
  <2>1. pc'[s] = "undoing" /\ tgt'[s] = id /\ why'[s] = "recover" /\ id < next /\ at'[s] = FileCount
    BY <1>1, <1>9 DEF TypeOK, Goto, Target, Shared, Numbered
  <2>2. TypeOK'
    BY <1>1, <1>2, <1>9, <2>1, InitConstants DEF TypeOK, Goto, Target, disk, ghosts, proposals, Pc, Recovery
  <2>3. Local(s)'
    BY <1>1, <1>2, <1>9, <2>1, InitConstants DEF Local, Locking, Handling, Directory, Unwinding, Window, Progress, Outside, Idle, Preparing, Applying, disk, ghosts, proposals, Entries, Before, Files, Pending
  <2> QED
    BY <1>4, <1>5, <2>2, <2>3 DEF IInv
<1> QED
  BY <1>6, <1>7, <1>8, <1>9 DEF Recover

LEMMA UndoKeeps ==
  ASSUME IInv, NEW s \in Servers, Undo(s)
  PROVE  IInv'
<1> DEFINE id == tgt[s]
           i  == at[s]
<1>1. pc[s] = "undoing" /\ TypeOK /\ Shared /\ Local(s) /\ lock = s
  BY Insider DEF Undo, Outside, Idle
<1>2. UNCHANGED <<disk, ghosts, proposals, cur, prop, env>>
  BY DEF Undo
<1>3. /\ cur[s] \in Ids /\ cur[s] < next /\ prop[s] < next /\ next \in Nat
      /\ id \in Ids /\ id # Nobody /\ Pending(id) /\ i \in Files \cup {0}
      /\ \A j \in Files : j > i => tree[j].by # id
  <2>1. /\ id \in Ids /\ Pending(id) /\ i <= FileCount
        /\ \A j \in Files : j > i => tree[j].by # id
    BY <1>1 DEF Local, Unwinding
  <2>2. i \in 0..(FileCount + 1)
    BY <1>1 DEF TypeOK
  <2> QED
    BY <1>1, <2>1, <2>2, Insider, InitConstants DEF Outside, Idle, Files, Ids, Nobody
<1>4. Shared'
  BY <1>2, <1>3, SharedQuiet DEF disk, ghosts, proposals, KeepsProposals
<1>5. ASSUME NEW t \in Servers, t # s
      PROVE  Local(t)'
  <2>1. Stays(t) /\ lock' \in {s, Free}
    BY <1>1, <1>5 DEF Undo, Stays, Return, Goto, TypeOK
  <2> QED
    BY <1>1, <1>2, <1>5, <2>1, OthersOutside DEF ghosts
<1>6. CASE i = 0 /\ Goto(s, "removing") /\ UNCHANGED <<lock, at, tgt, why, last>>
  <2>1. pc'[s] = "removing" /\ \A j \in Files : tree[j].by # id
    BY <1>1, <1>3, <1>6 DEF TypeOK, Goto, Files
  <2>2. TypeOK'
    BY <1>1, <1>2, <1>6 DEF TypeOK, Goto, disk, ghosts, proposals, Pc, Recovery
  <2>3. Local(s)'
    BY <1>1, <1>2, <1>3, <1>6, <2>1 DEF Local, Locking, Handling, Directory, Unwinding, Window, Progress, Outside, Idle, Preparing, Applying, disk, ghosts, proposals, Entries, Before, Pending
  <2> QED
    BY <1>4, <1>5, <2>2, <2>3 DEF IInv
<1>7. CASE /\ i > 0
           /\ i \in Entries(id) => AsReviewed(id, i)
           /\ at' = [at EXCEPT ![s] = i - 1]
           /\ UNCHANGED <<lock, pc, tgt, why, last>>
  <2>1. at'[s] = i - 1 /\ i \in Files
    BY <1>1, <1>3, <1>7 DEF TypeOK, Files
  <2>2. tree[i].by # id
    BY <1>1, <1>3, <1>7, <2>1 DEF Shared, AsPlanned, AsReviewed, Entries, NeedsChange
  <2>3. \A j \in Files : j > i - 1 => tree[j].by # id
    BY <1>3, <2>1, <2>2, InitConstants DEF Files
  <2>4. TypeOK'
    BY <1>1, <1>2, <1>3, <1>7, InitConstants DEF TypeOK, disk, ghosts, proposals, Files
  <2>5. Local(s)'
    BY <1>1, <1>2, <1>3, <1>7, <2>1, <2>3, InitConstants DEF Local, Locking, Handling, Directory, Unwinding, Window, Progress, Outside, Idle, Preparing, Applying, disk, ghosts, proposals, Entries, Before, Pending, Files
  <2> QED
    BY <1>4, <1>5, <2>4, <2>5 DEF IInv
<1>8. CASE /\ i \in Entries(id)
           /\ tree[i] = After(id, i)
           /\ Goto(s, "restoring")
           /\ UNCHANGED <<lock, at, tgt, why, last>>
  <2>1. pc'[s] = "restoring"
    BY <1>1, <1>8 DEF TypeOK, Goto
  <2>2. TypeOK'
    BY <1>1, <1>2, <1>8 DEF TypeOK, Goto, disk, ghosts, proposals, Pc, Recovery
  <2>3. Local(s)'
    BY <1>1, <1>2, <1>3, <1>8, <2>1 DEF Local, Locking, Handling, Directory, Unwinding, Window, Progress, Outside, Idle, Preparing, Applying, disk, ghosts, proposals, Entries, Before, After, Pending
  <2> QED
    BY <1>4, <1>5, <2>2, <2>3 DEF IInv
<1>9. CASE Return(s, "failed")
  <2>1. Local(s)'
    BY <1>1, <1>2, <1>9, Returned DEF Outside, Idle, ghosts
  <2>2. TypeOK'
    BY <1>1, <1>2, <1>9, InitConstants DEF TypeOK, Return, Goto, disk, ghosts, proposals, Pc, Outside, Idle, Ids, Nobody
  <2> QED
    BY <1>4, <1>5, <2>1, <2>2 DEF IInv
<1> QED
  BY <1>6, <1>7, <1>8, <1>9 DEF Undo

\* Giving a file its reviewed bytes, or its staged ones, keeps what is shared.
LEMMA WritesShared ==
  ASSUME IInv, NEW id \in Ids, NEW i \in Entries(id), NEW c,
         c \in {Before(id, i), After(id, i)},
         RacyEditor \/ c.text = tree[i].text,
         Pending(id),
         tree' = [tree EXCEPT ![i] = c],
         UNCHANGED <<dir, committed, edited, text, proposals>>
  PROVE  Shared'
<1>1. TypeOK /\ Shared /\ i \in Files /\ tree'[i] = c /\ \A j \in Files : j # i => tree'[j] = tree[j]
  BY DEF IInv, Entries, FilesOf, TypeOK
<1>2. next \in Nat /\ Nobody < next /\ (Pending(id) => id < next)
  BY <1>1, InitConstants DEF TypeOK, Pending, Shared, Numbered, Nobody
<1>3. c.by \in {id, Nobody} /\ (c.by = id => Pending(id))
  BY DEF Before, After, Generated, Entries, NeedsChange, Ids, Nobody
<1>4. OneDirectory'
  BY <1>1 DEF Shared, OneDirectory
<1>5. Numbered'
  BY <1>1, <1>2, <1>3 DEF Shared, Numbered, proposals, Pending
<1>6. NoOrphanMetadata'
  BY <1>1, <1>3 DEF Shared, NoOrphanMetadata, Pending
<1>7. AsPlanned'
  BY <1>1, <1>3 DEF Shared, AsPlanned, Entries, Before, proposals
<1>8. RacyEditor \/ NoLostText'
  BY <1>1 DEF Shared, NoLostText
<1>9. Unwindable'
  <2> SUFFICES ASSUME NEW q \in Ids, Pending(q), NEW j \in Entries(q), j \notin edited
               PROVE  tree'[j] \in {Before(q, j), After(q, j)}
    BY DEF Unwindable, Pending, Entries, Before, After, proposals
  <2>1. q = id
    BY <1>1 DEF Shared, OneDirectory, Pending
  <2>2. j \in Files
    BY DEF Entries, FilesOf
  <2>3. CASE j = i
    BY <1>1, <2>1, <2>3
  <2>4. CASE j # i
    BY <1>1, <2>2, <2>4 DEF Shared, Unwindable
  <2> QED
    BY <2>3, <2>4
<1> QED
  BY <1>4, <1>5, <1>6, <1>7, <1>8, <1>9 DEF Shared

LEMMA RestoreKeeps ==
  ASSUME IInv, NEW s \in Servers, Restore(s)
  PROVE  IInv'
<1> DEFINE id == tgt[s]
           i  == at[s]
<1>1. pc[s] = "restoring" /\ TypeOK /\ Shared /\ Local(s) /\ lock = s
  BY Insider DEF Restore, Outside, Idle
<1>2. /\ UNCHANGED <<litter, dir, ghosts, lock, proposals, cur, tgt, why, prop, last, env>>
      /\ tree' = [tree EXCEPT ![i] = Before(id, i)]
      /\ at' = [at EXCEPT ![s] = i - 1]
      /\ pc' = [pc EXCEPT ![s] = "undoing"]
  BY DEF Restore, Goto
<1>3. /\ cur[s] \in Ids /\ cur[s] < next /\ prop[s] < next /\ next \in Nat
      /\ id \in Ids /\ id # Nobody /\ Pending(id) /\ i \in Entries(id) /\ i \in Files
      /\ \A j \in Files : j > i => tree[j].by # id
  <2>1. /\ id \in Ids /\ Pending(id) /\ i \in Entries(id)
        /\ \A j \in Files : j > i => tree[j].by # id
    BY <1>1 DEF Local, Unwinding
  <2> QED
    BY <1>1, <2>1, Insider DEF Outside, Idle, Ids, Nobody, Entries, FilesOf
<1>4. RacyEditor \/ Before(id, i).text = tree[i].text
  BY <1>1 DEF Local, Window, After, Generated
<1>5. Shared'
  BY <1>2, <1>3, <1>4, WritesShared DEF ghosts
<1>6. ASSUME NEW t \in Servers, t # s
      PROVE  Local(t)'
  <2>1. Stays(t)
    BY <1>1, <1>2, <1>6 DEF Stays, TypeOK
  <2> QED
    BY <1>1, <1>2, <1>6, <2>1, OthersOutside DEF ghosts
<1>7. TypeOK'
  <2>1. Before(id, i) \in Content
    BY <1>1, <1>3, BeforeType
  <2> QED
    BY <1>1, <1>2, <1>3, <2>1, InitConstants DEF TypeOK, ghosts, proposals, Pc, Recovery, Files
<1>8. Local(s)'
  <2>1. pc'[s] = "undoing" /\ at'[s] = i - 1
    BY <1>1, <1>2 DEF TypeOK
  <2>2. \A j \in Files : j > i - 1 => tree'[j].by # id
    BY <1>1, <1>2, <1>3, InitConstants DEF TypeOK, Files, Entries, NeedsChange
  <2> QED
    BY <1>1, <1>2, <1>3, <2>1, <2>2, InitConstants DEF Local, Locking, Handling, Directory, Unwinding, Window, Progress, Outside, Idle, Preparing, Applying, ghosts, proposals, Entries, Before, Pending, Files
<1> QED
  BY <1>5, <1>6, <1>7, <1>8 DEF IInv

\* Changing the status of one directory keeps what is shared.
LEMMA MarksShared ==
  ASSUME IInv, NEW id \in Ids, id < next, NEW status \in DirStatus,
         \A q \in Ids \ {id} : dir[q] = "none",
         dir' = [dir EXCEPT ![id] = status],
         committed' \in {committed, committed \cup {id}},
         status = "committed" => id \in committed',
         \/ /\ status \in {"prepared", "applying"}
            /\ \A i \in Entries(id) \ edited : tree[i] \in {Before(id, i), After(id, i)}
         \/ /\ status \notin {"prepared", "applying"}
            /\ \A i \in Files : tree[i].by = id => id \in committed',
         UNCHANGED <<tree, edited, text, proposals>>
  PROVE  Shared'
<1>1. TypeOK /\ Shared /\ dir'[id] = status /\ \A q \in Ids \ {id} : dir'[q] = "none"
  BY DEF IInv, TypeOK
<1>2. OneDirectory'
  BY <1>1 DEF Shared, OneDirectory
<1>3. Numbered'
  BY <1>1 DEF Shared, Numbered, proposals
<1>4. NoOrphanMetadata'
  BY <1>1 DEF Shared, NoOrphanMetadata, Pending
<1>5. AsPlanned' /\ (RacyEditor \/ NoLostText)'
  BY <1>1 DEF Shared, AsPlanned, NoLostText, Entries, Before, proposals
<1>6. Unwindable'
  BY <1>1 DEF Unwindable, Pending, Entries, Before, After, proposals
<1> QED
  BY <1>2, <1>3, <1>4, <1>5, <1>6 DEF Shared

LEMMA RemoveKeeps ==
  ASSUME IInv, NEW s \in Servers, Remove(s)
  PROVE  IInv'
<1> DEFINE id == tgt[s]
<1>1. pc[s] = "removing" /\ TypeOK /\ Shared /\ Local(s) /\ lock = s
  BY Insider DEF Remove, Outside, Idle
<1>2. /\ UNCHANGED <<tree, litter, ghosts, lock, proposals, local, env>>
      /\ dir' = [dir EXCEPT ![id] = "bare"]
      /\ pc' = [pc EXCEPT ![s] = "unlinking"]
  BY DEF Remove, Goto
<1>3. /\ cur[s] \in Ids /\ cur[s] < next /\ prop[s] < next /\ id < next
      /\ id \in Ids /\ dir[id] # "none"
      /\ \A i \in Files : tree[i].by = id => id \in committed
  BY <1>1, Insider DEF Local, Unwinding, Outside, Idle, Pending, Shared, OneDirectory
<1>4. \A q \in Ids \ {id} : dir[q] = "none"
  BY <1>1, <1>3 DEF Shared, OneDirectory
<1>5. Shared'
  BY <1>2, <1>3, <1>4, MarksShared DEF ghosts, DirStatus
<1>6. ASSUME NEW t \in Servers, t # s
      PROVE  Local(t)'
  <2>1. Stays(t)
    BY <1>1, <1>2, <1>6 DEF Stays, TypeOK, local
  <2> QED
    BY <1>1, <1>2, <1>6, <2>1, OthersOutside DEF ghosts
<1>7. TypeOK'
  BY <1>1, <1>2 DEF TypeOK, ghosts, proposals, local, Pc, Recovery, DirStatus
<1>8. Local(s)'
  <2>1. pc'[s] = "unlinking" /\ dir'[id] = "bare"
    BY <1>1, <1>2, <1>3 DEF TypeOK
  <2> QED
    BY <1>1, <1>2, <1>3, <2>1 DEF Local, Locking, Handling, Directory, Unwinding, Window, Progress, Outside, Idle, Preparing, Applying, ghosts, proposals, local, Entries, Before
<1> QED
  BY <1>5, <1>6, <1>7, <1>8 DEF IInv

LEMMA UnlinkKeeps ==
  ASSUME IInv, NEW s \in Servers, Unlink(s)
  PROVE  IInv'
<1> DEFINE id == tgt[s]
<1>1. pc[s] = "unlinking" /\ TypeOK /\ Shared /\ Local(s) /\ lock = s
  BY Insider DEF Unlink, Outside, Idle
<1>2. /\ UNCHANGED <<tree, litter, ghosts, proposals, cur, prop, env>>
      /\ dir' = [dir EXCEPT ![id] = "none"]
  BY DEF Unlink
<1>3. /\ cur[s] \in Ids /\ cur[s] < next /\ prop[s] < next /\ id < next
      /\ id \in Ids /\ dir[id] = "bare"
  BY <1>1, Insider DEF Local, Unwinding, Outside, Idle
<1>4. /\ \A q \in Ids \ {id} : dir[q] = "none"
      /\ \A i \in Files : tree[i].by = id => id \in committed
      /\ id # Nobody
  BY <1>1, <1>3 DEF Shared, OneDirectory, NoOrphanMetadata, Pending, Ids, Nobody
<1>5. Shared'
  BY <1>2, <1>3, <1>4, MarksShared DEF ghosts, DirStatus
<1>6. ASSUME NEW t \in Servers, t # s
      PROVE  Local(t)'
  <2>1. Stays(t) /\ lock' \in {s, Free}
    BY <1>1, <1>6 DEF Unlink, Stays, TypeOK, Goto, Return
  <2> QED
    BY <1>1, <1>2, <1>6, <2>1, OthersOutside DEF ghosts
<1>7. CASE why[s] = "recover" /\ Goto(s, "recovering") /\ UNCHANGED <<lock, at, tgt, why, last>>
  <2>1. pc'[s] = "recovering"
    BY <1>1, <1>7 DEF TypeOK, Goto
  <2>2. TypeOK'
    BY <1>1, <1>2, <1>7 DEF TypeOK, Goto, ghosts, proposals, Pc, Recovery, DirStatus
  <2>3. Local(s)'
    BY <1>1, <1>2, <1>3, <1>7, <2>1 DEF Local, Locking, Handling, Directory, Unwinding, Window, Progress, Outside, Idle, Preparing, Applying, ghosts, proposals, Entries, Before
  <2> QED
    BY <1>5, <1>6, <2>2, <2>3 DEF IInv
<1>8. ASSUME NEW result \in {"ok", "failed"}, Return(s, result),
             result = "ok" => why[s] = "done"
      PROVE  IInv'
  <2>1. result = "ok" => cur[s] \in committed
    BY <1>1, <1>8 DEF Local, Handling
  <2>2. Local(s)'
    BY <1>1, <1>2, <1>8, <2>1, Returned DEF Outside, Idle, ghosts
  <2>3. dir' \in [Ids -> DirStatus] /\ UNCHANGED env
    BY <1>1, <1>2 DEF TypeOK, DirStatus
  <2>4. TypeOK'
    BY <1>1, <1>2, <1>8, <2>3, InitConstants DEF TypeOK, Return, Goto, ghosts, proposals, Pc, Outside, Idle, Nobody
  <2> QED
    BY <1>5, <1>6, <2>2, <2>4 DEF IInv
<1> QED
  BY <1>7, <1>8 DEF Unlink

LEMMA RevalidateKeeps ==
  ASSUME IInv, NEW s \in Servers, Revalidate(s)
  PROVE  IInv'
<1>1. pc[s] = "revalidating" /\ TypeOK /\ Shared /\ Local(s) /\ lock = s
  BY Insider DEF Revalidate, Outside, Idle
<1>2. UNCHANGED <<disk, text, committed, proposals, cur, env>>
  BY DEF Revalidate
<1>3. cur[s] \in Ids /\ cur[s] < next /\ prop[s] < next /\ next \in Nat
  BY <1>1, Insider DEF Outside, Idle
<1>a. \A id \in Ids : dir[id] = "none"
  BY <1>1 DEF Local, Directory
<1>4. Shared'
  BY <1>2, <1>3, <1>a, SharedQuiet DEF disk, proposals, KeepsProposals
<1>5. ASSUME NEW t \in Servers, t # s
      PROVE  Local(t)'
  <2>1. Stays(t) /\ lock' \in {s, Free}
    BY <1>1, <1>2, <1>5 DEF Revalidate, Stays, Return, Goto, TypeOK
  <2> QED
    BY <1>1, <1>2, <1>5, <2>1, OthersOutside
<1>6. CASE /\ Fresh(cur[s])
           /\ edited' = {}
           /\ Goto(s, "planning")
           /\ UNCHANGED <<lock, at, tgt, why, prop, last>>
  <2>1. pc'[s] = "planning"
    BY <1>1, <1>6 DEF TypeOK, Goto
  <2>2. TypeOK'
    BY <1>1, <1>2, <1>6 DEF TypeOK, Goto, disk, proposals, Pc
  <2>3. \A i \in FilesOf(snap[cur[s]].root) : AsReviewed(cur[s], i)
    BY <1>6 DEF Fresh, Scan, AsReviewed, Before, FilesOf
  <2>4. Progress(s)'
    BY <1>2, <2>1, <2>3 DEF Progress, AsReviewed, Before, disk, proposals
  <2>5. Local(s)'
    BY <1>1, <1>2, <1>3, <1>6, <2>1, <2>4 DEF Local, Locking, Handling, Directory, Unwinding, Window, Outside, Idle, Preparing, Applying, disk, proposals, Entries, Before
  <2> QED
    BY <1>4, <1>5, <2>2, <2>5 DEF IInv
<1>7. CASE /\ prop' = [prop EXCEPT ![s] = Nobody]
           /\ Return(s, "failed")
           /\ UNCHANGED edited
  <2>1. Local(s)'
    BY <1>1, <1>2, <1>7, Returned DEF Outside, Idle, TypeOK
  <2>2. TypeOK'
    BY <1>1, <1>2, <1>7, InitConstants DEF TypeOK, Return, Goto, disk, proposals, Pc, Outside, Idle, Ids, Nobody
  <2> QED
    BY <1>4, <1>5, <2>1, <2>2 DEF IInv
<1> QED
  BY <1>6, <1>7 DEF Revalidate

LEMMA PlanKeeps ==
  ASSUME IInv, NEW s \in Servers, Plan(s)
  PROVE  IInv'
<1>1. pc[s] = "planning" /\ TypeOK /\ Shared /\ Local(s) /\ lock = s
  BY Insider DEF Plan, Outside, Idle
<1>2. UNCHANGED <<disk, ghosts, proposals, cur, prop, env>>
  BY DEF Plan
<1>3. cur[s] \in Ids /\ cur[s] < next /\ prop[s] < next /\ next \in Nat
  BY <1>1, Insider DEF Outside, Idle
<1>4. Shared'
  BY <1>2, <1>3, SharedQuiet DEF disk, ghosts, proposals, KeepsProposals
<1>5. ASSUME NEW t \in Servers, t # s
      PROVE  Local(t)'
  <2>1. Stays(t) /\ lock' \in {s, Free}
    BY <1>1, <1>2, <1>5 DEF Plan, Stays, Return, Goto, TypeOK
  <2> QED
    BY <1>1, <1>2, <1>5, <2>1, OthersOutside DEF ghosts
<1>6. CASE /\ \A i \in Entries(cur[s]) : AsReviewed(cur[s], i)
           /\ Goto(s, "making")
           /\ UNCHANGED <<lock, at, tgt, why, last>>
  <2>1. pc'[s] = "making"
    BY <1>1, <1>6 DEF TypeOK, Goto
  <2>2. TypeOK'
    BY <1>1, <1>2, <1>6 DEF TypeOK, Goto, disk, ghosts, proposals, Pc, Preparing
  <2>3. \A i \in Files : tree[i].by # cur[s]
    <3>1. cur[s] # Nobody
      BY <1>3 DEF Ids, Nobody
    <3> QED
      BY <1>1, <1>6, <3>1 DEF Shared, AsPlanned, AsReviewed, Entries, NeedsChange
  <2>4. Local(s)'
    BY <1>1, <1>2, <1>3, <1>6, <2>1, <2>3 DEF Local, Locking, Handling, Directory, Unwinding, Window, Progress, Outside, Idle, Preparing, Applying, disk, ghosts, proposals, Entries, Before, AsReviewed
  <2> QED
    BY <1>4, <1>5, <2>2, <2>4 DEF IInv
<1>7. ASSUME NEW result \in {"ok", "failed"}, Return(s, result),
             result = "ok" => Entries(cur[s]) = {}
      PROVE  IInv'
  <2>1. Local(s)'
    BY <1>1, <1>2, <1>7, Returned DEF Outside, Idle, ghosts
  <2>2. TypeOK'
    BY <1>1, <1>2, <1>7, InitConstants DEF TypeOK, Return, Goto, disk, ghosts, proposals, Pc, Outside, Idle, Ids, Nobody
  <2> QED
    BY <1>4, <1>5, <2>1, <2>2 DEF IInv
<1> QED
  BY <1>6, <1>7 DEF Plan

LEMMA MakeDirKeeps ==
  ASSUME IInv, NEW s \in Servers, MakeDir(s)
  PROVE  IInv'
<1> DEFINE id == cur[s]
<1>1. pc[s] = "making" /\ TypeOK /\ Shared /\ Local(s) /\ lock = s
  BY Insider DEF MakeDir, Outside, Idle
<1>2. /\ UNCHANGED <<tree, litter, ghosts, lock, proposals, local, env>>
      /\ dir' = [dir EXCEPT ![id] = "bare"]
      /\ pc' = [pc EXCEPT ![s] = "staging"]
  BY DEF MakeDir, Goto
<1>3. /\ id \in Ids /\ id < next /\ prop[s] < next /\ id # Nobody
      /\ \A q \in Ids : dir[q] = "none"
      /\ \A i \in Files : tree[i].by \in committed \cup {Nobody}
  BY <1>1, Insider DEF Local, Directory, Preparing, Outside, Idle, Ids, Nobody
<1>4. Shared'
  BY <1>2, <1>3, MarksShared DEF ghosts, DirStatus
<1>5. ASSUME NEW t \in Servers, t # s
      PROVE  Local(t)'
  <2>1. Stays(t)
    BY <1>1, <1>2, <1>5 DEF Stays, TypeOK, local
  <2> QED
    BY <1>1, <1>2, <1>5, <2>1, OthersOutside DEF ghosts
<1>6. TypeOK'
  BY <1>1, <1>2 DEF TypeOK, ghosts, proposals, local, Pc, Preparing, DirStatus
<1>7. Local(s)'
  <2>1. pc'[s] = "staging" /\ dir'[id] = "bare" /\ \A q \in Ids \ {id} : dir'[q] = "none"
    BY <1>1, <1>2, <1>3 DEF TypeOK
  <2> QED
    BY <1>1, <1>2, <1>3, <2>1 DEF Local, Locking, Handling, Directory, Unwinding, Window, Progress, Outside, Idle, Preparing, Applying, ghosts, proposals, local, Entries, Before, AsReviewed
<1> QED
  BY <1>4, <1>5, <1>6, <1>7 DEF IInv

LEMMA StageKeeps ==
  ASSUME IInv, NEW s \in Servers, Stage(s)
  PROVE  IInv'
<1> DEFINE id == cur[s]
<1>1. pc[s] = "staging" /\ TypeOK /\ Shared /\ Local(s) /\ lock = s
  BY Insider DEF Stage, Outside, Idle
<1>2. UNCHANGED <<tree, litter, ghosts, lock, proposals, local, env>>
  BY DEF Stage
<1>3. /\ id \in Ids /\ id < next /\ prop[s] < next /\ next \in Nat
      /\ \A q \in Ids \ {id} : dir[q] = "none"
  BY <1>1, Insider DEF Local, Directory, Outside, Idle
<1>4. ASSUME NEW t \in Servers, t # s
      PROVE  Local(t)'
  <2>1. Stays(t)
    BY <1>1, <1>2, <1>4 DEF Stage, Goto, Stays, TypeOK, local
  <2> QED
    BY <1>1, <1>2, <1>4, <2>1, OthersOutside DEF ghosts
<1>5. CASE dir' = [dir EXCEPT ![id] = "prepared"] /\ Goto(s, "beginning")
  <2>a. \A i \in Entries(id) \ edited : tree[i] = Before(id, i)
    BY <1>1, <1>3 DEF Local, Progress, AsReviewed, Entries
  <2>1. Shared'
    BY <1>2, <1>3, <1>5, <2>a, MarksShared DEF ghosts, DirStatus
  <2>2. TypeOK'
    BY <1>1, <1>2, <1>5 DEF TypeOK, Goto, ghosts, proposals, local, Pc, Applying, DirStatus
  <2>3. pc'[s] = "beginning" /\ dir'[id] = "prepared" /\ \A q \in Ids \ {id} : dir'[q] = "none"
    BY <1>1, <1>3, <1>5 DEF TypeOK, Goto
  <2>4. Local(s)'
    BY <1>1, <1>2, <1>3, <2>3 DEF Local, Locking, Handling, Directory, Unwinding, Window, Progress, Outside, Idle, Preparing, Applying, ghosts, proposals, local, Entries, Before, AsReviewed
  <2> QED
    BY <1>4, <2>1, <2>2, <2>4 DEF IInv
<1>6. CASE Goto(s, "abandoning") /\ UNCHANGED dir
  <2>1. Shared'
    BY <1>2, <1>3, <1>6, SharedQuiet DEF ghosts, proposals, KeepsProposals
  <2>2. TypeOK'
    BY <1>1, <1>2, <1>6 DEF TypeOK, Goto, ghosts, proposals, local, Pc, Preparing
  <2>3. pc'[s] = "abandoning"
    BY <1>1, <1>6 DEF TypeOK, Goto
  <2>4. Local(s)'
    BY <1>1, <1>2, <1>3, <1>6, <2>3 DEF Local, Locking, Handling, Directory, Unwinding, Window, Progress, Outside, Idle, Preparing, Applying, ghosts, proposals, local, Entries, Before
  <2> QED
    BY <1>4, <2>1, <2>2, <2>4 DEF IInv
<1> QED
  BY <1>5, <1>6 DEF Stage

LEMMA AbandonKeeps ==
  ASSUME IInv, NEW s \in Servers, Abandon(s)
  PROVE  IInv'
<1> DEFINE id == cur[s]
<1>1. pc[s] = "abandoning" /\ TypeOK /\ Shared /\ Local(s) /\ lock = s
  BY Insider DEF Abandon, Outside, Idle
<1>2. /\ UNCHANGED <<tree, litter, ghosts, proposals, cur, prop, env>>
      /\ dir' = [dir EXCEPT ![id] = "none"]
      /\ Return(s, "failed")
  BY DEF Abandon
<1>3. /\ id \in Ids /\ id < next /\ id # Nobody
      /\ \A q \in Ids \ {id} : dir[q] = "none"
      /\ \A i \in Files : tree[i].by \in committed \cup {Nobody}
  BY <1>1, Insider DEF Local, Directory, Preparing, Outside, Idle, Ids, Nobody
<1>4. Shared'
  BY <1>2, <1>3, MarksShared DEF ghosts, DirStatus
<1>5. ASSUME NEW t \in Servers, t # s
      PROVE  Local(t)'
  <2>1. Stays(t) /\ lock' \in {s, Free}
    BY <1>1, <1>2, <1>5 DEF Stays, TypeOK, Goto, Return
  <2> QED
    BY <1>1, <1>2, <1>5, <2>1, OthersOutside DEF ghosts
<1>6. Local(s)'
  BY <1>1, <1>2, Returned DEF Outside, Idle, ghosts
<1>7. TypeOK'
  <2>1. dir' \in [Ids -> DirStatus] /\ UNCHANGED env
    BY <1>1, <1>2 DEF TypeOK, DirStatus
  <2> QED
    BY <1>1, <1>2, <2>1, InitConstants DEF TypeOK, Return, Goto, ghosts, proposals, Pc, Outside, Idle, Nobody
<1> QED
  BY <1>4, <1>5, <1>6, <1>7 DEF IInv

LEMMA BeginKeeps ==
  ASSUME IInv, NEW s \in Servers, Begin(s)
  PROVE  IInv'
<1> DEFINE id == cur[s]
<1>1. pc[s] = "beginning" /\ TypeOK /\ Shared /\ Local(s) /\ lock = s
  BY Insider DEF Begin, Outside, Idle
<1>2. /\ UNCHANGED <<tree, litter, ghosts, lock, proposals, cur, tgt, why, prop, last, env>>
      /\ dir' = [dir EXCEPT ![id] = "applying"]
      /\ at' = [at EXCEPT ![s] = 1]
      /\ pc' = [pc EXCEPT ![s] = "applying"]
  BY DEF Begin, Goto
<1>3. /\ id \in Ids /\ id < next /\ prop[s] < next
      /\ \A q \in Ids \ {id} : dir[q] = "none"
  BY <1>1, Insider DEF Local, Directory, Applying, Outside, Idle
<1>a. \A i \in Entries(id) \ edited : tree[i] = Before(id, i)
  BY <1>1, <1>3 DEF Local, Progress, AsReviewed, Entries
<1>4. Shared'
  BY <1>2, <1>3, <1>a, MarksShared DEF ghosts, DirStatus
<1>5. ASSUME NEW t \in Servers, t # s
      PROVE  Local(t)'
  <2>1. Stays(t)
    BY <1>1, <1>2, <1>5 DEF Stays, TypeOK
  <2> QED
    BY <1>1, <1>2, <1>5, <2>1, OthersOutside DEF ghosts
<1>6. TypeOK'
  <2>1. 1 \in 0..(FileCount + 1) /\ "applying" \in Pc /\ "applying" \in DirStatus
    BY InitConstants DEF Pc, Applying, DirStatus
  <2> QED
    BY <1>1, <1>2, <2>1 DEF TypeOK, ghosts, proposals
<1>7. Local(s)'
  <2>1. /\ pc'[s] = "applying" /\ at'[s] = 1 /\ dir'[id] = "applying"
        /\ \A q \in Ids \ {id} : dir'[q] = "none"
    BY <1>1, <1>2, <1>3 DEF TypeOK
  <2>2. \A i \in Files : ~(i < 1)
    BY InitConstants DEF Files
  <2>3. Progress(s)'
    BY <1>1, <1>2, <1>3, <2>1, <2>2 DEF Local, Progress, AsReviewed, Before, ghosts, proposals, FilesOf
  <2> QED
    BY <1>1, <1>2, <1>3, <2>1, <2>3 DEF Local, Locking, Handling, Directory, Unwinding, Window, Outside, Idle, Preparing, Applying, ghosts, proposals, Entries, Before
<1> QED
  BY <1>4, <1>5, <1>6, <1>7 DEF IInv

\* The error path of an apply: the own operation is to be rolled back.
LEMMA RolledBack ==
  ASSUME IInv, NEW s \in Servers, pc[s] \in Applying, RollBackOwn(s),
         Pending(cur[s])', committed \subseteq committed',
         UNCHANGED <<lock, proposals, cur, prop, last>>
  PROVE  Local(s)'
<1>1. TypeOK /\ Local(s) /\ lock = s /\ cur[s] \in Ids /\ cur[s] < next
  BY Insider DEF Applying, Outside, Idle
<1>2. /\ pc'[s] = "undoing" /\ at'[s] = FileCount /\ tgt'[s] = cur[s]
      /\ why'[s] = "failed"
  BY <1>1 DEF RollBackOwn, Target, Goto, TypeOK
<1>3. \A i \in Files : ~(i > FileCount)
  BY InitConstants DEF Files
<1>4. Locking(s)' /\ Directory(s)' /\ Window(s)' /\ Progress(s)'
  BY <1>1, <1>2 DEF Locking, Directory, Window, Progress, Outside, Idle, Preparing, Applying
<1>5. Handling(s)'
  BY <1>1, <1>2 DEF Local, Handling, proposals, Entries, Before, Idle, Outside
<1>6. Unwinding(s)'
  BY <1>1, <1>2, <1>3, InitConstants DEF Unwinding
<1> QED
  BY <1>4, <1>5, <1>6 DEF Local

\* The types after a step that only moves one server and may go back.
LEMMA RolledBackTypes ==
  ASSUME TypeOK, NEW s \in Servers, cur[s] \in Ids, RollBackOwn(s)
  PROVE  /\ pc' \in [Servers -> Pc] /\ at' \in [Servers -> 0..(FileCount + 1)]
         /\ tgt' \in [Servers -> Ids \cup {Nobody}]
         /\ why' \in [Servers -> {"recover", "failed", "done"}]
<1>1. "undoing" \in Pc /\ FileCount \in 0..(FileCount + 1)
  BY InitConstants DEF Pc, Recovery
<1> QED
  BY <1>1 DEF TypeOK, RollBackOwn, Target, Goto

LEMMA ApplyKeeps ==
  ASSUME IInv, NEW s \in Servers, Apply(s)
  PROVE  IInv'
<1> DEFINE id == cur[s]
           i  == at[s]
<1>1. pc[s] = "applying" /\ TypeOK /\ Shared /\ Local(s) /\ lock = s
  BY Insider DEF Apply, Outside, Idle
<1>2. UNCHANGED <<disk, ghosts, lock, proposals, cur, prop, last, env>>
  BY DEF Apply
<1>3. /\ id \in Ids /\ id < next /\ prop[s] < next /\ next \in Nat
      /\ dir[id] = "applying" /\ \A q \in Ids \ {id} : dir[q] = "none"
      /\ i \in 0..(FileCount + 1)
  BY <1>1, Insider DEF Local, Directory, Applying, Outside, Idle, TypeOK
<1>4. Shared'
  BY <1>2, <1>3, SharedQuiet DEF disk, ghosts, proposals, KeepsProposals
<1>5. ASSUME NEW t \in Servers, t # s
      PROVE  Local(t)'
  <2>1. Stays(t)
    BY <1>1, <1>2, <1>5 DEF Apply, Stays, TypeOK, Goto, Target, RollBackOwn
  <2> QED
    BY <1>1, <1>2, <1>5, <2>1, OthersOutside DEF ghosts
<1>6. CASE i > FileCount /\ Goto(s, "verifying") /\ UNCHANGED <<at, tgt, why>>
  <2>1. pc'[s] = "verifying" /\ \A j \in Files : j < i
    BY <1>1, <1>3, <1>6, InitConstants DEF TypeOK, Goto, Files
  <2>2. TypeOK'
    BY <1>1, <1>2, <1>6 DEF TypeOK, Goto, disk, ghosts, proposals, Pc, Applying
  <2>3. Progress(s)'
    BY <1>1, <1>2, <1>3, <1>6, <2>1 DEF Local, Progress, Before, After, Entries, disk, ghosts, proposals, FilesOf
  <2>4. Local(s)'
    BY <1>1, <1>2, <1>3, <1>6, <2>1, <2>3 DEF Local, Locking, Handling, Directory, Unwinding, Window, Outside, Idle, Preparing, Applying, disk, ghosts, proposals, Entries, Before
  <2> QED
    BY <1>4, <1>5, <2>2, <2>4 DEF IInv
<1>7. CASE /\ i \in Files \ Entries(id)
           /\ at' = [at EXCEPT ![s] = i + 1]
           /\ UNCHANGED <<pc, tgt, why>>
  <2>1. at'[s] = i + 1
    BY <1>1, <1>7 DEF TypeOK
  <2>2. \A j \in Entries(id) : j < i + 1 <=> j < i
    BY <1>7, InitConstants DEF Entries, FilesOf, Files
  <2>3. TypeOK'
    BY <1>1, <1>2, <1>7, InitConstants DEF TypeOK, disk, ghosts, proposals, Files
  <2>4. Progress(s)'
    BY <1>1, <1>2, <1>3, <1>7, <2>1, <2>2 DEF Local, Progress, Before, After, Entries, disk, ghosts, proposals, FilesOf
  <2>5. Local(s)'
    BY <1>1, <1>2, <1>3, <1>7, <2>1, <2>4 DEF Local, Locking, Handling, Directory, Unwinding, Window, Outside, Idle, Preparing, Applying, disk, ghosts, proposals, Entries, Before
  <2> QED
    BY <1>4, <1>5, <2>3, <2>5 DEF IInv
<1>8. CASE i \in Entries(id) /\ AsReviewed(id, i) /\ Goto(s, "replacing") /\ UNCHANGED <<at, tgt, why>>
  <2>1. pc'[s] = "replacing"
    BY <1>1, <1>8 DEF TypeOK, Goto
  <2>2. TypeOK'
    BY <1>1, <1>2, <1>8 DEF TypeOK, Goto, disk, ghosts, proposals, Pc, Applying
  <2>3. Progress(s)'
    BY <1>1, <1>2, <1>3, <1>8, <2>1 DEF Local, Progress, Before, After, Entries, disk, ghosts, proposals, FilesOf
  <2>4. Local(s)'
    BY <1>1, <1>2, <1>3, <1>8, <2>1, <2>3 DEF Local, Locking, Handling, Directory, Unwinding, Window, Outside, Idle, Preparing, Applying, disk, ghosts, proposals, Entries, Before, AsReviewed
  <2> QED
    BY <1>4, <1>5, <2>2, <2>4 DEF IInv
<1>9. CASE RollBackOwn(s)
  <2>1. Local(s)'
    BY <1>1, <1>2, <1>3, <1>9, RolledBack DEF Applying, Pending, disk, ghosts
  <2>2. TypeOK'
    BY <1>1, <1>2, <1>3, <1>9, RolledBackTypes DEF TypeOK, disk, ghosts, proposals
  <2> QED
    BY <1>4, <1>5, <2>1, <2>2 DEF IInv
<1> QED
  BY <1>6, <1>7, <1>8, <1>9 DEF Apply

LEMMA ReplaceKeeps ==
  ASSUME IInv, NEW s \in Servers, Replace(s)
  PROVE  IInv'
<1> DEFINE id == cur[s]
           i  == at[s]
<1>1. pc[s] = "replacing" /\ TypeOK /\ Shared /\ Local(s) /\ lock = s
  BY Insider DEF Replace, Outside, Idle
<1>2. /\ UNCHANGED <<litter, dir, ghosts, lock, proposals, cur, tgt, why, prop, last, env>>
      /\ tree' = [tree EXCEPT ![i] = After(id, i)]
      /\ at' = [at EXCEPT ![s] = i + 1]
      /\ pc' = [pc EXCEPT ![s] = "applying"]
  BY DEF Replace, Goto
<1>3. /\ id \in Ids /\ id < next /\ prop[s] < next
      /\ dir[id] = "applying" /\ \A q \in Ids \ {id} : dir[q] = "none"
      /\ i \in Entries(id) /\ i \in Files
  BY <1>1, Insider DEF Local, Directory, Window, Applying, Outside, Idle, Entries, FilesOf
<1>4. RacyEditor \/ After(id, i).text = tree[i].text
  BY <1>1 DEF Local, Window, AsReviewed, After, Generated
<1>5. Shared'
  BY <1>2, <1>3, <1>4, WritesShared DEF ghosts, Pending
<1>6. ASSUME NEW t \in Servers, t # s
      PROVE  Local(t)'
  <2>1. Stays(t)
    BY <1>1, <1>2, <1>6 DEF Stays, TypeOK
  <2> QED
    BY <1>1, <1>2, <1>6, <2>1, OthersOutside DEF ghosts
<1>7. TypeOK'
  <2>1. After(id, i) \in Content /\ "applying" \in Pc /\ i + 1 \in 0..(FileCount + 1)
    BY <1>1, <1>3, BeforeType, InitConstants DEF Pc, Applying, Files
  <2> QED
    BY <1>1, <1>2, <2>1 DEF TypeOK, ghosts, proposals
<1>8. Local(s)'
  <2>1. /\ pc'[s] = "applying" /\ at'[s] = i + 1 /\ tree'[i] = After(id, i)
        /\ \A j \in Files : j # i => tree'[j] = tree[j]
    BY <1>1, <1>2, <1>3 DEF TypeOK
  <2>2. \A j \in Files : j < i + 1 <=> j < i \/ j = i
    BY <1>3, InitConstants DEF Files
  <2>3. Progress(s)'
    <3> SUFFICES ASSUME NEW j \in FilesOf(snap[id].root) \ edited
                 PROVE  tree'[j] = IF j \in Entries(id) /\ j < i + 1
                                   THEN After(id, j) ELSE Before(id, j)
      BY <1>2, <2>1 DEF Progress, ghosts, proposals, After, Before, Entries, FilesOf
    <3>1. tree[j] = IF j \in Entries(id) /\ j < i THEN After(id, j) ELSE Before(id, j)
      BY <1>1, <1>3 DEF Local, Progress
    <3>2. j \in Files
      BY DEF FilesOf
    <3> QED
      BY <1>3, <2>1, <2>2, <3>1, <3>2
  <2> QED
    BY <1>1, <1>2, <1>3, <2>1, <2>3 DEF Local, Locking, Handling, Directory, Unwinding, Window, Outside, Idle, Preparing, Applying, ghosts, proposals, Entries, Before
<1> QED
  BY <1>5, <1>6, <1>7, <1>8 DEF IInv

LEMMA VerifyKeeps ==
  ASSUME IInv, NEW s \in Servers, Verify(s)
  PROVE  IInv'
<1> DEFINE id == cur[s]
<1>1. pc[s] = "verifying" /\ TypeOK /\ Shared /\ Local(s) /\ lock = s
  BY Insider DEF Verify, Outside, Idle
<1>2. UNCHANGED <<disk, ghosts, lock, proposals, cur, prop, last, env>>
  BY DEF Verify
<1>3. /\ id \in Ids /\ id < next /\ prop[s] < next /\ next \in Nat
      /\ dir[id] = "applying" /\ \A q \in Ids \ {id} : dir[q] = "none"
  BY <1>1, Insider DEF Local, Directory, Applying, Outside, Idle
<1>4. Shared'
  BY <1>2, <1>3, SharedQuiet DEF disk, ghosts, proposals, KeepsProposals
<1>5. ASSUME NEW t \in Servers, t # s
      PROVE  Local(t)'
  <2>1. Stays(t)
    BY <1>1, <1>2, <1>5 DEF Verify, Stays, TypeOK, Goto, Target, RollBackOwn
  <2> QED
    BY <1>1, <1>2, <1>5, <2>1, OthersOutside DEF ghosts
<1>6. CASE Goto(s, "marking") /\ UNCHANGED <<at, tgt, why>>
  <2>1. pc'[s] = "marking"
    BY <1>1, <1>6 DEF TypeOK, Goto
  <2>2. TypeOK'
    BY <1>1, <1>2, <1>6 DEF TypeOK, Goto, disk, ghosts, proposals, Pc, Applying
  <2>3. Local(s)'
    BY <1>1, <1>2, <1>3, <1>6, <2>1 DEF Local, Locking, Handling, Directory, Unwinding, Window, Progress, Outside, Idle, Preparing, Applying, disk, ghosts, proposals, Entries, Before, After
  <2> QED
    BY <1>4, <1>5, <2>2, <2>3 DEF IInv
<1>7. CASE RollBackOwn(s)
  <2>1. Local(s)'
    BY <1>1, <1>2, <1>3, <1>7, RolledBack DEF Applying, Pending, disk, ghosts
  <2>2. TypeOK'
    BY <1>1, <1>2, <1>3, <1>7, RolledBackTypes DEF TypeOK, disk, ghosts, proposals
  <2> QED
    BY <1>4, <1>5, <2>1, <2>2 DEF IInv
<1> QED
  BY <1>6, <1>7 DEF Verify

LEMMA MarkKeeps ==
  ASSUME IInv, NEW s \in Servers, Mark(s)
  PROVE  IInv'
<1> DEFINE id == cur[s]
<1>1. pc[s] = "marking" /\ TypeOK /\ Shared /\ Local(s) /\ lock = s
  BY Insider DEF Mark, Outside, Idle
<1>2. /\ UNCHANGED <<tree, litter, text, edited, lock, proposals, at, cur, prop, last, env>>
      /\ dir' = [dir EXCEPT ![id] = "committed"]
      /\ committed' = committed \cup {id}
      /\ tgt' = [tgt EXCEPT ![s] = id] /\ why' = [why EXCEPT ![s] = "done"]
      /\ pc' = [pc EXCEPT ![s] = "removing"]
  BY DEF Mark, Target, Goto
<1>3. /\ id \in Ids /\ id < next /\ prop[s] < next
      /\ \A q \in Ids \ {id} : dir[q] = "none"
  BY <1>1, Insider DEF Local, Directory, Applying, Outside, Idle
<1>4. Shared'
  BY <1>2, <1>3, MarksShared DEF DirStatus
<1>5. ASSUME NEW t \in Servers, t # s
      PROVE  Local(t)'
  <2>1. Stays(t)
    BY <1>1, <1>2, <1>5 DEF Stays, TypeOK
  <2> QED
    BY <1>1, <1>2, <1>5, <2>1, OthersOutside
<1>6. TypeOK'
  BY <1>1, <1>2, <1>3 DEF TypeOK, proposals, Pc, Recovery, DirStatus
<1>7. Local(s)'
  <2>1. /\ pc'[s] = "removing" /\ tgt'[s] = id /\ why'[s] = "done"
        /\ dir'[id] = "committed"
    BY <1>1, <1>2, <1>3 DEF TypeOK
  <2> QED
    BY <1>1, <1>2, <1>3, <2>1 DEF Local, Locking, Handling, Directory, Unwinding, Window, Progress, Outside, Idle, Preparing, Applying, proposals, Entries, Before
<1> QED
  BY <1>4, <1>5, <1>6, <1>7 DEF IInv

-----------------------------------------------------------------------------
\* A server that is not running a confirmation knows next to nothing.
LEMMA OutsideLocal ==
  ASSUME IInv, NEW s \in Servers, (pc[s] \in Outside)', (lock # s)',
         UNCHANGED committed, KeepsProposals, next \in Nat, next' \in Nat,
         prop'[s] < next', cur'[s] < next', tgt'[s] < next',
         pc'[s] = "waiting" => cur'[s] \in Ids,
         why'[s] = "recover",
         \/ last'[s] \in {"none", "failed"}
         \/ last'[s] = last[s] /\ cur'[s] = cur[s]
  PROVE  Local(s)'
<1>1. Local(s) /\ TypeOK
  BY DEF IInv
<1>2. pc'[s] \in {"up", "down", "waiting"}
  BY DEF Outside, Idle
<1>3. Locking(s)'
  BY DEF Locking
<1>4. Handling(s)'
  <2>1. last[s] = "ok" => cur[s] \in Ids /\ snap'[cur[s]] = snap[cur[s]]
    BY <1>1 DEF Local, Handling, KeepsProposals
  <2> QED
    BY <1>1, <1>2, <2>1 DEF Local, Handling, Idle, Entries, Before
<1>5. Directory(s)' /\ Unwinding(s)' /\ Window(s)' /\ Progress(s)'
  BY <1>2 DEF Directory, Unwinding, Window, Progress, Preparing, Applying
<1> QED
  BY <1>3, <1>4, <1>5 DEF Local

LEMMA Outsider ==
  ASSUME IInv, NEW s \in Servers
  PROVE  /\ TypeOK /\ Shared /\ Local(s) /\ next \in Nat /\ Nobody < next
         /\ prop[s] < next /\ cur[s] < next /\ tgt[s] < next
         /\ pc[s] \in Outside => lock # s
BY InitConstants DEF IInv, Local, Locking, Handling, TypeOK, Nobody

LEMMA ProposeKeeps ==
  ASSUME IInv, NEW s \in Servers, NEW r \in Roots, Propose(s, r)
  PROVE  IInv'
<1>1. /\ pc[s] = "up" /\ next <= MaxProposals
      /\ snap' = [snap EXCEPT ![next] = Scan(r)]
      /\ prop' = [prop EXCEPT ![s] = next]
      /\ next' = next + 1
      /\ UNCHANGED <<disk, ghosts, lock, pc, at, cur, tgt, why, last, env>>
  BY DEF Propose
<1>2. /\ TypeOK /\ Shared /\ Local(s) /\ next \in Nat /\ prop[s] < next /\ cur[s] < next
      /\ tgt[s] < next /\ lock # s /\ next' \in Nat /\ next \in Ids
  BY <1>1, Outsider, InitConstants DEF Outside, Idle, TypeOK, Ids
<1>3. KeepsProposals
  BY <1>1, <1>2 DEF KeepsProposals, TypeOK
<1>4. Shared'
  BY <1>1, <1>2, <1>3, SharedQuiet DEF disk, ghosts
<1>5. ASSUME NEW t \in Servers, t # s
      PROVE  Local(t)'
  <2>1. Stays(t)
    BY <1>1, <1>2, <1>5 DEF Stays, TypeOK
  <2> QED
    BY <1>1, <1>2, <1>3, <2>1, OthersQuiet DEF disk, ghosts
<1>6. cur[s] < next' /\ tgt[s] < next' /\ why[s] = "recover"
  <2>1. cur[s] \in Ids \cup {Nobody} /\ tgt[s] \in Ids \cup {Nobody} /\ next' = next + 1
    BY <1>1, <1>2 DEF TypeOK
  <2> QED
    BY <1>1, <1>2, <2>1, InitConstants DEF Local, Handling, Outside, Idle, Ids, Nobody
<1>7. Local(s)'
  <2>1. prop'[s] = next
    BY <1>1, <1>2 DEF TypeOK
  <2> QED
    BY <1>1, <1>2, <1>3, <1>6, <2>1, OutsideLocal DEF Outside, Idle, ghosts
<1>8. TypeOK'
  <2>1. next' \in 1..(MaxProposals + 1) /\ Scan(r) \in Snapshot
    BY <1>1, <1>2, ScanType, InitConstants DEF TypeOK
  <2> QED
    BY <1>1, <1>2, <2>1 DEF TypeOK, disk, ghosts
<1> QED
  BY <1>4, <1>5, <1>7, <1>8 DEF IInv

LEMMA ExpireKeeps ==
  ASSUME IInv, NEW s \in Servers, Expire(s)
  PROVE  IInv'
<1>1. /\ pc[s] = "up" /\ prop' = [prop EXCEPT ![s] = Nobody]
      /\ UNCHANGED <<disk, ghosts, lock, proposals, pc, at, cur, tgt, why, last, env>>
  BY DEF Expire
<1>2. /\ TypeOK /\ Shared /\ Local(s) /\ next \in Nat /\ Nobody < next /\ cur[s] < next
      /\ tgt[s] < next /\ lock # s /\ why[s] = "recover"
  BY <1>1, Outsider DEF Outside, Idle, Local, Handling
<1>3. KeepsProposals
  BY <1>1, <1>2 DEF KeepsProposals, proposals
<1>4. Shared'
  BY <1>1, <1>2, <1>3, SharedQuiet DEF disk, ghosts, proposals
<1>5. ASSUME NEW t \in Servers, t # s
      PROVE  Local(t)'
  <2>1. Stays(t)
    BY <1>1, <1>2, <1>5 DEF Stays, TypeOK
  <2> QED
    BY <1>1, <1>2, <1>3, <2>1, OthersQuiet DEF disk, ghosts, proposals
<1>6. Local(s)'
  <2>1. prop'[s] = Nobody
    BY <1>1, <1>2 DEF TypeOK
  <2> QED
    BY <1>1, <1>2, <1>3, <2>1, OutsideLocal DEF Outside, Idle, ghosts, proposals
<1>7. TypeOK'
  BY <1>1, <1>2 DEF TypeOK, disk, ghosts, proposals
<1> QED
  BY <1>4, <1>5, <1>6, <1>7 DEF IInv

LEMMA ConfirmKeeps ==
  ASSUME IInv, NEW s \in Servers, Confirm(s)
  PROVE  IInv'
<1>1. /\ pc[s] = "up" /\ prop[s] # Nobody
      /\ cur' = [cur EXCEPT ![s] = prop[s]]
      /\ UNCHANGED <<disk, ghosts, lock, proposals, at, tgt, why, env>>
  BY DEF Confirm
<1>2. /\ TypeOK /\ Shared /\ Local(s) /\ next \in Nat /\ Nobody < next /\ prop[s] < next
      /\ tgt[s] < next /\ lock # s /\ why[s] = "recover" /\ prop[s] \in Ids
  BY <1>1, Outsider DEF Outside, Idle, Local, Handling, TypeOK
<1>3. KeepsProposals
  BY <1>1, <1>2 DEF KeepsProposals, proposals
<1>4. Shared'
  BY <1>1, <1>2, <1>3, SharedQuiet DEF disk, ghosts, proposals
<1>5. ASSUME NEW t \in Servers, t # s
      PROVE  Local(t)'
  <2>1. Stays(t)
    BY <1>1, <1>2, <1>5 DEF Stays, TypeOK, Confirm, Goto
  <2> QED
    BY <1>1, <1>2, <1>3, <2>1, OthersQuiet DEF disk, ghosts, proposals
<1>6. Local(s)'
  <2>1. /\ cur'[s] = prop[s] /\ pc'[s] \in {"up", "waiting"}
        /\ prop'[s] \in {prop[s], Nobody} /\ last'[s] \in {"none", "failed"}
    BY <1>1, <1>2 DEF TypeOK, Confirm, Goto
  <2>2. /\ prop'[s] < next' /\ cur'[s] < next' /\ tgt'[s] < next' /\ next' \in Nat
        /\ why'[s] = "recover" /\ (pc[s] \in Outside)' /\ (lock # s)' /\ cur'[s] \in Ids
    BY <1>1, <1>2, <2>1 DEF Outside, Idle, proposals
  <2> QED
    BY <1>1, <1>2, <1>3, <2>1, <2>2, OutsideLocal DEF ghosts
<1>7. TypeOK'
  <2>1. "waiting" \in Pc
    BY DEF Pc, Outside
  <2> QED
    BY <1>1, <1>2, <2>1 DEF TypeOK, Confirm, Goto, disk, ghosts, proposals
<1> QED
  BY <1>4, <1>5, <1>6, <1>7 DEF IInv

LEMMA AcquireKeeps ==
  ASSUME IInv, NEW s \in Servers, Acquire(s)
  PROVE  IInv'
<1>1. /\ pc[s] = "waiting" /\ lock = Free /\ lock' = s
      /\ pc' = [pc EXCEPT ![s] = "recovering"]
      /\ UNCHANGED <<disk, ghosts, proposals, local, env>>
  BY DEF Acquire, Goto
<1>2. TypeOK /\ Shared /\ Local(s) /\ next \in Nat
  BY Outsider
<1>3. KeepsProposals
  BY <1>1, <1>2 DEF KeepsProposals, proposals
<1>4. Shared'
  BY <1>1, <1>2, <1>3, SharedQuiet DEF disk, ghosts, proposals
<1>5. ASSUME NEW t \in Servers, t # s
      PROVE  Local(t)'
  <2>1. Stays(t) /\ (lock' = t <=> lock = t)
    BY <1>1, <1>2, <1>5, ProtocolConstants DEF Stays, TypeOK, local
  <2> QED
    BY <1>1, <1>2, <1>3, <2>1, OthersQuiet DEF disk, ghosts, proposals
<1>6. Local(s)'
  <2>1. pc'[s] = "recovering"
    BY <1>1, <1>2 DEF TypeOK
  <2> QED
    BY <1>1, <1>2, <2>1 DEF Local, Locking, Handling, Directory, Unwinding, Window, Progress, Outside, Idle, Preparing, Applying, disk, ghosts, proposals, local, Entries, Before
<1>7. TypeOK'
  BY <1>1, <1>2 DEF TypeOK, Pc, Recovery, disk, ghosts, proposals, local
<1> QED
  BY <1>4, <1>5, <1>6, <1>7 DEF IInv

LEMMA CrashKeeps ==
  ASSUME IInv, NEW s \in Servers, Crash(s)
  PROVE  IInv'
<1>1. /\ pc' = [pc EXCEPT ![s] = "down"]
      /\ lock' = IF lock = s THEN Free ELSE lock
      /\ at' = [at EXCEPT ![s] = 0]
      /\ cur' = [cur EXCEPT ![s] = Nobody]
      /\ tgt' = [tgt EXCEPT ![s] = Nobody]
      /\ why' = [why EXCEPT ![s] = "recover"]
      /\ prop' = [prop EXCEPT ![s] = Nobody]
      /\ last' = [last EXCEPT ![s] = "none"]
      /\ UNCHANGED <<tree, dir, ghosts, proposals>>
  BY DEF Crash, Goto
<1>2. TypeOK /\ Shared /\ Local(s) /\ next \in Nat /\ Nobody < next
  BY Outsider
<1>3. KeepsProposals
  BY <1>1, <1>2 DEF KeepsProposals, proposals
<1>4. Shared'
  BY <1>1, <1>2, <1>3, SharedQuiet DEF ghosts, proposals
<1>5. ASSUME NEW t \in Servers, t # s
      PROVE  Local(t)'
  <2>1. Stays(t) /\ (lock' = t <=> lock = t)
    BY <1>1, <1>2, <1>5, ProtocolConstants DEF Stays, TypeOK
  <2> QED
    BY <1>1, <1>2, <1>3, <2>1, OthersQuiet DEF ghosts, proposals
<1>6. Local(s)'
  <2>1. /\ pc'[s] = "down" /\ cur'[s] = Nobody /\ tgt'[s] = Nobody /\ prop'[s] = Nobody
        /\ why'[s] = "recover" /\ last'[s] = "none" /\ lock' # s
    BY <1>1, <1>2, ProtocolConstants DEF TypeOK
  <2>2. /\ prop'[s] < next' /\ cur'[s] < next' /\ tgt'[s] < next' /\ next' \in Nat
        /\ (pc[s] \in Outside)' /\ (lock # s)' /\ pc'[s] # "waiting"
    BY <1>1, <1>2, <2>1 DEF Outside, Idle, proposals
  <2> QED
    BY <1>1, <1>2, <1>3, <2>1, <2>2, OutsideLocal DEF ghosts
<1>7. TypeOK'
  <2>1. litter' \in SUBSET Files
    <3>1. at[s] \in Files \/ litter' = litter
      <4>1. pc[s] = "replacing" => at[s] \in Files
        BY <1>2 DEF Local, Window, Entries, FilesOf
      <4>2. pc[s] = "restoring" => at[s] \in Files
        BY <1>2 DEF Local, Unwinding, Entries, FilesOf
      <4> QED
        BY <4>1, <4>2 DEF Crash
    <3> QED
      BY <1>2, <3>1 DEF TypeOK, Crash
  <2>2. env' \in [edits : Nat, crashes : Nat, faults : Nat]
    BY <1>2 DEF TypeOK, Crash, Hit
  <2>3. "down" \in Pc /\ 0 \in 0..(FileCount + 1)
    BY InitConstants DEF Pc, Outside, Idle
  <2> QED
    BY <1>1, <1>2, <2>1, <2>2, <2>3 DEF TypeOK, ghosts, proposals
<1> QED
  BY <1>4, <1>5, <1>6, <1>7 DEF IInv

LEMMA RestartKeeps ==
  ASSUME IInv, NEW s \in Servers, Restart(s)
  PROVE  IInv'
<1>1. /\ pc[s] = "down" /\ pc' = [pc EXCEPT ![s] = "up"]
      /\ UNCHANGED <<disk, ghosts, lock, proposals, local, env>>
  BY DEF Restart, Goto
<1>2. /\ TypeOK /\ Shared /\ Local(s) /\ next \in Nat /\ prop[s] < next /\ cur[s] < next
      /\ tgt[s] < next /\ lock # s /\ why[s] = "recover"
  BY <1>1, Outsider DEF Outside, Idle, Local, Handling
<1>3. KeepsProposals
  BY <1>1, <1>2 DEF KeepsProposals, proposals
<1>4. Shared'
  BY <1>1, <1>2, <1>3, SharedQuiet DEF disk, ghosts, proposals
<1>5. ASSUME NEW t \in Servers, t # s
      PROVE  Local(t)'
  <2>1. Stays(t)
    BY <1>1, <1>2, <1>5 DEF Stays, TypeOK, local
  <2> QED
    BY <1>1, <1>2, <1>3, <2>1, OthersQuiet DEF disk, ghosts, proposals
<1>6. Local(s)'
  <2>1. pc'[s] = "up"
    BY <1>1, <1>2 DEF TypeOK
  <2> QED
    BY <1>1, <1>2, <1>3, <2>1, OutsideLocal DEF Outside, Idle, ghosts, proposals, local
<1>7. TypeOK'
  BY <1>1, <1>2 DEF TypeOK, Pc, Outside, Idle, disk, ghosts, proposals, local
<1> QED
  BY <1>4, <1>5, <1>6, <1>7 DEF IInv

-----------------------------------------------------------------------------
\* What every fault leaves alone.
LEMMA FaultFrame ==
  ASSUME IInv, NEW s \in Servers, Fault(s)
  PROVE  /\ UNCHANGED <<litter, text, edited, proposals, cur>>
         /\ env' \in [edits : Nat, crashes : Nat, faults : Nat]
         /\ \A t \in Servers \ {s} : Stays(t)
         /\ KeepsProposals /\ next \in Nat /\ next' \in Nat
<1>1. UNCHANGED <<litter, text, edited, proposals, cur>> /\ Hit("faults", MaxFaults) /\ TypeOK
  BY DEF Fault, IInv
<1>2. env' \in [edits : Nat, crashes : Nat, faults : Nat]
  BY <1>1 DEF TypeOK, Hit
<1>3. next \in Nat /\ next' \in Nat /\ KeepsProposals
  BY <1>1, InitConstants DEF TypeOK, KeepsProposals, proposals
<1>4. ASSUME NEW t \in Servers \ {s}
      PROVE  Stays(t)
  <2> USE <1>1 DEF Stays, TypeOK, Goto
  <2>1. FaultReturns(s) \/ FaultRevalidating(s) \/ FaultMarking(s) => Stays(t)
    BY DEF FaultReturns, FaultRevalidating, FaultMarking, Return
  <2>2. FaultWaiting(s) \/ FaultPreparing(s) => Stays(t)
    BY DEF FaultWaiting, FaultPreparing
  <2>3. FaultApplying(s) => Stays(t)
    BY DEF FaultApplying, RollBackOwn, Target
  <2> QED
    BY <2>1, <2>2, <2>3 DEF Fault
<1> QED
  BY <1>1, <1>2, <1>3, <1>4

\* The types of what Return assigns.
LEMMA ReturnedTypes ==
  ASSUME TypeOK, NEW s \in Servers, NEW result \in {"ok", "failed"}, Return(s, result)
  PROVE  /\ pc' \in [Servers -> Pc] /\ at' \in [Servers -> 0..(FileCount + 1)]
         /\ tgt' \in [Servers -> Ids \cup {Nobody}]
         /\ why' \in [Servers -> {"recover", "failed", "done"}]
         /\ last' \in [Servers -> {"none", "failed", "ok"}]
         /\ lock' \in Servers \cup {Free}
<1>1. "up" \in Pc /\ 0 \in 0..(FileCount + 1)
  BY InitConstants DEF Pc, Outside, Idle
<1> QED
  BY <1>1 DEF TypeOK, Return, Goto

LEMMA FaultReturnsKeeps ==
  ASSUME IInv, NEW s \in Servers, Fault(s), FaultReturns(s)
  PROVE  IInv'
<1>1. /\ pc[s] \notin Outside /\ Return(s, "failed") /\ UNCHANGED <<dir, committed, prop>>
      /\ UNCHANGED <<litter, text, edited, proposals, cur>>
      /\ env' \in [edits : Nat, crashes : Nat, faults : Nat]
  BY FaultFrame DEF FaultReturns, Recovery, Outside, Idle
<1>2. TypeOK /\ Shared /\ Local(s) /\ lock = s /\ lock' \in {s, Free}
  BY <1>1, Insider DEF Return
<1>3. Shared' /\ tree' \in [Files -> Content]
  <2>1. CASE UNCHANGED tree
    BY <1>1, <1>2, <2>1, FaultFrame, SharedQuiet DEF TypeOK
  <2>2. CASE pc[s] = "restoring" /\ tree' = [tree EXCEPT ![at[s]] = Before(tgt[s], at[s])]
    <3>1. /\ tgt[s] \in Ids /\ Pending(tgt[s]) /\ at[s] \in Entries(tgt[s]) /\ at[s] \in Files
          /\ RacyEditor \/ Before(tgt[s], at[s]).text = tree[at[s]].text
      BY <1>2, <2>2 DEF Local, Unwinding, Window, After, Generated, Entries, FilesOf
    <3>2. Before(tgt[s], at[s]) \in Content
      BY <1>2, <3>1, BeforeType
    <3> QED
      BY <1>1, <1>2, <2>2, <3>1, <3>2, WritesShared DEF TypeOK
  <2> QED
    BY <2>1, <2>2 DEF FaultReturns
<1>4. \A t \in Servers \ {s} : Local(t)'
  BY <1>1, <1>2, FaultFrame, OthersOutside
<1>5. Local(s)'
  BY <1>1, <1>2, Returned
<1>6. TypeOK'
  BY <1>1, <1>2, <1>3, ReturnedTypes DEF TypeOK, proposals
<1> QED
  BY <1>3, <1>4, <1>5, <1>6 DEF IInv

LEMMA FaultWaitingKeeps ==
  ASSUME IInv, NEW s \in Servers, Fault(s), FaultWaiting(s)
  PROVE  IInv'
<1>1. /\ pc[s] = "waiting" /\ pc' = [pc EXCEPT ![s] = "up"]
      /\ last' = [last EXCEPT ![s] = "failed"]
      /\ UNCHANGED <<tree, dir, committed, lock, at, tgt, why, prop>>
      /\ UNCHANGED <<litter, text, edited, proposals, cur>>
      /\ env' \in [edits : Nat, crashes : Nat, faults : Nat]
  BY FaultFrame DEF FaultWaiting, Goto
<1>2. /\ TypeOK /\ Shared /\ Local(s) /\ lock # s /\ prop[s] < next /\ cur[s] < next
      /\ tgt[s] < next /\ why[s] = "recover"
  BY <1>1, Outsider DEF Outside, Idle, Local, Handling
<1>3. Shared'
  BY <1>1, <1>2, FaultFrame, SharedQuiet
<1>4. \A t \in Servers \ {s} : Local(t)'
  BY <1>1, <1>2, FaultFrame, OthersQuiet
<1>5. Local(s)'
  <2>1. pc'[s] = "up" /\ last'[s] = "failed"
    BY <1>1, <1>2 DEF TypeOK
  <2> QED
    BY <1>1, <1>2, <2>1, FaultFrame, OutsideLocal DEF Outside, Idle, proposals
<1>6. TypeOK'
  BY <1>1, <1>2 DEF TypeOK, Pc, Outside, Idle, proposals
<1> QED
  BY <1>3, <1>4, <1>5, <1>6 DEF IInv

LEMMA FaultRevalidatingKeeps ==
  ASSUME IInv, NEW s \in Servers, Fault(s), FaultRevalidating(s)
  PROVE  IInv'
<1>1. /\ pc[s] \notin Outside /\ Return(s, "failed") /\ UNCHANGED <<tree, dir, committed>>
      /\ prop' = [prop EXCEPT ![s] = Nobody]
      /\ UNCHANGED <<litter, text, edited, proposals, cur>>
      /\ env' \in [edits : Nat, crashes : Nat, faults : Nat]
  BY FaultFrame DEF FaultRevalidating, Outside, Idle
<1>2. TypeOK /\ Shared /\ Local(s) /\ lock = s /\ lock' \in {s, Free}
  BY <1>1, Insider DEF Return
<1>3. Shared'
  BY <1>1, <1>2, FaultFrame, SharedQuiet
<1>4. \A t \in Servers \ {s} : Local(t)'
  BY <1>1, <1>2, FaultFrame, OthersOutside
<1>5. Local(s)'
  <2>1. prop'[s] = Nobody
    BY <1>1, <1>2 DEF TypeOK
  <2> QED
    BY <1>1, <1>2, <2>1, Returned
<1>6. TypeOK'
  BY <1>1, <1>2, ReturnedTypes DEF TypeOK, proposals
<1> QED
  BY <1>3, <1>4, <1>5, <1>6 DEF IInv

LEMMA FaultPreparingKeeps ==
  ASSUME IInv, NEW s \in Servers, Fault(s), FaultPreparing(s)
  PROVE  IInv'
<1> DEFINE id == cur[s]
<1>1. /\ pc[s] \in {"making", "staging"} /\ pc' = [pc EXCEPT ![s] = "abandoning"]
      /\ UNCHANGED <<tree, committed, lock, at, tgt, why, prop, last>>
      /\ UNCHANGED <<litter, text, edited, proposals, cur>>
      /\ env' \in [edits : Nat, crashes : Nat, faults : Nat]
      /\ \/ dir' = dir
         \/ /\ dir' = [dir EXCEPT ![id] = "prepared"]
            /\ \A i \in Entries(id) : tree[i] = Before(id, i)
  BY FaultFrame DEF FaultPreparing, Goto, AsReviewed
<1>2. /\ TypeOK /\ Shared /\ Local(s) /\ lock = s /\ id \in Ids /\ id < next /\ prop[s] < next
      /\ pc[s] \notin Outside /\ \A q \in Ids \ {id} : dir[q] = "none"
  BY <1>1, Insider DEF Outside, Idle, Local, Directory
<1>3. Shared'
  <2>1. CASE dir' = dir
    BY <1>1, <2>1, FaultFrame, SharedQuiet
  <2>2. CASE dir' = [dir EXCEPT ![id] = "prepared"] /\ \A i \in Entries(id) : tree[i] = Before(id, i)
    BY <1>1, <1>2, <2>2, MarksShared DEF DirStatus
  <2> QED
    BY <1>1, <2>1, <2>2
<1>4. \A t \in Servers \ {s} : Local(t)'
  BY <1>1, <1>2, FaultFrame, OthersOutside
<1>5. Local(s)'
  <2>1. pc'[s] = "abandoning" /\ \A q \in Ids \ {id} : dir'[q] = "none"
    BY <1>1, <1>2 DEF TypeOK
  <2> QED
    BY <1>1, <1>2, <2>1 DEF Local, Locking, Handling, Directory, Unwinding, Window, Progress, Outside, Idle, Preparing, Applying, proposals, Entries, Before
<1>6. TypeOK'
  BY <1>1, <1>2 DEF TypeOK, Pc, Preparing, DirStatus, proposals
<1> QED
  BY <1>3, <1>4, <1>5, <1>6 DEF IInv

LEMMA FaultApplyingKeeps ==
  ASSUME IInv, NEW s \in Servers, Fault(s), FaultApplying(s)
  PROVE  IInv'
<1> DEFINE id == cur[s]
<1>1. /\ pc[s] \in Applying \ {"marking"} /\ RollBackOwn(s)
      /\ UNCHANGED <<dir, committed, lock, prop, last>>
      /\ UNCHANGED <<litter, text, edited, proposals, cur>>
      /\ env' \in [edits : Nat, crashes : Nat, faults : Nat]
  BY FaultFrame DEF FaultApplying
<1>2. /\ TypeOK /\ Shared /\ Local(s) /\ lock = s /\ id \in Ids /\ pc[s] \notin Outside
      /\ Pending(id)
  BY <1>1, Insider DEF Outside, Idle, Applying, Local, Directory, Pending
<1>3. Shared' /\ tree' \in [Files -> Content]
  <2>1. CASE UNCHANGED tree
    BY <1>1, <1>2, <2>1, FaultFrame, SharedQuiet DEF TypeOK
  <2>2. CASE pc[s] = "replacing" /\ tree' = [tree EXCEPT ![at[s]] = After(id, at[s])]
    <3>1. /\ at[s] \in Entries(id) /\ at[s] \in Files
          /\ RacyEditor \/ After(id, at[s]).text = tree[at[s]].text
      BY <1>2, <2>2 DEF Local, Window, After, AsReviewed, Generated, Entries, FilesOf
    <3>2. After(id, at[s]) \in Content
      BY <1>2, <3>1, BeforeType
    <3> QED
      BY <1>1, <1>2, <2>2, <3>1, <3>2, WritesShared DEF TypeOK
  <2> QED
    BY <2>1, <2>2 DEF FaultApplying
<1>4. \A t \in Servers \ {s} : Local(t)'
  BY <1>1, <1>2, FaultFrame, OthersOutside
<1>5. Local(s)'
  BY <1>1, <1>2, RolledBack DEF Pending
<1>6. TypeOK'
  BY <1>1, <1>2, <1>3, RolledBackTypes DEF TypeOK, proposals
<1> QED
  BY <1>3, <1>4, <1>5, <1>6 DEF IInv

LEMMA FaultMarkingKeeps ==
  ASSUME IInv, NEW s \in Servers, Fault(s), FaultMarking(s)
  PROVE  IInv'
<1> DEFINE id == cur[s]
<1>1. /\ pc[s] = "marking" /\ Return(s, "failed") /\ UNCHANGED <<tree, prop>>
      /\ UNCHANGED <<litter, text, edited, proposals, cur>>
      /\ env' \in [edits : Nat, crashes : Nat, faults : Nat]
      /\ \/ UNCHANGED <<dir, committed>>
         \/ dir' = [dir EXCEPT ![id] = "committed"] /\ committed' = committed \cup {id}
  BY FaultFrame DEF FaultMarking
<1>2. /\ TypeOK /\ Shared /\ Local(s) /\ lock = s /\ id \in Ids /\ id < next
      /\ pc[s] \notin Outside /\ lock' \in {s, Free}
      /\ \A q \in Ids \ {id} : dir[q] = "none"
  BY <1>1, Insider DEF Outside, Idle, Applying, Local, Directory, Return
<1>3. /\ Shared' /\ committed \subseteq committed' /\ committed' \in SUBSET Ids
      /\ dir' \in [Ids -> DirStatus]
  <2>1. CASE UNCHANGED <<dir, committed>>
    BY <1>1, <1>2, <2>1, FaultFrame, SharedQuiet DEF TypeOK
  <2>2. CASE dir' = [dir EXCEPT ![id] = "committed"] /\ committed' = committed \cup {id}
    BY <1>1, <1>2, <2>2, MarksShared DEF TypeOK, DirStatus
  <2> QED
    BY <1>1, <2>1, <2>2
<1>4. \A t \in Servers \ {s} : Local(t)'
  BY <1>1, <1>2, <1>3, FaultFrame, OthersOutside
<1>5. Local(s)'
  BY <1>1, <1>2, <1>3, Returned
<1>6. TypeOK'
  BY <1>1, <1>2, <1>3, ReturnedTypes DEF TypeOK, proposals
<1> QED
  BY <1>3, <1>4, <1>5, <1>6 DEF IInv

LEMMA EditKeeps ==
  ASSUME IInv, NEW i \in Files, NEW c \in Content, Edit(i, c)
  PROVE  IInv'
<1>1. /\ tree' = [tree EXCEPT ![i] = c] /\ text' = [text EXCEPT ![i] = c.text]
      /\ edited' = edited \cup {i} /\ c.by \in {Nobody, tree[i].by}
      /\ RacyEditor \/ \A s \in Servers : ~(pc[s] \in {"replacing", "restoring"} /\ at[s] = i)
      /\ UNCHANGED <<litter, dir, committed, lock, proposals, pc, local>>
  BY DEF Edit
<1>2. TypeOK /\ Shared /\ Nobody < next
  BY InitConstants DEF IInv, TypeOK, Nobody
<1>3. tree'[i] = c /\ text'[i] = c.text
      /\ \A j \in Files : j # i => tree'[j] = tree[j] /\ text'[j] = text[j]
  BY <1>1, <1>2 DEF TypeOK
<1>4. \A j \in Files : tree'[j].by \in {Nobody, tree[j].by}
  BY <1>1, <1>3
<1>5. Shared'
  <2>1. OneDirectory' /\ Numbered'
    BY <1>1, <1>2, <1>4 DEF Shared, OneDirectory, Numbered, proposals
  <2>2. NoOrphanMetadata' /\ AsPlanned'
    BY <1>1, <1>2, <1>4 DEF Shared, NoOrphanMetadata, AsPlanned, Pending, Entries, Before, proposals
  <2>3. RacyEditor \/ NoLostText'
    BY <1>2, <1>3 DEF Shared, NoLostText
  <2>4. Unwindable'
    <3>1. \A id \in Ids : \A j \in Entries(id) : j \in Files
      BY DEF Entries, FilesOf
    <3> QED
      BY <1>1, <1>2, <1>3, <3>1
      DEF Shared, Unwindable, Pending, Entries, Before, After, proposals
  <2> QED
    BY <2>1, <2>2, <2>3, <2>4 DEF Shared
<1>6. ASSUME NEW s \in Servers
      PROVE  Local(s)'
  <2>1. Local(s)
    BY DEF IInv
  <2>2. Locking(s)' /\ Handling(s)'
    BY <1>1, <2>1 DEF Local, Locking, Handling, local, proposals, Entries, Before
  <2>3. Directory(s)'
    <3>1. pc[s] \in Preparing \cup {"beginning"} => cur[s] # Nobody
      BY <2>1 DEF Local, Handling, Preparing, Idle, Ids, Nobody
    <3> QED
      BY <1>1, <1>4, <2>1, <3>1 DEF Local, Directory, local
  <2>4. Unwinding(s)'
    <3>1. tgt[s] \in Ids => tgt[s] # Nobody
      BY DEF Ids, Nobody
    <3> QED
      BY <1>1, <1>4, <2>1, <3>1 DEF Local, Unwinding, local, proposals, Pending, Entries, Before
  <2>5. Window(s)'
    <3>1. pc[s] = "replacing" => at[s] \in Files
      BY <2>1 DEF Local, Window, Entries, FilesOf
    <3>2. pc[s] = "restoring" => at[s] \in Files
      BY <2>1 DEF Local, Unwinding, Entries, FilesOf
    <3> QED
      BY <1>1, <1>3, <2>1, <3>1, <3>2 DEF Local, Window, local, proposals, AsReviewed, After, Before, Entries
  <2>6. Progress(s)'
    BY <1>1, <1>3, <2>1 DEF Local, Progress, local, proposals, AsReviewed, After, Before, Entries, FilesOf
  <2> QED
    BY <2>2, <2>3, <2>4, <2>5, <2>6 DEF Local
<1>7. TypeOK'
  <2>1. env' \in [edits : Nat, crashes : Nat, faults : Nat]
    BY <1>2 DEF TypeOK, Edit, Hit
  <2> QED
    BY <1>1, <1>2, <2>1 DEF TypeOK, Content, local, proposals
<1> QED
  BY <1>5, <1>6, <1>7 DEF IInv

LEMMA IdleKeeps == IInv /\ UNCHANGED vars => IInv'
<1> SUFFICES ASSUME IInv, UNCHANGED vars
             PROVE  IInv'
  OBVIOUS
<1> USE DEF vars, disk, ghosts, proposals, local
<1>1. TypeOK'
  BY DEF IInv, TypeOK
<1>2. next \in Nat /\ KeepsProposals
  BY InitConstants DEF IInv, TypeOK, KeepsProposals
<1>3. Shared'
  BY <1>2, SharedQuiet
<1>4. ASSUME NEW s \in Servers
      PROVE  Local(s)'
  BY <1>2, OthersQuiet DEF Stays
<1> QED
  BY <1>1, <1>3, <1>4 DEF IInv

-----------------------------------------------------------------------------
LEMMA InitKeeps == Init => IInv
<1> SUFFICES ASSUME Init PROVE IInv
  OBVIOUS
<1>1. TypeOK
  BY InitType
<1>2. \A i \in Files : tree[i].by = Nobody /\ tree[i].text = text[i]
  BY DEF Init, Untouched, Raw
<1>3. next = 1 /\ dir = [id \in Ids |-> "none"] /\ committed = {} /\ lock = Free
  BY DEF Init, Untouched
<1>4. Shared
  BY <1>2, <1>3
  DEF Shared, OneDirectory, Numbered, NoOrphanMetadata, AsPlanned, NoLostText, Unwindable,
      Pending, Nobody
<1>5. ASSUME NEW s \in Servers
      PROVE  Local(s)
  <2>1. /\ pc[s] = "up" /\ prop[s] = Nobody /\ cur[s] = Nobody /\ tgt[s] = Nobody
        /\ why[s] = "recover" /\ last[s] = "none"
    BY DEF Init
  <2> QED
    BY <1>3, <2>1, ProtocolConstants
    DEF Local, Locking, Handling, Directory, Unwinding, Window, Progress, Outside, Idle, Preparing, Applying, Nobody
<1> QED
  BY <1>1, <1>4, <1>5 DEF IInv

\* Every step of the protocol keeps the inductive invariant.
LEMMA NextKeeps == IInv /\ [Next]_vars => IInv'
<1> SUFFICES ASSUME IInv, [Next]_vars
             PROVE  IInv'
  OBVIOUS
<1>1. ASSUME NEW s \in Servers, NEW r \in Roots, Propose(s, r)
      PROVE  IInv'
  BY <1>1, ProposeKeeps
<1>2. ASSUME NEW s \in Servers, Expire(s) \/ Confirm(s) \/ Acquire(s) \/ Crash(s) \/ Restart(s)
      PROVE  IInv'
  BY <1>2, ExpireKeeps, ConfirmKeeps, AcquireKeeps, CrashKeeps, RestartKeeps
<1>3. ASSUME NEW s \in Servers, Step(s)
      PROVE  IInv'
  BY <1>3, RecoverKeeps, UndoKeeps, RestoreKeeps, RemoveKeeps, UnlinkKeeps,
     RevalidateKeeps, PlanKeeps, MakeDirKeeps, StageKeeps, AbandonKeeps,
     BeginKeeps, ApplyKeeps, ReplaceKeeps, VerifyKeeps, MarkKeeps DEF Step
<1>4. ASSUME NEW s \in Servers, Fault(s)
      PROVE  IInv'
  BY <1>4, FaultReturnsKeeps, FaultWaitingKeeps, FaultRevalidatingKeeps,
     FaultPreparingKeeps, FaultApplyingKeeps, FaultMarkingKeeps DEF Fault
<1>5. ASSUME NEW i \in Files, NEW c \in Content, Edit(i, c)
      PROVE  IInv'
  BY <1>5, EditKeeps
<1> QED
  BY <1>1, <1>2, <1>3, <1>4, <1>5, IdleKeeps DEF Next

\* The inductive invariant holds in every reachable state, for every number
\* of files, roots, servers, proposals, edits, crashes and faults.
THEOREM Invariance == Spec => []IInv
BY InitKeeps, NextKeeps, PTL DEF Spec

\* Every variable of the protocol keeps its type.
THEOREM TypeCorrect == Spec => []TypeOK
<1>1. IInv => TypeOK
  BY DEF IInv
<1> QED
  BY <1>1, Invariance, PTL

\* Whatever crashes, fails or is edited, transaction.rs never leaves two
\* operations on disk, and past the recovery a server meets only its own.
THEOREM SingleOperation == Spec => []OneOperation
<1>1. IInv => OneOperation
  BY DEF IInv, Shared, OneDirectory, Local, Directory, OneOperation, Preparing, Applying
<1> QED
  BY <1>1, Invariance, PTL

\* Generated metadata is never found without a commit or a journal.
THEOREM WriteAhead == Spec => []NoOrphanMetadata
<1>1. IInv => NoOrphanMetadata
  BY DEF IInv, Shared
<1> QED
  BY <1>1, Invariance, PTL

\* No plan is built on top of an interrupted initialization.
THEOREM CleanPlan == Spec => []CleanBeforePlan
<1>1. IInv => CleanBeforePlan
  BY DEF IInv, Local, Directory, CleanBeforePlan
<1> QED
  BY <1>1, Invariance, PTL

\* Unless a person saves inside the window between recheck and rename,
\* the protocol never loses a text that a person wrote.
THEOREM TextSafety ==
  ASSUME ~RacyEditor
  PROVE  Spec => []NoLostText
<1>1. IInv => NoLostText
  BY DEF IInv, Shared
<1> QED
  BY <1>1, Invariance, PTL

\* A confirmation that reports success has committed its changes.
THEOREM TruthfulReport == Spec => []SuccessIsCommitted
<1>1. IInv => SuccessIsCommitted
  BY DEF IInv, Local, Handling, SuccessIsCommitted
<1> QED
  BY <1>1, Invariance, PTL

-----------------------------------------------------------------------------
(***************************************************************************)
(* The journaled protocol of transaction.rs implements AtomicInit.  The    *)
(* mapping reads the tree as the next recovery would leave it, so a file   *)
(* changes at the write of the committed marker, not when it is replaced,  *)
(* unless a rollback would refuse at a later file before it gets there.    *)
(***************************************************************************)
\* The steps that the abstract specification does not see.
Hidden == UNCHANGED <<Recovered, OutOfReach, text, edited, committed>>

\* Only one operation is on disk, so metadata that is staged is of one.
LEMMA OnePending ==
  ASSUME IInv, NEW p \in Ids, NEW q \in Ids, Pending(p), Pending(q)
  PROVE  p = q
BY DEF IInv, Shared, OneDirectory, Pending

\* A file is staged for an operation that has an entry for it.
LEMMA StagedEntry ==
  ASSUME IInv, NEW i \in Staged
  PROVE  /\ i \in Files /\ tree[i].by \in Ids /\ Pending(tree[i].by)
         /\ tree[i] = After(tree[i].by, i)
         /\ i \in Entries(tree[i].by) /\ NeedsChange(i, Before(tree[i].by, i))
BY DEF IInv, TypeOK, Content, Shared, AsPlanned, Staged, Entries

\* What the mapping makes of one file.
LEMMA RecoveredAt ==
  ASSUME NEW i \in Files
  PROVE  /\ i \in InReach => Recovered[i] = Before(tree[i].by, i)
         /\ i \notin InReach => Recovered[i] = tree[i]
BY DEF Recovered

\* The mapped tree is a tree.
LEMMA RecoveredType ==
  ASSUME IInv
  PROVE  Recovered \in [Files -> Content]
<1>1. \A i \in InReach : Before(tree[i].by, i) \in Content
  BY StagedEntry, BeforeType DEF InReach, IInv
<1> QED
  BY <1>1 DEF Recovered, IInv, TypeOK

\* Nothing that the mapping reads has changed.
LEMMA SameRecovered ==
  ASSUME IInv, KeepsProposals, UNCHANGED tree,
         \A i \in Files : tree[i].by # Nobody =>
           (Pending(tree[i].by)' <=> Pending(tree[i].by))
  PROVE  Recovered' = Recovered /\ OutOfReach' = OutOfReach
<1>1. ASSUME NEW i \in Files, tree[i].by # Nobody
      PROVE  tree[i].by \in Ids /\ snap'[tree[i].by] = snap[tree[i].by]
  BY <1>1 DEF IInv, TypeOK, Content, Shared, Numbered, KeepsProposals
<1>2. Staged' = Staged
  BY <1>1 DEF Staged, After, Before
<1>3. \A i \in Staged : Stranded(tree[i].by, i)' <=> Stranded(tree[i].by, i)
  BY <1>1 DEF Staged, Stranded, Entries, After, Before
<1>4. InReach' = InReach
  BY <1>2, <1>3 DEF InReach
<1>5. \A i \in InReach : Before(tree[i].by, i)' = Before(tree[i].by, i)
  BY <1>1 DEF InReach, Staged, Before
<1> QED
  BY <1>2, <1>4, <1>5 DEF Recovered, OutOfReach

\* A server that holds the lock and moves nothing but itself.
LEMMA QuietHidden ==
  ASSUME IInv, UNCHANGED <<tree, dir, text, edited, committed>>, KeepsProposals
  PROVE  Hidden
<1>1. Recovered' = Recovered /\ OutOfReach' = OutOfReach
  BY SameRecovered DEF Pending
<1> QED
  BY <1>1 DEF Hidden

LEMMA SameProposals ==
  ASSUME IInv, UNCHANGED proposals
  PROVE  KeepsProposals
BY InitConstants DEF IInv, TypeOK, KeepsProposals, proposals

\* A rollback refuses only at a file that a person wrote.
LEMMA StrandedBehind ==
  ASSUME IInv, NEW id \in Ids, Pending(id), NEW i \in Entries(id), Stranded(id, i)
  PROVE  Atomic!Behind(i, edited)
<1>1. PICK j \in Entries(id) : j > i /\ tree[j] \notin {Before(id, j), After(id, j)}
  BY DEF Stranded
<1>2. j \in edited
  BY <1>1 DEF IInv, Shared, Unwindable
<1>3. RootOf[j] = RootOf[i]
  BY DEF Entries, FilesOf
<1> QED
  BY <1>1, <1>2, <1>3 DEF Atomic!Behind

-----------------------------------------------------------------------------
\* A pending operation moves a file between its reviewed and staged bytes.
LEMMA WriteMaps ==
  ASSUME IInv, NEW id \in Ids, NEW i \in Entries(id), Pending(id),
         NEW c, c \in {Before(id, i), After(id, i)},
         tree[i] \in {Before(id, i), After(id, i)},
         tree' = [tree EXCEPT ![i] = c],
         UNCHANGED <<dir, proposals, text, edited, committed>>
  PROVE  Hidden \/ Atomic!AHalf
<1>1. i \in Files /\ tree \in [Files -> Content] /\ id # Nobody
  BY DEF IInv, TypeOK, Entries, FilesOf, Ids, Nobody
<1>2. /\ tree'[i] = c
      /\ \A j \in Files : j # i => tree'[j] = tree[j]
  BY <1>1
<1>3. Before(id, i).by = Nobody /\ After(id, i).by = id /\ Before(id, i) # After(id, i)
  BY <1>1 DEF Entries, NeedsChange, After, Generated
<1>4. \A j \in Staged : tree[j].by = id
  BY StagedEntry, OnePending
<1>5. /\ i \in Staged <=> tree[i] = After(id, i)
      /\ i \in Staged' <=> c = After(id, i)
  BY <1>1, <1>2, <1>3 DEF Staged, Pending, After, Before, proposals
<1>6. \A j \in Files : j # i => (j \in Staged' <=> j \in Staged)
  BY <1>2 DEF Staged, Pending, After, Before, proposals
<1>7. \A j \in Files : Stranded(id, j)' <=> Stranded(id, j)
  <2>1. \A k \in Entries(id) : k \in Files
    BY DEF Entries, FilesOf
  <2>2. \A k \in Entries(id) : tree'[k] \in {Before(id, k), After(id, k)} <=>
                               tree[k] \in {Before(id, k), After(id, k)}
    BY <1>2, <2>1
  <2> QED
    BY <2>2 DEF Stranded, Entries, Before, After, proposals
<1>8. \A j \in Staged' : tree'[j].by = id
  BY <1>2, <1>3, <1>4, <1>5, <1>6 DEF Staged
<1>9. \A j \in Files : j # i => /\ j \in InReach' <=> j \in InReach
                                /\ j \in OutOfReach' <=> j \in OutOfReach
  BY <1>2, <1>4, <1>6, <1>7, <1>8 DEF InReach, OutOfReach
<1>10. \A j \in Files : j # i => Recovered'[j] = Recovered[j]
  BY <1>2, <1>9 DEF Recovered, Before, proposals
<1>11. /\ i \in InReach <=> tree[i] = After(id, i) /\ ~Stranded(id, i)
       /\ i \in InReach' <=> c = After(id, i) /\ ~Stranded(id, i)
       /\ i \in OutOfReach <=> tree[i] = After(id, i) /\ Stranded(id, i)
       /\ i \in OutOfReach' <=> c = After(id, i) /\ Stranded(id, i)
  BY <1>1, <1>4, <1>5, <1>7, <1>8 DEF InReach, OutOfReach
<1>12. CASE ~Stranded(id, i)
  <2>1. Recovered[i] = Before(id, i)
    BY <1>1, <1>3, <1>11, <1>12 DEF Recovered, After, Generated
  <2>2. Recovered'[i] = Before(id, i)
    BY <1>1, <1>2, <1>3, <1>11, <1>12 DEF Recovered, Before, proposals
  <2>3. Recovered' = Recovered
    BY <1>10, <2>1, <2>2 DEF Recovered
  <2>4. OutOfReach' = OutOfReach
    BY <1>9, <1>11, <1>12 DEF OutOfReach, Staged
  <2> QED
    BY <2>3, <2>4 DEF Hidden
<1>13. CASE Stranded(id, i)
  <2>1. Recovered[i] = tree[i] /\ Recovered'[i] = c
    BY <1>1, <1>2, <1>11, <1>13 DEF Recovered
  <2>2. Recovered' \in [Files -> Content]
    <3>1. c \in Content
      BY <1>1, BeforeType DEF IInv
    <3>2. \A j \in Files : Recovered'[j] \in Content
      BY <1>10, <2>1, <3>1, RecoveredType
    <3> QED
      BY <3>2 DEF Recovered
  <2>3. \A j \in OutOfReach' : j \in Files /\ Atomic!Behind(j, edited)
    <3> SUFFICES ASSUME NEW j \in OutOfReach'
                 PROVE  j \in Files /\ Atomic!Behind(j, edited)
      OBVIOUS
    <3>1. j \in Staged' /\ j \in Files
      BY DEF OutOfReach, Staged
    <3>2. CASE j = i
      BY <1>1, <1>13, <3>2, StrandedBehind
    <3>3. CASE j # i
      <4>1. j \in Staged /\ tree[j].by = id /\ j \in Entries(id)
        BY <1>4, <1>6, <3>1, <3>3, StagedEntry
      <4>2. Stranded(id, j)
        BY <1>9, <3>1, <3>3, <4>1 DEF OutOfReach, InReach
      <4> QED
        BY <3>1, <4>1, <4>2, StrandedBehind
    <3> QED
      BY <3>2, <3>3
  <2>4. \/ Recovered'[i] = Recovered[i] /\ (i \in OutOfReach' <=> i \in OutOfReach)
        \/ Atomic!Shown(i)
        \/ Atomic!TakenBack(i)
    <3>1. CASE c = tree[i]
      BY <1>11, <2>1, <3>1
    <3>2. CASE c = After(id, i) /\ tree[i] = Before(id, i)
      <4>1. i \in OutOfReach' \ OutOfReach /\ NeedsChange(i, tree[i])
        BY <1>3, <1>11, <1>13, <3>2 DEF Entries
      <4>2. c = Generated(id, tree[i])
        BY <3>2 DEF After
      <4> QED
        BY <2>1, <4>1, <4>2
        DEF Atomic!Shown, Atomic!NeedsChange, Atomic!Generated, Atomic!Ids,
            Atomic!Nobody, Atomic!Missing, NeedsChange, Generated, Ids, Nobody, Missing
    <3>3. CASE c = Before(id, i) /\ tree[i] = After(id, i)
      <4>1. i \in OutOfReach \ OutOfReach' /\ NeedsChange(i, c)
        BY <1>3, <1>11, <1>13, <3>3 DEF Entries
      <4>2. tree[i] = Generated(id, c)
        BY <3>3 DEF After
      <4> QED
        BY <2>1, <4>1, <4>2
        DEF Atomic!TakenBack, Atomic!NeedsChange, Atomic!Generated, Atomic!Ids,
            Atomic!Nobody, Atomic!Missing, NeedsChange, Generated, Ids, Nobody, Missing
    <3> QED
      BY <3>1, <3>2, <3>3
  <2>5. Atomic!HalfDone(Files)
    BY <1>9, <1>10, <2>2, <2>3, <2>4
    DEF Atomic!HalfDone, Atomic!Files, Atomic!Content, Atomic!Ids, Atomic!Nobody,
        Files, Content, Ids, Nobody
  <2> QED
    BY <2>5 DEF Atomic!AHalf, Atomic!Files, Files
<1> QED
  BY <1>12, <1>13

-----------------------------------------------------------------------------
\* A person's edit is the same edit of the recovered tree; it may put files
\* of a pending operation out of the reach of a rollback, or back into it.
LEMMA EditMaps ==
  ASSUME IInv, NEW i \in Files, NEW c \in Content, Edit(i, c)
  PROVE  \E d \in Content : Atomic!AEdit(i, d)
<1>1. /\ tree' = [tree EXCEPT ![i] = c] /\ text' = [text EXCEPT ![i] = c.text]
      /\ edited' = edited \cup {i} /\ UNCHANGED <<dir, committed, proposals>>
      /\ c.by \in {Nobody, tree[i].by}
  BY DEF Edit
<1>2. TypeOK /\ tree'[i] = c /\ \A j \in Files : j # i => tree'[j] = tree[j]
  BY <1>1 DEF IInv, TypeOK
<1>3. \A id, j : /\ Before(id, j)' = Before(id, j) /\ After(id, j)' = After(id, j)
                 /\ Entries(id)' = Entries(id) /\ (Pending(id)' <=> Pending(id))
  BY <1>1 DEF Before, After, Entries, Pending, proposals
<1> DEFINE d == Recovered'[i]
<1>4. d = c \/ (c.by \in Ids /\ d = Before(c.by, i) /\ c = After(c.by, i))
  BY <1>1, <1>2 DEF Recovered, InReach, Staged, Content, Pending, After, Before, proposals
<1>5. d \in Content /\ d.text = c.text
  BY <1>2, <1>4, BeforeType DEF After, Generated
<1>6. ASSUME NEW j \in Files, j # i
      PROVE  /\ Recovered'[j] \in Content
             /\ \/ Recovered'[j] = Recovered[j] /\ (j \in OutOfReach' <=> j \in OutOfReach)
                \/ Atomic!Shown(j)
                \/ Atomic!TakenBack(j)
  <2> DEFINE id == tree[j].by
  <2>1. tree'[j] = tree[j] /\ tree[j] \in Content /\ (j \in Staged' <=> j \in Staged)
    BY <1>1, <1>2, <1>6 DEF TypeOK, Staged, Pending, After, Before, proposals
  <2>2. CASE j \notin Staged
    BY <2>1, <2>2 DEF Recovered, InReach, OutOfReach
  <2>3. CASE j \in Staged
    <3>1. /\ id \in Ids /\ tree[j] = After(id, j) /\ NeedsChange(j, Before(id, j))
          /\ Before(id, j) \in Content
      BY <1>2, <2>3, StagedEntry, BeforeType
    <3>2. /\ j \in InReach <=> ~Stranded(id, j)
          /\ j \in OutOfReach <=> Stranded(id, j)
      BY <2>3 DEF InReach, OutOfReach
    <3>3. /\ j \in InReach' <=> ~Stranded(id, j)'
          /\ j \in OutOfReach' <=> Stranded(id, j)'
      BY <2>1, <2>3 DEF InReach, OutOfReach
    <3>4. Recovered[j] = IF Stranded(id, j) THEN tree[j] ELSE Before(id, j)
      BY <3>2 DEF Recovered
    <3>5. Recovered'[j] = IF Stranded(id, j)' THEN tree[j] ELSE Before(id, j)
      BY <1>3, <2>1, <3>3 DEF Recovered
    <3>6. CASE Stranded(id, j)' <=> Stranded(id, j)
      BY <2>1, <3>1, <3>2, <3>3, <3>4, <3>5, <3>6
    <3>7. CASE Stranded(id, j)' /\ ~Stranded(id, j)
      <4>1. j \in OutOfReach' \ OutOfReach
        BY <3>2, <3>3, <3>7
      <4>2. Recovered'[j] = Generated(id, Before(id, j)) /\ Recovered[j] = Before(id, j)
        BY <3>1, <3>4, <3>5, <3>7 DEF After
      <4>3. Atomic!Shown(j)
        BY <3>1, <4>1, <4>2
        DEF Atomic!Shown, Atomic!NeedsChange, Atomic!Generated, Atomic!Ids,
            Atomic!Nobody, Atomic!Missing, NeedsChange, Generated, Ids, Nobody, Missing
      <4> QED
        BY <2>1, <3>5, <3>7, <4>3
    <3>8. CASE ~Stranded(id, j)' /\ Stranded(id, j)
      <4>1. j \in OutOfReach \ OutOfReach'
        BY <3>2, <3>3, <3>8
      <4>2. Recovered[j] = Generated(id, Before(id, j)) /\ Recovered'[j] = Before(id, j)
        BY <3>1, <3>4, <3>5, <3>8 DEF After
      <4>3. Atomic!TakenBack(j)
        BY <3>1, <4>1, <4>2
        DEF Atomic!TakenBack, Atomic!NeedsChange, Atomic!Generated, Atomic!Ids,
            Atomic!Nobody, Atomic!Missing, NeedsChange, Generated, Ids, Nobody, Missing
      <4> QED
        BY <3>1, <4>2, <4>3
    <3>9. Stranded(id, j) \in BOOLEAN /\ Stranded(id, j)' \in BOOLEAN
      BY DEF Stranded
    <3> QED
      BY <3>6, <3>7, <3>8, <3>9
  <2> QED
    BY <2>2, <2>3
<1>7. \A j \in OutOfReach' : j \in Files /\ Atomic!Behind(j, edited')
  <2> SUFFICES ASSUME NEW j \in OutOfReach'
               PROVE  j \in Files /\ Atomic!Behind(j, edited')
    OBVIOUS
  <2> DEFINE id == tree'[j].by
  <2>1. /\ j \in Files /\ id # Nobody /\ Pending(id)
        /\ \E k \in Entries(id) : k > j /\ tree'[k] \notin {Before(id, k), After(id, k)}
    BY <1>3 DEF OutOfReach, InReach, Staged, Stranded
  <2>2. id = tree[j].by /\ id \in Ids /\ j \in Entries(id)
    BY <1>1, <1>2, <2>1 DEF TypeOK, Content, IInv, Shared, AsPlanned
  <2>3. PICK k \in Entries(id) : k > j /\ tree'[k] \notin {Before(id, k), After(id, k)}
    BY <2>1
  <2>4. k \in Files /\ RootOf[k] = RootOf[j]
    BY <2>2 DEF Entries, FilesOf
  <2>5. k \in edited'
    BY <1>1, <1>2, <2>1, <2>2, <2>3, <2>4 DEF IInv, Shared, Unwindable
  <2> QED
    BY <2>1, <2>3, <2>4, <2>5 DEF Atomic!Behind
<1>8. Recovered' \in [Files -> Content]
  <2>1. \A j \in Files : Recovered'[j] \in Content
    BY <1>5, <1>6
  <2> QED
    BY <2>1 DEF Recovered
<1>9. Atomic!HalfDone(Files \ {i})
  BY <1>6, <1>7, <1>8
  DEF Atomic!HalfDone, Atomic!Files, Atomic!Content, Atomic!Ids, Atomic!Nobody,
      Files, Content, Ids, Nobody
<1>10. Atomic!AEdit(i, d)
  BY <1>1, <1>5, <1>9 DEF Atomic!AEdit, Atomic!Files, Files
<1> QED
  BY <1>5, <1>10

\* The write of the committed marker is the atomic commit.
LEMMA CommitMaps ==
  ASSUME IInv, NEW s \in Servers, pc[s] = "marking",
         dir' = [dir EXCEPT ![cur[s]] = "committed"],
         committed' = committed \cup {cur[s]},
         UNCHANGED <<tree, text, edited, proposals>>
  PROVE  Atomic!ACommit(cur[s], snap[cur[s]].root)
<1> DEFINE id == cur[s]
           r  == snap[id].root
<1>1. /\ TypeOK /\ Shared /\ Local(s) /\ id \in Ids /\ dir[id] = "applying"
      /\ \A q \in Ids \ {id} : dir[q] = "none"
  BY Insider DEF Outside, Idle, Local, Directory, Applying
<1>2. id # Nobody /\ \A q \in Ids : (Pending(q) <=> q = id) /\ ~Pending(q)'
  BY <1>1 DEF Pending, TypeOK, Ids, Nobody
<1>3. \A i \in Staged : tree[i].by = id /\ i \in Entries(id) /\ tree[i] = After(id, i)
  BY <1>2, StagedEntry
<1>4. InReach \in SUBSET FilesOf(r)
  BY <1>3 DEF InReach, Entries
<1>5. \A i \in Files : Recovered[i] = IF i \in InReach THEN Before(id, i) ELSE tree[i]
  BY <1>3 DEF Recovered, InReach
<1>6. Staged' = {}
  BY <1>1, <1>2 DEF Staged, TypeOK, Content
<1>7. OutOfReach' = {} /\ \A i \in Files : Recovered'[i] = tree[i]
  BY <1>6 DEF Recovered, OutOfReach, InReach
<1>8. \A i \in InReach : NeedsChange(i, Recovered[i])
  BY <1>3, <1>4, <1>5 DEF Entries, FilesOf, InReach
<1>9. \A i \in FilesOf(r) \ edited : NeedsChange(i, Recovered[i]) => i \in InReach
  <2> SUFFICES ASSUME NEW i \in FilesOf(r) \ edited, i \notin InReach
               PROVE  ~NeedsChange(i, Recovered[i])
    OBVIOUS
  <2>1. /\ tree[i] = IF i \in Entries(id) THEN After(id, i) ELSE Before(id, i)
        /\ i \in Files /\ Recovered[i] = tree[i]
    BY <1>1, <1>5 DEF Local, Progress, FilesOf
  <2>2. CASE i \in Entries(id)
    BY <1>2, <2>1, <2>2 DEF NeedsChange, After, Generated
  <2>3. CASE i \notin Entries(id)
    BY <2>1, <2>3 DEF Entries
  <2> QED
    BY <2>2, <2>3
<1>10. \A i \in OutOfReach : Recovered[i].by = id
  BY <1>3, <1>5 DEF OutOfReach, Staged
<1>11. Recovered' = [i \in Files |-> IF i \in InReach THEN Generated(id, Recovered[i])
                                                       ELSE Recovered[i]]
  <2>1. \A i \in InReach : i \in Files /\ tree[i] = Generated(id, Before(id, i))
    BY <1>3 DEF InReach, Staged, After
  <2> QED
    BY <1>5, <1>7, <2>1 DEF Recovered
<1> QED
  BY <1>4, <1>7, <1>8, <1>9, <1>10, <1>11
  DEF Atomic!ACommit, Atomic!FilesOf, Atomic!NeedsChange, Atomic!Generated,
      Atomic!Files, FilesOf, NeedsChange, Generated, Files,
      Atomic!Nobody, Atomic!Missing, Nobody, Missing

\* A review that finds everything fresh meets no operation and no metadata
\* that was not committed.
LEMMA ReviewMaps ==
  ASSUME IInv, NEW s \in Servers, pc[s] = "revalidating", edited' = {},
         UNCHANGED <<tree, dir, text, committed, proposals>>
  PROVE  Atomic!AReview
<1>1. /\ \A id \in Ids : dir[id] = "none"
      /\ \A i \in Files : tree[i].by \in committed \cup {Nobody}
  BY DEF IInv, Local, Directory
<1>2. Staged = {}
  BY <1>1 DEF Staged, Pending, IInv, TypeOK, Content
<1>3. OutOfReach = {} /\ \A i \in Files : Recovered[i] = tree[i]
  BY <1>2 DEF OutOfReach, InReach, Recovered
<1>4. Recovered' = Recovered /\ OutOfReach' = OutOfReach
  BY SameRecovered, SameProposals DEF Pending
<1> QED
  BY <1>1, <1>3, <1>4 DEF Atomic!AReview, Atomic!Files, Atomic!Nobody, Files, Nobody

-----------------------------------------------------------------------------
\* Only the directory of an operation without metadata in the tree changes.
LEMMA DirectoryHidden ==
  ASSUME IInv, NEW id \in Ids, \A i \in Files : tree[i].by # id,
         NEW status, dir' = [dir EXCEPT ![id] = status],
         UNCHANGED <<tree, text, edited, committed, proposals>>
  PROVE  Hidden
<1>1. \A q \in Ids \ {id} : Pending(q)' <=> Pending(q)
  BY DEF IInv, TypeOK, Pending
<1>2. Recovered' = Recovered /\ OutOfReach' = OutOfReach
  <2>1. \A i \in Files : tree[i].by # Nobody => tree[i].by \in Ids \ {id}
    BY DEF IInv, TypeOK, Content
  <2> QED
    BY <1>1, <2>1, SameRecovered, SameProposals
<1> QED
  BY <1>2 DEF Hidden

\* Only a directory that was not pending changes to one that is not.
LEMMA FinishedHidden ==
  ASSUME IInv, NEW id \in Ids, ~Pending(id), NEW status, status \in {"none", "bare"},
         dir' = [dir EXCEPT ![id] = status],
         UNCHANGED <<tree, text, edited, committed, proposals>>
  PROVE  Hidden
<1>1. \A q \in Ids : Pending(q)' <=> Pending(q)
  BY DEF IInv, TypeOK, Pending
<1>2. Recovered' = Recovered /\ OutOfReach' = OutOfReach
  <2>1. \A i \in Files : tree[i].by # Nobody => tree[i].by \in Ids
    BY DEF IInv, TypeOK, Content
  <2> QED
    BY <1>1, <2>1, SameRecovered, SameProposals
<1> QED
  BY <1>2 DEF Hidden

LEMMA StepMaps ==
  ASSUME IInv, ~RacyEditor, NEW s \in Servers, Step(s)
  PROVE  \/ Hidden
         \/ Atomic!AHalf
         \/ Atomic!AReview
         \/ \E id \in Ids, r \in Roots : Atomic!ACommit(id, r)
<1> USE DEF disk, ghosts, local
<1>1. CASE Recover(s) \/ Undo(s) \/ Plan(s) \/ Apply(s) \/ Verify(s)
  <2>1. UNCHANGED <<tree, dir, text, edited, committed, proposals>>
    BY <1>1 DEF Recover, Undo, Plan, Apply, Verify
  <2> QED
    BY <2>1, QuietHidden, SameProposals
<1>2. CASE Restore(s)
  <2>1. pc[s] = "restoring" /\ Local(s) /\ TypeOK
    BY <1>2 DEF Restore, IInv
  <2>2. /\ tgt[s] \in Ids /\ Pending(tgt[s]) /\ at[s] \in Entries(tgt[s])
        /\ tree[at[s]] = After(tgt[s], at[s])
    BY <2>1 DEF Local, Unwinding, Window
  <2> QED
    BY <1>2, <2>2, WriteMaps DEF Restore
<1>3. CASE Replace(s)
  <2>1. pc[s] = "replacing" /\ Local(s) /\ TypeOK
    BY <1>3 DEF Replace, IInv
  <2>2. /\ cur[s] \in Ids /\ Pending(cur[s]) /\ at[s] \in Entries(cur[s])
        /\ tree[at[s]] = Before(cur[s], at[s])
    BY <2>1 DEF Local, Handling, Directory, Window, Pending, Applying, Idle, AsReviewed
  <2> QED
    BY <1>3, <2>2, WriteMaps DEF Replace
<1>4. CASE Remove(s)
  <2>1. pc[s] = "removing" /\ Local(s) /\ TypeOK
    BY <1>4 DEF Remove, IInv
  <2>2. tgt[s] \in Ids /\ (~Pending(tgt[s]) \/ \A i \in Files : tree[i].by # tgt[s])
    BY <2>1 DEF Local, Unwinding, Pending
  <2> QED
    BY <1>4, <2>2, DirectoryHidden, FinishedHidden DEF Remove
<1>5. CASE Unlink(s)
  <2>1. pc[s] = "unlinking" /\ Local(s)
    BY <1>5 DEF Unlink, IInv
  <2>2. tgt[s] \in Ids /\ ~Pending(tgt[s])
    BY <2>1 DEF Local, Unwinding, Pending
  <2> QED
    BY <1>5, <2>2, FinishedHidden DEF Unlink
<1>6. CASE Revalidate(s)
  <2>1. /\ pc[s] = "revalidating" /\ UNCHANGED <<tree, dir, text, committed, proposals>>
        /\ edited' = {} \/ UNCHANGED edited
    BY <1>6 DEF Revalidate
  <2> QED
    BY <2>1, ReviewMaps, QuietHidden, SameProposals
<1>7. CASE MakeDir(s) \/ Stage(s) \/ Abandon(s) \/ Begin(s)
  <2>1. pc[s] \in Preparing \cup {"beginning"} /\ Local(s)
    BY <1>7 DEF MakeDir, Stage, Abandon, Begin, Preparing, IInv
  <2>2. cur[s] \in Ids /\ \A i \in Files : tree[i].by # cur[s]
    BY <2>1 DEF Local, Handling, Directory, Preparing, Idle
  <2>3. CASE UNCHANGED dir
    BY <1>7, <2>3, QuietHidden, SameProposals DEF MakeDir, Stage, Abandon, Begin
  <2>4. CASE \E status \in DirStatus : dir' = [dir EXCEPT ![cur[s]] = status]
    BY <1>7, <2>2, <2>4, DirectoryHidden DEF MakeDir, Stage, Abandon, Begin
  <2> QED
    BY <1>7, <2>3, <2>4 DEF MakeDir, Stage, Abandon, Begin, DirStatus
<1>8. CASE Mark(s)
  <2>1. Atomic!ACommit(cur[s], snap[cur[s]].root)
    BY <1>8, CommitMaps DEF Mark
  <2>2. cur[s] \in Ids /\ snap[cur[s]].root \in Roots
    BY <1>8, Insider DEF Mark, Outside, Idle, TypeOK, Snapshot
  <2> QED
    BY <2>1, <2>2
<1> QED
  BY <1>1, <1>2, <1>3, <1>4, <1>5, <1>6, <1>7, <1>8 DEF Step

LEMMA FaultMaps ==
  ASSUME IInv, ~RacyEditor, NEW s \in Servers, Fault(s)
  PROVE  \/ Hidden
         \/ Atomic!AHalf
         \/ \E id \in Ids, r \in Roots : Atomic!ACommit(id, r)
<1>1. UNCHANGED <<text, edited, proposals>> /\ TypeOK /\ Local(s)
  BY FaultFrame DEF IInv
<1>2. CASE UNCHANGED <<tree, dir, committed>>
  BY <1>1, <1>2, QuietHidden, SameProposals
<1>3. CASE FaultReturns(s) /\ ~UNCHANGED tree
  <2>1. /\ pc[s] = "restoring" /\ UNCHANGED <<dir, committed>>
        /\ tree' = [tree EXCEPT ![at[s]] = Before(tgt[s], at[s])]
    BY <1>3 DEF FaultReturns
  <2>2. /\ tgt[s] \in Ids /\ Pending(tgt[s]) /\ at[s] \in Entries(tgt[s])
        /\ tree[at[s]] = After(tgt[s], at[s])
    BY <1>1, <2>1 DEF Local, Unwinding, Window
  <2> QED
    BY <1>1, <2>1, <2>2, WriteMaps
<1>4. CASE FaultApplying(s) /\ ~UNCHANGED tree
  <2>1. /\ pc[s] = "replacing" /\ UNCHANGED <<dir, committed>>
        /\ tree' = [tree EXCEPT ![at[s]] = After(cur[s], at[s])]
    BY <1>4 DEF FaultApplying
  <2>2. /\ cur[s] \in Ids /\ Pending(cur[s]) /\ at[s] \in Entries(cur[s])
        /\ tree[at[s]] = Before(cur[s], at[s])
    BY <1>1, <2>1 DEF Local, Handling, Directory, Window, Pending, Applying, Idle, AsReviewed
  <2> QED
    BY <1>1, <2>1, <2>2, WriteMaps
<1>5. CASE FaultPreparing(s) /\ ~UNCHANGED dir
  <2>1. /\ pc[s] = "staging" /\ UNCHANGED <<tree, committed>>
        /\ dir' = [dir EXCEPT ![cur[s]] = "prepared"]
    BY <1>5 DEF FaultPreparing
  <2>2. cur[s] \in Ids /\ \A i \in Files : tree[i].by # cur[s]
    BY <1>1, <2>1 DEF Local, Handling, Directory, Preparing, Idle
  <2> QED
    BY <1>1, <2>1, <2>2, DirectoryHidden
<1>6. CASE FaultMarking(s) /\ ~UNCHANGED <<dir, committed>>
  <2>1. /\ pc[s] = "marking" /\ UNCHANGED tree
        /\ dir' = [dir EXCEPT ![cur[s]] = "committed"]
        /\ committed' = committed \cup {cur[s]}
    BY <1>6 DEF FaultMarking
  <2>2. Atomic!ACommit(cur[s], snap[cur[s]].root)
    BY <1>1, <2>1, CommitMaps
  <2>3. cur[s] \in Ids /\ snap[cur[s]].root \in Roots
    BY <2>1, Insider DEF Outside, Idle, TypeOK, Snapshot
  <2> QED
    BY <2>2, <2>3
<1> QED
  BY <1>2, <1>3, <1>4, <1>5, <1>6
  DEF Fault, FaultReturns, FaultWaiting, FaultRevalidating, FaultPreparing,
      FaultApplying, FaultMarking

-----------------------------------------------------------------------------
LEMMA InitMaps == Init => Atomic!AInit
<1> SUFFICES ASSUME Init PROVE Atomic!AInit
  OBVIOUS
<1>1. tree \in [Files -> Raw] /\ \A i \in Files : tree[i].by = Nobody
  BY DEF Init, Untouched, Raw
<1>2. Staged = {}
  BY <1>1 DEF Staged
<1>3. Recovered = tree /\ OutOfReach = {}
  BY <1>1, <1>2 DEF Recovered, OutOfReach, InReach
<1> QED
  BY <1>3 DEF Init, Untouched, Atomic!AInit, Atomic!Untouched, Atomic!Files, Atomic!Raw, Atomic!Content,
              Atomic!Ids, Atomic!Nobody, Files, Raw, Content, Ids, Nobody

LEMMA NextMaps ==
  ASSUME IInv, ~RacyEditor, [Next]_vars
  PROVE  [Atomic!ANext]_(Atomic!avars)
<1>1. Hidden => UNCHANGED Atomic!avars
  BY DEF Hidden, Atomic!avars
<1>2. ASSUME NEW s \in Servers, NEW r \in Roots, Propose(s, r)
      PROVE  Hidden
  <2>1. KeepsProposals
    BY <1>2, InitConstants DEF Propose, IInv, TypeOK, KeepsProposals
  <2> QED
    BY <1>2, <2>1, QuietHidden DEF Propose, disk, ghosts
<1>3. ASSUME NEW s \in Servers, Expire(s) \/ Confirm(s) \/ Acquire(s) \/ Crash(s) \/ Restart(s)
      PROVE  Hidden
  <2>1. UNCHANGED <<tree, dir, text, edited, committed, proposals>>
    BY <1>3 DEF Expire, Confirm, Acquire, Crash, Restart, disk, ghosts
  <2> QED
    BY <2>1, QuietHidden, SameProposals
<1>4. CASE UNCHANGED vars
  <2>1. UNCHANGED <<tree, dir, text, edited, committed, proposals>>
    BY <1>4 DEF vars, disk, ghosts, proposals
  <2>2. Hidden
    BY <2>1, QuietHidden, SameProposals
  <2> QED
    BY <1>1, <2>2
<1> QED
  BY <1>1, <1>2, <1>3, <1>4, StepMaps, FaultMaps, EditMaps
  DEF Next, Atomic!ANext, Atomic!Files, Atomic!Content, Atomic!Ids, Atomic!Nobody,
      Files, Content, Ids, Nobody

\* Unless a person saves inside the window between recheck and rename, the
\* journaled protocol implements the atomic commit: every behaviour of it,
\* with its crashes, faults and edits, is one in which the metadata of a
\* confirmation appears in all files that need it at once, except before a
\* file of the root that a person wrote while the confirmation worked.
THEOREM Refinement ==
  ASSUME ~RacyEditor
  PROVE  Spec => AtomicCommit
<1>1. IInv /\ [Next]_vars => [Atomic!ANext]_(Atomic!avars)
  BY NextMaps
<1> QED
  BY <1>1, InitMaps, Invariance, PTL DEF Spec, AtomicCommit, Atomic!ASpec
=============================================================================

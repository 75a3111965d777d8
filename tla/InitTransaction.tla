-------------------------- MODULE InitTransaction ---------------------------
(***************************************************************************)
(* The journaled source initialization of crates/okf/src/transaction.rs:   *)
(* server processes that share one private state directory write generated *)
(* metadata into the documents of a root, while people edit the same       *)
(* documents, processes crash and restart, and file operations fail.       *)
(*                                                                         *)
(* An operation directory "operation-<plan digest>" holds staged files,    *)
(* backups and journal.json.  The plan digest covers the random root       *)
(* identity a proposal was given, so a directory is named by a proposal.   *)
(***************************************************************************)
EXTENDS RootFiles, FiniteSets

CONSTANTS
  Servers,      \* the server processes
  Free,         \* the holder of initialization.lock when nobody holds it
  RacyEditor,   \* may a person save between the recheck and the rename?
  MaxEdits, MaxCrashes, MaxFaults   \* how often the environment strikes

ASSUME ProtocolConstants ==
  /\ Free \notin Servers
  /\ RacyEditor \in BOOLEAN
  /\ MaxEdits \in Nat /\ MaxCrashes \in Nat /\ MaxFaults \in Nat

VARIABLES
  \* the disk
  litter,     \* files beside which a crash left a ".okf-init-*" temporary
  dir,        \* the status of each operation directory
  \* the kernel
  lock,       \* who holds the advisory lock
  \* all proposals ever built: the root and the reviewed state of its files
  snap, next,
  \* each server process
  pc, at, cur, tgt, why, prop, last,
  \* how often each hazard struck
  env

disk == <<tree, litter, dir>>
ghosts == <<text, edited, committed>>
proposals == <<snap, next>>
local == <<at, cur, tgt, why, prop, last>>
vars == <<disk, ghosts, lock, proposals, pc, local, env>>

\* "bare": the directory exists without a journal.json that can be read.
DirStatus == {"none", "bare", "prepared", "applying", "committed"}

\* Where a server is inside confirm_source_initialization.
Idle == {"up", "down"}
Outside == Idle \cup {"waiting"}
Recovery == {"recovering", "undoing", "restoring", "removing", "unlinking"}
Preparing == {"making", "staging", "abandoning"}
Applying == {"beginning", "applying", "replacing", "verifying", "marking"}
Pc == Outside \cup Recovery \cup {"revalidating", "planning"}
      \cup Preparing \cup Applying

Snapshot == [root : Roots, files : [Files -> Content], litter : SUBSET Files]

\* The files of the plan, and the bytes before and after, as the journal,
\* the backups and the staged files of an operation record them.
Before(id, i) == snap[id].files[i]
After(id, i) == Generated(id, Before(id, i))
Entries(id) == {i \in FilesOf(snap[id].root) : NeedsChange(i, Before(id, i))}

\* A mutant of the comparison: a file to be created is not compared, so one
\* that somebody created in the meantime counts as reviewed.
OriginalAsReviewed(id, i) == \/ Before(id, i) = Missing
                             \/ tree[i] = Before(id, i)

\* The file still has the bytes, or the absence, that the reviewer saw.
AsReviewed(id, i) == tree[i] = Before(id, i)

\* The ".okf-init-*" files that a scan of root r meets, left behind or live.
Temporaries(r) ==
  {i \in FilesOf(r) : \/ i \in litter
                      \/ \E s \in Servers : /\ pc[s] \in {"replacing", "restoring"}
                                            /\ at[s] = i}

\* What the inventory of root r looks like now (inventory_digest).
Scan(r) == [root |-> r,
            files |-> [i \in Files |-> IF RootOf[i] = r THEN tree[i] ELSE Missing],
            litter |-> Temporaries(r)]

\* RootProposalStore::validate: the tree still is what the proposal saw.
Fresh(id) == Scan(snap[id].root) = snap[id]

Goto(s, l) == pc' = [pc EXCEPT ![s] = l]

\* A mutant: the error path forgets to release the lock.
ReturnLocked(s, result) ==
  /\ Goto(s, "up")
  /\ last' = [last EXCEPT ![s] = result]
  /\ lock' = IF result = "ok" THEN Free ELSE lock
  /\ at' = [at EXCEPT ![s] = 0]
  /\ tgt' = [tgt EXCEPT ![s] = Nobody]
  /\ why' = [why EXCEPT ![s] = "recover"]

\* confirm_source_initialization returns and drops its FileLock.
Return(s, result) == /\ Goto(s, "up")
                     /\ last' = [last EXCEPT ![s] = result]
                     /\ lock' = Free
                     /\ at' = [at EXCEPT ![s] = 0]
                     /\ tgt' = [tgt EXCEPT ![s] = Nobody]
                     /\ why' = [why EXCEPT ![s] = "recover"]

\* Work on operation id: in recovery, after a failure, or after the commit.
Target(s, id, reason) == /\ tgt' = [tgt EXCEPT ![s] = id]
                         /\ why' = [why EXCEPT ![s] = reason]
-----------------------------------------------------------------------------
EmptySnapshot == [root |-> CHOOSE r \in Roots : TRUE,
                  files |-> [i \in Files |-> Missing],
                  litter |-> {}]

Init == /\ Untouched
        /\ litter = {}
        /\ dir = [id \in Ids |-> "none"]
        /\ lock = Free
        /\ snap = [id \in Ids |-> EmptySnapshot]
        /\ next = 1
        /\ pc = [s \in Servers |-> "up"]
        /\ at = [s \in Servers |-> 0]
        /\ cur = [s \in Servers |-> Nobody]
        /\ tgt = [s \in Servers |-> Nobody]
        /\ why = [s \in Servers |-> "recover"]
        /\ prop = [s \in Servers |-> Nobody]
        /\ last = [s \in Servers |-> "none"]
        /\ env = [edits |-> 0, crashes |-> 0, faults |-> 0]
-----------------------------------------------------------------------------
(***************************************************************************)
(* The proposal store of a server (proposal.rs).  It lives in memory.      *)
(***************************************************************************)

\* build_root_proposal and RootProposalStore::insert.
Propose(s, r) ==
  /\ pc[s] = "up"
  /\ next <= MaxProposals
  /\ snap' = [snap EXCEPT ![next] = Scan(r)]
  /\ prop' = [prop EXCEPT ![s] = next]
  /\ next' = next + 1
  /\ UNCHANGED <<disk, ghosts, lock, pc, at, cur, tgt, why, last, env>>

\* The time to live of the proposal has passed.
Expire(s) ==
  /\ pc[s] = "up"
  /\ prop[s] # Nobody
  /\ prop' = [prop EXCEPT ![s] = Nobody]
  /\ UNCHANGED <<disk, ghosts, lock, proposals, pc, at, cur, tgt, why, last, env>>
-----------------------------------------------------------------------------
(***************************************************************************)
(* confirm_source_initialization up to the plan.                           *)
(***************************************************************************)

\* The first validation, before the lock.  A stale proposal is forgotten.
Confirm(s) ==
  /\ pc[s] = "up"
  /\ prop[s] # Nobody
  /\ cur' = [cur EXCEPT ![s] = prop[s]]
  /\ \/ /\ Fresh(prop[s])
        /\ Goto(s, "waiting")
        /\ last' = [last EXCEPT ![s] = "none"]
        /\ UNCHANGED prop
     \/ /\ ~Fresh(prop[s])
        /\ prop' = [prop EXCEPT ![s] = Nobody]
        /\ last' = [last EXCEPT ![s] = "failed"]
        /\ UNCHANGED pc
  /\ UNCHANGED <<disk, ghosts, lock, proposals, at, tgt, why, env>>

\* A mutant: the lock does not exclude, as lock_file on a non-unix build.
AcquireShared(s) ==
  /\ pc[s] = "waiting"
  /\ lock' = s
  /\ Goto(s, "recovering")
  /\ UNCHANGED <<disk, ghosts, proposals, local, env>>

\* FileLock::acquire: flock(LOCK_EX) on initialization.lock.
Acquire(s) ==
  /\ pc[s] = "waiting"
  /\ lock = Free
  /\ lock' = s
  /\ Goto(s, "recovering")
  /\ UNCHANGED <<disk, ghosts, proposals, local, env>>

\* A mutant: a confirmation does not look for interrupted operations.
RecoverNothing(s) ==
  /\ pc[s] = "recovering"
  /\ Goto(s, "revalidating")
  /\ UNCHANGED <<disk, ghosts, lock, proposals, local, env>>

\* A mutant: every operation directory is removed as if it were committed.
RecoverByRemoval(s) ==
  /\ pc[s] = "recovering"
  /\ \/ /\ \A id \in Ids : dir[id] = "none"
        /\ Goto(s, "revalidating")
        /\ UNCHANGED <<tgt, why>>
     \/ \E id \in Ids : /\ dir[id] # "none"
                        /\ Target(s, id, "recover")
                        /\ Goto(s, "removing")
  /\ UNCHANGED <<disk, ghosts, lock, proposals, at, cur, prop, last, env>>

(***************************************************************************)
(* recover_interrupted_operations: finish every operation directory found, *)
(* of whatever root.  One without a readable journal ends the confirmation *)
(* with an error.                                                          *)
(***************************************************************************)
Recover(s) ==
  /\ pc[s] = "recovering"
  /\ \/ /\ \A id \in Ids : dir[id] = "none"
        /\ Goto(s, "revalidating")
        /\ UNCHANGED <<lock, at, tgt, why, last>>
     \/ \E id \in Ids :
          \/ /\ dir[id] = "bare"
             /\ Return(s, "failed")
          \/ /\ dir[id] = "committed"
             /\ Target(s, id, "recover")
             /\ Goto(s, "removing")
             /\ UNCHANGED <<lock, at, last>>
          \/ /\ dir[id] \in {"prepared", "applying"}
             /\ Target(s, id, "recover")
             /\ at' = [at EXCEPT ![s] = FileCount]
             /\ Goto(s, "undoing")
             /\ UNCHANGED <<lock, last>>
  /\ UNCHANGED <<disk, ghosts, proposals, cur, prop, env>>

(***************************************************************************)
(* rollback_operation, from the last journal entry to the first.  A file   *)
(* in its reviewed state is left alone, one with the staged content is     *)
(* restored, and any other content makes the rollback refuse.              *)
(***************************************************************************)
Undo(s) ==
  LET id == tgt[s]
      i == at[s]
  IN /\ pc[s] = "undoing"
     /\ \/ /\ i = 0
           /\ Goto(s, "removing")
           /\ UNCHANGED <<lock, at, tgt, why, last>>
        \/ /\ i > 0
           /\ i \in Entries(id) => AsReviewed(id, i)
           /\ at' = [at EXCEPT ![s] = i - 1]
           /\ UNCHANGED <<lock, pc, tgt, why, last>>
        \/ /\ i \in Entries(id)
           /\ tree[i] = After(id, i)
           /\ Goto(s, "restoring")
           /\ UNCHANGED <<lock, at, tgt, why, last>>
        \/ /\ i \in Entries(id)
           /\ ~AsReviewed(id, i) /\ tree[i] # After(id, i)
           /\ Return(s, "failed")
     /\ UNCHANGED <<disk, ghosts, proposals, cur, prop, env>>

\* atomic_replace with the backup, or remove_file of a created index.
Restore(s) ==
  /\ pc[s] = "restoring"
  /\ tree' = [tree EXCEPT ![at[s]] = Before(tgt[s], at[s])]
  /\ at' = [at EXCEPT ![s] = at[s] - 1]
  /\ Goto(s, "undoing")
  /\ UNCHANGED <<litter, dir, ghosts, lock, proposals, cur, tgt, why, prop, last, env>>

\* remove_dir_all: journal.json goes before the directory does.
Remove(s) ==
  /\ pc[s] = "removing"
  /\ dir' = [dir EXCEPT ![tgt[s]] = "bare"]
  /\ Goto(s, "unlinking")
  /\ UNCHANGED <<tree, litter, ghosts, lock, proposals, local, env>>

\* The end of remove_dir_all, and what follows it: the scan for further
\* operations, the error that led to the rollback, or the report.
Unlink(s) ==
  /\ pc[s] = "unlinking"
  /\ dir' = [dir EXCEPT ![tgt[s]] = "none"]
  /\ \/ /\ why[s] = "recover"
        /\ Goto(s, "recovering")
        /\ UNCHANGED <<lock, at, tgt, why, last>>
     \/ /\ why[s] = "failed"
        /\ Return(s, "failed")
     \/ /\ why[s] = "done"
        /\ Return(s, "ok")
  /\ UNCHANGED <<tree, litter, ghosts, proposals, cur, prop, env>>

\* The second validation, now under the lock.
Revalidate(s) ==
  /\ pc[s] = "revalidating"
  /\ \/ /\ Fresh(cur[s])
        /\ edited' = {}
        /\ Goto(s, "planning")
        /\ UNCHANGED <<lock, at, tgt, why, prop, last>>
     \/ /\ ~Fresh(cur[s])
        /\ prop' = [prop EXCEPT ![s] = Nobody]
        /\ Return(s, "failed")
        /\ UNCHANGED edited
  /\ UNCHANGED <<disk, text, committed, proposals, cur, env>>

(***************************************************************************)
(* build_initialization_plan reads the sources once more; the digest of    *)
(* the plan must be the one that the reviewer confirmed.  The caller may   *)
(* also have sent another digest.                                          *)
(***************************************************************************)
Plan(s) ==
  /\ pc[s] = "planning"
  /\ \/ Return(s, "failed")
     \/ /\ Entries(cur[s]) = {}
        /\ Return(s, "ok")
     \/ /\ Entries(cur[s]) # {}
        /\ \A i \in Entries(cur[s]) : AsReviewed(cur[s], i)
        /\ Goto(s, "making")
        /\ UNCHANGED <<lock, at, tgt, why, last>>
  /\ UNCHANGED <<disk, ghosts, proposals, cur, prop, env>>
-----------------------------------------------------------------------------
(***************************************************************************)
(* prepare_operation.                                                      *)
(***************************************************************************)

\* create_private_directory for the operation.
MakeDir(s) ==
  /\ pc[s] = "making"
  /\ dir' = [dir EXCEPT ![cur[s]] = "bare"]
  /\ Goto(s, "staging")
  /\ UNCHANGED <<tree, litter, ghosts, lock, proposals, local, env>>

\* Stage and back up every file that still has its reviewed bytes, then
\* write the journal; a file that differs makes the proposal stale.
Stage(s) ==
  /\ pc[s] = "staging"
  /\ \/ /\ \A i \in Entries(cur[s]) : AsReviewed(cur[s], i)
        /\ dir' = [dir EXCEPT ![cur[s]] = "prepared"]
        /\ Goto(s, "beginning")
     \/ /\ \E i \in Entries(cur[s]) : ~AsReviewed(cur[s], i)
        /\ Goto(s, "abandoning")
        /\ UNCHANGED dir
  /\ UNCHANGED <<tree, litter, ghosts, lock, proposals, local, env>>

\* The directory of a preparation that failed is removed.
Abandon(s) ==
  /\ pc[s] = "abandoning"
  /\ dir' = [dir EXCEPT ![cur[s]] = "none"]
  /\ Return(s, "failed")
  /\ UNCHANGED <<tree, litter, ghosts, proposals, cur, prop, env>>
-----------------------------------------------------------------------------
(***************************************************************************)
(* apply_operation and mark_committed.                                     *)
(***************************************************************************)

\* Mutants of the error path: it only removes the operation directory; it
\* starts past the last journal entry; it reports the rollback as success.
ForgetOwn(s) == /\ Target(s, cur[s], "failed")
                /\ Goto(s, "removing")
                /\ UNCHANGED at

RollBackPastEnd(s) == /\ Target(s, cur[s], "failed")
                      /\ at' = [at EXCEPT ![s] = FileCount + 2]
                      /\ Goto(s, "undoing")

RollBackSilently(s) == /\ Target(s, cur[s], "done")
                       /\ at' = [at EXCEPT ![s] = FileCount]
                       /\ Goto(s, "undoing")

\* The error path of apply_operation: roll back the own operation.
RollBackOwn(s) == /\ Target(s, cur[s], "failed")
                  /\ at' = [at EXCEPT ![s] = FileCount]
                  /\ Goto(s, "undoing")

\* The journal says "applying" before the first source file is written.
Begin(s) ==
  /\ pc[s] = "beginning"
  /\ dir' = [dir EXCEPT ![cur[s]] = "applying"]
  /\ at' = [at EXCEPT ![s] = 1]
  /\ Goto(s, "applying")
  /\ UNCHANGED <<tree, litter, ghosts, lock, proposals, cur, tgt, why, prop, last, env>>

\* The recheck of one file immediately before its replacement.
Apply(s) ==
  LET id == cur[s]
      i == at[s]
  IN /\ pc[s] = "applying"
     /\ \/ /\ i > FileCount
           /\ Goto(s, "verifying")
           /\ UNCHANGED <<at, tgt, why>>
        \/ /\ i \in Files \ Entries(id)
           /\ at' = [at EXCEPT ![s] = i + 1]
           /\ UNCHANGED <<pc, tgt, why>>
        \/ /\ i \in Entries(id)
           /\ AsReviewed(id, i)
           /\ Goto(s, "replacing")
           /\ UNCHANGED <<at, tgt, why>>
        \/ /\ i \in Entries(id)
           /\ ~AsReviewed(id, i)
           /\ RollBackOwn(s)
     /\ UNCHANGED <<disk, ghosts, lock, proposals, cur, prop, last, env>>

\* atomic_replace: the temporary file is renamed over the target.
Replace(s) ==
  /\ pc[s] = "replacing"
  /\ tree' = [tree EXCEPT ![at[s]] = After(cur[s], at[s])]
  /\ at' = [at EXCEPT ![s] = at[s] + 1]
  /\ Goto(s, "applying")
  /\ UNCHANGED <<litter, dir, ghosts, lock, proposals, cur, tgt, why, prop, last, env>>

\* Every file must have the content of the plan.
Verify(s) ==
  /\ pc[s] = "verifying"
  /\ \/ /\ \A i \in Entries(cur[s]) : tree[i] = After(cur[s], i)
        /\ Goto(s, "marking")
        /\ UNCHANGED <<at, tgt, why>>
     \/ /\ \E i \in Entries(cur[s]) : tree[i] # After(cur[s], i)
        /\ RollBackOwn(s)
  /\ UNCHANGED <<disk, ghosts, lock, proposals, cur, prop, last, env>>

\* The committed marker is written; from here on nothing is rolled back.
Mark(s) ==
  /\ pc[s] = "marking"
  /\ dir' = [dir EXCEPT ![cur[s]] = "committed"]
  /\ committed' = committed \cup {cur[s]}
  /\ Target(s, cur[s], "done")
  /\ Goto(s, "removing")
  /\ UNCHANGED <<tree, litter, text, edited, lock, proposals, at, cur, prop, last, env>>
-----------------------------------------------------------------------------
(***************************************************************************)
(* What can go wrong.  A file operation of the current step fails: before  *)
(* the journal exists the preparation is abandoned, while the operation is *)
(* applied it is rolled back, everywhere else the error is returned.  A    *)
(* rename may have happened although the sync after it failed.             *)
(***************************************************************************)
Hit(hazard, bound) == /\ env[hazard] < bound
                      /\ env' = [env EXCEPT ![hazard] = @ + 1]

FaultReturns(s) ==
  /\ pc[s] \in Recovery \cup {"planning", "abandoning"}
  /\ Return(s, "failed")
  /\ \/ UNCHANGED tree
     \/ /\ pc[s] = "restoring"
        /\ tree' = [tree EXCEPT ![at[s]] = Before(tgt[s], at[s])]
  /\ UNCHANGED <<dir, committed, prop>>

FaultWaiting(s) ==
  /\ pc[s] = "waiting"
  /\ Goto(s, "up")
  /\ last' = [last EXCEPT ![s] = "failed"]
  /\ UNCHANGED <<tree, dir, committed, lock, at, tgt, why, prop>>

FaultRevalidating(s) ==
  /\ pc[s] = "revalidating"
  /\ prop' = [prop EXCEPT ![s] = Nobody]
  /\ Return(s, "failed")
  /\ UNCHANGED <<tree, dir, committed>>

FaultPreparing(s) ==
  /\ pc[s] \in {"making", "staging"}
  /\ Goto(s, "abandoning")
  /\ \/ UNCHANGED dir
     \/ /\ pc[s] = "staging"
        /\ \A i \in Entries(cur[s]) : AsReviewed(cur[s], i)
        /\ dir' = [dir EXCEPT ![cur[s]] = "prepared"]
  /\ UNCHANGED <<tree, committed, lock, at, tgt, why, prop, last>>

FaultApplying(s) ==
  /\ pc[s] \in Applying \ {"marking"}
  /\ RollBackOwn(s)
  /\ \/ UNCHANGED tree
     \/ /\ pc[s] = "replacing"
        /\ tree' = [tree EXCEPT ![at[s]] = After(cur[s], at[s])]
  /\ UNCHANGED <<dir, committed, lock, prop, last>>

FaultMarking(s) ==
  /\ pc[s] = "marking"
  /\ Return(s, "failed")
  /\ \/ UNCHANGED <<dir, committed>>
     \/ /\ dir' = [dir EXCEPT ![cur[s]] = "committed"]
        /\ committed' = committed \cup {cur[s]}
  /\ UNCHANGED <<tree, prop>>

Fault(s) ==
  /\ Hit("faults", MaxFaults)
  /\ \/ FaultReturns(s) \/ FaultWaiting(s) \/ FaultRevalidating(s)
     \/ FaultPreparing(s) \/ FaultApplying(s) \/ FaultMarking(s)
  /\ UNCHANGED <<litter, text, edited, proposals, cur>>

\* The process dies.  The kernel drops its lock, its proposals are gone, and
\* a temporary file it was about to rename stays where it is.
Crash(s) ==
  /\ pc[s] # "down"
  /\ Hit("crashes", MaxCrashes)
  /\ Goto(s, "down")
  /\ lock' = IF lock = s THEN Free ELSE lock
  /\ at' = [at EXCEPT ![s] = 0]
  /\ cur' = [cur EXCEPT ![s] = Nobody]
  /\ tgt' = [tgt EXCEPT ![s] = Nobody]
  /\ why' = [why EXCEPT ![s] = "recover"]
  /\ prop' = [prop EXCEPT ![s] = Nobody]
  /\ last' = [last EXCEPT ![s] = "none"]
  /\ \/ UNCHANGED litter
     \/ /\ \/ pc[s] = "replacing"
           \/ pc[s] = "restoring" /\ Before(tgt[s], at[s]) # Missing
        /\ litter' = litter \cup {at[s]}
  /\ UNCHANGED <<tree, dir, ghosts, proposals>>

Restart(s) ==
  /\ pc[s] = "down"
  /\ Goto(s, "up")
  /\ UNCHANGED <<disk, ghosts, lock, proposals, local, env>>

\* A person writes, deletes or restores a file; metadata that the file
\* carries may be kept.
Edit(i, c) ==
  /\ Hit("edits", MaxEdits)
  /\ c # tree[i]
  /\ c.by \in {Nobody, tree[i].by}
  /\ c.text = Absent => c.by = Nobody
  /\ RacyEditor \/ \A s \in Servers : ~ (pc[s] \in {"replacing", "restoring"} /\ at[s] = i)
  /\ tree' = [tree EXCEPT ![i] = c]
  /\ text' = [text EXCEPT ![i] = c.text]
  /\ edited' = edited \cup {i}
  /\ UNCHANGED <<litter, dir, committed, lock, proposals, pc, local>>
-----------------------------------------------------------------------------
\* The next statement of a confirmation that has its lock.
Step(s) == \/ Recover(s) \/ Undo(s) \/ Restore(s) \/ Remove(s) \/ Unlink(s)
           \/ Revalidate(s) \/ Plan(s)
           \/ MakeDir(s) \/ Stage(s) \/ Abandon(s)
           \/ Begin(s) \/ Apply(s) \/ Replace(s) \/ Verify(s) \/ Mark(s)

Next == \/ \E s \in Servers : \/ \E r \in Roots : Propose(s, r)
                              \/ Expire(s)
                              \/ Confirm(s)
                              \/ Acquire(s)
                              \/ Step(s)
                              \/ Fault(s)
                              \/ Crash(s)
                              \/ Restart(s)
        \/ \E i \in Files, c \in Content : Edit(i, c)

Spec == Init /\ [][Next]_vars

\* A running process executes its next statement, a blocked flock call gets
\* the lock when it is released again and again, and a dead server is
\* started again.  Nobody is obliged to propose, confirm, edit or fail.
Fairness == \A s \in Servers : /\ WF_vars(Step(s))
                               /\ SF_vars(Acquire(s))
                               /\ WF_vars(Restart(s))

FairSpec == Spec /\ Fairness
-----------------------------------------------------------------------------
(***************************************************************************)
(* Properties.                                                             *)
(***************************************************************************)

\* The type invariant.
TypeOK ==
  /\ tree \in [Files -> Content]
  /\ text \in [Files -> Texts \cup {Absent}]
  /\ edited \in SUBSET Files
  /\ committed \in SUBSET Ids
  /\ litter \in SUBSET Files
  /\ dir \in [Ids -> DirStatus]
  /\ lock \in Servers \cup {Free}
  /\ snap \in [Ids -> Snapshot]
  /\ next \in 1..(MaxProposals + 1)
  /\ pc \in [Servers -> Pc]
  /\ at \in [Servers -> 0..(FileCount + 1)]
  /\ cur \in [Servers -> Ids \cup {Nobody}]
  /\ tgt \in [Servers -> Ids \cup {Nobody}]
  /\ why \in [Servers -> {"recover", "failed", "done"}]
  /\ prop \in [Servers -> Ids \cup {Nobody}]
  /\ last \in [Servers -> {"none", "failed", "ok"}]
  /\ env \in [edits : Nat, crashes : Nat, faults : Nat]

\* An operation that can still be rolled back.
Pending(id) == dir[id] \in {"prepared", "applying"}

\* The cross-process lock and the recovery at the start of a confirmation
\* together keep the state directory at one operation: whatever crashed or
\* failed before, no two operations are ever on disk, and a server past its
\* recovery meets no directory but its own.
OneOperation ==
  /\ \A p, q \in Ids : dir[p] # "none" /\ dir[q] # "none" => p = q
  /\ \A s \in Servers, id \in Ids :
       pc[s] \in {"revalidating", "planning"} \cup Preparing \cup Applying
       /\ dir[id] # "none" => id = cur[s]

\* Write-ahead: a file carries generated metadata only of a proposal that
\* was committed or whose journal is still on disk to take it back.  This
\* holds through every crash, failed write and edit.
NoOrphanMetadata ==
  \A i \in Files : tree[i].by # Nobody =>
    \/ tree[i].by \in committed
    \/ Pending(tree[i].by)

\* When a confirmation builds its plan nothing of an interrupted operation
\* is left in any root, so no plan adopts half an initialization as its
\* "before" state.
CleanBeforePlan ==
  \A s \in Servers : pc[s] \in {"revalidating", "planning"} =>
    \A i \in Files : tree[i].by \in committed \cup {Nobody}

\* Replacing, rolling back and recovering never lose what a person wrote
\* last, unless that person saves inside the window between the recheck of
\* a file and its rename.
NoLostText == \A i \in Files : tree[i].text = text[i]

\* A file of a pending operation that nobody wrote since the review is as
\* reviewed or as staged: only a person can make a rollback refuse.
Unwindable ==
  \A id \in Ids : Pending(id) =>
    \A i \in Entries(id) \ edited : tree[i] \in {Before(id, i), After(id, i)}

\* A rollback of the operation refuses at a later file, before file i.
Stranded(id, i) ==
  \E j \in Entries(id) : j > i /\ tree[j] \notin {Before(id, j), After(id, j)}

\* The files with the metadata of an operation that is not committed.
Staged == {i \in Files : /\ tree[i].by # Nobody
                         /\ Pending(tree[i].by)
                         /\ tree[i] = After(tree[i].by, i)}

\* Those of them that a recovery would restore, and those it cannot reach.
InReach == {i \in Staged : ~Stranded(tree[i].by, i)}
OutOfReach == Staged \ InReach

\* The tree as a recovery of the pending operation would leave it.
Recovered ==
  [i \in Files |-> IF i \in InReach THEN Before(tree[i].by, i) ELSE tree[i]]

Atomic == INSTANCE AtomicInit WITH tree <- Recovered, half <- OutOfReach

\* The journaled protocol implements the atomic commit: up to what the next
\* recovery will roll back, the metadata of a confirmation appears in all
\* files that need it at once, at the write of the committed marker; only
\* before a file that a person wrote during the operation, where the
\* rollback does not get, may metadata without a commit stay, and no later
\* initialization goes ahead while it does.
AtomicCommit == Atomic!ASpec

\* A server that reports success has committed, or had nothing to change.
SuccessIsCommitted ==
  \A s \in Servers : last[s] = "ok" =>
    cur[s] \in committed \/ Entries(cur[s]) = {}

\* Every confirmation returns, unless its process dies: it never waits for
\* itself, and the lock is not kept by a server that died.
ConfirmReturns ==
  \A s \in Servers : pc[s] \notin Idle ~> pc[s] \in Idle

-----------------------------------------------------------------------------
(***************************************************************************)
(* The inductive invariant behind the safety properties: what holds of the *)
(* shared state, and what each server knows of it at its control point.    *)
(***************************************************************************)

\* There is at most one operation directory, and its marker is truthful.
OneDirectory ==
  /\ \A p, q \in Ids : dir[p] # "none" /\ dir[q] # "none" => p = q
  /\ \A id \in Ids : dir[id] = "committed" => id \in committed

\* Numbers of proposals that were not built yet are nowhere in use.
Numbered ==
  /\ \A id \in Ids : dir[id] # "none" \/ id \in committed => id < next
  /\ \A i \in Files : tree[i].by < next

\* Generated metadata is found only where its plan has an entry.
AsPlanned == \A i \in Files : tree[i].by # Nobody => i \in Entries(tree[i].by)

Shared == /\ OneDirectory /\ Numbered /\ NoOrphanMetadata /\ AsPlanned
          /\ Unwindable
          /\ RacyEditor \/ NoLostText

\* Exactly the holder of the lock is inside the critical section.
Locking(s) == pc[s] \notin Outside <=> lock = s

\* The operations in hand.
Handling(s) ==
  /\ prop[s] < next /\ cur[s] < next /\ tgt[s] < next
  /\ pc[s] \notin Idle => cur[s] \in Ids
  /\ pc[s] \in Outside => why[s] = "recover"
  /\ why[s] = "failed" => tgt[s] = cur[s]
  /\ why[s] = "done" => tgt[s] = cur[s] /\ cur[s] \in committed
  /\ last[s] = "ok" => /\ cur[s] \in Ids
                       /\ cur[s] \in committed \/ Entries(cur[s]) = {}

\* The directory and the metadata a confirmation works on.
Directory(s) ==
  /\ pc[s] \in {"revalidating", "planning", "making"} =>
       \A id \in Ids : dir[id] = "none"
  /\ pc[s] \in {"staging", "abandoning"} \cup Applying =>
       \A id \in Ids \ {cur[s]} : dir[id] = "none"
  /\ pc[s] = "staging" => dir[cur[s]] = "bare"
  /\ pc[s] = "beginning" => dir[cur[s]] = "prepared"
  /\ pc[s] \in Applying \ {"beginning"} => dir[cur[s]] = "applying"
  /\ pc[s] \in {"revalidating", "planning"} \cup Preparing =>
       \A i \in Files : tree[i].by \in committed \cup {Nobody}
  /\ pc[s] \in Preparing \cup {"beginning"} =>
       \A i \in Files : tree[i].by # cur[s]

\* A rollback works backwards, and takes the journal away when it is done.
Unwinding(s) ==
  /\ pc[s] \in {"undoing", "restoring"} =>
       /\ tgt[s] \in Ids /\ Pending(tgt[s])
       /\ at[s] <= FileCount
       /\ \A i \in Files : i > at[s] => tree[i].by # tgt[s]
  /\ pc[s] = "restoring" => at[s] \in Entries(tgt[s])
  /\ pc[s] = "removing" =>
       /\ tgt[s] \in Ids
       /\ \/ dir[tgt[s]] = "committed"
          \/ /\ Pending(tgt[s])
             /\ \A i \in Files : tree[i].by # tgt[s]
  /\ pc[s] = "unlinking" => tgt[s] \in Ids /\ dir[tgt[s]] = "bare"

\* Between the recheck and the rename the file is what the recheck saw.
Window(s) ==
  /\ pc[s] = "replacing" => at[s] \in Entries(cur[s])
  /\ RacyEditor \/
       /\ pc[s] = "replacing" => AsReviewed(cur[s], at[s])
       /\ pc[s] = "restoring" => tree[at[s]] = After(tgt[s], at[s])

\* A file that nobody edited since the review is as the protocol left it.
Progress(s) ==
  cur[s] \in Ids => \A i \in FilesOf(snap[cur[s]].root) \ edited :
    /\ pc[s] \in {"planning", "making", "staging", "beginning"} =>
         AsReviewed(cur[s], i)
    /\ pc[s] \in {"applying", "replacing"} =>
         tree[i] = IF i \in Entries(cur[s]) /\ i < at[s]
                   THEN After(cur[s], i) ELSE Before(cur[s], i)
    /\ pc[s] \in {"verifying", "marking"} =>
         tree[i] = IF i \in Entries(cur[s])
                   THEN After(cur[s], i) ELSE Before(cur[s], i)

Local(s) == /\ Locking(s) /\ Handling(s) /\ Directory(s)
            /\ Unwinding(s) /\ Window(s) /\ Progress(s)

\* What every step keeps; the safety properties follow.
IInv == TypeOK /\ Shared /\ \A s \in Servers : Local(s)
-----------------------------------------------------------------------------
(***************************************************************************)
(* What the documents say and the code does not keep.                      *)
(***************************************************************************)

\* concepts/transactional-root-initialization.md, line 57: the sequence begins
\* with "recover any older incomplete journal", so an operation that nobody is
\* working on is one that a later confirmation can finish.
NeverWedged ==
  \A id \in Ids : dir[id] = "bare" =>
    \E s \in Servers : lock = s /\ id \in {cur[s], tgt[s]}
=============================================================================

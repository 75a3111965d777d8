# Open Knowledge Format: TLA+ models and proofs

This directory holds the formal specifications of the stateful parts of the
Open Knowledge Format server: the library `crates/okf` and the HTTP server
`crates/okf-http`. TLC checks every specification on small instances and TLAPS
proves the central ones for every value of the constants.

Run TLC with `tlc -config X.cfg M` and TLAPS with `tlapm M.tla`; the pairs of
module and configuration are listed under "Runs" below and in `PROJECT.json`.

## The system

A server process serves several **document roots**: directories of Markdown and
other files that people edit with their own editors. Everything the server
writes by itself is in a private **state directory** that several processes may
share: the root configuration `config.toml`, the user database, the monitoring
database, the working index with its mirror files, and the journals of
interrupted source initializations.

| Component | Code | State it keeps | Operations | Talks to |
|---|---|---|---|---|
| Source initialization | `okf/src/transaction.rs` | operation directories with journal, staged files and backups; `initialization.lock` | confirm, recover, roll back, commit | proposals, documents |
| Root proposals | `okf/src/proposal.rs`, `compliance.rs` | in memory: proposals with a time to live and the digests of what they saw | insert, validate, expire | admission scan |
| Admission scan | `okf/src/admission.rs` | none | scan a root into an inventory, under limits | documents |
| Root configuration | `okf/src/browser_config.rs`, `transaction.rs` | `config.toml`, `config.lock`, the revision (a hash of the file) | register, update, remove a root | proposals |
| Root monitor | `okf-http/src/monitoring.rs` | SQLite: reviewed baseline and pending change set of each root | scan, accept, dismiss, remove, seed, replace | documents, serving |
| Sessions | `okf-http/src/auth.rs` | in memory: pairing code, attempts, sessions | pair, log in, refresh, log out, revoke, status | users |
| User directory | `okf-http/src/users.rs` | SQLite: hash, role, enabled flag, authorization epoch | authenticate, change password or role, disable, remove | command line in another process |
| Working index and mirror | `okf-http/src/lib.rs`, `okf/src/voyage.rs` | SQLite tables with a generation; two mirror files and their generation marker | rebuild, sync, integrity check | embedding service |
| Relation apply | `okf-http/src/lib.rs`, `relations.rs` | documents; audit rows | merge suggested relations into a document | working index |
| Routing, authorization | `okf-http/src/routing.rs`, `security.rs` | none | map a request to an operation and its required role | all of the above |
| Parsing and resolution | `okf/src/document.rs`, `repository.rs`, `identity.rs`, `uri.rs` | none | parse, resolve | - |
| Embedding client | `okf/src/voyage.rs` | per job: the batches left and the rate window | plan, send, pause, retry | embedding service |
| Transport security | `okf-http/src/tls.rs` | authority, key and chain; staged and set aside files | initialize, renew, verify | startup |
| Startup, command line | `okf-http/src/main.rs`, `cli.rs`, `lib.rs` | the browser root with its manifest; staged and set aside directories | parse, import, install assets | configuration |
| Browser application | `okf-http/browser/app.js` | view state | - | HTTP API |

What makes the system hard:

* **Several processes, one state directory.** Two servers and a command line
  tool write the same files and databases. Some writes are guarded by an
  advisory file lock, some by an optimistic revision, some by nothing.
* **People are processes too.** A document may be saved between any two system
  calls of the server, so every check of a document is stale when it is used.
* **Crashes.** A write of several files is journaled; the journal, the staged
  files and the temporary files are themselves written in several steps.
* **Partial failure.** A rename may take effect although the sync after it
  fails; a rollback may fail as well.
* **Caches.** Proposals, sessions, baselines, the mirror of the index and the
  job registry all repeat state that is elsewhere, and expire or go stale.

## Plan

Done, in this order:

1. `RootFiles`, `AtomicInit`, `InitTransaction`: the journaled initialization.
2. `RootInventory`, `RootMonitor`: baselines and pending change sets.
3. `AtomicConfig`, `RootConfig`: the configuration of the roots.
4. `Authorization`, `Pairing`, `Sessions`, `LocalTls`: access to a server.
5. `WorkingIndex`, `RelationApply`, `Embedding`: the index and its clients.
6. `RootReview`, `Admission`, `BrowserInstall`: what directories hold, before a
   review, during a scan and while the packaged browser is installed.

What is left, the most useful first: the analysis of compliance as operators with
a reference definition; that an index job which nothing hinders comes to its
end. Every safety invariant and action property of a passing run is a theorem.

## Modules and runs

| Module | Extends | Run (module, configuration) | Proofs |
|---|---|---|---|
| `RootFiles` | | shared by the next two | |
| `AtomicInit` | `RootFiles` | refined by `InitTransaction` | `InitTransactionProofs` |
| `InitTransaction` | `RootFiles` | `init_safety`, `init_live`, `init_wedge` (`InitTransactionMC`; `InitSafety.cfg`, `InitLive.cfg`, `InitWedge.cfg`) | `InitTransactionProofs` |
| `RootInventory` | | used by `RootReview` and `RootMonitor` | `DirectoryProofs`, `RootMonitorProofs` |
| `RootReview` | `RootInventory` | `inventory` (`RootInventoryMC`, `RootInventory.cfg`) | `DirectoryProofs` |
| `Admission` | | `inventory` | `DirectoryProofs` |
| `BrowserInstall` | | `inventory` | `DirectoryProofs` |
| `RootMonitor` | `RootInventory` | `monitor_races`, `monitor_live`, `monitor_seed`, `monitor_notice` (`RootMonitorMC`; `MonitorRaces.cfg`, `MonitorLive.cfg`, `MonitorSeed.cfg`, `MonitorNotice.cfg`) | `RootMonitorProofs` |
| `AtomicConfig` | | refined by `RootConfig` | `RootConfigProofs` |
| `RootConfig` | `AtomicConfig` | `config`, `config_import` (`RootConfigMC`; `RootConfig.cfg`, `RootConfigImport.cfg`) | `RootConfigProofs` |
| `Authorization` | | `sessions` (`AccessMC`, `Access.cfg`) | `AccessProofs` |
| `Pairing` | | `sessions` | `AccessProofs` |
| `Sessions` | `Authorization` | `sessions` | `AccessProofs` |
| `LocalTls` | | `sessions` | `LocalTlsProofs` |
| `WorkingIndex` | | `index` (`IndexMC`, `Index.cfg`) | `IndexProofs` |
| `RelationApply` | `WorkingIndex` | `index` | `IndexProofs` |
| `Embedding` | | `index` | `EmbeddingProofs` |

## Source initialization: `RootFiles`, `AtomicInit`, `InitTransaction`

### What is modelled

`confirm_source_initialization` (`transaction.rs`) writes generated metadata
into every file of a root that lacks it. `RootFiles` is what both modules say
of documents. `AtomicInit` is the promise: the metadata of a confirmation
appears in all files at once, and a person's text is changed by that person
only. It has one exception, `half`: files before one that a person wrote since
the review may carry metadata that was never committed, because the rollback
does not get to them; `AReview` requires that none is left.
`InitTransaction` is the protocol:

* a file is the text a person wrote and the proposal whose metadata it carries
  (`Content`); adding metadata keeps the text (`Generated`);
* `snap` is what a proposal saw, `Fresh` the digest comparison of
  `RootProposalStore::validate`; `Propose`, `Expire` are the store;
* `pc` is the place of a server inside the function. `Confirm` is the validation
  before the lock, `Acquire` the `flock`, `Recover`/`Undo`/`Restore`/`Remove`/
  `Unlink` the recovery and the rollback, `Revalidate` the validation under the
  lock, `Plan` the second reading and the digest of the plan, `MakeDir`/`Stage`/
  `Abandon` the preparation, `Begin`/`Apply`/`Replace`/`Verify` the apply with
  one step for the recheck of a file and one for its rename, `Mark` the
  committed marker;
* `dir` is the status of an operation directory; "bare" is a directory without
  a readable `journal.json`;
* `Fault` lets any file operation fail (a rename may have happened), `Crash`
  kills a server at any point, `Edit` lets a person write or delete any file.

The plan digest contains the random root identity of the proposal, so an
operation directory is named by a proposal. The scan of a root and the staging
of all files are one step each: both only read documents, and what they read is
compared again before it is used. `RacyEditor` says whether a person may save
inside the window between the recheck of a file and its rename; the code cannot
close that window, so the properties about texts are stated for both cases.

### Properties and runs

All runs say `CHECK_DEADLOCK FALSE`: proposals, edits, crashes and faults are
bounded (`MaxProposals`, `MaxEdits`, `MaxCrashes`, `MaxFaults`), and a server
without a proposal may rest.

| Run | Checks |
|---|---|
| `InitSafety` | with two servers, two roots, three files (one an index that may be missing), one edit, one crash and one fault: `OneOperation`, `NoOrphanMetadata`, `CleanBeforePlan`, `NoLostText`, `SuccessIsCommitted`, the type invariant and the inductive invariant `IInv`; and `AtomicCommit`: the protocol implements `AtomicInit`, where a file counts as changed when the next recovery would keep the change (`Recovered`): it is committed, or a rollback would refuse at a later file (`OutOfReach`) |
| `InitLive` | `ConfirmReturns` under fairness |
| `InitWedge` | violated: a crash between `create_private_directory` and the first `write_journal` leaves a directory that makes every later confirmation fail |

Four limits of the code are in the model and have no run of their own.

* `rollback_operation` works from the last file to the first and returns at the
  first one with an unexpected state. An edit of a later file during the apply
  leaves the earlier ones generated, for as long as that file keeps its new
  content: every later confirmation fails in its recovery.
  `transactional-root-initialization.md:67` says that a failure before the
  committed marker restores every already changed original; that holds when no
  file of the plan was edited meanwhile. `AtomicInit` states what holds in every
  case: such files lie before a file the person wrote (`Behind`), nothing else is
  half, and no review succeeds until they are taken back.
* An error of `mark_committed` is returned without a rollback. If the marker was
  not written, the files stay generated until the next confirmation recovers
  (`Recovered` reads them as taken back); if it was, the confirmation failed and
  its changes stay. `SuccessIsCommitted` is therefore an implication.
* With `RacyEditor = TRUE` a save inside the window between recheck and rename is
  overwritten (`NoLostText` fails).
* No startup path recovers: a restarted server leaves a half initialized root
  until somebody confirms an initialization. `AtomicCommit` is about the tree as
  that recovery will leave it, `NoOrphanMetadata` about the tree as it is.

Two servers and two roots are enough for every conflict on the lock, the state
directory and a foreign recovery; three files give a first, a middle and a last
file of an operation, in one or two roots; one crash or fault at every point
followed by a complete recovery by either server is in the state space.

Fairness (`FairSpec`): a running process executes its next statement (`WF` of
`Step`), a `flock` that is granted again and again is granted to each waiter
(`SF` of `Acquire`; the kernel queues waiters), and the service manager starts
a dead server again (`WF` of `Restart`). Nobody is obliged to propose, confirm,
edit or fail.

### Proofs

`InitTransactionProofs` proves `Spec => []IInv` and from it the type invariant
and the safety properties above, for every number of files, roots, servers,
proposals, edits, crashes and faults. The only assumptions are `InitConstants`
and `ProtocolConstants`; `TextSafety` and the refinement assume `~RacyEditor`.

`IInv` is `TypeOK /\ Shared /\ \A s : Local(s)`. None of the properties is
inductive alone: that no metadata is orphaned needs to know that a rollback
removes the journal only after it visited every entry (`Unwinding`), that needs
to know that no second operation is on disk (`OneDirectory`), and that needs the
lock (`Locking`). The proof has one lemma per action. Two framing lemmas carry
the other servers: while one server holds the lock, every other is outside the
critical section and its `Local` speaks of nothing that can change
(`OthersOutside`); a step that changes no shared state keeps every `Local`
(`OthersQuiet`).

`Refinement` in the same module proves `Spec => AtomicCommit`: every step maps to a step
of `AtomicInit` or to a stutter. A rename or a restore of a file maps to a
stutter, or to `AHalf` when a later file is in a state a rollback refuses
(`WriteMaps`; that such a file was edited is `Unwindable`, a conjunct of the
invariant); an edit maps to `AEdit` and moves the files before it out of the
rollback's reach or back (`EditMaps`); the write of the committed marker maps to
`ACommit` (`CommitMaps`), which is where `Progress` is needed: every file of the
root that nobody edited since the review is, at that point, as the plan says.

Liveness (`ConfirmReturns`) is model-checked only.

## Root monitor: `RootInventory`, `RootReview`, `RootMonitor`

### What is modelled

`RootInventory` holds the pure part of `monitoring.rs`. An inventory maps each
path to nothing or to an entry: a state and the hash of the bytes, which a
rejected or hidden file lacks. `Changes` is `compare_inventory`, with its match
arms in their order and its rename detection (the map of old hashes keeps the
last of several paths, `OldPath`); `Allows` is `RootMonitor::allows`,
`Resolvable` is `resolve_admitted_file`, which resolves nothing while the scan of
the root is incomplete, and `Served` is both, as `serve_document_from_mount`
asks them. `Possible` says which entries a path can
get: the metadata of a Markdown file lie in its own bytes, those of a CSV file
in the index that declares it, so only a CSV file changes its state without
changing its hash.

`RootReview` compares a baseline with what a scan of the root found, any two
inventories that `Possible` allows (`Roots`); `complete` says whether that scan
got to its end, which `build_inventory` does not ask. A review may accept the
difference.

`RootMonitor` holds the rows of one root (`baseline`, `pending`, `status`; all
tables are keyed by the identity of the root, so roots do not meet) and the
request handlers of one server, each a blocking task `t` with a label `pc[t]`:

| Actions | Code |
|---|---|
| `Check`, then `Read` per file, `Analyze`, `ReadBaseline`, `First`/`Status` or `Record` | `api_root_monitoring_check`, `RootMonitor::scan` with `build_inventory` |
| `Decide`, `Lookup`, the scan, `Accept` or `Dismiss` | `api_root_monitoring_accept`, `_dismiss` |
| `Propose`, `Register`, `Analyze`, `Seed` | proposal, registration, `seed_reviewed_baseline` with `inventory_entries` |
| `Initialize`, `Load`, the scan, `Replace` | `api_root_initialize_blocking`, `replace_reviewed_baseline` |
| `Update`, `Unregister`, `Cleanup` | update and removal of a root, `RootMonitor::remove` |
| `Request`, `Allow`, `Serve` | `serve_document_from_mount` with `monitor_allows_document` |
| `Fault`, `Restart`, `Edit` | a scan or a statement on the database that fails, the death of the server, a person with an editor |

Every SQL statement or transaction is one step, and so is every read of a file:
a scan reads the files in the order of their names (`next`, `bytes`), and
`analyze_compliance` reads each of them again at the end, so the hash of an
entry may come from one version of a file and its state from a later one
(`Analyzed`). A seed starts with the hashes of the proposal and goes through the
same analysis. A scan may fail (`Fault` at "walk": the root cannot be read), and
leaves no row then. `store` is the mutex of the proposals, which registration and
initialization hold to the end of the handler. A digest is the inventory it was
computed from.

History variables, which are not in the code: `reviewed` collects the
inventories a person has looked at (the snapshot of a proposal, of the pending
changes, or of an initialization plan); a row of `baseline` says which request
wrote it and whether a person saved beside it (`by`, `saved`); `disturbed` holds
the running requests beside which something moved that they rely on (`Minds`: a
save for a seed, an initialization or a document request; a save, an
initialization or a move of the baseline for a check); `under` holds the
requests that could write a row and were under way when the root was removed.

Abstractions: all documents are Markdown here (`Resources = {}`; CSV files are
covered by `RootInventory`); the revision of `config.toml` never conflicts; the
journaled write of an initialization is one step (`InitTransaction` has its
steps); the configuration and the baseline of a document request are read in
one step.

### Properties and runs

| Run | Checks |
|---|---|
| `RootInventory` | for all 82944 pairs of inventories of three paths, one of them CSV, from a complete scan or not: what a pending change names is not served (`PendingIsExcluded`); what is admitted and complete, or was accepted, is served or named by a change if the scan is complete (`NothingIsSilent`) |
| `MonitorRaces` | two tasks, one document, an edit at any moment: the inductive invariant `IInv`, `ReviewedBaseline`, `RemovalComplete`, `OnlyReviewMoves`, `ServedWasReviewed`, `CheckTells` |
| `MonitorLive` | one task, two documents, an edit, a restart, an update and a failure, with and without monitoring: `IInv`, and under fairness `ScanSeeds` |
| `MonitorSeed` | violated: a restart or a check between the registration and the seed lets a scan seed the first baseline |
| `MonitorNotice` | violated: the `DELETE` of a dismissal names the root and not the digest, so a newer notice that a check recorded in between is lost |

What the properties leave out is what the code does not do:

* a person who saves beside a seed can get a state of an entry into the baseline
  that nobody saw, though no hash; beside an initialization, anything
  (`ReviewedBaseline`, `OnlyReviewMoves`);
* a request that can write rows and was under way when the root left
  `config.toml` may write them after the removal (`RemovalComplete`). A request
  that begins later cannot, whatever runs beside it;
* a check beside which a file or the baseline moves records a comparison that is
  out of date until the next check (`CheckTells`);
* a document that a person saves between the comparison of its hash and the read
  that sends it is served as it is by then (`ServedWasReviewed`);
* while the scan of a root is over a limit, no file of it resolves, and the
  comparison, which looks at entries only, may name none of them: they are
  withheld without a notice (`NothingIsSilent`).

And `compare_inventory` reports a CSV file that becomes declared, hence accepted,
as `newly_rejected`, because its last arm never asks whether the new state is an
accepted one (`Classify` of `RootInventory`).

Two tasks are enough for every pair of handlers to interleave at every label,
and one document with two contents (one with complete metadata, one without)
already gives differing inventories; two documents are needed for a scan that
is torn between two files and are given to one task with an edit, a restart, an
update and a failure around it. The
runs say `CHECK_DEADLOCK FALSE`: edits, restarts, updates and failures are
bounded.

Fairness: a blocking task that has started runs to its end (`WF` of `Step`);
nobody is obliged to send a request.

### Proofs

`RootMonitorProofs` proves `IInv` for any number of tasks, paths, contents and
happenings, from `InventoryConstants` and `MonitorConstants` alone, and from it
every safety property of the runs.

`ReviewedBaseline` is not inductive: what a step writes comes from what its task
has carried along since an earlier step. `Carrying` says that the digest of an
acceptance and the snapshot of a seed were seen by a person (for the seed this
needs `ProposalSeen`), and that a seed still has the hashes of that snapshot when
it writes. `Adopting` says that, if nobody saves beside it, the part of the scan
that an initialization has behind it equals the files as they are, and so do the
entries of a seed. That part needs the mutex: only another initialization could
change the files, and it cannot begin while `store = t`. `Serving` says that an
allowed document still has accepted bytes when it is sent, and survives an
initialization in between because that leaves complete documents which its plan
showed. `Checking` says that a scan beside which nothing moved has read what is
on disk, and compares it with the baseline of the moment.

`RemovalComplete` needs that nothing which writes a row is at work on a root that
is not registered, but for the requests that were under way when it was removed
(`Absent`). The two are proved for all actions at once: of those that leave the
root absent only the ones in `Writers` touch a row, and only `Cleanup` ends the
removal (`AbsentKept`, `RemovalKept`). The rest of `IInv`, `Core`, has one lemma
per action; `Bystander` carries the tasks a step leaves alone (`Stays`, `Warned`),
`ReturnKeeps` and `Begun` carry the frequent first and last steps of a handler.
`MonitorConstants` says that a missing row is not a row.

`PendingIsExcluded` and `NothingIsSilent` are proved in `DirectoryProofs` for any
number of paths and hashes, from `InventoryConstants`. Both rest on what the
scan can find (`Possible`): `BytesDecide` says that a path whose hash is
unchanged is served only if its entry is unchanged, and `NamedChanged` that a
change names only paths whose entries differ (`ChangeNames`, one case per match
arm). The old path of a rename is a greatest one of those with the hash; that
there is one (`GreatestPath`) follows from the well-founded order of the strict
subsets of a finite set.

The liveness property is model-checked only.

## Directories: `Admission`, `BrowserInstall`

Both are checked by the run `inventory` (`RootInventoryMC`, `RootInventory.cfg`),
whose `shape` says whether a behaviour is a review, a scan or an installation. They
share no state. The run says `CHECK_DEADLOCK FALSE`, because each comes to an end.

### What is modelled

**`Admission`** is `scan_document_root` with the recursion of `walk`, as a stack
of directories with what is left of each listing. `List` reads a directory,
`Enter` counts an entry, judges its name, looks at it and checks the limits before
`ReadText` reads it, `Leave` ends a directory; `Exceed` ends the whole walk at
a limit, and `Finish` rejects every path that collides with another
(`detect_path_collisions`). The names a root may have are a constant `Tree`, in the
order of the walk: where an entry lies, whether its name is hidden or of an
unsupported kind, and its comparison key. What is there is `content`, which people
change between any two steps (`Work`): an entry may come, go, grow or become a
directory after its directory was listed or its size was read.

**`BrowserInstall`** is `install_browser_assets`. An installation compares the
browser root with its manifest (`Install`), copies it (`Copy`), writes the packaged
files over the copy (`StageAssets`) and exchanges the two directories with two
renames (`RenameAside`, `ActivateAssets`), or puts the first one back
(`RollBackInstall`). Every call may fail, the process may die (`Killed`), other
processes install at the same time, and people write files into the browser root
(`WriteText`).

Abstractions: a text check passes or not, as the content says, and for a link put in
place of a file it may do either; a directory that is copied or staged
is one step; what a failed removal leaves of a backup is not counted on.

### Properties and bounds

| Property | Says |
|---|---|
| `ScanIsExact` | beside a root that nobody changes, a scan is complete exactly when the root is within the limits, and admits exactly the texts whose path is their own; whatever changes, admitted paths do not collide, the limits hold, and a complete scan accounts for every entry it counted once |
| `InstallIsSafe` | a manifest's files are all there; what people wrote while nobody installed, and were not told to lose, is there after an upgrade that was refused, failed or completed, or in a backup after a crash or a second failure |

The tree has eight entries: a hidden directory, two directories whose names differ in
case with a document in each, one document deeper than the others, one whose path collides with
that of a directory, and a file of an unsupported kind. With contents of
every kind, and five sets of limits, each limit is met exactly and exceeded by one. Two
changes during a scan are enough for a change and its reversal. Two installations, two
texts and two troubles are enough for an upgrade that fails in its
rollback, and for two installations at once; three installations with two texts and one
trouble were checked as well.

Limits of the code that the models show: a text written during an installation goes
with the directory that is set aside; of two installations at once, the one that
found no browser root may replace the other's (`RootIsWhole` holds, the texts
may be lost); after a crash between the renames the browser root is gone and nothing puts
the backup back by itself.

### Proofs

`DirectoryProofs` proves `InstallIsSafe` for any number of packaged files, versions,
installations, texts, failures and crashes, from `InstallConstants`. The invariant
`InstallInv` says that every directory, staged and set aside ones too, has what its
manifest names (`AllGood`), and, while installations do not overlap, where each text of
people's is at each step (`Safe`): in the browser root, in the copy as well, in copy
and backup, or, after the trouble that explains it, in a backup of an installation that is
over.

It also proves `ScanIsExact`, for any tree, any limits, any lengths of files and
whatever people do meanwhile, from `AdmissionConstants` (a directory comes before what
is in it). The invariant `ScanInv` of the walk has four parts. The open directories lie
in one another, and the walk has descended into every directory above an entry that is
still to come (`Framed`, `Place`). An entry is pending when it, or a directory above it,
is still to come, and what is pending has not been counted (`Once`); so the number of
entries is the number of names that were admitted, rejected or descended into, and
the bytes admitted are within the bytes counted (`Counted`). And as long as nothing has
changed (`Exact`), every visible entry is counted or pending, what is counted was
judged rightly, and the counts are within the limits. So a limit that ends the walk is
exceeded by the root itself (`ExceedKeeps`): the entry at hand is one more visible
entry, lies too deep, or is one more file. And when the last directory is left
nothing is pending, so all that is visible is counted (`EndKeeps`).

What the proof needs of the operators: `Above` is a recursive function, so `AboveDef`
first shows, by a least number at which its recursion would fail, that its equation
holds, and `NodeInduction` gives induction from directories to what is in them
(`AboveTransitive`, `Branch`, `DepthIs`). `Sizes` counts the pairs of a
file and an offset in it, so that the library's theorems about cardinalities say how
it grows (`OneMoreFile`, `FewerBytes`).

## Root configuration: `AtomicConfig`, `RootConfig`

### What is modelled

`config.toml` is written by every server and by the command line. `AtomicConfig`
is the promise: an accepted request changes the configuration whose revision
its tab holds, by registering, updating or removing one root, or it changes
nothing. `RootConfig` is the protocol: a revision is a hash of the file, so a
tab's `rev` is the contents it names; `Acquire` is the `flock` on `config.lock`,
`Check` the comparison under the lock, `LoadRegister`, `LoadUpdate` and
`LoadRemove` the three functions of `transaction.rs`, `Create`, `Rename` and
`Sync` the parts of `atomic_write`. The temporary file is named after the
process (`Proc`), so a file that a dead process left makes one save of its
successor fail; what would be renamed over it is no configuration (`Torn`). `LoadImport` is `okf-http roots import-env`, which takes
neither lock nor revision. Everything that ends a request is `Return`: a
conflict, a stale proposal, a root that is configured differently or not at
all, nothing to change, an unreadable file, a failed write, and success.

Abstractions: mount, path, priority and the flags of a root are one value
(`Settings`); which root a request is about is chosen where the configuration is
searched for it, not where the request is sent; an import adds at most one root; the roots a tab displays are not
in its state (they were read before the revision, see the hazards); the answer
to a request is left out, but `Sync` may follow a rename whose `sync_all`
failed, so a request that reports an error may have taken effect.

### Properties and runs

| Run | Checks |
|---|---|
| `RootConfig` | two tabs on two servers, one import, two roots with two settings: `AlwaysLoads` (the file is whole and has no root twice, so `load_browser_config` accepts it), the inductive invariant `IInv`, and `CompareAndSet`: the protocol implements `AtomicConfig` |
| `RootConfigImport` | violated: an import beside a registration overwrites it (`OneChange`) |

An import may run at any time. `beside` records that one and a request are in
progress together, until nobody is; then `AtomicConfig` promises nothing of what
is written (`AOverwrite`), and the second run shows why. `AlwaysLoads` holds
regardless: its mutant opens the temporary file without `create_new`. Two tabs suffice for a conflict, two
identities for a list whose order and other elements must survive a change. Ids
and settings are symmetric, and so are the tabs with their servers; the
properties are safety properties.

### Proofs

`RootConfigProofs` proves `IInv`, hence `AlwaysLoads`, for any number of tabs,
servers, imports, roots and settings; that `Spec` implements `AtomicConfig`
(`CompareAndSetHolds`); and that while no import is run beside a request every
new configuration is the old one with one change (`OneChangeApart`). It assumes
`ConfigConstants` and `ProcessConstants` only.

`AlwaysLoads` is not inductive: the file becomes what its writer has in memory,
so `Expecting` and `Importing` say that this is a list of different roots, `Fresh`
that what is renamed is a file its writer created (two writers of one process
are kept apart by the lock), and
for the refinement that it is a change of the file as it is now. The latter
needs the lock (`Locking`): while one tab is between its check and its rename,
no other can rename (`Alone`). The lemmas `RegisteredUnique`, `UpdatedUnique`
and `RemovedUnique` are about the operators on lists: what `push`, the update
of an element and `remove` do to the identities.

## Access: `Authorization`, `Pairing`, `Sessions`, `LocalTls`, `AccessMC`

### What is modelled

Four parts of `okf-http` decide who may do what. They share no variables, and
one run instantiates them side by side: `mode` of `AccessMC` says which part
moves, because a server is started in one mode and keeps it.

**`Authorization`** has no state. It holds the table of `RouteContract`s
(`routing.rs`), the validation that ends the process when the table contradicts
itself (`ValidContracts`, `Startable`), the capabilities of a paired browser and
of each set of roles (`users.rs`, `lib.rs`), and the decision of the middleware:
`Runs(d, r, who, h)` says whether the handler of route `r` runs in deployment
`d` for a caller with headers `h`. A header is reduced to what the code asks of
it: whether Origin and Host name the server, each other or another site, who
set the forwarding headers, the fetch metadata and the CSRF token.

**`Pairing`** is `LocalAuthState` of `auth.rs`. Each operation holds one lock
and is one step: `PairRight`, `PairWrong`, `PairRefused`, `PairLogout`,
`Consult` (the readers, which only prune what has expired) and `Tick`.

**`Sessions`** is the authenticated server. `row` and `roles` are the user
database, which the command line (`CommandLine`) writes from another process;
`sessions` is the map in memory. A request `task[t]` goes from place to place:
`Lookup` under the lock of the sessions, `ReadRow` and `ReadRoles` on the
database after the lock was given back, `Drop` under the lock again, `Handle`
for the handler, which for some routes looks the session up a second time. A
login is `Verify`, perhaps `Upgrade` of a hash with old parameters, then
`Enter`; a password change is `Verify`, `ChangePassword`, `Sweep`. Statements may
fail, sessions expire, and a restart forgets sessions and requests but not
users. `changes`, `life`, `given` and `crossed` are history: the code does not
keep them.

**`LocalTls`** has the commands `tls init` and `tls renew` of the command line (`tls.rs`). `disk` are
the four managed files, `tmp` and `bak` what a process has staged and set aside
under its own id. An initialization writes one file after the other
(`WriteNew`) and cleans up all four when a step fails (`Clean`); a renewal
stages a new key and chain (`Stage`), renames the old ones away (`SetAside`)
and the new ones into place (`Activate`), and restores as far as it can
(`Restore`). Any step may fail and any process may die.

### Properties and runs

`Access.cfg` on `AccessMC` says `CHECK_DEADLOCK FALSE` (clock, changes, keys, failures and
crashes are bounded) and checks:

| Property | Says |
|---|---|
| `ChangeEndsSessions` | a request that came in after a change of its user is not granted with a session from before the change |
| `PasswordSticks` | the password that was set last is the password, or the one a login was rewriting at the moment it was set |
| `GuessBound` | a code is guessed at no more often than `MaxAttempts` times per window of its lifetime |
| `RoutesReachable` | every route of a deployment can be used by some session of it, from its own browser |
| `AdvertisedIsEnforced` | the capabilities that the answers to a login, a pairing or a refresh name are what `authorize` lets the session do |
| `TokenIsNoStronger` | the automation token runs nothing that a browser without the role of an administrator could not |
| `CredentialsStay` | what was reported as initialized or renewed stays usable, with one failing step or with two renewals at once |
| `CaRetained` | the authority that people have imported is never replaced or removed |

The first two need an actor between two steps of a request; two requests, two
sessions, two passwords and two changes of one user give every order of a
login, a change, a removal and a check, and one user suffices because a request
touches one user. The table is checked completely: every route, mode, proxy and
role set, and for the token every combination of headers. Two attempts per
window, a code that lives longer than two cooldowns, and a clock that runs past
its end give several windows and the last one cut off. Two TLS commands with
two failures and one crash reach a rollback beside another command. There is
no fairness here: nothing in these parts waits for another one.

Limits of the code that these models show:

* A user who is removed and added again starts at the first epoch, so a session
  of the earlier user is valid again when the epochs meet. `ChangeEndsSessions`
  is stated within one life of a user.
* A login that upgrades a hash writes it with `UPDATE ... WHERE username`, so it
  undoes a password change that came in between. `PasswordSticks` allows exactly
  that (`crossed`): no login that comes in after the change, no restart and no
  removal brings the older password back.
* Behind a trusted proxy the answers still advertise the management of roots,
  which `authorize` refuses there (`Withdrawn`).
* Two overlapping commands of which one initializes: the one that fails
  removes all managed files, the other one's too. A crash or a second failure
  during a renewal leaves backups and no usable pair, and both commands then
  refuse; `docs/getting-started.md` asks people to move the directory aside. A
  failing renewal beside another one may mix two pairs. A staged file that was
  left behind makes a later process with the same id fail.

Abstractions: an attempt reads the clock just before it takes the lock
(`auth.rs:229`), which the model does together; an attempt, a hash and a token are compared, not computed; a
certificate is which key it certifies and which one signed it, so names,
expiry, permissions and the parsing of PEM files are left out; `VerifyLocal`
reads the files at one moment; `Unstage` is one step. The key and the chain a
starting server reads at two moments are compared by `rustls`, which refuses a
pair that does not fit.

### Proofs

`AccessProofs` proves `GuessBound` for every lifetime, cooldown and number of
attempts (`PairingConstants` says that they are positive). Every guess belongs
to a full window or to the open one (`Counted`), and the open window began after
one cooldown for each window before it and, if somebody guessed in it, before
the code ended (`Spaced`); `DivisionCounts` turns that into the bound.

It also proves `ChangeEndsSessions` and `PasswordSticks` for any number
of users, sessions, requests and changes, from `SessionConstants`. The
invariant relates each session to the tables: within one life of its user, the
epoch of the row and the number of changes advance together (`Knows`). A request
that has found its session carries that relation along (`Carries`), and after
`ReadRow` an equal epoch means that nothing changed since the session was
entered. The password of a row is the last one or one of `crossed`, and a login
about to rewrite a hash holds such a one (`accepted`, `Pending`). `Together` is what every statement does to the tables, `StepKeeps` that
sessions and requests survive it; then there is one lemma per action.

`LocalTlsProofs` proves `CaRetained` for any number of processes, failures and
crashes. As long as no initialization ran beside another command, one that
initializes or cleans up is alone (`AloneInit`), has written what its place says
(`Progress`), and none runs once there was a success (`NoInit`), because it
refuses to begin where a managed file exists.

It also proves `CredentialsStay`, for any number of processes. The difficulty is
that a renewal takes the pair apart: between two renames the key or the chain is in
no managed place, and another renewal may come to the other file first. `PairInv`
follows them: at most one process has each of the two in its hands (`KeyOut`,
`ChainOut`, `Taken`), and a file is missing exactly while somebody has it; the chain
certifies the key wherever both of them are (`KeyIs`, `Fits`); what a renewal has staged
and set aside so far is as its place says (`InHand`). It is stated until something
has happened that a pair does not survive (`Healthy`): a crash, a crossing of an
initialization with another command, a failing step beside another command, or a second
failing step. With one command at a time, only the failing step leads to a rollback
(`OneByOne`), and the rollback puts back what fits. Before the first success nothing is
there but what an initialization writes (`Untouched`). A step is reduced to what it
does to the key and to the chain (`KeyTaken`, `ChainReturned`, ...). `TlsConstants` says
that the value for an absent file is not one of a file's.

`AccessProofs` also proves the three properties of the table. Nothing in the table is a
parameter, so its run was complete already; the proofs say why it holds. A contract that
`Fits` satisfies the validation, and asks of a session nothing that the greatest session
of its modes lacks: the paired browser, or a user with all roles. Groups of contracts
that fit stay fine together when the names of their paths differ (`GroupFine`,
`Joined`), so that the table is valid with and without the routes for compatibility
(`RouterStarts`) and every route is reachable. For the browser of a session, whatever
the contract, `Runs` comes down to the capabilities that the session holds and those
withdrawn behind a proxy (`SessionRuns`); that is `AdvertisedIsEnforced`, because the list
shown to a paired browser is the list it holds. What is left of all roles after the
exclusions for the token is what an editor with the voyage role has (`TokenHeldBack`).

`AuthSpec` puts the parts side by side, and `ServerIsItsParts` shows that its
behaviours are behaviours of `PairSpec` and of `SessSpec`. The commands are a part
only in the mode before there is a server (`Commanded`). So all eight properties are
theorems of the specification that the run checks (`ServerHolds`,
`ServerKeepsCredentials`).

## Index: `WorkingIndex`, `RelationApply`, `Embedding`, `IndexMC`

### What is modelled

**`WorkingIndex`** has the derived index: `db` is `okf.sqlite` with its
generation, chunks, embeddings, suggestions, review sets and the audit of what
was applied (`Missing` while the file is not there); `files` is its mirror, three files that are replaced one after the
other. A job `pc[p]` runs the steps of its handler in `lib.rs`: `Scan`, `Load`,
`Embed`, `Commit` for indexing and rebuilding, `Similar` and `Insert` for
generating suggestions, `ReviewOne`, `ReviewSet` and `Import` for decisions; all
of them end in the mirror (`Reload`, `SaveEmbeddings`, `SaveSuggestions`,
`Mark`), which is `mirror_sqlite_generation`. `Synced` is
`sync_repository_index` with the cascades of the schema, `Sound` its triggers
and `sqlite_integrity_violations`, `Existing` the choice between database and
mirror in `load_existing_local_index`, `RecoveryRequired` is
`inspect_index_integrity`. A step may fail, the servers may die, the database
may be lost while nothing runs (`Lose`), people edit documents at any time: their
text, and the relations in their frontmatter, which they may remove, write
themselves or bring back with the document.

**`RelationApply`** adds `api_edges_apply`: `Collect` what is accepted and not
applied, then per document `Read`, `Replace` and `Record`. No guard keeps two
requests apart, nor a request and a job, nor either of them and people (`Person`).

**`Embedding`** is `embed_changed_chunks_with_pacer` of one job: `NextBatch` with
the rate window, `Answered`, `TooMany` with its one retry, `Rejected`, and the
plan that people are shown before (`Plan`, `WithinLimits`). The chunks that need
an embedding are their number and the running total of their tokens.

Abstractions: a document has one chunk, named by the document and its text;
relations are suggestions, compared by identity; vectors are present or absent; a
transaction is one step, since each writes first or fails when somebody wrote
after it read. People write no relation twice and leave the frontmatter legible.
`taken`, `acked` and `hurt` are history.

### Properties and runs

`Index.cfg` on `IndexMC` says `CHECK_DEADLOCK FALSE`, because every source of
activity is bounded, and checks:

| Property | Says |
|---|---|
| `NeverRefused` | what a job carries to its commit passes the triggers and the integrity check, whatever was edited or committed since it loaded; a review set comes too late only beside another server |
| `DecisionsStick` | an acknowledged decision is found again, after a lost database in the mirror, while its chunks exist (one server) |
| `HealthyUnlessHurt` | between jobs database and mirror agree, unless a step of mirroring failed since they last did (one server) |
| `AppliedOnce` | no document gets a relation twice, whatever was retried or ran beside |
| `AuditIsTrue` | what is recorded as applied is in its document, unless a person took it out or a request wrote the document that had read it before the relation was there |
| `PaceKept` | no minute, wherever it begins, has more requests or tokens than configured |
| `PlanIsTrue` | a successful job needed what the plan said, and a plan within the limits never pauses |

A state space in which everything happens at once is out of reach, so `Shapes`
names five bounds, each for the cases it is there for: `failing` (one server,
two edits, two faults, three together, four generations: a job that follows the
repair of a job that failed), `requests` (two applies beside a job, an edit and
a crash), `servers` (two servers on one index root), `documents` (three
documents, so that a request has a group in the middle), `merging` (two applies
with different relations for the same document). A sixth shape is the
embedding of up to three chunks with limits of one to three. There is no
fairness: the properties are safety properties, and the code promises no job an end.

Limits of the code that these models show:

* `IndexJobRegistry` guards within one process. A second server on the same index
  root may overwrite a committed decision with what it loaded before, and may
  leave a generation marker that does not fit, which is then reported as
  `recovery_required` though nobody failed.
* The guard is keyed by the path as it is written until the index root exists, by its
  canonical form afterwards, so two first jobs through a symbolic link may run
  together.
* An empty database that nothing was committed to is reported as
  `recovery_required` (`db.gen > 0` in `HealthyUnlessHurt`).
* An edit, or another apply, between the reading and the replacement of a document is
  overwritten. The relations of the other apply stay in the audit and are not
  applied again (`Added` in `taken`).
* The same relation in two review sets has two identifiers and is written twice;
  `AppliedOnce` counts identifiers.
* The rate window belongs to a job. Searches, and the job after it, start with an
  empty window.

### Proofs

`IndexProofs` proves the first five properties of `ApplySpec`, and that the database
itself is always sound (`DatabaseIsSound`), for any number of
documents, texts, servers, requests, jobs, edits and faults, from
`IndexConstants` (texts and servers are finite sets, and `None` is neither a text
nor a number). None of them is inductive: a job carries what it read through
several steps, and what it writes at the end must still fit. `IndexInv` says of
every place where something is carried how it relates to what it was read from:

* `StoreOK`: a database is sound, and one nothing was committed to is empty, so it
  may give way to the mirror.
* `OneServer`, for a server that runs alone: acknowledged decisions are in every place
  an index is loaded from (`Durable`) and in what its job has loaded (`Loaded`);
  after the commit the mirror follows step by step (`Followed`), and between jobs it
  is in step (`InStep`).
* `RequestsFine`, `Audited`: what a request has read is still in the document, or
  it was taken out since (`Written`), and every step keeps that (`Grown`).
* `CommitsFit`, beside `IndexInv`: a job that is about to commit has embeddings of its
  own chunks only, so `Synced` of them is sound beside any database (`SyncedSound`).
* `Tidy`: the relations of a document belong to it, and merging adds nothing that is there (`MergedFine`, from
  `SetToSeqFine`).

There is a lemma for each action. `JobStepKeeps` reduces a step of a job to its own
part of the invariant, `ApplyStepKeeps` a step of a request to its own, and
`AgreedOne` shows that requests never disturb what a job relies on.

`EmbeddingProofs` proves `PaceKept` and `PlanIsTrue` for every configuration, any
number of chunks of any size, every answer of the service and every delay, from
`EmbeddingConstants` (limits and batch sizes are positive, as the client's
validation has it). The chunks of a job are given by the running total of their
tokens, and each request carries the total before it, so a sum over some of them is a
difference of two numbers. `EmbedInv` says that every request is a minute old or is
counted, with all that follow it, by the window (`Counted`); that what is about
to be sent has room (`Room`); and that all batches before the last are full
(`Full`), which is why the number of requests is the planned quotient. The window
does not count a request that ends the job; `PaceKept` holds for it because it had room
when it was sent.

Seen in the code and outside the models: in the mirror a backslash before `n`
or `t` in a path does not survive `tsv_escape` and `split_tsv`, so the mirror of
such a path never agrees; a crash within the first migration leaves a file
without tables, and `load_existing_local_index` fails until something migrates
it; the documents and the inventory of a job are read at two moments.

## Not modelled

Formatting, wording and parsing of documents, identities and URIs (pure
functions over immutable inputs); the compliance analysis behind `NeedsChange`
and the signatures by which the admission scan knows a binary file; HTTP framing,
and the handlers that only read; argument parsing; the browser application, which keeps no state of the server's. Each
component is listed in `PROJECT.json` with its reason.

What is model-checked and not proved: liveness under fairness (`ConfirmReturns`,
`ScanSeeds`), because TLAPS has no rule for `ENABLED`; and the four properties
whose runs end in a counterexample, because the code does not keep them.

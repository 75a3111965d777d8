---------------------------- MODULE RootMonitor -----------------------------
(***************************************************************************)
(* Change detection for one document root: the rows of                     *)
(* root-monitor.sqlite (crates/okf-http/src/monitoring.rs) and the request *)
(* handlers of crates/okf-http/src/lib.rs that read and write them, each a *)
(* blocking task of one server, while people edit the documents.           *)
(*                                                                         *)
(* A digest stands for the inventory it was computed from.  A scan reads   *)
(* the files one after the other, in the order of their names.             *)
(***************************************************************************)
EXTENDS RootInventory

CONSTANTS
  Tasks,      \* the request handlers that may run at once
  Watch,      \* may a registration ask for monitoring, may it not?
  Completed,  \* what source initialization makes of a content
  MaxEdits, MaxCrashes, MaxUpdates, MaxFaults  \* how often each may happen

ASSUME MonitorConstants ==
  /\ None \notin Tasks
  /\ None \notin Inventories
  /\ Watch \subseteq BOOLEAN
  /\ Completed \in [Hashes -> Valid]
  /\ MaxEdits \in Nat /\ MaxCrashes \in Nat /\ MaxUpdates \in Nat /\ MaxFaults \in Nat

VARIABLES
  files,      \* the documents on disk
  config,     \* config.toml: is the root registered, and is it monitored?
  \* the rows of the root in root-monitor.sqlite
  baseline,   \* the accepted inventory; not stored: who wrote it, and whether
              \* a person saved a file beside that request
  pending,    \* the inventory whose changes are pending
  status,     \* is there a row in root_monitor_status?
  \* the server
  proposal,   \* the root proposal people look at
  store,      \* the task that has locked root_proposals
  \* each task
  pc, op,     \* where it is, and what it was asked to do
  next,       \* the path its scan reads next
  bytes,      \* the files its scan has read
  seen,       \* its inventory, once the scan is complete
  held,       \* the row, digest or inventory it carries along
  \* history
  reviewed,   \* the inventories a person has looked at
  disturbed,  \* the tasks beside which something moved that they rely on
  under,      \* the writers under way when the root was removed, if it was
  env         \* how often each thing has happened

db == <<baseline, pending, status>>
local == <<op, next, bytes, seen, held>>
history == <<reviewed, disturbed, under>>
vars == <<files, config, db, proposal, store, pc, local, history, env>>

Contents == [Paths -> Hashes \cup {None}]

\* The inventory of what is on disk.
Inventory(f) == [p \in Paths |-> IF f[p] = None THEN None ELSE Entry(f[p])]

\* The bytes of an inventory, which is all that a scan keeps of it.
Hashed(inv) == [p \in Paths |-> IF inv[p] = None THEN None ELSE inv[p].hash]

Empty == [p \in Paths |-> None]

Ops == {"none", "scan", "accept", "dismiss", "adopt", "seed", "cleanup", "serve"}
Pc == {"idle", "walk", "analyze", "load", "baseline", "first", "status", "record",
       "lookup", "replace", "delete", "seed", "cleanup", "allow", "read"}

Env == [edits : 0..MaxEdits, crashes : 0..MaxCrashes,
        updates : 0..MaxUpdates, faults : 0..MaxFaults]

TypeOK ==
  /\ files \in Contents
  /\ config \in {"absent", "off", "on"}
  /\ baseline \in [inventory : Inventories, by : {"scan", "seed", "accept", "adopt"},
                   saved : BOOLEAN] \cup {None}
  /\ pending \in Inventories \cup {None}
  /\ status \in BOOLEAN
  /\ proposal \in [kind : {"register", "initialize"}, snapshot : Inventories,
                   watch : BOOLEAN] \cup {None}
  /\ store \in Tasks \cup {None}
  /\ pc \in [Tasks -> Pc] /\ op \in [Tasks -> Ops]
  /\ next \in [Tasks -> 1..PathCount + 1]
  /\ bytes \in [Tasks -> Contents]
  /\ seen \in [Tasks -> Inventories]
  /\ held \in [Tasks -> Inventories \cup {None}]
  /\ reviewed \subseteq Inventories
  /\ disturbed \subseteq Tasks
  /\ under \subseteq Tasks
  /\ env \in Env

Init ==
  /\ files \in Contents
  /\ config = "absent"
  /\ baseline = None /\ pending = None /\ status = FALSE
  /\ proposal = None /\ store = None
  /\ pc = [t \in Tasks |-> "idle"] /\ op = [t \in Tasks |-> "none"]
  /\ next = [t \in Tasks |-> 1]
  /\ bytes = [t \in Tasks |-> Empty]
  /\ seen = [t \in Tasks |-> Empty]
  /\ held = [t \in Tasks |-> None]
  /\ reviewed = {}
  /\ disturbed = {} /\ under = {}
  /\ env = [edits |-> 0, crashes |-> 0, updates |-> 0, faults |-> 0]
-----------------------------------------------------------------------------
Goto(t, l) == pc' = [pc EXCEPT ![t] = l]

\* What a request relies on while it runs: that nobody saves, and a scan
\* that no initialization writes and that the baseline stays.
Minds(o) == CASE o = "scan" -> {"save", "move"}
              [] o \in {"adopt", "seed", "serve"} -> {"save"}
              [] OTHER -> {}

\* A save or a move disturbs every request that minds it but t, which begins
\* or returns.
Disturb(t, what) ==
  disturbed' = {u \in Tasks \ {t} : pc[u] # "idle"
                                    /\ (u \in disturbed \/ what \in Minds(op[u]))}

\* Task t starts on operation o at label l, carrying x along.
Begin(t, o, l, x, what) ==
  /\ pc[t] = "idle"
  /\ Goto(t, l)
  /\ op' = [op EXCEPT ![t] = o]
  /\ held' = [held EXCEPT ![t] = x]
  /\ Disturb(t, what)
  /\ UNCHANGED seen

\* Task t answers, or its caller gets an error.
Return(t, what) ==
  /\ Goto(t, "idle")
  /\ op' = [op EXCEPT ![t] = "none"]
  /\ next' = [next EXCEPT ![t] = 1]
  /\ bytes' = [bytes EXCEPT ![t] = Empty]
  /\ seen' = [seen EXCEPT ![t] = Empty]
  /\ held' = [held EXCEPT ![t] = None]
  /\ store' = IF store = t THEN None ELSE store
  /\ Disturb(t, what)

\* Task t makes inv the accepted inventory.
Baseline(t, inv) ==
  [inventory |-> inv, by |-> op[t], saved |-> op[t] # "scan" /\ t \in disturbed]

\* An inventory is due: the scan starts at the first path.
Walk(t) == /\ Goto(t, "walk")
           /\ next' = [next EXCEPT ![t] = 1]
           /\ UNCHANGED <<bytes, seen>>

\* A person saves, creates or deletes a document.
Edit ==
  /\ env.edits < MaxEdits
  /\ \E p \in Paths, h \in Hashes \cup {None} :
       h # files[p] /\ files' = [files EXCEPT ![p] = h]
  /\ Disturb(None, "save")
  /\ env' = [env EXCEPT !.edits = @ + 1]
  /\ UNCHANGED <<config, db, proposal, store, pc, local, reviewed, under>>

\* api_root_proposal_create, and a person who reads the proposal.
Propose(kind, watch) ==
  /\ store = None
  /\ proposal' = [kind |-> kind, snapshot |-> Inventory(files), watch |-> watch]
  /\ reviewed' = reviewed \cup {Inventory(files)}
  /\ UNCHANGED <<files, config, db, store, pc, local, disturbed, under, env>>

\* api_root_monitoring_pending, and a person who reads the changes.
Review ==
  /\ pending # None
  /\ reviewed' = reviewed \cup {pending}
  /\ UNCHANGED <<files, config, db, proposal, store, pc, local, disturbed, under, env>>

Fresh == proposal.snapshot = Inventory(files)

\* api_root_register: the root enters config.toml, or is there already as
\* proposed; the baseline of a monitored root is seeded next, under the lock
\* of the proposals and from the hashes of the proposal.
Register(t) ==
  /\ store = None /\ proposal # None
  /\ proposal.kind = "register" /\ Fresh
  /\ config \in {"absent", IF proposal.watch THEN "on" ELSE "off"}
  /\ config' = IF proposal.watch THEN "on" ELSE "off"
  /\ under' = {}
  /\ IF proposal.watch
     THEN /\ Begin(t, "seed", "analyze", proposal.snapshot, "none")
          /\ bytes' = [bytes EXCEPT ![t] = Hashed(proposal.snapshot)]
          /\ store' = t
          /\ UNCHANGED next
     ELSE pc[t] = "idle" /\ UNCHANGED <<store, pc, local, disturbed>>
  /\ UNCHANGED <<files, db, proposal, reviewed, env>>

\* seed_reviewed_baseline after inventory_entries: ON CONFLICT DO NOTHING.
Seed(t) ==
  /\ pc[t] = "seed"
  /\ IF baseline = None
     THEN baseline' = Baseline(t, seen[t]) /\ Return(t, "move")
     ELSE UNCHANGED baseline /\ Return(t, "none")
  /\ UNCHANGED <<files, config, pending, status, proposal, reviewed, under, env>>

\* api_root_update: monitoring is switched on or off; no row is touched.
Update(t) ==
  /\ pc[t] = "idle" /\ config # "absent" /\ env.updates < MaxUpdates
  /\ config' = IF config = "on" THEN "off" ELSE "on"
  /\ env' = [env EXCEPT !.updates = @ + 1]
  /\ UNCHANGED <<files, db, proposal, store, pc, local, history>>

\* The requests that may still write a row.
Writers == {t \in Tasks : op[t] \in {"scan", "accept", "adopt", "seed"}}

\* api_root_remove: config.toml first, then the rows.
Unregister(t) ==
  /\ config # "absent"
  /\ config' = "absent"
  /\ under' = Writers
  /\ Begin(t, "cleanup", "cleanup", None, "none")
  /\ UNCHANGED <<files, db, proposal, store, next, bytes, reviewed, env>>

\* RootMonitor::remove.
Cleanup(t) ==
  /\ pc[t] = "cleanup"
  /\ baseline' = None /\ pending' = None /\ status' = FALSE
  /\ Return(t, "move")
  /\ UNCHANGED <<files, config, proposal, reviewed, under, env>>
-----------------------------------------------------------------------------
\* One file of a scan (scan_document_root hashes its bytes).
Read(t) ==
  /\ pc[t] = "walk" /\ next[t] \in Paths
  /\ bytes' = [bytes EXCEPT ![t][next[t]] = files[next[t]]]
  /\ next' = [next EXCEPT ![t] = @ + 1]
  /\ UNCHANGED <<files, config, db, proposal, store, pc, op, seen, held,
                 history, env>>

\* A file read a second time, by analyze_compliance, decides on the state
\* of the entry, the bytes of the first time on its hash.
Analyzed(t, p) ==
  IF bytes[t][p] = None THEN None
  ELSE [state |-> IF files[p] \in Valid THEN "accepted" ELSE "metadata_invalid",
        hash |-> bytes[t][p]]

\* A mutant: the entries of a proposal are put together from what is on disk.
AnalyzeAfresh(t) ==
  /\ \/ pc[t] = "walk" /\ next[t] = PathCount + 1
     \/ pc[t] = "analyze"
  /\ seen' = [seen EXCEPT ![t] = IF op[t] = "seed" THEN Inventory(files)
                                 ELSE [p \in Paths |-> Analyzed(t, p)]]
  /\ next' = [next EXCEPT ![t] = 1]
  /\ bytes' = [bytes EXCEPT ![t] = Empty]
  /\ Goto(t, CASE op[t] = "scan" -> "baseline"
               [] op[t] = "accept" -> "record"
               [] op[t] = "seed" -> "seed"
               [] OTHER -> "replace")
  /\ UNCHANGED <<files, config, db, proposal, store, op, held,
                 history, env>>

\* inventory_entries: of the scan of build_inventory, when every file was
\* read, or of the inventory of a proposal.
Analyze(t) ==
  /\ \/ pc[t] = "walk" /\ next[t] = PathCount + 1
     \/ pc[t] = "analyze"
  /\ seen' = [seen EXCEPT ![t] = [p \in Paths |-> Analyzed(t, p)]]
  /\ next' = [next EXCEPT ![t] = 1]
  /\ bytes' = [bytes EXCEPT ![t] = Empty]
  /\ Goto(t, CASE op[t] = "scan" -> "baseline"
               [] op[t] = "accept" -> "record"
               [] op[t] = "seed" -> "seed"
               [] OTHER -> "replace")
  /\ UNCHANGED <<files, config, db, proposal, store, op, held,
                 history, env>>

\* A mutant: the check takes the root from the list the server started with.
CheckUnconfigured(t) ==
  /\ Begin(t, "scan", "walk", None, "none")
  /\ UNCHANGED <<files, config, db, proposal, store, next, bytes, reviewed, under, env>>

\* api_root_monitoring_check of a monitored root.
Check(t) ==
  /\ config = "on"
  /\ Begin(t, "scan", "walk", None, "none")
  /\ UNCHANGED <<files, config, db, proposal, store, next, bytes, reviewed, under, env>>

\* A mutant: a root without a baseline is compared with an empty one.
ReadBaselineAsEmpty(t) ==
  /\ pc[t] = "baseline"
  /\ Goto(t, "record")
  /\ held' = [held EXCEPT ![t] = IF baseline = None THEN Empty ELSE baseline.inventory]
  /\ UNCHANGED <<files, config, db, proposal, store, op, next, bytes, seen,
                 history, env>>

\* RootMonitor::scan has its inventory and reads the baseline.
ReadBaseline(t) ==
  /\ pc[t] = "baseline"
  /\ Goto(t, IF baseline = None THEN "first" ELSE "record")
  /\ held' = [held EXCEPT ![t] = IF baseline = None THEN None ELSE baseline.inventory]
  /\ UNCHANGED <<files, config, db, proposal, store, op, next, bytes, seen,
                 history, env>>

\* A mutant: INSERT OR REPLACE.
FirstAnyway(t) ==
  /\ pc[t] = "first"
  /\ baseline' = Baseline(t, seen[t])
  /\ Goto(t, "status")
  /\ Disturb(None, "move")
  /\ UNCHANGED <<files, config, pending, status, proposal, store, local,
                 reviewed, under, env>>

\* A first scan makes its inventory the baseline.  The INSERT fails on the
\* primary key if somebody else wrote a baseline in the meantime.
First(t) ==
  /\ pc[t] = "first"
  /\ \/ /\ baseline = None
        /\ baseline' = Baseline(t, seen[t])
        /\ Goto(t, "status")
        /\ Disturb(None, "move")
        /\ UNCHANGED <<local, store>>
     \/ /\ baseline # None
        /\ Return(t, "none")
        /\ UNCHANGED baseline
  /\ UNCHANGED <<files, config, pending, status, proposal, reviewed, under, env>>

Status(t) ==
  /\ pc[t] = "status"
  /\ status' = TRUE
  /\ Return(t, "none")
  /\ UNCHANGED <<files, config, baseline, pending, proposal, reviewed, under, env>>

\* A mutant: a check that finds nothing leaves an old notice alone.
RecordChanges(t) ==
  /\ pc[t] = "record" /\ op[t] = "scan"
  /\ pending' = IF Changes(held[t], seen[t]) = {} THEN pending
                ELSE seen[t]
  /\ status' = TRUE
  /\ Return(t, "none")
  /\ UNCHANGED <<files, config, baseline, proposal, reviewed, under, env>>

\* The transaction of a later scan.
Record(t) ==
  /\ pc[t] = "record" /\ op[t] = "scan"
  /\ pending' = IF Changes(held[t], seen[t]) = {} THEN None
                ELSE seen[t]
  /\ status' = TRUE
  /\ Return(t, "none")
  /\ UNCHANGED <<files, config, baseline, proposal, reviewed, under, env>>
-----------------------------------------------------------------------------
\* api_root_monitoring_accept and _dismiss, for a digest somebody reviewed.
\* Only accept asks whether the root is monitored.
Decide(t, o, digest) ==
  /\ digest \in reviewed
  /\ o = "accept" => config = "on"
  /\ Begin(t, o, "lookup", digest, "none")
  /\ UNCHANGED <<files, config, db, proposal, store, next, bytes, reviewed, under, env>>

\* Both read the pending row first and compare the digest with the caller's.
Lookup(t) ==
  /\ pc[t] = "lookup"
  /\ IF pending # held[t]
     THEN Return(t, "none")
     ELSE /\ IF op[t] = "accept" THEN Walk(t)
             ELSE Goto(t, "delete") /\ UNCHANGED <<next, bytes, seen>>
          /\ UNCHANGED <<op, held, store, disturbed>>
  /\ UNCHANGED <<files, config, db, proposal, reviewed, under, env>>

\* A mutant: the inventory is not compared with the digest again.
AcceptBlindly(t) ==
  /\ pc[t] = "record" /\ op[t] = "accept"
  /\ baseline' = Baseline(t, seen[t])
  /\ pending' = None
  /\ Return(t, "move")
  /\ UNCHANGED <<files, config, status, proposal, reviewed, under, env>>

\* RootMonitor::accept after its scan.
Accept(t) ==
  /\ pc[t] = "record" /\ op[t] = "accept"
  /\ IF seen[t] = held[t]
     THEN /\ baseline' = Baseline(t, seen[t])
          /\ pending' = None
          /\ Return(t, "move")
     ELSE UNCHANGED <<baseline, pending>> /\ Return(t, "none")
  /\ UNCHANGED <<files, config, status, proposal, reviewed, under, env>>

\* RootMonitor::dismiss: the DELETE names the root and not the digest.
Dismiss(t) ==
  /\ pc[t] = "delete"
  /\ pending' = None
  /\ Return(t, "none")
  /\ UNCHANGED <<files, config, baseline, status, proposal, reviewed, under, env>>
-----------------------------------------------------------------------------
\* The documents once source initialization completed their metadata.
Initialized(f) == [p \in Paths |-> IF f[p] = None THEN None ELSE Completed[f[p]]]

\* api_root_initialize: confirm_source_initialization (InitTransaction)
\* writes what the plan shows; the lock of the proposals stays held.
Initialize(t) ==
  /\ store = None /\ proposal # None
  /\ proposal.kind = "initialize" /\ Fresh
  /\ files' = Initialized(files)
  /\ reviewed' = reviewed \cup {Inventory(Initialized(files))}
  /\ Begin(t, "adopt", "load", None, "move")
  /\ store' = t
  /\ UNCHANGED <<config, db, proposal, next, bytes, under, env>>

\* It then looks the root up in config.toml ...
Load(t) ==
  /\ pc[t] = "load"
  /\ IF config = "on" THEN Walk(t) /\ UNCHANGED <<op, held, store, disturbed>>
     ELSE Return(t, "none")
  /\ UNCHANGED <<files, config, db, proposal, reviewed, under, env>>

\* ... and replace_reviewed_baseline scans the root and moves the baseline.
Replace(t) ==
  /\ pc[t] = "replace"
  /\ baseline' = Baseline(t, seen[t])
  /\ pending' = None
  /\ Return(t, "move")
  /\ UNCHANGED <<files, config, status, proposal, reviewed, under, env>>
-----------------------------------------------------------------------------
\* serve_document_from_mount asks for path p; monitor_allows_document reads
\* the configuration and the baseline.
Request(t, p) ==
  /\ LET watched == config = "on" /\ baseline # None
     IN Begin(t, "serve", IF watched THEN "allow" ELSE "read",
              IF watched THEN baseline.inventory ELSE None, "none")
  /\ next' = [next EXCEPT ![t] = p]
  /\ UNCHANGED <<files, config, db, proposal, store, bytes, reviewed, under, env>>

\* A mutant: a document that is in the baseline is allowed with any bytes.
AllowAnyBytes(t) ==
  /\ pc[t] = "allow"
  /\ IF files[next[t]] # None /\ Accepted(held[t], next[t])
     THEN Goto(t, "read") /\ UNCHANGED <<local, store, disturbed>>
     ELSE Return(t, "none")
  /\ UNCHANGED <<files, config, db, proposal, reviewed, under, env>>

\* RootMonitor::allows reads the file and compares its hash.
Allow(t) ==
  /\ pc[t] = "allow"
  /\ IF files[next[t]] # None /\ Allows(held[t], next[t], files[next[t]])
     THEN Goto(t, "read") /\ UNCHANGED <<local, store, disturbed>>
     ELSE Return(t, "none")
  /\ UNCHANGED <<files, config, db, proposal, reviewed, under, env>>

\* resolve_admitted_file scans once more and the file is read: what is on disk
\* now, if it is there, is the answer.
Serve(t) ==
  /\ pc[t] = "read"
  /\ Return(t, "none")
  /\ UNCHANGED <<files, config, db, proposal, reviewed, under, env>>
-----------------------------------------------------------------------------
\* scan_document_root cannot read a directory, or a statement or a
\* transaction on root-monitor.sqlite fails: the caller gets the error.
MayFail == {"walk", "baseline", "first", "status", "record", "lookup", "replace",
            "delete", "seed", "cleanup"}
Fault(t) ==
  /\ pc[t] \in MayFail /\ env.faults < MaxFaults
  /\ Return(t, "none")
  /\ env' = [env EXCEPT !.faults = @ + 1]
  /\ UNCHANGED <<files, config, db, proposal, reviewed, under>>

\* The server dies and starts again; a monitored root is scanned at startup.
Restart ==
  /\ env.crashes < MaxCrashes
  /\ \E startup \in IF config = "on" THEN Tasks ELSE {None} :
       /\ pc' = [t \in Tasks |-> IF t = startup THEN "walk" ELSE "idle"]
       /\ op' = [t \in Tasks |-> IF t = startup THEN "scan" ELSE "none"]
  /\ next' = [t \in Tasks |-> 1]
  /\ bytes' = [t \in Tasks |-> Empty] /\ seen' = [t \in Tasks |-> Empty]
  /\ held' = [t \in Tasks |-> None]
  /\ disturbed' = {}
  /\ proposal' = None /\ store' = None
  /\ env' = [env EXCEPT !.crashes = @ + 1]
  /\ UNCHANGED <<files, config, db, reviewed, under>>

\* What a task does once it has been started.
Step(t) == \/ Seed(t) \/ Cleanup(t)
           \/ Read(t) \/ Analyze(t)
           \/ ReadBaseline(t) \/ First(t) \/ Status(t) \/ Record(t)
           \/ Lookup(t) \/ Accept(t) \/ Dismiss(t)
           \/ Load(t) \/ Replace(t)
           \/ Allow(t) \/ Serve(t)
           \/ Fault(t)

\* The requests of the people who work with the root.
Call(t) == \/ Register(t) \/ Update(t) \/ Unregister(t)
           \/ Check(t) \/ Initialize(t)
           \/ \E digest \in reviewed : Decide(t, "accept", digest)
           \/ \E digest \in reviewed : Decide(t, "dismiss", digest)
           \/ \E p \in Paths : Request(t, p)

Next == \/ Edit \/ Review \/ Restart
        \/ \E watch \in Watch : Propose("register", watch)
        \/ Propose("initialize", FALSE)
        \/ \E t \in Tasks : Call(t) \/ Step(t)

Spec == Init /\ [][Next]_vars

\* A blocking task runs until it returns.
FairSpec == Spec /\ \A t \in Tasks : WF_vars(Step(t))
-----------------------------------------------------------------------------
(* The baseline a reviewed operation wrote is an inventory that a person   *)
(* has looked at: the registration proposal, the accepted changes, or the  *)
(* result shown by an initialization plan, whatever scans, restarts and    *)
(* other reviews ran in between.  The digest protects an acceptance from a *)
(* person who saves meanwhile.  A seed reads the documents once more for   *)
(* the states of its entries, so such a person can get a state into it     *)
(* that nobody saw, but no hash; an initialization scans them again, and   *)
(* then anything can get in.                                               *)
ReviewedBaseline ==
  baseline # None /\ baseline.by # "scan" =>
    \/ baseline.inventory \in reviewed
    \/ /\ baseline.saved /\ baseline.by = "seed"
       /\ \E inv \in reviewed : Hashed(inv) = Hashed(baseline.inventory)
    \/ baseline.saved /\ baseline.by = "adopt"

(* What a task knows of its request at each label.                         *)
Doing(t) ==
  /\ pc[t] = "idle" => op[t] = "none" /\ held[t] = None /\ next[t] = 1
  /\ pc[t] = "walk" => op[t] \in {"scan", "accept", "adopt"}
  /\ pc[t] = "record" => op[t] \in {"scan", "accept"}
  /\ pc[t] = "lookup" => op[t] \in {"accept", "dismiss"}
  /\ pc[t] \in {"load", "replace"} => op[t] = "adopt"
  /\ pc[t] \in {"allow", "read"} => op[t] = "serve" /\ next[t] \in Paths
  /\ pc[t] \in {"baseline", "first", "status"} => op[t] = "scan"
  /\ pc[t] = "delete" => op[t] = "dismiss"
  /\ pc[t] \in {"analyze", "seed"} => op[t] = "seed"
  /\ pc[t] = "cleanup" => op[t] = "cleanup"

(* What it carries along: a person has seen the inventory that it may make *)
(* the baseline, and a comparison has a baseline to compare with.          *)
Carrying(t) ==
  /\ op[t] \in {"accept", "seed"} => held[t] \in reviewed
  /\ pc[t] = "record" /\ op[t] = "scan" => held[t] \in Inventories
  /\ pc[t] = "analyze" => bytes[t] = Hashed(held[t])
  /\ pc[t] = "seed" => Hashed(seen[t]) = Hashed(held[t])

(* If nobody saves beside it, the scan after an initialization finds what  *)
(* the initialization wrote, and a seed the states of the proposal: they   *)
(* hold the lock of the proposals, so no initialization interferes.        *)
Adopting(t) ==
  op[t] \in {"adopt", "seed"} =>
    /\ store = t
    /\ t \notin disturbed =>
         /\ Inventory(files) \in reviewed
         /\ op[t] = "seed" => held[t] = Inventory(files)
         /\ op[t] = "adopt" /\ pc[t] = "walk" =>
              \A p \in Paths : p < next[t] => bytes[t][p] = files[p]
         /\ pc[t] \in {"replace", "seed"} => seen[t] = Inventory(files)

(* If nothing moves beside it, a scan has the files and the baseline.      *)
Checking(t) ==
  op[t] = "scan" /\ t \notin disturbed =>
    /\ pc[t] = "walk" => \A p \in Paths : p < next[t] => bytes[t][p] = files[p]
    /\ pc[t] \in {"baseline", "record"} => seen[t] = Inventory(files)
    /\ pc[t] = "record" => baseline # None /\ held[t] = baseline.inventory

(* A document that was allowed can still be sent.                          *)
Serving(t) ==
  pc[t] = "read" /\ t \notin disturbed /\ held[t] # None /\ files[next[t]] # None =>
    \E inv \in reviewed \cup {held[t]} : Allows(inv, next[t], files[next[t]])

(* Whoever looks at a proposal has seen its inventory.                     *)
ProposalSeen == proposal # None => proposal.snapshot \in reviewed

(* A root that was removed leaves no row in the database, once the removal *)
(* is over.  An exception is a request that can write rows and was under   *)
(* way when the root left config.toml: it may write them afterwards.  A    *)
(* request that begins later finds the root gone, whatever runs beside it. *)
(* The database may also fail, or the server die, before the rows are      *)
(* deleted.                                                                *)
RemovalComplete ==
  /\ config = "absent" /\ under = {} /\ env.faults = 0 /\ env.crashes = 0
  /\ \A t \in Tasks : pc[t] # "cleanup"
  => baseline = None /\ pending = None /\ ~status

(* Without such a request nothing that writes is at work on an absent root.*)
Absent ==
  config = "absent" /\ under = {} /\ env.crashes = 0 =>
    \A t \in Tasks : op[t] \in {"none", "dismiss", "serve", "cleanup"} \/ pc[t] = "load"

(* The inductive invariant behind the proofs of RootMonitorProofs.         *)
IInv == /\ TypeOK
        /\ ReviewedBaseline
        /\ ProposalSeen
        /\ RemovalComplete /\ Absent
        /\ \A t \in Tasks : Doing(t) /\ Carrying(t) /\ Adopting(t)
                            /\ Checking(t) /\ Serving(t)

(* A baseline that is there moves only to an inventory a person has looked *)
(* at, unless a person saves beside an initialization.  First scans that   *)
(* lost a race with a seed, an acceptance or one another leave it alone.   *)
OnlyReviewMoves ==
  [][/\ baseline # None /\ baseline' # None /\ baseline' # baseline
     => \/ baseline'.inventory \in reviewed
        \/ baseline'.by = "adopt" /\ baseline'.saved]_vars

(* A document served under a baseline has the bytes of an accepted entry   *)
(* of that baseline, or of an inventory reviewed since.  The file is read  *)
(* for the third time when it is sent, so this takes people who do not     *)
(* save in between; an initialization may well come in between.            *)
ServedWasReviewed ==
  [][\A t \in Tasks : /\ t \notin disturbed
                      /\ Serve(t) /\ held[t] # None /\ files[next[t]] # None
       => \E inv \in reviewed \cup {held[t]} :
            Allows(inv, next[t], files[next[t]])]_vars

(* A check beside which neither a file nor the baseline moves leaves a     *)
(* notice exactly when the files differ from the baseline, whatever else   *)
(* runs beside it.                                                         *)
CheckTells ==
  [][\A t \in Tasks : Record(t) /\ t \notin disturbed =>
       (pending' # None) = (Changes(baseline.inventory, Inventory(files)) # {})]_vars

(* README: startup initialization is only the fallback for configurations  *)
(* that are older than monitoring.  Without updates every monitored root   *)
(* was registered as such, so its first baseline is the reviewed proposal. *)
SeedReviewed == baseline # None /\ env.updates = 0 => baseline.by # "scan"

(* security/http-threat-model.md, of the notice whose digest the caller    *)
(* names: "Dismissal removes only that notice".                            *)
OnlyThatNotice ==
  [][\A t \in Tasks : Dismiss(t) =>
       pending \in {None, held[t]}]_vars

(* The scan of a root, at startup or on demand, leaves it with a baseline, *)
(* unless it cannot read the root, the database fails or the root is no    *)
(* longer monitored.                                                       *)
ScanSeeds ==
  \A t \in Tasks : pc[t] = "walk" /\ op[t] = "scan"
    ~> baseline # None \/ config # "on" \/ env.faults > 0
=============================================================================

----------------------------- MODULE RootConfig ------------------------------
(***************************************************************************)
(* The configuration of the document roots: config.toml with its revision, *)
(* its lock and its atomic replacement (browser_config.rs and the first    *)
(* part of transaction.rs of crates/okf), the handlers of                  *)
(* crates/okf-http/src/lib.rs that show and change it, and the import of   *)
(* the command line.                                                       *)
(*                                                                         *)
(* Several servers share the file.  A tab is a client with at most one     *)
(* request in progress; it looks at the configuration before a request.    *)
(***************************************************************************)
EXTENDS AtomicConfig

CONSTANTS
  Servers, ServerOf,  \* the server process each tab talks to
  Importers,          \* runs of "okf-http roots import-env"
  Torn                \* a file that is cut off or mixed with another

ASSUME ProcessConstants ==
  /\ ServerOf \in [Tabs -> Servers]
  /\ Tabs \cap Importers = {} /\ Servers \cap Importers = {}
  /\ None \notin Tabs \cup Importers
  /\ None \notin {"register", "change"}
  /\ Torn \notin Seq(Roots) \cup {Missing, None}

VARIABLES
  lock,   \* the tab whose request holds config.lock
  temp,   \* the temporary file of each process: its own, or what is left of one
  \* each tab and its request, each import
  pc,     \* where it is
  op,     \* what was requested
  mem     \* the roots it is about to save

vars == <<file, rev, beside, lock, temp, pc, op, mem>>

Actors == Tabs \cup Importers
Proc(a) == IF a \in Tabs THEN ServerOf[a] ELSE a

\* A registration, or an update or removal.  Which root it is about, and the
\* settings it asks for, are chosen where the configuration is searched.
Requests == {"register", "change"}
Pc == {"idle", "lock", "check", "load", "create", "rename", "sync"}

TypeOK ==
  /\ file \in Files \cup {Torn}
  /\ rev \in [Tabs -> Files \cup {Torn, None}]
  /\ beside \in BOOLEAN
  /\ lock \in Tabs \cup {None}
  /\ temp \in [Servers \cup Importers -> {"none", "own", "left", "mixed"}]
  /\ pc \in [Actors -> Pc]
  /\ op \in [Tabs -> Requests \cup {None}]
  /\ mem \in [Actors -> Seq(Roots) \cup {None}]

Init ==
  /\ AInit
  /\ beside = FALSE /\ lock = None
  /\ temp = [p \in Servers \cup Importers |-> "none"]
  /\ pc = [a \in Actors |-> "idle"] /\ op = [t \in Tabs |-> None]
  /\ mem = [a \in Actors |-> None]
-----------------------------------------------------------------------------
Busy(as) == \E a \in as : pc[a] # "idle"
Goto(a, l) == pc' = [pc EXCEPT ![a] = l]

\* load_browser_config: the file parses and no root is configured twice.
Unique(f) == \A id \in Ids : \A i, j \in Positions(f, id) : i = j
Loads(f) == f # Torn /\ Unique(f)

\* The request or import of a is over.  Its tab looks at the configuration
\* again before it sends another, and its lock is free.
Return(a) ==
  /\ Goto(a, "idle")
  /\ mem' = [mem EXCEPT ![a] = None]
  /\ rev' = [t \in Tabs |-> IF t = a THEN None ELSE rev[t]]
  /\ op' = [t \in Tabs |-> IF t = a THEN None ELSE op[t]]
  /\ lock' = IF lock = a THEN None ELSE lock

\* root_configuration_response: the roots, and the hash of the file.
Look(t) ==
  /\ pc[t] = "idle"
  /\ rev' = [rev EXCEPT ![t] = file]
  /\ UNCHANGED <<file, beside, lock, temp, pc, op, mem>>

\* api_root_register, _update or _remove.  A registration keeps the proposals
\* of its server locked until it returns.
Registering(t) == op[t] = "register"
Submit(t, r) ==
  /\ pc[t] = "idle" /\ rev[t] # None
  /\ beside' = (Busy(Importers) \/ (beside /\ Busy(Actors)))
  /\ r = "register" =>
       ~\E u \in Tabs : ServerOf[u] = ServerOf[t] /\ Registering(u)
  /\ op' = [op EXCEPT ![t] = r]
  /\ Goto(t, "lock")
  /\ UNCHANGED <<file, rev, lock, temp, mem>>

\* A mutant: config.lock does not exclude.
AcquireShared(t) ==
  /\ pc[t] = "lock"
  /\ lock' = t
  /\ Goto(t, "check")
  /\ UNCHANGED <<file, rev, beside, temp, op, mem>>

\* flock on config.lock.  A registration validates its proposal before it
\* asks for the lock.
Acquire(t) ==
  /\ pc[t] = "lock"
  /\ \/ /\ lock = None
        /\ lock' = t
        /\ Goto(t, "check")
        /\ UNCHANGED <<rev, op, mem>>
     \/ Return(t)
  /\ UNCHANGED <<file, beside, temp>>

\* A mutant: a conflict is reported with the lock held.
CheckLocked(t) ==
  /\ pc[t] = "check"
  /\ \/ /\ file = rev[t]
        /\ Goto(t, "load")
        /\ UNCHANGED <<rev, op>>
     \/ /\ Goto(t, "idle")
        /\ op' = [op EXCEPT ![t] = None] /\ rev' = [rev EXCEPT ![t] = None]
  /\ UNCHANGED <<file, beside, lock, temp, mem>>

\* The revision is compared under the lock: it is the expected one, or there
\* is a conflict or no reading the file.
Check(t) ==
  /\ pc[t] = "check"
  /\ \/ /\ file = rev[t]
        /\ Goto(t, "load")
        /\ UNCHANGED <<rev, lock, op, mem>>
     \/ Return(t)
  /\ UNCHANGED <<file, beside, temp>>

\* The roots to be saved are ready.
Save(t, roots) == /\ mem' = [mem EXCEPT ![t] = roots]
                  /\ Goto(t, "create")
                  /\ UNCHANGED <<rev, lock, op>>

\* confirm_root_registration: a root that is configured already is not
\* configured again.
LoadRegister(t) ==
  /\ op[t] = "register"
  /\ \E id \in Ids, set \in Settings :
       Positions(file, id) = {} /\ Save(t, Registered(file, id, set))

\* update_registered_root: fields the request leaves out keep their value.
LoadUpdate(t) ==
  /\ op[t] = "change"
  /\ \E i \in DOMAIN RootsIn(file), set \in Settings :
       file[i].set # set /\ Save(t, Updated(file, i, set))

LoadRemove(t) ==
  /\ op[t] = "change"
  /\ \E i \in DOMAIN RootsIn(file) : Save(t, Removed(file, i))

\* The file may not load, there may be nothing to change, or the proposal is stale, its root is
\* configured differently, or the root to change is not configured at all.
Load(t) ==
  /\ pc[t] = "load"
  /\ \/ Loads(file) /\ (LoadRegister(t) \/ LoadUpdate(t) \/ LoadRemove(t))
     \/ Return(t)
  /\ UNCHANGED <<file, beside, temp>>

\* import_env_roots: neither lock nor revision.  The environment names a root.
LoadImport(i) ==
  /\ pc[i] = "idle"
  /\ Loads(file)
  /\ beside' = Busy(Actors)
  /\ \E id \in Ids, set \in Settings :
       mem' = [mem EXCEPT ![i] = IF Positions(file, id) = {} THEN Registered(file, id, set)
                                 ELSE RootsIn(file)]
  /\ Goto(i, "create")
  /\ UNCHANGED <<file, rev, lock, temp, op>>

\* What a dead process or a failing removal leaves of a temporary file.
Remains(t) == IF t = "none" THEN "none" ELSE "left"

\* The request or import of a fails: its temporary file is removed, or that
\* fails too.
Fail(a) ==
  /\ \E t \in {"none", Remains(temp[Proc(a)])} : temp' = [temp EXCEPT ![Proc(a)] = t]
  /\ Return(a)

\* A mutant: a temporary file that is there is opened and written over, and
\* what it is longer by stays.
CreateOver(a) ==
  /\ pc[a] = "create"
  /\ \/ /\ Loads(mem[a])
        /\ temp' = [temp EXCEPT ![Proc(a)] = IF @ = "none" THEN "own" ELSE "mixed"]
        /\ Goto(a, "rename")
        /\ UNCHANGED <<rev, lock, op, mem>>
     \/ Fail(a)
  /\ UNCHANGED <<file, beside>>

\* save_browser_config refuses roots that would not load.  atomic_write then
\* creates a temporary file that is named after the process.  If there is one
\* already, it is removed and the save fails.
Create(a) ==
  /\ pc[a] = "create"
  /\ \/ /\ Loads(mem[a]) /\ temp[Proc(a)] = "none"
        /\ temp' = [temp EXCEPT ![Proc(a)] = "own"]
        /\ Goto(a, "rename")
        /\ UNCHANGED <<rev, lock, op, mem>>
     \/ Fail(a)
  /\ UNCHANGED <<file, beside>>

\* It is written out, made durable and renamed; each of them may fail.
Rename(a) ==
  /\ pc[a] = "rename"
  /\ \/ /\ file' = IF temp[Proc(a)] = "own" THEN mem[a] ELSE Torn
        /\ temp' = [temp EXCEPT ![Proc(a)] = "none"]
        /\ mem' = [mem EXCEPT ![a] = None]
        /\ Goto(a, "sync")
        /\ UNCHANGED <<rev, lock, op>>
     \/ Fail(a) /\ UNCHANGED file
  /\ UNCHANGED beside

\* The new file is made private and durable, which may fail as well, and its
\* revision is the answer.
Sync(a) ==
  /\ pc[a] = "sync"
  /\ Return(a)
  /\ UNCHANGED <<file, beside, temp>>

\* A process dies with its requests.  Its temporary file stays, and the next
\* process may be given the same number.
Crash(p) ==
  LET dead == {a \in Actors : Proc(a) = p /\ pc[a] # "idle"}
  IN  /\ dead # {}
      /\ pc' = [a \in Actors |-> IF a \in dead THEN "idle" ELSE pc[a]]
      /\ mem' = [a \in Actors |-> IF a \in dead THEN None ELSE mem[a]]
      /\ op' = [t \in Tabs |-> IF t \in dead THEN None ELSE op[t]]
      /\ rev' = [t \in Tabs |-> IF t \in dead THEN None ELSE rev[t]]
      /\ lock' = IF lock \in dead THEN None ELSE lock
      /\ temp' = [temp EXCEPT ![p] = Remains(@)]
      /\ UNCHANGED <<file, beside>>

Step(a) == \/ a \in Tabs /\ (Acquire(a) \/ Check(a) \/ Load(a))
           \/ Create(a) \/ Rename(a) \/ Sync(a)

Next == \/ \E t \in Tabs : \/ Look(t)
                           \/ \E r \in Requests : Submit(t, r)
        \/ \E i \in Importers : LoadImport(i)
        \/ \E a \in Actors : Step(a)
        \/ \E p \in Servers \cup Importers : Crash(p)

Spec == Init /\ [][Next]_vars
-----------------------------------------------------------------------------
(* Whoever writes the configuration when, and whatever the others and the  *)
(* dead have left behind, it is whole and holds no root twice: it always   *)
(* loads (atomic_write, validate_roots).                                   *)
AlwaysLoads == Loads(file)

(* The lock of config.toml.                                                *)
Writing == {"create", "rename"}
Critical == {"check", "load", "sync"} \cup Writing
Locking(t) == pc[t] \in Critical <=> lock = t

(* Past the check of the revision the file is what the tab expects, and it *)
(* is about to be replaced by a change of just that.                       *)
Expecting(t) ==
  /\ pc[t] \in {"lock"} \cup Critical => op[t] \in Requests
  /\ pc[t] \in {"lock", "check"} => rev[t] # None
  /\ ~beside /\ pc[t] \in {"load"} \cup Writing => rev[t] = file
  /\ ~beside /\ pc[t] \in Writing => mem[t] \in Changed(file)
  /\ pc[t] \in Writing => mem[t] \in Seq(Roots) /\ Unique(mem[t])

(* What an import knows.                                                   *)
Importing(i) ==
  /\ pc[i] \in {"idle", "sync"} \cup Writing
  /\ pc[i] \in Writing => mem[i] \in Seq(Roots) /\ Unique(mem[i])
  /\ ~beside /\ pc[i] # "idle" =>
       \A a \in Actors \ {i} : pc[a] = "idle"
  /\ ~beside /\ pc[i] \in Writing => mem[i] \in Extended(file)

(* What is renamed is a file that was not there before.                    *)
Fresh(a) == pc[a] = "rename" => temp[Proc(a)] = "own"

(* The inductive invariant behind the proofs of RootConfigProofs.          *)
IInv == /\ TypeOK
        /\ AlwaysLoads
        /\ \A t \in Tabs : Locking(t) /\ Expecting(t)
        /\ \A i \in Importers : Importing(i)
        /\ \A a \in Actors : Fresh(a)

(* The protocol of lock, revision and rename implements the atomic         *)
(* compare-and-set of AtomicConfig: plans/secure-document-root-onboarding- *)
(* plan.md, "revision checks so browser tabs and multiple processes cannot *)
(* silently overwrite newer configuration".  It does so as long as no      *)
(* import is run beside a request.                                         *)
Atomic == INSTANCE AtomicConfig
CompareAndSet == Atomic!ASpec

(* The same sentence, step by step: the file that replaces a configuration *)
(* is that configuration with one change made to it.  Holds of requests;   *)
(* an import beside them replaces what it never read.                      *)
OneChange == [][file' # file => file' \in Changed(file) \cup Extended(file)]_vars
=============================================================================

------------------------- MODULE RootMonitorProofs --------------------------
(***************************************************************************)
(* The safety properties of RootMonitor for any number of tasks, documents *)
(* and contents.  IInv is inductive.  Every action is shown to keep what   *)
(* IInv says of the rows and of the tasks in a lemma of its own; that a    *)
(* removal is complete is shown for all of them at once.                   *)
(***************************************************************************)
EXTENDS RootMonitor, TLAPS

\* What IInv says of one task.
Local(t) == Doing(t) /\ Carrying(t) /\ Adopting(t) /\ Checking(t) /\ Serving(t)

\* IInv but for the removal of the root.
Core == /\ TypeOK /\ ReviewedBaseline /\ ProposalSeen
        /\ \A t \in Tasks : Local(t)

\* The step leaves task u alone ...
Stays(u) == /\ pc'[u] = pc[u] /\ op'[u] = op[u] /\ next'[u] = next[u]
            /\ bytes'[u] = bytes[u] /\ seen'[u] = seen[u] /\ held'[u] = held[u]
            /\ pc[u] # "idle" /\ u \notin disturbed' => u \notin disturbed

\* ... and tells it, if it is a scan, that the baseline moves.
Warned(u) == op[u] = "scan" /\ u \notin disturbed' => baseline' = baseline

\* The variables of the tasks keep their types.
TaskTypes == /\ pc \in [Tasks -> Pc] /\ op \in [Tasks -> Ops]
             /\ next \in [Tasks -> 1..PathCount + 1]
             /\ bytes \in [Tasks -> Contents]
             /\ seen \in [Tasks -> Inventories]
             /\ held \in [Tasks -> Inventories \cup {None}]
             /\ disturbed \subseteq Tasks

BaselineRows == [inventory : Inventories, by : {"scan", "seed", "accept", "adopt"},
                 saved : BOOLEAN]

-----------------------------------------------------------------------------
(* A task that a step leaves alone knows what it knew, as long as the      *)
(* documents stay and nobody takes the lock of the proposals away from it. *)
LEMMA Bystander ==
  ASSUME IInv, NEW u \in Tasks, Stays(u), Warned(u),
         files' = files, reviewed \subseteq reviewed', store = u => store' = u
  PROVE  Local(u)'
<1>1. Doing(u) /\ Carrying(u) /\ Adopting(u) /\ Checking(u) /\ Serving(u)
  BY DEF IInv
<1>2. Doing(u)'
  BY <1>1 DEF Doing, Stays
<1>3. Carrying(u)'
  BY <1>1 DEF Carrying, Stays
<1>4. op[u] # "none" => pc[u] # "idle"
  BY <1>1 DEF Doing
<1>5. Adopting(u)'
  BY <1>1, <1>4 DEF Adopting, Stays, Inventory
<1>6. Checking(u)'
  BY <1>1, <1>4 DEF Checking, Stays, Warned, Inventory
<1>7. Serving(u)'
  BY <1>1 DEF Serving, Stays
<1> QED
  BY <1>2, <1>3, <1>5, <1>6, <1>7 DEF Local

(* Whoever is not disturbed by a step was not disturbed before, and does   *)
(* not mind what happened.                                                 *)
LEMMA Undisturbed ==
  ASSUME NEW t, NEW what, Disturb(t, what), NEW u \in Tasks, u # t,
         u \notin disturbed', pc[u] # "idle"
  PROVE  u \notin disturbed /\ what \notin Minds(op[u])
  BY DEF Disturb

(* Who minds what.                                                         *)
LEMMA Minding ==
  /\ "save" \in Minds("scan") /\ "move" \in Minds("scan")
  /\ "save" \in Minds("adopt") /\ "save" \in Minds("seed") /\ "save" \in Minds("serve")
  BY DEF Minds

(* The empty listing and the inventory of the files are well typed, and    *)
(* the inventory has the hashes of the files.                              *)
LEMMA Listings ==
  /\ Empty \in Contents /\ Empty \in Inventories
  /\ \A f \in Contents : Inventory(f) \in Inventories
  /\ \A inv \in Inventories : Hashed(inv) \in Contents
  /\ \A f \in Contents : Hashed(Inventory(f)) = f
<1>1. Empty \in Contents /\ Empty \in Inventories
  BY DEF Empty, Contents, Inventories
<1>2. ASSUME NEW h \in Hashes
      PROVE  Entry(h) \in Entries /\ Entry(h).hash = h /\ Entry(h) # None
  <2>1. Entry(h) \in Entries
    BY DEF Entry, Entries
  <2> QED
    BY <2>1, InventoryConstants DEF Entry
<1>3. ASSUME NEW f \in Contents PROVE Inventory(f) \in Inventories
  BY <1>2 DEF Inventory, Inventories, Contents
<1>4. ASSUME NEW inv \in Inventories PROVE Hashed(inv) \in Contents
  <2>1. ASSUME NEW p \in Paths, inv[p] # None PROVE inv[p].hash \in Hashes \cup {None}
    <3>1. inv[p] \in Entries
      BY <2>1 DEF Inventories
    <3> QED
      BY <3>1 DEF Entries
  <2> QED
    BY <2>1 DEF Hashed, Contents
<1>5. ASSUME NEW f \in Contents PROVE Hashed(Inventory(f)) = f
  <2>1. ASSUME NEW p \in Paths PROVE Hashed(Inventory(f))[p] = f[p]
    <3>1. f[p] \in Hashes \cup {None}
      BY DEF Contents
    <3> QED
      BY <1>2, <3>1 DEF Hashed, Inventory
  <2>2. Hashed(Inventory(f)) = [p \in Paths |-> Hashed(Inventory(f))[p]]
    BY DEF Hashed
  <2>3. f = [p \in Paths |-> f[p]]
    BY DEF Contents
  <2> QED
    BY <2>1, <2>2, <2>3
<1> QED
  BY <1>1, <1>3, <1>4, <1>5

(* A task that returns leaves nothing behind.                              *)
LEMMA Returned ==
  ASSUME IInv, NEW t \in Tasks, NEW what, Return(t, what)
  PROVE  /\ TaskTypes'
         /\ store' \in Tasks \cup {None}
         /\ Local(t)'
         /\ \A u \in Tasks \ {t} :
              /\ Stays(u) /\ (store = u => store' = u)
              /\ what = "move" => Warned(u)
<1>1. TypeOK
  BY DEF IInv
<1>2. /\ pc' = [pc EXCEPT ![t] = "idle"] /\ op' = [op EXCEPT ![t] = "none"]
      /\ next' = [next EXCEPT ![t] = 1] /\ bytes' = [bytes EXCEPT ![t] = Empty]
      /\ seen' = [seen EXCEPT ![t] = Empty] /\ held' = [held EXCEPT ![t] = None]
      /\ store' = IF store = t THEN None ELSE store
      /\ Disturb(t, what)
  BY DEF Return, Goto
<1>3. TaskTypes'
  <2>1. 1 \in 1..PathCount + 1
    BY InventoryConstants
  <2>2. disturbed' \subseteq Tasks
    BY <1>2 DEF Disturb
  <2> QED
    BY <1>1, <1>2, <2>1, <2>2, Listings DEF TypeOK, TaskTypes, Pc, Ops
<1>4. store' \in Tasks \cup {None}
  BY <1>1, <1>2 DEF TypeOK
<1>5. pc'[t] = "idle" /\ op'[t] = "none" /\ held'[t] = None /\ next'[t] = 1
  BY <1>1, <1>2 DEF TypeOK
<1>6. Local(t)'
  BY <1>5 DEF Local, Doing, Carrying, Adopting, Checking, Serving
<1>7. ASSUME NEW u \in Tasks \ {t}
      PROVE  Stays(u) /\ (store = u => store' = u) /\ (what = "move" => Warned(u))
  <2>1. Stays(u)
    BY <1>1, <1>2, Undisturbed DEF TypeOK, Stays
  <2>2. op[u] = "scan" => pc[u] # "idle"
    BY DEF IInv, Doing
  <2>3. what = "move" => Warned(u)
    BY <1>2, <2>2, Undisturbed, Minding DEF Warned
  <2> QED
    BY <1>2, <2>1, <2>3
<1> QED
  BY <1>3, <1>4, <1>6, <1>7

(* A step in which task t returns keeps the invariant if it keeps the      *)
(* rows of the database in order.                                          *)
LEMMA ReturnKeeps ==
  ASSUME IInv, NEW t \in Tasks, NEW what, Return(t, what),
         UNCHANGED <<files, config, proposal, reviewed, under>>, env' \in Env,
         baseline' \in BaselineRows \cup {None},
         baseline' = baseline \/ what = "move",
         pending' \in Inventories \cup {None},
         status' \in BOOLEAN,
         ReviewedBaseline'
  PROVE  Core'
<1>1. TypeOK'
  BY Returned DEF IInv, TypeOK, TaskTypes, BaselineRows
<1>2. ASSUME NEW u \in Tasks PROVE Local(u)'
  <2>1. CASE u = t
    BY <2>1, Returned
  <2>2. CASE u # t
    <3>1. Stays(u) /\ (store = u => store' = u) /\ Warned(u)
      BY <2>2, Returned DEF Warned
    <3> QED
      BY <3>1, Bystander
  <2> QED
    BY <2>1, <2>2
<1>3. ProposalSeen'
  BY DEF IInv, ProposalSeen
<1> QED
  BY <1>1, <1>2, <1>3 DEF Core

(* A task that begins changes nothing of the others.                       *)
LEMMA Begun ==
  ASSUME IInv, NEW t \in Tasks, NEW o \in Ops, NEW l \in Pc,
         NEW x \in Inventories \cup {None}, NEW what, Begin(t, o, l, x, what),
         next' \in [Tasks -> 1..PathCount + 1], bytes' \in [Tasks -> Contents],
         \A u \in Tasks \ {t} : next'[u] = next[u] /\ bytes'[u] = bytes[u]
  PROVE  /\ TaskTypes'
         /\ pc[t] = "idle" /\ op[t] = "none"
         /\ pc'[t] = l /\ op'[t] = o /\ held'[t] = x /\ t \notin disturbed'
         /\ \A u \in Tasks \ {t} : Stays(u)
<1>1. TypeOK /\ Doing(t)
  BY DEF IInv
<1>2. /\ pc[t] = "idle"
      /\ pc' = [pc EXCEPT ![t] = l] /\ op' = [op EXCEPT ![t] = o]
      /\ held' = [held EXCEPT ![t] = x]
      /\ seen' = seen
      /\ Disturb(t, what)
  BY DEF Begin, Goto
<1>3. op[t] = "none"
  BY <1>1, <1>2 DEF Doing
<1>4. disturbed' \subseteq Tasks /\ t \notin disturbed'
  BY <1>2 DEF Disturb
<1>5. TaskTypes'
  BY <1>1, <1>2, <1>4 DEF TypeOK, TaskTypes
<1>6. pc'[t] = l /\ op'[t] = o /\ held'[t] = x
  BY <1>1, <1>2 DEF TypeOK
<1>7. ASSUME NEW u \in Tasks \ {t} PROVE Stays(u)
  BY <1>1, <1>2, Undisturbed DEF TypeOK, Stays
<1> QED
  BY <1>2, <1>3, <1>4, <1>5, <1>6, <1>7

(* A step of task t keeps the invariant if it keeps the types and what t   *)
(* and the bystanders know.                                                *)
LEMMA StepKeeps ==
  ASSUME IInv, NEW t \in Tasks, TypeOK', ReviewedBaseline', Local(t)',
         \A u \in Tasks \ {t} : Stays(u) /\ Warned(u) /\ (store = u => store' = u),
         files' = files, proposal' = proposal, reviewed \subseteq reviewed'
  PROVE  Core'
<1>1. ASSUME NEW u \in Tasks PROVE Local(u)'
  BY Bystander
<1>2. ProposalSeen'
  BY DEF IInv, ProposalSeen
<1> QED
  BY <1>1, <1>2 DEF Core

(* A baseline that stays was reviewed, if it was.                          *)
LEMMA BaselineStays ==
  ASSUME IInv, baseline' = baseline, reviewed \subseteq reviewed'
  PROVE  ReviewedBaseline'
  BY DEF IInv, ReviewedBaseline, Hashed
-----------------------------------------------------------------------------
LEMMA InitHolds == ASSUME Init PROVE IInv
<1>1. TypeOK
  <2>1. 1 \in 1..PathCount + 1
    BY InventoryConstants
  <2>2. /\ pc \in [Tasks -> Pc] /\ op \in [Tasks -> Ops]
        /\ next \in [Tasks -> 1..PathCount + 1]
        /\ bytes \in [Tasks -> Contents] /\ seen \in [Tasks -> Inventories]
        /\ held \in [Tasks -> Inventories \cup {None}]
    BY <2>1, Listings DEF Init, Pc, Ops
  <2>3. env \in Env
    BY MonitorConstants DEF Init, Env
  <2> QED
    BY <2>2, <2>3 DEF Init, TypeOK
<1>2. ReviewedBaseline
  BY DEF Init, ReviewedBaseline
<1>3. ASSUME NEW t \in Tasks
      PROVE  Doing(t) /\ Carrying(t) /\ Adopting(t) /\ Checking(t) /\ Serving(t)
  BY DEF Init, Doing, Carrying, Adopting, Checking, Serving
<1>4. ProposalSeen /\ RemovalComplete /\ Absent
  BY DEF Init, ProposalSeen, RemovalComplete, Absent
<1> QED
  BY <1>1, <1>2, <1>3, <1>4 DEF IInv

(* A save disturbs everybody whose knowledge depends on the files.         *)
LEMMA EditKeeps == ASSUME IInv, Edit PROVE Core'
<1>1. TypeOK
  BY DEF IInv
<1>2. /\ files' \in Contents
      /\ Disturb(None, "save")
      /\ env' = [env EXCEPT !.edits = @ + 1] /\ env.edits < MaxEdits
      /\ UNCHANGED <<config, db, proposal, store, pc, local, reviewed, under>>
  BY <1>1 DEF Edit, TypeOK, Contents
<1>3. env' \in Env
  BY <1>1, <1>2, MonitorConstants DEF TypeOK, Env
<1>4. TypeOK'
  <2>1. disturbed' \subseteq Tasks
    BY <1>2 DEF Disturb
  <2> QED
    BY <1>1, <1>2, <1>3, <2>1 DEF TypeOK, db, local
<1>5. ReviewedBaseline'
  BY <1>2, BaselineStays DEF db
<1>6. ASSUME NEW t \in Tasks PROVE Local(t)'
  <2>1. Doing(t) /\ Carrying(t) /\ Adopting(t)
    BY DEF IInv
  <2>2. Doing(t)' /\ Carrying(t)'
    BY <1>2, <2>1 DEF Doing, Carrying, local
  <2>3. op[t] \in {"adopt", "seed", "scan", "serve"} => t \in disturbed'
    <3>1. op[t] # "none" => pc[t] # "idle"
      BY <2>1 DEF Doing
    <3>2. t # None
      BY MonitorConstants
    <3> QED
      BY <1>2, <3>1, <3>2, Undisturbed, Minding
  <2>4. Adopting(t)'
    BY <1>2, <2>1, <2>3 DEF Adopting, local
  <2>5. Checking(t)'
    BY <1>2, <2>3 DEF Checking, local
  <2>6. Serving(t)'
    BY <1>2, <2>1, <2>3 DEF Serving, Doing, local
  <2> QED
    BY <2>2, <2>4, <2>5, <2>6 DEF Local
<1>7. ProposalSeen'
  BY <1>2 DEF IInv, ProposalSeen
<1> QED
  BY <1>4, <1>5, <1>6, <1>7 DEF Core

(* Proposals and reviews only add to what people have seen.                *)
LEMMA WatchersKeep ==
  ASSUME IInv, NEW inv \in Inventories, reviewed' = reviewed \cup {inv},
         proposal' \in [kind : {"register", "initialize"}, snapshot : Inventories,
                        watch : BOOLEAN] \cup {None},
         ProposalSeen',
         UNCHANGED <<files, config, db, store, pc, local, disturbed, under, env>>
  PROVE  Core'
<1>1. TypeOK
  BY DEF IInv
<1>2. TypeOK'
  BY <1>1 DEF TypeOK, db, local
<1>3. ReviewedBaseline'
  BY BaselineStays DEF db
<1>4. ASSUME NEW t \in Tasks PROVE Local(t)'
  <2>1. Stays(t) /\ Warned(t)
    BY DEF Stays, Warned, local, db
  <2> QED
    BY <2>1, Bystander
<1> QED
  BY <1>2, <1>3, <1>4 DEF Core

LEMMA ProposeKeeps ==
  ASSUME IInv, NEW kind \in {"register", "initialize"}, NEW watch \in BOOLEAN,
         Propose(kind, watch)
  PROVE  Core'
<1>1. Inventory(files) \in Inventories
  BY Listings DEF IInv, TypeOK
<1>2. ProposalSeen'
  BY DEF Propose, ProposalSeen
<1> QED
  BY <1>1, <1>2, WatchersKeep DEF Propose

LEMMA ReviewKeeps == ASSUME IInv, Review PROVE Core'
<1>1. TypeOK
  BY DEF IInv
<1>2. pending \in Inventories
  BY <1>1 DEF Review, TypeOK
<1>3. ProposalSeen'
  BY DEF IInv, Review, ProposalSeen
<1> QED
  BY <1>1, <1>2, <1>3, WatchersKeep DEF Review, TypeOK

-----------------------------------------------------------------------------
(* Registration and removal.                                               *)

LEMMA RegisterKeeps == ASSUME IInv, NEW t \in Tasks, Register(t) PROVE Core'
<1>1. TypeOK /\ Doing(t) /\ Carrying(t) /\ Adopting(t) /\ Serving(t)
  BY DEF IInv
<1>2. /\ store = None /\ proposal # None /\ Fresh
      /\ config' \in {"on", "off"} /\ under' = {}
      /\ UNCHANGED <<files, db, proposal, reviewed, env>>
  BY DEF Register
<1>3. proposal.snapshot \in Inventories
  BY <1>1, <1>2 DEF TypeOK
<1>4. ReviewedBaseline'
  BY <1>2, BaselineStays DEF db
<1>5. CASE proposal.watch
  <2> DEFINE inv == proposal.snapshot
             read == Hashed(inv)
  <2>1. /\ Begin(t, "seed", "analyze", inv, "none") /\ store' = t
        /\ bytes' = [bytes EXCEPT ![t] = read] /\ next' = next
    BY <1>5 DEF Register
  <2>2. "seed" \in Ops /\ "analyze" \in Pc
    BY DEF Ops, Pc
  <2>3. read \in Contents
    BY <1>3, Listings
  <2> HIDE DEF read
  <2>4. /\ next' \in [Tasks -> 1..PathCount + 1] /\ bytes' \in [Tasks -> Contents]
        /\ \A u \in Tasks \ {t} : next'[u] = next[u] /\ bytes'[u] = bytes[u]
        /\ bytes'[t] = read
    BY <1>1, <2>1, <2>3 DEF TypeOK
  <2>5. /\ TaskTypes' /\ pc'[t] = "analyze" /\ op'[t] = "seed" /\ held'[t] = inv
        /\ \A u \in Tasks \ {t} : Stays(u)
    BY <1>3, <2>1, <2>2, <2>4, Begun
  <2>6. TypeOK'
    BY <1>1, <1>2, <2>1, <2>5 DEF TypeOK, TaskTypes, db
  <2>7. \A u \in Tasks \ {t} : Stays(u) /\ Warned(u) /\ (store = u => store' = u)
    <3>1. \A u \in Tasks : store # u
      BY <1>2, MonitorConstants
    <3> QED
      BY <1>2, <2>5, <3>1 DEF Warned, db
  <2>8. inv \in reviewed' /\ inv = Inventory(files')
    BY <1>2 DEF IInv, ProposalSeen, Fresh
  <2>9. Carrying(t)'
    BY <2>4, <2>5, <2>8 DEF Carrying, read
  <2>10. Adopting(t)'
    BY <2>1, <2>5, <2>8 DEF Adopting
  <2>11. Local(t)'
    BY <2>5, <2>9, <2>10 DEF Local, Doing, Checking, Serving
  <2> QED
    BY <1>2, <1>4, <2>6, <2>7, <2>11, StepKeeps
<1>6. CASE ~proposal.watch
  <2>1. UNCHANGED <<store, pc, local, disturbed>>
    BY <1>6 DEF Register
  <2>2. TypeOK'
    BY <1>1, <1>2, <2>1 DEF TypeOK, db, local
  <2>3. ASSUME NEW u \in Tasks PROVE Local(u)'
    <3>1. Stays(u) /\ Warned(u)
      BY <1>2, <2>1 DEF Stays, Warned, local, db
    <3> QED
      BY <1>2, <2>1, <3>1, Bystander
  <2> QED
    BY <1>2, <1>4, <2>2, <2>3 DEF Core, IInv, ProposalSeen
<1> QED
  BY <1>5, <1>6

(* Nobody saved: the inventory is what the caller looked at.  Somebody     *)
(* did: the hashes still are.                                              *)
LEMMA SeedKeeps == ASSUME IInv, NEW t \in Tasks, Seed(t) PROVE Core'
<1>1. TypeOK /\ Doing(t) /\ Carrying(t) /\ Adopting(t)
  BY DEF IInv
<1>2. op[t] = "seed" /\ pc[t] = "seed"
  BY <1>1 DEF Seed, Doing
<1>3. CASE baseline = None
  <2>1. /\ baseline' = Baseline(t, seen[t]) /\ Return(t, "move")
        /\ UNCHANGED <<files, config, pending, status, proposal, reviewed, under, env>>
    BY <1>3 DEF Seed
  <2>2. /\ baseline' \in BaselineRows /\ baseline'.inventory = seen[t]
        /\ baseline'.by = "seed" /\ baseline'.saved = (t \in disturbed)
    BY <1>1, <1>2, <2>1 DEF Baseline, BaselineRows, TypeOK
  <2>3. ReviewedBaseline'
    <3>1. CASE t \in disturbed
      <4>1. held[t] \in reviewed /\ Hashed(held[t]) = Hashed(seen[t])
        BY <1>1, <1>2 DEF Carrying
      <4>2. reviewed' = reviewed /\ Hashed(baseline'.inventory) = Hashed(seen[t])
        BY <2>1, <2>2 DEF Hashed
      <4>3. \E inv \in reviewed' : Hashed(inv) = Hashed(baseline'.inventory)
        BY <4>1, <4>2
      <4>4. \E inv \in reviewed' : Hashed(inv)' = Hashed(baseline.inventory)'
        BY <4>3 DEF Hashed
      <4> QED
        BY <2>2, <3>1, <4>4 DEF ReviewedBaseline
    <3>2. CASE t \notin disturbed
      <4>1. seen[t] \in reviewed
        BY <1>1, <1>2, <3>2 DEF Adopting
      <4> QED
        BY <2>1, <2>2, <4>1 DEF ReviewedBaseline
    <3> QED
      BY <3>1, <3>2
  <2> QED
    BY <1>1, <2>1, <2>2, <2>3, ReturnKeeps DEF TypeOK
<1>4. CASE baseline # None
  <2>1. Return(t, "none") /\ UNCHANGED <<files, config, db, proposal, reviewed, under, env>>
    BY <1>4 DEF Seed, db
  <2> QED
    BY <1>1, <2>1, BaselineStays, ReturnKeeps DEF TypeOK, BaselineRows, db
<1> QED
  BY <1>3, <1>4

LEMMA CleanupKeeps == ASSUME IInv, NEW t \in Tasks, Cleanup(t) PROVE Core'
<1>1. TypeOK
  BY DEF IInv
<1>2. ReviewedBaseline'
  BY DEF ReviewedBaseline, Cleanup
<1> QED
  BY <1>1, <1>2, ReturnKeeps DEF Cleanup, TypeOK

LEMMA UpdateKeeps == ASSUME IInv, NEW t \in Tasks, Update(t) PROVE Core'
<1>1. TypeOK
  BY DEF IInv
<1>2. env' \in Env
  BY <1>1, MonitorConstants DEF Update, TypeOK, Env
<1>3. TypeOK'
  BY <1>1, <1>2 DEF Update, TypeOK, db, local, history
<1>4. ReviewedBaseline' /\ ProposalSeen'
  BY BaselineStays DEF IInv, ProposalSeen, Update, db, history
<1>5. ASSUME NEW u \in Tasks PROVE Local(u)'
  <2>1. Stays(u) /\ Warned(u)
    BY DEF Stays, Warned, Update, local, db, history
  <2> QED
    BY <2>1, Bystander DEF Update, history
<1> QED
  BY <1>3, <1>4, <1>5 DEF Core

(* The calls that touch neither the rows nor the files.                    *)
LEMMA CallKeeps ==
  ASSUME IInv, NEW t \in Tasks, NEW o \in Ops, NEW l \in Pc,
         NEW x \in Inventories \cup {None}, Begin(t, o, l, x, "none"),
         config' \in {"absent", "off", "on"}, under' \subseteq Tasks,
         UNCHANGED <<files, db, proposal, store, reviewed, env>>,
         next' \in [Tasks -> 1..PathCount + 1], bytes' = bytes,
         \A u \in Tasks \ {t} : next'[u] = next[u],
         o \in {"scan", "accept", "dismiss", "cleanup", "serve"},
         Doing(t)', Carrying(t)', Checking(t)', Serving(t)'
  PROVE  Core'
<1>1. TypeOK
  BY DEF IInv
<1>2. bytes' \in [Tasks -> Contents] /\ \A u \in Tasks \ {t} : bytes'[u] = bytes[u]
  BY <1>1 DEF TypeOK
<1>3. /\ TaskTypes' /\ op'[t] = o
      /\ \A u \in Tasks \ {t} : Stays(u)
  BY <1>2, Begun
<1>4. TypeOK'
  BY <1>1, <1>3 DEF TypeOK, TaskTypes, db
<1>5. ReviewedBaseline'
  BY BaselineStays DEF db
<1>6. Local(t)'
  BY <1>3 DEF Local, Adopting
<1>7. \A u \in Tasks \ {t} : Stays(u) /\ Warned(u) /\ (store = u => store' = u)
  BY <1>3 DEF Warned, db
<1> QED
  BY <1>4, <1>5, <1>6, <1>7, StepKeeps

LEMMA UnregisterKeeps == ASSUME IInv, NEW t \in Tasks, Unregister(t) PROVE Core'
<1>1. TypeOK
  BY DEF IInv
<1>2. "cleanup" \in Ops /\ "cleanup" \in Pc
  BY DEF Ops, Pc
<1>3. next' = next /\ bytes' = bytes /\ Begin(t, "cleanup", "cleanup", None, "none")
  BY DEF Unregister
<1>4. pc'[t] = "cleanup" /\ op'[t] = "cleanup"
  BY <1>1, <1>2, <1>3, Begun DEF TypeOK
<1>5. Doing(t)' /\ Carrying(t)' /\ Checking(t)' /\ Serving(t)'
  BY <1>4 DEF Doing, Carrying, Checking, Serving
<1> QED
  BY <1>1, <1>2, <1>3, <1>5, CallKeeps DEF Unregister, TypeOK, Writers
-----------------------------------------------------------------------------
(* Scans.                                                                  *)

LEMMA ReadKeeps == ASSUME IInv, NEW t \in Tasks, Read(t) PROVE Core'
<1>1. TypeOK /\ Doing(t) /\ Carrying(t) /\ Adopting(t) /\ Checking(t)
  BY DEF IInv
<1>2. /\ pc[t] = "walk" /\ next[t] \in Paths
      /\ bytes' = [bytes EXCEPT ![t][next[t]] = files[next[t]]]
      /\ next' = [next EXCEPT ![t] = @ + 1]
      /\ UNCHANGED <<files, config, db, proposal, store, pc, op, seen, held,
                     history, env>>
  BY DEF Read
<1>3. files[next[t]] \in Hashes \cup {None}
  BY <1>1, <1>2 DEF TypeOK, Contents
<1>4. bytes'[t] = [bytes[t] EXCEPT ![next[t]] = files[next[t]]]
  BY <1>1, <1>2 DEF TypeOK
<1>5. next'[t] = next[t] + 1 /\ next[t] \in Nat
  BY <1>1, <1>2 DEF TypeOK, Paths
<1>6. bytes[t] \in [Paths -> Hashes \cup {None}]
  BY <1>1 DEF TypeOK, Contents
<1>7. bytes' \in [Tasks -> Contents]
  <2>1. bytes'[t] \in Contents
    BY <1>3, <1>4, <1>6 DEF Contents
  <2> QED
    BY <1>1, <1>2, <2>1 DEF TypeOK
<1>8. next' \in [Tasks -> 1..PathCount + 1]
  <2>1. next[t] + 1 \in 1..PathCount + 1
    BY <1>2, InventoryConstants DEF Paths
  <2> QED
    BY <1>1, <1>2, <2>1 DEF TypeOK
<1>9. TypeOK'
  BY <1>1, <1>2, <1>7, <1>8 DEF TypeOK, db, history
<1>10. ReviewedBaseline'
  BY <1>2, BaselineStays DEF db, history
<1>11. ASSUME \A p \in Paths : p < next[t] => bytes[t][p] = files[p],
              NEW p \in Paths, p < next'[t]
       PROVE  bytes'[t][p] = files[p]
  <2>1. CASE p = next[t]
    BY <1>4, <1>6, <2>1
  <2>2. CASE p # next[t]
    <3>1. p < next[t]
      BY <1>5, <1>11, <2>2 DEF Paths
    <3> QED
      BY <1>4, <1>6, <1>11, <2>2, <3>1
  <2> QED
    BY <2>1, <2>2
<1>12. op[t] \in {"scan", "accept", "adopt"}
  BY <1>1, <1>2 DEF Doing
<1>13. Adopting(t)'
  <2> SUFFICES ASSUME op[t] = "adopt" PROVE Adopting(t)'
    BY <1>2, <1>12 DEF Adopting
  <2>1. store = t
    BY <1>1 DEF Adopting
  <2>2. ASSUME t \notin disturbed
        PROVE  /\ Inventory(files) \in reviewed
               /\ \A p \in Paths : p < next'[t] => bytes'[t][p] = files[p]
    <3>1. Inventory(files) \in reviewed /\ \A p \in Paths : p < next[t] => bytes[t][p] = files[p]
      BY <1>1, <1>2, <2>2 DEF Adopting
    <3> QED
      BY <1>11, <3>1
  <2> QED
    BY <1>2, <2>1, <2>2 DEF Adopting, Inventory, history
<1>14. Checking(t)'
  <2> SUFFICES ASSUME op[t] = "scan", t \notin disturbed
               PROVE  \A p \in Paths : p < next'[t] => bytes'[t][p] = files[p]
    BY <1>2 DEF Checking, history
  <2>1. \A p \in Paths : p < next[t] => bytes[t][p] = files[p]
    BY <1>1, <1>2 DEF Checking
  <2> QED
    BY <1>11, <2>1
<1>15. Local(t)'
  BY <1>1, <1>2, <1>13, <1>14 DEF Local, Doing, Carrying, Serving, history
<1>16. \A u \in Tasks \ {t} : Stays(u) /\ Warned(u) /\ (store = u => store' = u)
  BY <1>1, <1>2 DEF TypeOK, Stays, Warned, history, db
<1> QED
  BY <1>2, <1>9, <1>10, <1>15, <1>16, StepKeeps DEF history

(* What inventory_entries makes of the bytes: an inventory with the same   *)
(* hashes, and the inventory of the files if the bytes are theirs.         *)
LEMMA Analyzing ==
  ASSUME TypeOK, NEW t \in Tasks, NEW inv, inv = [p \in Paths |-> Analyzed(t, p)]
  PROVE  /\ inv \in Inventories
         /\ Hashed(inv) = bytes[t]
         /\ bytes[t] = files => inv = Inventory(files)
<1>1. bytes[t] \in [Paths -> Hashes \cup {None}]
  BY DEF TypeOK, Contents
<1>2. ASSUME NEW p \in Paths
      PROVE  /\ bytes[t][p] # None => Analyzed(t, p) \in Entries
             /\ bytes[t][p] # None => Analyzed(t, p).hash = bytes[t][p]
             /\ bytes[t][p] = None => Analyzed(t, p) = None
  BY <1>1 DEF Analyzed, Entries
<1>3. inv \in Inventories
  BY <1>2 DEF Inventories
<1>4. ASSUME NEW p \in Paths PROVE Hashed(inv)[p] = bytes[t][p]
  <2>1. Hashed(inv)[p] = IF inv[p] = None THEN None ELSE inv[p].hash
    BY DEF Hashed
  <2>2. inv[p] = Analyzed(t, p)
    OBVIOUS
  <2> QED
    BY <1>2, <2>1, <2>2, InventoryConstants
<1>5. Hashed(inv) = bytes[t]
  <2>1. Hashed(inv) = [p \in Paths |-> Hashed(inv)[p]]
    BY DEF Hashed
  <2>2. bytes[t] = [p \in Paths |-> bytes[t][p]]
    BY <1>1
  <2> QED
    BY <1>4, <2>1, <2>2
<1>6. ASSUME bytes[t] = files PROVE inv = Inventory(files)
  BY <1>6 DEF Analyzed, Inventory, Entry
<1> QED
  BY <1>3, <1>5, <1>6

LEMMA AnalyzeKeeps == ASSUME IInv, NEW t \in Tasks, Analyze(t) PROVE Core'
<1>1. TypeOK /\ Doing(t) /\ Carrying(t) /\ Adopting(t) /\ Checking(t)
  BY DEF IInv
<1> DEFINE inv == [p \in Paths |-> Analyzed(t, p)]
           l == CASE op[t] = "scan" -> "baseline"
                  [] op[t] = "accept" -> "record"
                  [] op[t] = "seed" -> "seed"
                  [] OTHER -> "replace"
<1>2. /\ \/ pc[t] = "walk" /\ next[t] = PathCount + 1
         \/ pc[t] = "analyze"
      /\ seen' = [seen EXCEPT ![t] = inv] /\ pc' = [pc EXCEPT ![t] = l]
      /\ next' = [next EXCEPT ![t] = 1] /\ bytes' = [bytes EXCEPT ![t] = Empty]
      /\ UNCHANGED <<files, config, db, proposal, store, op, held, history, env>>
  BY DEF Analyze, Goto
<1>3. /\ inv \in Inventories /\ Hashed(inv) = bytes[t]
      /\ bytes[t] = files => inv = Inventory(files)
  BY <1>1, Analyzing
<1> HIDE DEF inv
<1>4. op[t] \in {"scan", "accept", "adopt", "seed"}
  BY <1>1, <1>2 DEF Doing
<1>5. /\ l \in Pc
      /\ op[t] = "scan" => l = "baseline"
      /\ op[t] = "accept" => l = "record"
      /\ op[t] = "seed" => l = "seed"
      /\ op[t] = "adopt" => l = "replace"
  BY <1>4 DEF Pc
<1> HIDE DEF l
<1>6. pc'[t] = l /\ seen'[t] = inv
  BY <1>1, <1>2 DEF TypeOK
<1>7. TypeOK'
  <2>1. 1 \in 1..PathCount + 1
    BY InventoryConstants
  <2> QED
    BY <1>1, <1>2, <1>3, <1>5, <2>1, Listings DEF TypeOK, db, history
<1>8. ReviewedBaseline'
  BY <1>2, BaselineStays DEF db, history
<1>9. ASSUME op[t] \in {"scan", "adopt", "seed"}, t \notin disturbed
      PROVE  inv = Inventory(files)
  <2>1. bytes[t] \in [Paths -> Hashes \cup {None}] /\ files \in [Paths -> Hashes \cup {None}]
    BY <1>1 DEF TypeOK, Contents
  <2>2. CASE op[t] = "seed"
    <3>1. bytes[t] = Hashed(held[t]) /\ held[t] = Inventory(files)
      BY <1>1, <1>2, <1>9, <2>2 DEF Doing, Carrying, Adopting
    <3>2. bytes[t] = files
      BY <1>1, <3>1, Listings DEF TypeOK
    <3> QED
      BY <1>3, <3>2
  <2>3. CASE op[t] # "seed"
    <3>1. pc[t] = "walk" /\ next[t] = PathCount + 1
      BY <1>1, <1>2, <2>3 DEF Doing
    <3>2. ASSUME NEW p \in Paths PROVE bytes[t][p] = files[p]
      <4>1. p < next[t]
        BY <3>1, InventoryConstants DEF Paths
      <4> QED
        BY <1>1, <1>9, <2>3, <3>1, <4>1 DEF Adopting, Checking
    <3>3. bytes[t] = files
      BY <2>1, <3>2
    <3> QED
      BY <1>3, <3>3
  <2> QED
    BY <2>2, <2>3
<1>10. Adopting(t)'
  <2>1. op'[t] = op[t] /\ files' = files /\ store' = store /\ disturbed' = disturbed
        /\ reviewed' = reviewed /\ held' = held
    BY <1>2 DEF history
  <2>2. l # "walk"
    BY <1>4, <1>5
  <2> QED
    BY <1>1, <1>6, <1>9, <2>1, <2>2 DEF Adopting, Inventory
<1>11. Checking(t)'
  <2>1. op'[t] = op[t] /\ files' = files /\ disturbed' = disturbed
    BY <1>2 DEF history
  <2> QED
    BY <1>5, <1>6, <1>9, <2>1 DEF Checking, Inventory
<1>12. Doing(t)'
  BY <1>2, <1>4, <1>5, <1>6 DEF Doing
<1>13. Carrying(t)'
  <2>1. op'[t] = op[t] /\ held' = held /\ reviewed' = reviewed
    BY <1>2 DEF history
  <2>2. op[t] \in {"accept", "seed"} => held[t] \in reviewed
    BY <1>1 DEF Carrying
  <2>3. l # "analyze" /\ (l = "record" => op[t] = "accept")
    BY <1>4, <1>5
  <2>4. ASSUME l = "seed" PROVE Hashed(seen'[t]) = Hashed(held[t])
    <3>1. pc[t] = "analyze"
      BY <1>1, <1>2, <1>4, <1>5, <2>4 DEF Doing
    <3>2. bytes[t] = Hashed(held[t])
      BY <1>1, <3>1 DEF Carrying
    <3> QED
      BY <1>3, <1>6, <3>2
  <2>5. l = "seed" => Hashed(seen[t])' = Hashed(held[t])'
    BY <2>1, <2>4 DEF Hashed
  <2> QED
    BY <1>6, <2>1, <2>2, <2>3, <2>5 DEF Carrying
<1>14. Serving(t)'
  BY <1>4, <1>5, <1>6 DEF Serving
<1>15. \A u \in Tasks \ {t} : Stays(u) /\ Warned(u) /\ (store = u => store' = u)
  BY <1>1, <1>2 DEF TypeOK, Stays, Warned, history, db
<1> QED
  BY <1>2, <1>7, <1>8, <1>10, <1>11, <1>12, <1>13, <1>14, <1>15, StepKeeps DEF Local, history

LEMMA CheckKeeps == ASSUME IInv, NEW t \in Tasks, Check(t) PROVE Core'
<1>1. TypeOK /\ Doing(t)
  BY DEF IInv
<1>2. "scan" \in Ops /\ "walk" \in Pc
  BY DEF Ops, Pc
<1>3. next' = next /\ bytes' = bytes /\ Begin(t, "scan", "walk", None, "none")
  BY DEF Check
<1>4. pc'[t] = "walk" /\ op'[t] = "scan" /\ pc[t] = "idle"
  BY <1>1, <1>2, <1>3, Begun DEF TypeOK
<1>5. next'[t] = 1
  BY <1>1, <1>3, <1>4 DEF Doing
<1>6. \A p \in Paths : ~(p < 1)
  BY DEF Paths
<1>7. Doing(t)' /\ Carrying(t)' /\ Checking(t)' /\ Serving(t)'
  BY <1>4, <1>5, <1>6 DEF Doing, Carrying, Checking, Serving
<1> QED
  BY <1>1, <1>2, <1>3, <1>7, CallKeeps DEF Check, TypeOK

LEMMA ReadBaselineKeeps == ASSUME IInv, NEW t \in Tasks, ReadBaseline(t) PROVE Core'
<1>1. TypeOK /\ Doing(t) /\ Checking(t)
  BY DEF IInv
<1> DEFINE l == IF baseline = None THEN "first" ELSE "record"
           x == IF baseline = None THEN None ELSE baseline.inventory
<1>2. /\ pc[t] = "baseline"
      /\ pc' = [pc EXCEPT ![t] = l] /\ held' = [held EXCEPT ![t] = x]
      /\ UNCHANGED <<files, config, db, proposal, store, op, next, bytes, seen,
                     history, env>>
  BY DEF ReadBaseline, Goto
<1>3. x \in Inventories \cup {None} /\ l \in Pc /\ (l = "record" => x \in Inventories)
  BY <1>1 DEF TypeOK, Pc
<1>4. pc'[t] = l /\ held'[t] = x /\ op'[t] = "scan" /\ op[t] = "scan"
  BY <1>1, <1>2 DEF TypeOK, Doing
<1>5. TypeOK'
  BY <1>1, <1>2, <1>3 DEF TypeOK, db, history
<1>6. ReviewedBaseline'
  BY <1>2, BaselineStays DEF db, history
<1>7. Checking(t)'
  <2>1. t \notin disturbed => seen[t] = Inventory(files)
    BY <1>1, <1>2, <1>4 DEF Checking
  <2> QED
    BY <1>2, <1>4, <2>1 DEF Checking, Inventory, db, history
<1>8. Local(t)'
  BY <1>3, <1>4, <1>7 DEF Local, Doing, Carrying, Adopting, Serving
<1>9. \A u \in Tasks \ {t} : Stays(u) /\ Warned(u) /\ (store = u => store' = u)
  BY <1>1, <1>2 DEF TypeOK, Stays, Warned, db, history
<1> QED
  BY <1>2, <1>5, <1>6, <1>8, <1>9, StepKeeps DEF history

LEMMA FirstKeeps == ASSUME IInv, NEW t \in Tasks, First(t) PROVE Core'
<1>1. TypeOK /\ Doing(t)
  BY DEF IInv
<1>2. op[t] = "scan" /\ pc[t] = "first"
  BY <1>1 DEF First, Doing
<1>3. CASE baseline = None
  <2>1. /\ baseline' = Baseline(t, seen[t])
        /\ pc' = [pc EXCEPT ![t] = "status"]
        /\ Disturb(None, "move")
        /\ UNCHANGED <<files, config, pending, status, proposal, store, local, reviewed,
                       under, env>>
    BY <1>3 DEF First, Goto
  <2>2. pc'[t] = "status" /\ op'[t] = "scan"
    BY <1>1, <1>2, <2>1 DEF TypeOK, local
  <2>3. baseline' \in BaselineRows /\ baseline'.by = "scan"
    BY <1>1, <1>2, <2>1 DEF Baseline, BaselineRows, TypeOK
  <2>4. TypeOK'
    <3>1. pc' \in [Tasks -> Pc] /\ disturbed' \subseteq Tasks
      BY <1>1, <2>1 DEF TypeOK, Pc, Disturb
    <3> QED
      BY <1>1, <2>1, <2>3, <3>1 DEF TypeOK, BaselineRows, local
  <2>5. ReviewedBaseline'
    BY <2>3 DEF ReviewedBaseline
  <2>6. Local(t)'
    BY <2>2 DEF Local, Doing, Carrying, Adopting, Checking, Serving
  <2>7. ASSUME NEW u \in Tasks \ {t}
        PROVE  Stays(u) /\ Warned(u) /\ (store = u => store' = u)
    <3>1. u # None /\ (op[u] = "scan" => pc[u] # "idle")
      BY MonitorConstants DEF IInv, Doing
    <3>2. Stays(u)
      BY <1>1, <2>1, <3>1, Undisturbed DEF TypeOK, Stays, local
    <3>3. Warned(u)
      BY <2>1, <3>1, Undisturbed, Minding DEF Warned
    <3> QED
      BY <2>1, <3>2, <3>3
  <2> QED
    BY <2>1, <2>4, <2>5, <2>6, <2>7, StepKeeps
<1>4. CASE baseline # None
  <2>1. Return(t, "none") /\ UNCHANGED <<files, config, db, proposal, reviewed, under, env>>
    BY <1>4 DEF First, db
  <2> QED
    BY <1>1, <2>1, BaselineStays, ReturnKeeps DEF TypeOK, BaselineRows, db
<1> QED
  BY <1>3, <1>4

LEMMA StatusKeeps == ASSUME IInv, NEW t \in Tasks, Status(t) PROVE Core'
<1>1. TypeOK
  BY DEF IInv
<1> QED
  BY <1>1, BaselineStays, ReturnKeeps DEF Status, TypeOK, BaselineRows

LEMMA RecordKeeps == ASSUME IInv, NEW t \in Tasks, Record(t) PROVE Core'
<1>1. TypeOK
  BY DEF IInv
<1>2. pending' \in Inventories \cup {None}
  BY <1>1 DEF Record, TypeOK
<1> QED
  BY <1>1, <1>2, BaselineStays, ReturnKeeps DEF Record, TypeOK, BaselineRows
-----------------------------------------------------------------------------
(* Reviews.                                                                *)

LEMMA DecideKeeps ==
  ASSUME IInv, NEW t \in Tasks, NEW o \in {"accept", "dismiss"},
         NEW digest \in reviewed, Decide(t, o, digest)
  PROVE  Core'
<1>1. TypeOK
  BY DEF IInv
<1>2. o \in Ops /\ "lookup" \in Pc /\ digest \in Inventories
  BY <1>1 DEF Ops, Pc, TypeOK
<1>3. Begin(t, o, "lookup", digest, "none") /\ next' = next /\ bytes' = bytes
  BY DEF Decide
<1>4. pc'[t] = "lookup" /\ op'[t] = o /\ held'[t] = digest
  BY <1>1, <1>2, <1>3, Begun DEF TypeOK
<1>5. Doing(t)' /\ Carrying(t)' /\ Checking(t)' /\ Serving(t)'
  BY <1>4 DEF Doing, Carrying, Checking, Serving, Decide
<1> QED
  BY <1>1, <1>2, <1>3, <1>5, CallKeeps DEF Decide, TypeOK

LEMMA LookupKeeps == ASSUME IInv, NEW t \in Tasks, Lookup(t) PROVE Core'
<1>1. TypeOK /\ Doing(t) /\ Carrying(t)
  BY DEF IInv
<1>2. CASE pending # held[t]
  BY <1>1, <1>2, BaselineStays, ReturnKeeps DEF Lookup, TypeOK, BaselineRows, db
<1>3. CASE pending = held[t]
  <2>1. /\ pc[t] = "lookup"
        /\ UNCHANGED <<files, config, db, proposal, store, op, held, history, env>>
        /\ UNCHANGED <<bytes, seen>>
        /\ op[t] = "accept" => pc' = [pc EXCEPT ![t] = "walk"]
                               /\ next' = [next EXCEPT ![t] = 1]
        /\ op[t] # "accept" => pc' = [pc EXCEPT ![t] = "delete"] /\ next' = next
    BY <1>3 DEF Lookup, Walk, Goto, history
  <2>2. op[t] \in {"accept", "dismiss"}
    BY <1>1, <2>1 DEF Doing
  <2>3. pc'[t] = IF op[t] = "accept" THEN "walk" ELSE "delete"
    BY <1>1, <2>1 DEF TypeOK
  <2>4. TypeOK'
    <3>1. pc' \in [Tasks -> Pc]
      BY <1>1, <2>1 DEF TypeOK, Pc
    <3>2. 1 \in 1..PathCount + 1
      BY InventoryConstants
    <3>3. next' \in [Tasks -> 1..PathCount + 1]
      BY <1>1, <2>1, <3>2 DEF TypeOK
    <3> QED
      BY <1>1, <2>1, <3>1, <3>3 DEF TypeOK, db, history
  <2>5. ReviewedBaseline'
    BY <2>1, BaselineStays DEF db, history
  <2>6. Local(t)'
    BY <1>1, <2>1, <2>2, <2>3
    DEF Local, Doing, Carrying, Adopting, Checking, Serving, history
  <2>7. \A u \in Tasks \ {t} : Stays(u) /\ Warned(u) /\ (store = u => store' = u)
    BY <1>1, <2>1 DEF TypeOK, Stays, Warned, db, history
  <2> QED
    BY <2>1, <2>4, <2>5, <2>6, <2>7, StepKeeps DEF history
<1> QED
  BY <1>2, <1>3

LEMMA AcceptKeeps == ASSUME IInv, NEW t \in Tasks, Accept(t) PROVE Core'
<1>1. TypeOK /\ Carrying(t)
  BY DEF IInv
<1>2. held[t] \in reviewed
  BY <1>1 DEF Accept, Carrying
<1>3. CASE seen[t] = held[t]
  <2>1. /\ baseline' = Baseline(t, seen[t]) /\ pending' = None /\ Return(t, "move")
        /\ UNCHANGED <<files, config, status, proposal, reviewed, under, env>>
    BY <1>3 DEF Accept
  <2>2. baseline' \in BaselineRows /\ baseline'.inventory \in reviewed'
    BY <1>1, <1>2, <1>3, <2>1 DEF Accept, Baseline, BaselineRows, TypeOK
  <2>3. ReviewedBaseline'
    BY <2>2 DEF ReviewedBaseline
  <2> QED
    BY <1>1, <2>1, <2>2, <2>3, ReturnKeeps DEF TypeOK
<1>4. CASE seen[t] # held[t]
  <2>1. Return(t, "none") /\ UNCHANGED <<files, config, db, proposal, reviewed, under, env>>
    BY <1>4 DEF Accept, db
  <2> QED
    BY <1>1, <2>1, BaselineStays, ReturnKeeps DEF TypeOK, BaselineRows, db
<1> QED
  BY <1>3, <1>4

LEMMA DismissKeeps == ASSUME IInv, NEW t \in Tasks, Dismiss(t) PROVE Core'
<1>1. TypeOK
  BY DEF IInv
<1> QED
  BY <1>1, BaselineStays, ReturnKeeps DEF Dismiss, TypeOK, BaselineRows
-----------------------------------------------------------------------------
(* Initialization.                                                         *)

LEMMA InitializeKeeps == ASSUME IInv, NEW t \in Tasks, Initialize(t) PROVE Core'
<1>1. TypeOK
  BY DEF IInv
<1>2. "adopt" \in Ops /\ "load" \in Pc
  BY DEF Ops, Pc
<1>3. Begin(t, "adopt", "load", None, "move") /\ next' = next /\ bytes' = bytes
  BY DEF Initialize
<1>4. /\ TaskTypes' /\ pc'[t] = "load" /\ op'[t] = "adopt"
      /\ \A u \in Tasks \ {t} : Stays(u)
  BY <1>1, <1>2, <1>3, Begun DEF TypeOK
<1>5. /\ store = None /\ store' = t
      /\ files' = Initialized(files)
      /\ reviewed' = reviewed \cup {Inventory(Initialized(files))}
      /\ UNCHANGED <<config, db, proposal, under, env>>
      /\ Disturb(t, "move")
  BY DEF Initialize, Begin
<1>6. files' \in Contents
  BY <1>1, <1>5, MonitorConstants, InventoryConstants DEF TypeOK, Contents, Initialized
<1>7. reviewed' \subseteq Inventories
  BY <1>1, <1>5, <1>6, Listings DEF TypeOK
<1>8. TypeOK'
  BY <1>1, <1>4, <1>5, <1>6, <1>7 DEF TypeOK, TaskTypes, db
<1>9. ReviewedBaseline' /\ ProposalSeen'
  BY <1>5, BaselineStays DEF IInv, ProposalSeen, db
<1>10. Inventory(files)' \in reviewed'
  BY <1>5 DEF Inventory
<1>11. Local(t)'
  BY <1>4, <1>5, <1>10 DEF Local, Doing, Carrying, Adopting, Checking, Serving
<1>12. ASSUME NEW u \in Tasks \ {t} PROVE Local(u)'
  <2>1. Stays(u) /\ Doing(u) /\ Carrying(u) /\ Adopting(u)
    BY <1>4 DEF IInv
  <2>2. Doing(u)' /\ Carrying(u)'
    BY <1>5, <2>1 DEF Doing, Carrying, Stays
  <2>3. Adopting(u)'
    BY <1>5, <2>1, MonitorConstants DEF Adopting, Stays
  <2>4. Checking(u)'
    <3>1. op[u] = "scan" => u \in disturbed'
      BY <1>5, <2>1, Undisturbed, Minding DEF Doing
    <3> QED
      BY <2>1, <3>1 DEF Checking, Stays
  <2>5. Serving(u)'
    <3> SUFFICES ASSUME pc'[u] = "read", files'[next'[u]] # None
                 PROVE  \E inv \in reviewed' : Allows(inv, next'[u], files'[next'[u]])
      BY DEF Serving, Allows, Accepted
    <3> DEFINE p == next'[u]
               inv == Inventory(files')
    <3>1. p \in Paths
      BY <2>2 DEF Doing
    <3>2. files[p] # None /\ files'[p] = Completed[files[p]]
      BY <1>5, <3>1 DEF Initialized
    <3>3. files'[p] \in Valid
      BY <1>1, <3>1, <3>2, MonitorConstants DEF TypeOK, Contents
    <3>4. inv[p] = [state |-> "accepted", hash |-> files'[p]]
      BY <3>1, <3>3 DEF Inventory, Entry
    <3>5. inv[p] # None
      <4>1. files'[p] \in Hashes
        BY <3>3, InventoryConstants
      <4>2. [state |-> "accepted", hash |-> files'[p]] \in Entries
        BY <4>1 DEF Entries
      <4> QED
        BY <3>4, <4>2, InventoryConstants
    <3> QED
      BY <1>5, <3>4, <3>5 DEF Allows, Accepted
  <2> QED
    BY <2>2, <2>3, <2>4, <2>5 DEF Local
<1> QED
  BY <1>8, <1>9, <1>11, <1>12 DEF Core

LEMMA LoadKeeps == ASSUME IInv, NEW t \in Tasks, Load(t) PROVE Core'
<1>1. TypeOK /\ Doing(t) /\ Adopting(t)
  BY DEF IInv
<1>2. CASE config # "on"
  BY <1>1, <1>2, BaselineStays, ReturnKeeps DEF Load, TypeOK, BaselineRows, db
<1>3. CASE config = "on"
  <2>1. /\ pc[t] = "load"
        /\ pc' = [pc EXCEPT ![t] = "walk"] /\ next' = [next EXCEPT ![t] = 1]
        /\ UNCHANGED <<files, config, db, proposal, store, op, held, history, env>>
        /\ UNCHANGED <<bytes, seen>>
    BY <1>3 DEF Load, Walk, Goto, history
  <2>2. op[t] = "adopt"
    BY <1>1, <2>1 DEF Doing
  <2>3. pc'[t] = "walk" /\ next'[t] = 1
    BY <1>1, <2>1 DEF TypeOK
  <2>4. TypeOK'
    <3>1. pc' \in [Tasks -> Pc]
      BY <1>1, <2>1 DEF TypeOK, Pc
    <3>2. 1 \in 1..PathCount + 1
      BY InventoryConstants
    <3>3. next' \in [Tasks -> 1..PathCount + 1]
      BY <1>1, <2>1, <3>2 DEF TypeOK
    <3> QED
      BY <1>1, <2>1, <3>1, <3>3 DEF TypeOK, db, history
  <2>5. ReviewedBaseline'
    BY <2>1, BaselineStays DEF db, history
  <2>6. Adopting(t)'
    <3>1. \A p \in Paths : ~(p < 1)
      BY DEF Paths
    <3> QED
      BY <1>1, <2>1, <2>2, <2>3, <3>1 DEF Adopting, Inventory, history
  <2>7. Local(t)'
    BY <2>1, <2>2, <2>3, <2>6 DEF Local, Doing, Carrying, Checking, Serving
  <2>8. \A u \in Tasks \ {t} : Stays(u) /\ Warned(u) /\ (store = u => store' = u)
    BY <1>1, <2>1 DEF TypeOK, Stays, Warned, db, history
  <2> QED
    BY <2>1, <2>4, <2>5, <2>7, <2>8, StepKeeps DEF history
<1> QED
  BY <1>2, <1>3

LEMMA ReplaceKeeps == ASSUME IInv, NEW t \in Tasks, Replace(t) PROVE Core'
<1>1. TypeOK /\ Doing(t) /\ Adopting(t)
  BY DEF IInv
<1>2. op[t] = "adopt"
  BY <1>1 DEF Doing, Replace
<1>3. t \notin disturbed => seen[t] \in reviewed
  BY <1>1, <1>2 DEF Adopting, Replace
<1>4. /\ baseline' \in BaselineRows /\ baseline'.inventory = seen[t]
      /\ baseline'.by = "adopt" /\ baseline'.saved = (t \in disturbed)
      /\ pending' = None
  BY <1>1, <1>2 DEF Replace, Baseline, BaselineRows, TypeOK
<1>5. ReviewedBaseline'
  BY <1>3, <1>4 DEF ReviewedBaseline, Replace
<1> QED
  BY <1>1, <1>4, <1>5, ReturnKeeps DEF Replace, TypeOK
-----------------------------------------------------------------------------
(* Serving, faults and restarts.                                           *)

LEMMA RequestKeeps ==
  ASSUME IInv, NEW t \in Tasks, NEW p \in Paths, Request(t, p)
  PROVE  Core'
<1>1. TypeOK
  BY DEF IInv
<1> DEFINE watched == config = "on" /\ baseline # None
           l == IF watched THEN "allow" ELSE "read"
           x == IF watched THEN baseline.inventory ELSE None
<1>2. /\ Begin(t, "serve", l, x, "none")
      /\ next' = [next EXCEPT ![t] = p] /\ bytes' = bytes
      /\ UNCHANGED <<files, config, db, proposal, store, reviewed, under, env>>
  BY DEF Request
<1>3. l \in Pc /\ "serve" \in Ops /\ x \in Inventories \cup {None}
  BY <1>1 DEF Pc, Ops, TypeOK
<1>4. l \in {"allow", "read"} /\ (l = "read" => x = None)
  OBVIOUS
<1> HIDE DEF l, x
<1>5. p \in 1..PathCount + 1
  BY InventoryConstants DEF Paths
<1>6. /\ next' \in [Tasks -> 1..PathCount + 1] /\ next'[t] = p
      /\ \A u \in Tasks \ {t} : next'[u] = next[u] /\ bytes'[u] = bytes[u]
  BY <1>1, <1>2, <1>5 DEF TypeOK
<1>7. bytes' \in [Tasks -> Contents]
  BY <1>1, <1>2 DEF TypeOK
<1>8. pc'[t] = l /\ op'[t] = "serve" /\ held'[t] = x
  BY <1>2, <1>3, <1>6, <1>7, Begun
<1>9. Doing(t)' /\ Carrying(t)' /\ Checking(t)' /\ Serving(t)'
  BY <1>4, <1>6, <1>8 DEF Doing, Carrying, Checking, Serving
<1>10. config' \in {"absent", "off", "on"} /\ under' \subseteq Tasks
  BY <1>1, <1>2 DEF TypeOK
<1> QED
  BY <1>2, <1>3, <1>6, <1>9, <1>10, CallKeeps

LEMMA AllowKeeps == ASSUME IInv, NEW t \in Tasks, Allow(t) PROVE Core'
<1>1. TypeOK /\ Doing(t)
  BY DEF IInv
<1> DEFINE good == files[next[t]] # None /\ Allows(held[t], next[t], files[next[t]])
<1>2. CASE ~good
  <2>1. Return(t, "none") /\ UNCHANGED <<files, config, db, proposal, reviewed, under, env>>
    BY <1>2 DEF Allow
  <2> QED
    BY <1>1, <2>1, BaselineStays, ReturnKeeps DEF TypeOK, BaselineRows, db
<1>3. CASE good
  <2>1. /\ pc[t] = "allow" /\ pc' = [pc EXCEPT ![t] = "read"]
        /\ UNCHANGED <<files, config, db, proposal, local, store, history, env>>
    BY <1>3 DEF Allow, Goto, history
  <2>2. op[t] = "serve" /\ next[t] \in Paths /\ pc'[t] = "read"
    BY <1>1, <2>1 DEF Doing, TypeOK
  <2>3. TypeOK'
    <3>1. pc' \in [Tasks -> Pc]
      BY <1>1, <2>1 DEF TypeOK, Pc
    <3> QED
      BY <1>1, <2>1, <3>1 DEF TypeOK, db, local, history
  <2>4. Serving(t)'
    BY <1>3, <2>1 DEF Serving, local, history
  <2>5. Local(t)'
    BY <2>1, <2>2, <2>4 DEF Local, Doing, Carrying, Adopting, Checking, local
  <2>6. ReviewedBaseline'
    BY <2>1, BaselineStays DEF db, history
  <2>7. \A u \in Tasks \ {t} : Stays(u) /\ Warned(u) /\ (store = u => store' = u)
    BY <1>1, <2>1 DEF TypeOK, Stays, Warned, local, db, history
  <2> QED
    BY <2>1, <2>3, <2>5, <2>6, <2>7, StepKeeps DEF history
<1> QED
  BY <1>2, <1>3

LEMMA ServeKeeps == ASSUME IInv, NEW t \in Tasks, Serve(t) PROVE Core'
<1>1. TypeOK
  BY DEF IInv
<1> QED
  BY <1>1, BaselineStays, ReturnKeeps DEF Serve, TypeOK, BaselineRows, db

LEMMA FaultKeeps == ASSUME IInv, NEW t \in Tasks, Fault(t) PROVE Core'
<1>1. TypeOK
  BY DEF IInv
<1>2. env' \in Env
  BY <1>1, MonitorConstants DEF Fault, TypeOK, Env
<1> QED
  BY <1>1, <1>2, BaselineStays, ReturnKeeps DEF Fault, TypeOK, BaselineRows, db

LEMMA RestartKeeps == ASSUME IInv, Restart PROVE Core'
<1>1. TypeOK
  BY DEF IInv
<1>2. PICK startup \in Tasks \cup {None} :
        /\ pc' = [t \in Tasks |-> IF t = startup THEN "walk" ELSE "idle"]
        /\ op' = [t \in Tasks |-> IF t = startup THEN "scan" ELSE "none"]
  BY DEF Restart
<1>3. /\ next' = [t \in Tasks |-> 1]
      /\ bytes' = [t \in Tasks |-> Empty] /\ seen' = [t \in Tasks |-> Empty]
      /\ held' = [t \in Tasks |-> None]
      /\ disturbed' = {}
      /\ proposal' = None /\ store' = None
      /\ UNCHANGED <<files, config, db, reviewed, under>>
  BY DEF Restart
<1>4. env' \in Env
  BY <1>1, MonitorConstants DEF Restart, TypeOK, Env
<1>5. pc' \in [Tasks -> Pc] /\ op' \in [Tasks -> Ops]
  BY <1>2 DEF Pc, Ops
<1>6. next' \in [Tasks -> 1..PathCount + 1]
  <2>1. 1 \in 1..PathCount + 1
    BY InventoryConstants
  <2> QED
    BY <1>3, <2>1
<1>7. TypeOK'
  BY <1>1, <1>3, <1>4, <1>5, <1>6, Listings DEF TypeOK, db
<1>8. ReviewedBaseline' /\ ProposalSeen'
  BY <1>3, BaselineStays DEF ProposalSeen, db
<1>9. \A p \in Paths : ~(p < 1)
  BY DEF Paths
<1>10. ASSUME NEW t \in Tasks PROVE Local(t)'
  <2>1. CASE t = startup
    <3>1. pc'[t] = "walk" /\ op'[t] = "scan" /\ next'[t] = 1
      BY <1>2, <1>3, <2>1
    <3> QED
      BY <1>9, <3>1 DEF Local, Doing, Carrying, Adopting, Checking, Serving
  <2>2. CASE t # startup
    <3>1. pc'[t] = "idle" /\ op'[t] = "none" /\ held'[t] = None /\ next'[t] = 1
      BY <1>2, <1>3, <2>2
    <3> QED
      BY <3>1 DEF Local, Doing, Carrying, Adopting, Checking, Serving
  <2> QED
    BY <2>1, <2>2
<1> QED
  BY <1>7, <1>8, <1>10 DEF Core
-----------------------------------------------------------------------------
(* The removal of the root.                                                *)

\* Task t writes no row of a root that is not registered.
Harmless(t) == op[t] \in {"none", "dismiss", "serve", "cleanup"} \/ pc[t] = "load"

RowsGone == baseline = None /\ pending = None /\ ~status

(* What a step does to the other tasks, to config.toml and to the faults.  *)
LEMMA Stepped ==
  ASSUME IInv, NEW t \in Tasks, Step(t)
  PROVE  /\ \A u \in Tasks \ {t} : pc'[u] = pc[u] /\ op'[u] = op[u]
         /\ op'[t] = op[t] \/ op'[t] = "none"
         /\ config' = config /\ under' = under /\ env'.crashes = env.crashes
         /\ Fault(t) \/ env' = env
         /\ Fault(t) => env'.faults > 0
<1>1. TypeOK
  BY DEF IInv
<1>2. /\ \A u \in Tasks \ {t} : pc'[u] = pc[u] /\ op'[u] = op[u]
      /\ op'[t] = op[t] \/ op'[t] = "none"
  <2>1. CASE \E what : Return(t, what)
    BY <1>1, <2>1 DEF Return, Goto, TypeOK
  <2>2. CASE Seed(t) \/ Cleanup(t) \/ Status(t) \/ Record(t) \/ Accept(t) \/ Dismiss(t)
             \/ Replace(t) \/ Serve(t) \/ Fault(t)
    BY <2>1, <2>2 DEF Seed, Cleanup, Status, Record, Accept, Dismiss, Replace, Serve, Fault
  <2>3. CASE Read(t) \/ Analyze(t) \/ ReadBaseline(t)
    BY <1>1, <2>3 DEF Read, Analyze, ReadBaseline, Goto, TypeOK
  <2>4. CASE First(t)
    BY <1>1, <2>1, <2>4 DEF First, Goto, local, TypeOK
  <2>5. CASE Lookup(t)
    BY <1>1, <2>1, <2>5 DEF Lookup, Walk, Goto, TypeOK
  <2>6. CASE Load(t)
    BY <1>1, <2>1, <2>6 DEF Load, Walk, Goto, TypeOK
  <2>7. CASE Allow(t)
    BY <1>1, <2>1, <2>7 DEF Allow, Goto, local, TypeOK
  <2> QED
    BY <2>2, <2>3, <2>4, <2>5, <2>6, <2>7 DEF Step
<1>3. config' = config /\ under' = under /\ (Fault(t) \/ env' = env)
  BY DEF Step, Seed, Cleanup, Read, Analyze, ReadBaseline, First, Status, Record,
     Lookup, Accept, Dismiss, Load, Replace, Allow, Serve, Fault, history
<1>4. Fault(t) => env'.faults > 0 /\ env'.crashes = env.crashes
  BY <1>1, MonitorConstants DEF Fault, TypeOK, Env
<1> QED
  BY <1>1, <1>2, <1>3, <1>4 DEF TypeOK

(* How a request starts.                                                   *)
LEMMA Called ==
  ASSUME IInv, NEW t \in Tasks, Call(t), config' = "absent"
  PROVE  /\ UNCHANGED db /\ UNCHANGED env
         /\ \A u \in Tasks \ {t} : pc'[u] = pc[u] /\ op'[u] = op[u]
         /\ pc[t] = "idle" /\ Harmless(t)'
         /\ \/ under' = Writers /\ pc'[t] = "cleanup"
            \/ config' = config /\ under' = under
<1>1. TypeOK
  BY DEF IInv
<1>2. CASE Register(t) \/ Update(t) \/ Check(t)
  BY <1>2 DEF Register, Update, Check
<1>3. CASE Unregister(t)
  BY <1>1, <1>3 DEF Unregister, Begin, Goto, TypeOK, Harmless
<1>4. CASE Initialize(t)
  BY <1>1, <1>4 DEF Initialize, Begin, Goto, TypeOK, Harmless
<1>5. ASSUME NEW o \in {"accept", "dismiss"}, NEW digest \in reviewed, Decide(t, o, digest)
      PROVE  /\ UNCHANGED <<db, env, config, under>>
             /\ \A u \in Tasks \ {t} : pc'[u] = pc[u] /\ op'[u] = op[u]
             /\ pc[t] = "idle" /\ Harmless(t)'
  <2>1. o = "dismiss"
    BY <1>5 DEF Decide
  <2> QED
    BY <1>1, <1>5, <2>1 DEF Decide, Begin, Goto, TypeOK, Harmless
<1>6. ASSUME NEW p \in Paths, Request(t, p)
      PROVE  /\ UNCHANGED <<db, env, config, under>>
             /\ \A u \in Tasks \ {t} : pc'[u] = pc[u] /\ op'[u] = op[u]
             /\ pc[t] = "idle" /\ Harmless(t)'
  BY <1>1, <1>6 DEF Request, Begin, Goto, TypeOK, Harmless
<1> QED
  BY <1>2, <1>3, <1>4, <1>5, <1>6 DEF Call

(* The steps of the people who work with the root.                         *)
LEMMA Watched ==
  ASSUME IInv,
         \/ Edit \/ Review \/ Propose("initialize", FALSE)
         \/ \E watch \in Watch : Propose("register", watch)
  PROVE  /\ UNCHANGED <<config, db, pc, op, under>>
         /\ env'.crashes = env.crashes /\ env'.faults = env.faults
<1>1. env \in Env
  BY DEF IInv, TypeOK
<1> QED
  BY <1>1 DEF Edit, Review, Propose, local, Env

(* A restart is remembered.                                                *)
LEMMA Restarted == ASSUME IInv, Restart PROVE env'.crashes > 0
<1>1. env \in Env
  BY DEF IInv, TypeOK
<1>2. env'.crashes = env.crashes + 1 /\ env.crashes \in Nat
  BY <1>1, MonitorConstants DEF Restart, Env
<1> QED
  BY <1>2

(* A writer that was not under way when the root was removed does not      *)
(* begin afterwards.                                                       *)
LEMMA AbsentKept == ASSUME IInv, Next PROVE Absent'
<1> SUFFICES ASSUME config' = "absent", under' = {}, env'.crashes = 0, NEW u \in Tasks
             PROVE  Harmless(u)'
  BY DEF Absent, Harmless
<1>1. TypeOK /\ Absent
  BY DEF IInv
<1>2. CASE \/ Edit \/ Review \/ Propose("initialize", FALSE)
           \/ \E watch \in Watch : Propose("register", watch)
  <2>1. UNCHANGED <<config, pc, op, under>> /\ env.crashes = 0
    BY <1>2, Watched
  <2> QED
    BY <1>1, <2>1 DEF Absent, Harmless
<1>3. CASE Restart
  BY <1>3, Restarted
<1>4. ASSUME NEW t \in Tasks, Call(t) PROVE Harmless(u)'
  <2>1. CASE u = t
    BY <1>4, <2>1, Called
  <2>2. CASE u # t /\ under' = Writers
    <3>1. op[u] \notin {"scan", "accept", "adopt", "seed"}
      BY <2>2 DEF Writers
    <3>2. op'[u] = op[u]
      BY <1>4, <2>2, Called
    <3> QED
      BY <1>1, <3>1, <3>2 DEF TypeOK, Ops, Harmless
  <2>3. CASE u # t /\ config' = config /\ under' = under
    <3>1. op'[u] = op[u] /\ pc'[u] = pc[u] /\ env' = env
      BY <1>4, <2>3, Called
    <3> QED
      BY <1>1, <2>3, <3>1 DEF Absent, Harmless
  <2> QED
    BY <1>4, <2>1, <2>2, <2>3, Called
<1>5. ASSUME NEW t \in Tasks, Step(t) PROVE Harmless(u)'
  <2>1. config = "absent" /\ \A x \in Tasks : Harmless(x)
    BY <1>1, <1>5, Stepped DEF Absent, Harmless
  <2>2. CASE u # t
    BY <1>5, <2>1, <2>2, Stepped DEF Harmless
  <2>3. CASE u = t
    <3>1. CASE pc[t] # "load"
      BY <1>5, <2>1, <2>3, <3>1, Stepped DEF Harmless
    <3>2. CASE pc[t] = "load"
      <4>1. \E what : Return(t, what)
        BY <1>5, <2>1, <3>2 DEF Step, Seed, Cleanup, Read, Analyze, ReadBaseline, First,
           Status, Record, Lookup, Accept, Dismiss, Load, Replace, Allow, Serve, Fault
      <4> QED
        BY <1>1, <2>3, <4>1 DEF Return, Harmless, TypeOK
    <3> QED
      BY <3>1, <3>2
  <2> QED
    BY <2>2, <2>3
<1> QED
  BY <1>2, <1>3, <1>4, <1>5 DEF Next

(* So the rows stay away once they were deleted.                           *)
LEMMA RemovalKept == ASSUME IInv, Next PROVE RemovalComplete'
<1> SUFFICES ASSUME config' = "absent", under' = {}, env'.faults = 0, env'.crashes = 0,
                    \A u \in Tasks : pc'[u] # "cleanup"
             PROVE  RowsGone'
  BY DEF RemovalComplete, RowsGone
<1>1. TypeOK /\ Absent /\ RemovalComplete
  BY DEF IInv
<1>2. CASE \/ Edit \/ Review \/ Propose("initialize", FALSE)
           \/ \E watch \in Watch : Propose("register", watch)
  <2>1. UNCHANGED <<config, db, pc, under>> /\ env.crashes = 0 /\ env.faults = 0
    BY <1>2, Watched
  <2> QED
    BY <1>1, <2>1 DEF RemovalComplete, RowsGone, db
<1>3. CASE Restart
  BY <1>3, Restarted
<1>4. ASSUME NEW t \in Tasks, Call(t) PROVE RowsGone'
  <2>1. UNCHANGED db /\ UNCHANGED env /\ config' = config /\ under' = under
    BY <1>4, Called
  <2>2. \A u \in Tasks : pc[u] # "cleanup"
    BY <1>4, Called
  <2> QED
    BY <1>1, <2>1, <2>2 DEF RemovalComplete, RowsGone, db
<1>5. ASSUME NEW t \in Tasks, Step(t) PROVE RowsGone'
  <2>1. CASE Cleanup(t)
    BY <2>1 DEF Cleanup, RowsGone
  <2>2. CASE ~Cleanup(t)
    <3>1. ~Fault(t) /\ env' = env /\ config = "absent" /\ under = {}
      BY <1>5, Stepped
    <3>2. pc[t] # "cleanup"
      BY <1>5, <2>2, <3>1 DEF Step, Seed, Read, Analyze, ReadBaseline, First, Status,
         Record, Lookup, Accept, Dismiss, Load, Replace, Allow, Serve
    <3>3. RowsGone
      BY <1>1, <1>5, <3>1, <3>2, Stepped DEF RemovalComplete, RowsGone
    <3>4. Harmless(t)
      BY <1>1, <3>1 DEF Absent, Harmless
    <3>5. pc[t] \notin {"seed", "first", "status", "record", "replace"}
      BY <3>4 DEF IInv, Doing, Harmless
    <3>6. baseline' = baseline /\ status' = status /\ (pending' = pending \/ pending' = None)
      BY <1>5, <2>2, <3>1, <3>5 DEF Step, Seed, Read, Analyze, ReadBaseline, First, Status,
         Record, Lookup, Accept, Dismiss, Load, Replace, Allow, Serve, db
    <3> QED
      BY <3>3, <3>6 DEF RowsGone
  <2> QED
    BY <2>1, <2>2
<1> QED
  BY <1>2, <1>3, <1>4, <1>5 DEF Next
-----------------------------------------------------------------------------
LEMMA StutterKeeps == ASSUME IInv, UNCHANGED vars PROVE IInv'
<1>1. TypeOK' /\ ProposalSeen' /\ RemovalComplete' /\ Absent'
  BY DEF IInv, TypeOK, ProposalSeen, RemovalComplete, Absent, vars, db, local, history
<1>2. ReviewedBaseline'
  BY BaselineStays DEF vars, db, history
<1>3. ASSUME NEW t \in Tasks PROVE Local(t)'
  <2>1. Stays(t) /\ Warned(t)
    BY DEF Stays, Warned, vars, local, db, history
  <2> QED
    BY <2>1, Bystander DEF vars, history
<1> QED
  BY <1>1, <1>2, <1>3 DEF IInv, Local

LEMMA NextKeeps == ASSUME IInv, [Next]_vars PROVE IInv'
<1>1. CASE Next
  <2>1. ASSUME Edit \/ Review \/ Restart PROVE Core'
    BY <2>1, EditKeeps, ReviewKeeps, RestartKeeps
  <2>2. ASSUME NEW watch \in BOOLEAN,
               Propose("register", watch) \/ Propose("initialize", FALSE)
        PROVE  Core'
    BY <2>2, ProposeKeeps
  <2>3. ASSUME NEW t \in Tasks, Call(t) PROVE Core'
    BY <2>3, RegisterKeeps, UpdateKeeps, UnregisterKeeps, CheckKeeps, InitializeKeeps,
       DecideKeeps, RequestKeeps DEF Call
  <2>4. ASSUME NEW t \in Tasks, Step(t) PROVE Core'
    BY <2>4, SeedKeeps, CleanupKeeps, ReadKeeps, AnalyzeKeeps, ReadBaselineKeeps,
       FirstKeeps, StatusKeeps, RecordKeeps, LookupKeeps, AcceptKeeps, DismissKeeps,
       LoadKeeps, ReplaceKeeps, AllowKeeps, ServeKeeps, FaultKeeps DEF Step
  <2>5. Core'
    BY <1>1, <2>1, <2>2, <2>3, <2>4, MonitorConstants DEF Next
  <2> QED
    BY <1>1, <2>5, AbsentKept, RemovalKept DEF IInv, Core, Local
<1>2. CASE UNCHANGED vars
  BY <1>2, StutterKeeps
<1> QED
  BY <1>1, <1>2

(* The inductive invariant holds in every reachable state.                 *)
THEOREM Invariance == Spec => []IInv
<1>1. Init => IInv
  BY InitHolds
<1>2. IInv /\ [Next]_vars => IInv'
  BY NextKeeps
<1> QED
  BY <1>1, <1>2, PTL DEF Spec

(* Every variable of the monitor keeps its type.                           *)
THEOREM TypeCorrect == Spec => []TypeOK
<1>1. IInv => TypeOK
  BY DEF IInv
<1> QED
  BY <1>1, Invariance, PTL

(* The baseline that seed_reviewed_baseline, accept or                     *)
(* replace_reviewed_baseline wrote is an inventory somebody has looked at, *)
(* whoever saves beside an acceptance.  Beside a seed, a save cannot       *)
(* change its hashes.                                                      *)
THEOREM BaselineReviewed == Spec => []ReviewedBaseline
<1>1. IInv => ReviewedBaseline
  BY DEF IInv
<1> QED
  BY <1>1, Invariance, PTL

(* A removed root leaves no row, however many requests run beside the      *)
(* removal, unless one that writes was under way or something failed.      *)
THEOREM RemovalCompleteHolds == Spec => []RemovalComplete
<1>1. IInv => RemovalComplete
  BY DEF IInv
<1> QED
  BY <1>1, Invariance, PTL

(* A baseline moves only to an inventory that somebody has looked at,      *)
(* unless somebody saves beside an initialization: what First, Seed,       *)
(* Accept and Replace may write.                                           *)
THEOREM OnlyReviewMovesHolds == Spec => OnlyReviewMoves
<1> DEFINE Moves == baseline # None /\ baseline' # None /\ baseline' # baseline
                    => \/ baseline'.inventory \in reviewed
                       \/ baseline'.by = "adopt" /\ baseline'.saved
<1>1. ASSUME IInv, [Next]_vars PROVE [Moves]_vars
  <2> SUFFICES ASSUME baseline # None, baseline' # None, baseline' # baseline
               PROVE  \/ baseline'.inventory \in reviewed
                      \/ baseline'.by = "adopt" /\ baseline'.saved
    OBVIOUS
  <2>1. baseline' = baseline \/ \E t \in Tasks : Step(t)
    BY <1>1 DEF Next, vars, Edit, Review, Restart, Propose, Call, Register, Update,
       Unregister, Check, Initialize, Decide, Request, db
  <2>2. PICK t \in Tasks : Step(t)
    BY <2>1
  <2>3. TypeOK /\ Doing(t) /\ Carrying(t) /\ Adopting(t)
    BY <1>1 DEF IInv
  <2>4. CASE Seed(t)
    BY <2>4 DEF Seed
  <2>5. CASE First(t)
    BY <2>5 DEF First
  <2>6. CASE Accept(t)
    <3>1. seen[t] \in reviewed /\ baseline' = Baseline(t, seen[t])
      BY <2>3, <2>6 DEF Accept, Carrying
    <3> QED
      BY <3>1 DEF Baseline
  <2>7. CASE Replace(t)
    <3>1. op[t] = "adopt" /\ baseline' = Baseline(t, seen[t])
      BY <2>3, <2>7 DEF Replace, Doing
    <3>2. t \in disturbed \/ seen[t] \in reviewed
      BY <2>3, <2>7, <3>1 DEF Replace, Adopting
    <3> QED
      BY <3>1, <3>2 DEF Baseline
  <2>8. CASE Cleanup(t)
    BY <2>8 DEF Cleanup
  <2> QED
    BY <2>2, <2>4, <2>5, <2>6, <2>7, <2>8 DEF Step, Read, Analyze, ReadBaseline, Status,
       Record, Lookup, Dismiss, Load, Allow, Serve, Fault, db
<1> QED
  BY <1>1, Invariance, PTL DEF Spec, OnlyReviewMoves

(* A document that was served under a baseline has bytes that this         *)
(* baseline or a later reviewed inventory accepts, if people do not save   *)
(* between the check and the answer.                                       *)
THEOREM ServedWasReviewedHolds == Spec => ServedWasReviewed
<1> DEFINE Good == \A t \in Tasks : /\ t \notin disturbed
                                    /\ Serve(t) /\ held[t] # None /\ files[next[t]] # None
                     => \E inv \in reviewed \cup {held[t]} :
                          Allows(inv, next[t], files[next[t]])
<1>1. ASSUME IInv PROVE Good
  <2>1. ASSUME NEW t \in Tasks PROVE Serving(t)
    BY <1>1 DEF IInv
  <2> QED
    BY <2>1 DEF Serving, Serve
<1> QED
  BY <1>1, Invariance, PTL DEF Spec, ServedWasReviewed

(* A check beside which neither a file nor the baseline moves leaves a     *)
(* notice exactly when what is on disk differs from the baseline.          *)
THEOREM CheckTellsHolds == Spec => CheckTells
<1> DEFINE Tells == \A t \in Tasks : Record(t) /\ t \notin disturbed =>
                      (pending' # None)
                        = (Changes(baseline.inventory, Inventory(files)) # {})
<1>1. ASSUME IInv PROVE Tells
  <2> SUFFICES ASSUME NEW t \in Tasks, Record(t), t \notin disturbed
               PROVE  (pending' # None)
                        = (Changes(baseline.inventory, Inventory(files)) # {})
    OBVIOUS
  <2>1. held[t] = baseline.inventory /\ seen[t] = Inventory(files)
    BY <1>1 DEF Record, IInv, Checking
  <2>2. seen[t] # None
    BY <1>1, MonitorConstants DEF IInv, TypeOK
  <2> QED
    BY <2>1, <2>2 DEF Record
<1> QED
  BY <1>1, Invariance, PTL DEF CheckTells

=============================================================================

-------------------------- MODULE RootConfigProofs ---------------------------
(***************************************************************************)
(* The configuration always loads, and requests are atomic compare-and-    *)
(* sets of it, for any number of tabs, servers, imports and roots.         *)
(***************************************************************************)
EXTENDS RootConfig, SequenceTheorems, TLAPS

USE ConfigConstants, ProcessConstants

-----------------------------------------------------------------------------
(* What the three changes make of a configuration.                         *)

(* A list of roots is what it says, and a file holds one.                  *)
LEMMA Contents ==
  /\ \A s \in Seq(Roots) : RootsIn(s) = s /\ s \in Files
  /\ \A f \in Files : RootsIn(f) \in Seq(Roots)
  /\ Unique(Missing)
<1>1. \A s \in Seq(Roots) : RootsIn(s) = s /\ s \in Files
  BY DEF RootsIn, Files
<1>2. <<>> \in Seq(Roots) /\ DOMAIN <<>> = {}
  OBVIOUS
<1>3. \A f \in Files : RootsIn(f) \in Seq(Roots)
  BY <1>1, <1>2 DEF RootsIn, Files
<1>4. Unique(Missing)
  BY <1>2 DEF Unique, Positions, RootsIn
<1> QED BY <1>1, <1>3, <1>4

(* Appending a root with a new identity keeps the identities different.    *)
LEMMA RegisteredUnique ==
  ASSUME NEW f \in Files, Unique(f), NEW id \in Ids, NEW set \in Settings,
         Positions(f, id) = {}
  PROVE  Registered(f, id, set) \in Seq(Roots) /\ Unique(Registered(f, id, set))
<1> DEFINE s == RootsIn(f)
           r == [id |-> id, set |-> set]
           g == Registered(f, id, set)
<1>1. s \in Seq(Roots) /\ r \in Roots
  BY Contents DEF Roots
<1>2. g = Append(s, r)
  BY DEF Registered
<1>3. /\ g \in Seq(Roots) /\ Len(g) = Len(s) + 1 /\ DOMAIN g = 1..Len(s) + 1
      /\ \A i \in 1..Len(s) : g[i] = s[i]
      /\ g[Len(s) + 1] = r
      /\ Len(s) \in Nat /\ DOMAIN s = 1..Len(s)
  <2> HIDE DEF s, r, g
  <2> QED BY <1>1, <1>2
<1>4. ASSUME NEW x \in Ids, NEW i \in Positions(g, x), NEW j \in Positions(g, x)
      PROVE  i = j
  <2>1. RootsIn(g) = g
    BY <1>3, Contents
  <2>2. /\ i \in 1..Len(s) + 1 /\ j \in 1..Len(s) + 1
        /\ g[i].id = x /\ g[j].id = x
    BY <2>1, <1>3 DEF Positions
  <2>3. \A k \in 1..Len(s) : s[k].id # id
    BY <1>3 DEF Positions
  <2>4. \A k, l \in 1..Len(s) : s[k].id = x /\ s[l].id = x => k = l
    BY <1>3 DEF Positions, Unique
  <2>5. r.id = id
    OBVIOUS
  <2> HIDE DEF s, r, g
  <2> QED BY <2>2, <2>3, <2>4, <2>5, <1>3
<1> QED BY <1>3, <1>4 DEF Unique

(* Changing the settings of a root changes no identity.                    *)
LEMMA UpdatedUnique ==
  ASSUME NEW f \in Files, Unique(f), NEW i \in DOMAIN RootsIn(f), NEW set \in Settings
  PROVE  Updated(f, i, set) \in Seq(Roots) /\ Unique(Updated(f, i, set))
<1> DEFINE s == RootsIn(f)
           g == Updated(f, i, set)
<1>1. s \in Seq(Roots) /\ i \in 1..Len(s) /\ Len(s) \in Nat /\ DOMAIN s = 1..Len(s)
  BY Contents
<1>2. [s[i] EXCEPT !.set = set] \in Roots /\ [s[i] EXCEPT !.set = set].id = s[i].id
  <2>1. s[i] \in Roots
    BY <1>1
  <2>2. \A r \in Roots : [r EXCEPT !.set = set] \in Roots /\ [r EXCEPT !.set = set].id = r.id
    BY DEF Roots
  <2> QED BY <2>1, <2>2
<1>3. /\ g \in Seq(Roots) /\ DOMAIN g = 1..Len(s)
      /\ \A k \in 1..Len(s) : g[k].id = s[k].id
  <2>1. g = [s EXCEPT ![i] = [s[i] EXCEPT !.set = set]]
    BY DEF Updated
  <2> HIDE DEF s, g
  <2> QED BY <1>1, <1>2, <2>1
<1>4. RootsIn(g) = g
  BY <1>3, Contents
<1>5. \A x \in Ids : Positions(g, x) = Positions(f, x)
  BY <1>1, <1>3, <1>4 DEF Positions
<1> QED BY <1>3, <1>5 DEF Unique

(* Removing a root leaves the others with their identities.                *)
LEMMA RemovedUnique ==
  ASSUME NEW f \in Files, Unique(f), NEW i \in DOMAIN RootsIn(f)
  PROVE  Removed(f, i) \in Seq(Roots) /\ Unique(Removed(f, i))
<1> DEFINE s == RootsIn(f)
           g == Removed(f, i)
           front == SubSeq(s, 1, i - 1)
           back == SubSeq(s, i + 1, Len(s))
           At(k) == IF k < i THEN k ELSE k + 1
<1>1. s \in Seq(Roots) /\ i \in 1..Len(s) /\ Len(s) \in Nat /\ DOMAIN s = 1..Len(s)
  BY Contents
<1>2. g = front \o back
  BY DEF Removed, RemoveAt
<1>3. /\ front \in Seq(Roots) /\ Len(front) = i - 1
      /\ \A k \in 1..i - 1 : front[k] = s[k]
  <2>1. 1 \in Int /\ i - 1 \in Int /\ \A k \in 1..i - 1 : s[k] \in Roots
    BY <1>1
  <2> HIDE DEF s
  <2>2. /\ SubSeq(s, 1, i - 1) \in Seq(Roots)
        /\ Len(SubSeq(s, 1, i - 1)) = IF 1 <= i - 1 THEN i - 1 - 1 + 1 ELSE 0
        /\ \A k \in 1..i - 1 - 1 + 1 : SubSeq(s, 1, i - 1)[k] = s[1 + k - 1]
    BY <2>1, SubSeqProperties
  <2> QED BY <2>2, <1>1
<1>4. /\ back \in Seq(Roots) /\ Len(back) = Len(s) - i
      /\ \A k \in 1..Len(s) - i : back[k] = s[i + k]
  <2>1. i + 1 \in Int /\ Len(s) \in Int /\ \A k \in i + 1..Len(s) : s[k] \in Roots
    BY <1>1
  <2> HIDE DEF s
  <2>2. /\ SubSeq(s, i + 1, Len(s)) \in Seq(Roots)
        /\ Len(SubSeq(s, i + 1, Len(s)))
             = IF i + 1 <= Len(s) THEN Len(s) - (i + 1) + 1 ELSE 0
        /\ \A k \in 1..Len(s) - (i + 1) + 1 :
             SubSeq(s, i + 1, Len(s))[k] = s[i + 1 + k - 1]
    BY <2>1, SubSeqProperties
  <2> QED BY <2>2, <1>1
<1>5. /\ g \in Seq(Roots) /\ DOMAIN g = 1..Len(s) - 1
      /\ \A k \in 1..Len(s) - 1 : g[k] = s[At(k)]
  <2> HIDE DEF s, g, front, back
  <2>1. /\ front \o back \in Seq(Roots)
        /\ Len(front \o back) = Len(front) + Len(back)
        /\ \A k \in 1..Len(front) + Len(back) :
             (front \o back)[k] = IF k <= Len(front) THEN front[k] ELSE back[k - Len(front)]
    BY <1>3, <1>4, ConcatProperties
  <2>2. Len(g) = Len(s) - 1
    <3>1. Len(g) = Len(front) + Len(back) /\ i \in Int
      BY <2>1, <1>2, <1>1
    <3> QED BY <3>1, <1>1, <1>3, <1>4
  <2>3. ASSUME NEW k \in 1..Len(s) - 1 PROVE g[k] = s[At(k)]
    <3>1. CASE k < i
      <4>1. Len(front) = i - 1 /\ Len(back) = Len(s) - i /\ k \in 1..i - 1
        BY <3>1, <1>1, <1>3, <1>4
      <4>2. k \in 1..Len(front) + Len(back) /\ k <= Len(front)
        BY <4>1, <1>1
      <4> QED BY <4>1, <4>2, <3>1, <2>1, <1>2, <1>3
    <3>2. CASE ~(k < i)
      <4>1. /\ i \in Int /\ k \in Int /\ Len(s) \in Int
            /\ i <= k /\ k <= Len(s) - 1 /\ 1 <= i
        BY <3>2, <1>1
      <4>2. Len(front) = i - 1 /\ Len(back) = Len(s) - i
        BY <1>3, <1>4
      <4>3. k \in 1..Len(front) + Len(back) /\ ~(k <= Len(front))
        BY <4>1, <4>2
      <4>4. g[k] = back[k - Len(front)]
        BY <4>3, <2>1, <1>2
      <4>5. k - (i - 1) \in 1..Len(s) - i /\ i + (k - (i - 1)) = k + 1
        BY <4>1
      <4>6. back[k - (i - 1)] = s[i + (k - (i - 1))]
        BY <4>5, <1>4
      <4> QED BY <4>2, <4>4, <4>5, <4>6, <3>2
    <3> QED BY <3>1, <3>2
  <2> QED BY <2>1, <2>2, <2>3, <1>2
<1>6. ASSUME NEW x \in Ids, NEW j \in Positions(g, x), NEW k \in Positions(g, x)
      PROVE  j = k
  <2>1. RootsIn(g) = g
    BY <1>5, Contents
  <2>2. /\ j \in 1..Len(s) - 1 /\ k \in 1..Len(s) - 1
        /\ s[At(j)].id = x /\ s[At(k)].id = x
    BY <2>1, <1>5 DEF Positions
  <2>3. At(j) \in 1..Len(s) /\ At(k) \in 1..Len(s)
    BY <2>2, <1>1
  <2>4. At(j) = At(k)
    BY <2>2, <2>3, <1>1 DEF Unique, Positions
  <2> QED BY <2>4, <2>2, <1>1
<1> QED BY <1>5, <1>6 DEF Unique

(* What is ready to be saved is a change of the file.                      *)
LEMMA ChangesMade ==
  ASSUME NEW f \in Files, Unique(f)
  PROVE  /\ \A id \in Ids, set \in Settings : Positions(f, id) = {} =>
              Registered(f, id, set) \in Changed(f) \cap Extended(f)
         /\ \A i \in DOMAIN RootsIn(f) :
              /\ Removed(f, i) \in Changed(f)
              /\ \A set \in Settings : Updated(f, i, set) \in Changed(f)
         /\ RootsIn(f) \in Extended(f)
         /\ Unique(RootsIn(f))
<1>1. Unique(RootsIn(f))
  BY Contents DEF Unique, Positions, RootsIn
<1> QED BY <1>1 DEF Changed, Extended
-----------------------------------------------------------------------------
(* The inductive invariant.                                                *)

LEMMA InitInv == Init => IInv
<1> SUFFICES ASSUME Init PROVE IInv
  OBVIOUS
<1>1. TypeOK
  BY DEF Init, AInit, TypeOK, Files, Pc, Actors
<1>2. AlwaysLoads
  BY Contents DEF Init, AInit, AlwaysLoads, Loads
<1>3. ASSUME NEW t \in Tabs PROVE Locking(t) /\ Expecting(t)
  BY <1>3 DEF Init, AInit, Locking, Expecting, Critical, Writing, Actors
<1>4. ASSUME NEW i \in Importers PROVE Importing(i)
  BY <1>4 DEF Init, AInit, Importing, Writing, Actors
<1>5. ASSUME NEW a \in Actors PROVE Fresh(a)
  BY <1>5 DEF Init, Fresh
<1> QED BY <1>1, <1>2, <1>3, <1>4, <1>5 DEF IInv

(* What everybody but a may rely on survives a step of a that leaves the   *)
(* file and their requests alone and begins nothing beside an import.      *)
LEMMA Bystanders ==
  ASSUME IInv, NEW a \in Actors, file' = file,
         \A u \in Actors \ {a} : pc'[u] = pc[u] /\ mem'[u] = mem[u],
         \A t \in Tabs \ {a} :
           rev'[t] = rev[t] /\ op'[t] = op[t] /\ (lock' = t <=> lock = t),
         ~beside' =>
           \/ \A u \in Actors : pc[u] = "idle"
           \/ ~beside /\ (\/ pc[a] # "idle" \/ pc'[a] = "idle"
                         \/ \A i \in Importers : pc[i] = "idle")
  PROVE  /\ \A t \in Tabs \ {a} : Locking(t)' /\ Expecting(t)'
         /\ \A i \in Importers \ {a} : Importing(i)'
<1>1. ASSUME NEW t \in Tabs \ {a} PROVE Locking(t)' /\ Expecting(t)'
  <2>1. Locking(t) /\ Expecting(t) /\ t \in Actors \ {a}
    BY DEF IInv, Actors
  <2>2. Locking(t)'
    BY <2>1 DEF Locking
  <2>3. Expecting(t)'
    BY <2>1 DEF Expecting, Critical, Writing
  <2> QED BY <2>2, <2>3
<1>2. ASSUME NEW i \in Importers \ {a} PROVE Importing(i)'
  <2>1. Importing(i) /\ i \in Actors \ {a}
    BY DEF IInv, Actors
  <2>2. ~beside' /\ pc'[i] # "idle" => ~beside /\ \A u \in Actors \ {i} : pc'[u] = "idle"
    BY <2>1 DEF Importing
  <2> QED BY <2>1, <2>2 DEF Importing, Writing
<1> QED BY <1>1, <1>2

(* Who saves does so under a name of its own, or under the lock, so it     *)
(* spoils no temporary file of another.                                    *)
LEMMA FreshStays ==
  ASSUME IInv, NEW a \in Actors,
         \A u \in Actors \ {a} : pc'[u] = pc[u],
         \/ temp' = temp
         \/ /\ pc[a] \in Writing
            /\ \A p \in (Servers \cup Importers) \ {Proc(a)} : temp'[p] = temp[p]
  PROVE  \A u \in Actors \ {a} : Fresh(u)'
<1> SUFFICES ASSUME NEW u \in Actors \ {a}, pc'[u] = "rename"
             PROVE  temp'[Proc(u)] = "own"
  BY DEF Fresh
<1>1. pc[u] = "rename" /\ temp[Proc(u)] = "own"
  BY DEF IInv, Fresh
<1>2. ASSUME pc[a] \in Writing PROVE Proc(u) # Proc(a)
  <2>1. ~(u \in Tabs /\ a \in Tabs)
    BY <1>1, <1>2 DEF IInv, Locking, Critical, Writing
  <2> QED BY <2>1 DEF Proc, Actors
<1>3. Proc(u) \in Servers \cup Importers
  BY DEF Proc, Actors
<1> QED BY <1>1, <1>2, <1>3

(* Who returns leaves nothing behind.                                      *)
LEMMA ReturnInv ==
  ASSUME IInv, NEW a \in Actors, Return(a), UNCHANGED <<file, beside>>,
         UNCHANGED temp \/ (pc[a] \in Writing /\ Fail(a))
  PROVE  IInv'
<1>1. TypeOK /\ AlwaysLoads
  BY DEF IInv
<1>2. TypeOK'
  <2>1. temp' \in [Servers \cup Importers -> {"none", "own", "left", "mixed"}]
    BY <1>1 DEF TypeOK, Fail, Remains
  <2> QED BY <1>1, <2>1 DEF TypeOK, Return, Goto, Pc
<1>3. AlwaysLoads'
  BY <1>1 DEF AlwaysLoads, Loads, Unique, Positions, RootsIn
<1>4. pc'[a] = "idle" /\ lock' # a
  BY <1>1 DEF TypeOK, Return, Goto, Actors
<1>5. /\ \A t \in Tabs \ {a} : Locking(t)' /\ Expecting(t)'
      /\ \A i \in Importers \ {a} : Importing(i)'
  <2>1. \A u \in Actors \ {a} : pc'[u] = pc[u] /\ mem'[u] = mem[u]
    BY <1>1 DEF TypeOK, Return, Goto
  <2>2. \A t \in Tabs \ {a} :
          rev'[t] = rev[t] /\ op'[t] = op[t] /\ (lock' = t <=> lock = t)
    BY DEF Return
  <2> QED BY <1>4, <2>1, <2>2, Bystanders
<1>6. a \in Tabs => Locking(a)' /\ Expecting(a)'
  BY <1>4 DEF Locking, Expecting, Critical, Writing
<1>7. a \in Importers => Importing(a)'
  BY <1>4 DEF Importing, Writing
<1>8. \A u \in Actors : Fresh(u)'
  <2>1. \A u \in Actors \ {a} : pc'[u] = pc[u]
    BY <1>1 DEF TypeOK, Return, Goto
  <2>2. \/ temp' = temp
        \/ /\ pc[a] \in Writing
           /\ \A p \in (Servers \cup Importers) \ {Proc(a)} : temp'[p] = temp[p]
    BY <1>1 DEF TypeOK, Fail
  <2>3. Fresh(a)'
    BY <1>4 DEF Fresh
  <2> QED BY <2>1, <2>2, <2>3, FreshStays
<1> QED BY <1>2, <1>3, <1>5, <1>6, <1>7, <1>8 DEF IInv

LEMMA LookInv ==
  ASSUME IInv, NEW t \in Tabs, Look(t)
  PROVE  IInv'
<1>1. TypeOK /\ AlwaysLoads /\ Locking(t) /\ Expecting(t) /\ t \in Actors
  BY DEF IInv, Actors
<1>2. TypeOK'
  BY <1>1 DEF TypeOK, Look
<1>3. AlwaysLoads'
  BY <1>1 DEF AlwaysLoads, Loads, Unique, Positions, RootsIn, Look
<1>4. /\ \A u \in Tabs \ {t} : Locking(u)' /\ Expecting(u)'
      /\ \A i \in Importers \ {t} : Importing(i)'
  <2>1. \A u \in Tabs \ {t} : rev'[u] = rev[u]
    BY <1>1 DEF TypeOK, Look
  <2> QED BY <1>1, <2>1, Bystanders DEF Look
<1>5. Locking(t)' /\ Expecting(t)'
  BY <1>1 DEF Look, Locking, Expecting, Critical, Writing
<1>6. \A u \in Actors : Fresh(u)'
  BY DEF IInv, Look, Fresh
<1> QED BY <1>2, <1>3, <1>4, <1>5, <1>6 DEF IInv

LEMMA SubmitInv ==
  ASSUME IInv, NEW t \in Tabs, NEW r \in Requests, Submit(t, r)
  PROVE  IInv'
<1>1. TypeOK /\ AlwaysLoads /\ Locking(t) /\ Expecting(t) /\ t \in Actors
  BY DEF IInv, Actors
<1>2. TypeOK'
  BY <1>1 DEF TypeOK, Submit, Goto, Pc, Busy
<1>3. AlwaysLoads'
  BY <1>1 DEF AlwaysLoads, Loads, Unique, Positions, RootsIn, Submit
<1>4. /\ pc[t] = "idle" /\ pc'[t] = "lock" /\ op'[t] = r /\ rev'[t] # None
      /\ \A u \in Actors \ {t} : pc'[u] = pc[u]
      /\ \A u \in Tabs \ {t} : op'[u] = op[u]
  BY <1>1 DEF TypeOK, Submit, Goto
<1>5. /\ \A u \in Tabs \ {t} : Locking(u)' /\ Expecting(u)'
      /\ \A i \in Importers \ {t} : Importing(i)'
  <2>1. ~beside' => /\ \A i \in Importers : pc[i] = "idle"
                    /\ ~beside \/ \A u \in Actors : pc[u] = "idle"
    BY DEF Submit, Busy
  <2> QED BY <1>1, <1>4, <2>1, Bystanders DEF Submit
<1>6. Locking(t)'
  BY <1>1, <1>4 DEF Submit, Locking, Critical, Writing
<1>7. Expecting(t)'
  BY <1>4 DEF Expecting, Critical, Writing
<1>8. \A u \in Actors : Fresh(u)'
  BY <1>1, <1>4 DEF IInv, Submit, Fresh
<1> QED BY <1>2, <1>3, <1>5, <1>6, <1>7, <1>8 DEF IInv

(* The lock is free, so nobody else is in the critical section.            *)
LEMMA AcquireInv ==
  ASSUME IInv, NEW t \in Tabs, Acquire(t)
  PROVE  IInv'
<1>1. TypeOK /\ AlwaysLoads /\ Locking(t) /\ Expecting(t) /\ t \in Actors
  BY DEF IInv, Actors
<1>2. CASE Return(t)
  BY <1>1, <1>2, ReturnInv DEF Acquire
<1>3. CASE /\ lock = None /\ lock' = t /\ Goto(t, "check")
           /\ UNCHANGED <<rev, op, mem>>
  <2>1. pc[t] = "lock" /\ UNCHANGED <<file, beside, temp>>
    BY DEF Acquire
  <2>2. TypeOK'
    BY <1>1, <1>3, <2>1 DEF TypeOK, Goto, Pc
  <2>3. AlwaysLoads'
    BY <1>1, <2>1 DEF AlwaysLoads, Loads, Unique, Positions, RootsIn
  <2>4. pc'[t] = "check" /\ \A u \in Actors \ {t} : pc'[u] = pc[u]
    BY <1>1, <1>3 DEF TypeOK, Goto
  <2>5. /\ \A u \in Tabs \ {t} : Locking(u)' /\ Expecting(u)'
        /\ \A i \in Importers \ {t} : Importing(i)'
    <3>1. \A u \in Tabs \ {t} : lock' = u <=> lock = u
      BY <1>3
    <3> QED BY <1>1, <1>3, <2>1, <2>4, <3>1, Bystanders
  <2>6. Locking(t)'
    BY <1>3, <2>4 DEF Locking, Critical, Writing
  <2>7. Expecting(t)'
    BY <1>1, <1>3, <2>1, <2>4 DEF Expecting, Critical, Writing
  <2>8. \A u \in Actors : Fresh(u)'
    BY <2>1, <2>4 DEF IInv, Fresh
  <2> QED BY <2>2, <2>3, <2>5, <2>6, <2>7, <2>8 DEF IInv
<1> QED BY <1>2, <1>3 DEF Acquire

LEMMA CheckInv ==
  ASSUME IInv, NEW t \in Tabs, Check(t)
  PROVE  IInv'
<1>1. TypeOK /\ AlwaysLoads /\ Locking(t) /\ Expecting(t) /\ t \in Actors
  BY DEF IInv, Actors
<1>2. CASE Return(t)
  BY <1>1, <1>2, ReturnInv DEF Check
<1>3. CASE /\ file = rev[t] /\ Goto(t, "load")
           /\ UNCHANGED <<rev, lock, op, mem>>
  <2>1. pc[t] = "check" /\ UNCHANGED <<file, beside, temp>>
    BY DEF Check
  <2>2. TypeOK'
    BY <1>1, <1>3, <2>1 DEF TypeOK, Goto, Pc
  <2>3. AlwaysLoads'
    BY <1>1, <2>1 DEF AlwaysLoads, Loads, Unique, Positions, RootsIn
  <2>4. pc'[t] = "load" /\ \A u \in Actors \ {t} : pc'[u] = pc[u]
    BY <1>1, <1>3 DEF TypeOK, Goto
  <2>5. /\ \A u \in Tabs \ {t} : Locking(u)' /\ Expecting(u)'
        /\ \A i \in Importers \ {t} : Importing(i)'
    BY <1>1, <1>3, <2>1, <2>4, Bystanders
  <2>6. Locking(t)' /\ Expecting(t)'
    BY <1>1, <1>3, <2>1, <2>4 DEF Locking, Expecting, Critical, Writing
  <2>7. \A u \in Actors : Fresh(u)'
    BY <2>1, <2>4 DEF IInv, Fresh
  <2> QED BY <2>2, <2>3, <2>5, <2>6, <2>7 DEF IInv
<1> QED BY <1>2, <1>3 DEF Check

(* The loads of the three requests save what is a change of the file.      *)
LEMMA LoadInv ==
  ASSUME IInv, NEW t \in Tabs, Load(t)
  PROVE  IInv'
<1>1. /\ TypeOK /\ AlwaysLoads /\ Locking(t) /\ Expecting(t) /\ t \in Actors
      /\ pc[t] = "load" /\ UNCHANGED <<file, beside, temp>>
      /\ file \in Files /\ Unique(file)
  BY DEF IInv, Actors, Load, TypeOK, AlwaysLoads, Loads
<1>2. CASE Return(t)
  BY <1>1, <1>2, ReturnInv
<1>3. ASSUME NEW roots \in Seq(Roots), Save(t, roots), Unique(roots),
             roots \in Changed(file)
      PROVE  IInv'
  <2>1. TypeOK'
    BY <1>1, <1>3 DEF TypeOK, Save, Goto, Pc
  <2>2. AlwaysLoads'
    BY <1>1 DEF AlwaysLoads, Loads, Unique, Positions, RootsIn
  <2>3. /\ pc'[t] = "create" /\ mem'[t] = roots
        /\ \A u \in Actors \ {t} : pc'[u] = pc[u] /\ mem'[u] = mem[u]
    BY <1>1, <1>3 DEF TypeOK, Save, Goto
  <2>4. /\ \A u \in Tabs \ {t} : Locking(u)' /\ Expecting(u)'
        /\ \A i \in Importers \ {t} : Importing(i)'
    BY <1>1, <1>3, <2>3, Bystanders DEF Save
  <2>5. Locking(t)'
    BY <1>1, <1>3, <2>3 DEF Save, Locking, Critical, Writing
  <2>6. Expecting(t)'
    <3>1. Unique(mem[t])' /\ Changed(file)' = Changed(file)
      BY <1>1, <1>3, <2>3 DEF Unique, Positions, RootsIn, Changed, Registered, Updated, Removed
    <3> QED BY <1>1, <1>3, <2>3, <3>1 DEF Save, Expecting, Critical, Writing
  <2>7. \A u \in Actors : Fresh(u)'
    BY <1>1, <2>3 DEF IInv, Fresh
  <2> QED BY <2>1, <2>2, <2>4, <2>5, <2>6, <2>7 DEF IInv
<1>4. CASE LoadRegister(t)
  <2>1. PICK id \in Ids, set \in Settings :
          Positions(file, id) = {} /\ Save(t, Registered(file, id, set))
    BY <1>4 DEF LoadRegister
  <2> QED BY <1>1, <1>3, <2>1, RegisteredUnique, ChangesMade
<1>5. CASE LoadUpdate(t)
  <2>1. PICK i \in DOMAIN RootsIn(file), set \in Settings : Save(t, Updated(file, i, set))
    BY <1>5 DEF LoadUpdate
  <2> QED BY <1>1, <1>3, <2>1, UpdatedUnique, ChangesMade
<1>6. CASE LoadRemove(t)
  <2>1. PICK i \in DOMAIN RootsIn(file) : Save(t, Removed(file, i))
    BY <1>6 DEF LoadRemove
  <2> QED BY <1>1, <1>3, <2>1, RemovedUnique, ChangesMade
<1> QED BY <1>2, <1>4, <1>5, <1>6 DEF Load

LEMMA LoadImportInv ==
  ASSUME IInv, NEW i \in Importers, LoadImport(i)
  PROVE  IInv'
<1>1. /\ TypeOK /\ AlwaysLoads /\ Importing(i) /\ i \in Actors /\ i \notin Tabs
      /\ pc[i] = "idle" /\ UNCHANGED <<file, rev, lock, temp, op>>
      /\ file \in Files /\ Unique(file)
  BY DEF IInv, Actors, LoadImport, TypeOK, AlwaysLoads, Loads
<1>2. PICK roots \in Seq(Roots) :
        mem' = [mem EXCEPT ![i] = roots] /\ Unique(roots) /\ roots \in Extended(file)
  <2>1. PICK id \in Ids, set \in Settings :
          mem' = [mem EXCEPT ![i] = IF Positions(file, id) = {} THEN Registered(file, id, set)
                                    ELSE RootsIn(file)]
    BY DEF LoadImport
  <2>2. CASE Positions(file, id) = {}
    BY <1>1, <2>1, <2>2, RegisteredUnique, ChangesMade
  <2>3. CASE Positions(file, id) # {}
    <3>1. RootsIn(file) \in Seq(Roots)
      BY <1>1, Contents
    <3> QED BY <1>1, <2>1, <2>3, <3>1, ChangesMade
  <2> QED BY <2>2, <2>3
<1>3. /\ pc'[i] = "create" /\ mem'[i] = roots
      /\ \A u \in Actors \ {i} : pc'[u] = pc[u] /\ mem'[u] = mem[u]
      /\ ~beside' => \A u \in Actors : pc[u] = "idle"
  BY <1>1, <1>2 DEF TypeOK, LoadImport, Goto, Busy
<1>4. TypeOK'
  BY <1>1, <1>2 DEF TypeOK, LoadImport, Goto, Pc, Busy
<1>5. AlwaysLoads'
  BY <1>1 DEF AlwaysLoads, Loads, Unique, Positions, RootsIn
<1>6. /\ \A u \in Tabs \ {i} : Locking(u)' /\ Expecting(u)'
      /\ \A j \in Importers \ {i} : Importing(j)'
  BY <1>1, <1>3, Bystanders DEF Actors
<1>7. Importing(i)'
  <2>1. Unique(mem[i])' /\ Extended(file)' = Extended(file)
    BY <1>1, <1>2, <1>3 DEF Unique, Positions, RootsIn, Extended, Registered
  <2> QED BY <1>1, <1>2, <1>3, <2>1 DEF Importing, Writing
<1>8. \A u \in Actors : Fresh(u)'
  BY <1>1, <1>3 DEF IInv, Fresh
<1> QED BY <1>1, <1>4, <1>5, <1>6, <1>7, <1>8 DEF IInv

LEMMA CreateInv ==
  ASSUME IInv, NEW a \in Actors, Create(a)
  PROVE  IInv'
<1>1. TypeOK /\ AlwaysLoads /\ pc[a] = "create" /\ UNCHANGED <<file, beside>>
  BY DEF IInv, Create
<1>2. CASE Fail(a)
  BY <1>1, <1>2, ReturnInv DEF Fail, Writing
<1>3. CASE /\ temp' = [temp EXCEPT ![Proc(a)] = "own"] /\ Goto(a, "rename")
           /\ UNCHANGED <<rev, lock, op, mem>>
  <2>1. Proc(a) \in Servers \cup Importers
    BY DEF Proc, Actors
  <2>2. TypeOK'
    BY <1>1, <1>3, <2>1 DEF TypeOK, Goto, Pc
  <2>3. AlwaysLoads'
    BY <1>1 DEF AlwaysLoads, Loads, Unique, Positions, RootsIn
  <2>4. pc'[a] = "rename" /\ \A u \in Actors \ {a} : pc'[u] = pc[u]
    BY <1>1, <1>3 DEF TypeOK, Goto
  <2>5. /\ \A u \in Tabs \ {a} : Locking(u)' /\ Expecting(u)'
        /\ \A i \in Importers \ {a} : Importing(i)'
    BY <1>1, <1>3, <2>4, Bystanders
  <2>6. /\ Changed(file)' = Changed(file) /\ Extended(file)' = Extended(file)
        /\ Unique(mem[a])' <=> Unique(mem[a])
    BY <1>1, <1>3 DEF Unique, Positions, RootsIn, Changed, Extended,
                      Registered, Updated, Removed
  <2>7. ASSUME a \in Tabs PROVE Locking(a)' /\ Expecting(a)'
    <3>1. Locking(a) /\ Expecting(a)
      BY <2>7 DEF IInv
    <3> QED BY <1>1, <1>3, <2>4, <2>6, <3>1 DEF Locking, Expecting, Critical, Writing
  <2>8. ASSUME a \in Importers PROVE Importing(a)'
    <3>1. Importing(a)
      BY <2>8 DEF IInv
    <3> QED BY <1>1, <1>3, <2>4, <2>6, <3>1 DEF Importing, Writing
  <2>9. \A u \in Actors : Fresh(u)'
    <3>1. \A q \in (Servers \cup Importers) \ {Proc(a)} : temp'[q] = temp[q]
      BY <1>1, <1>3 DEF TypeOK
    <3>2. Fresh(a)'
      BY <1>1, <1>3, <2>1 DEF TypeOK, Fresh
    <3> QED BY <1>1, <2>4, <3>1, <3>2, FreshStays DEF Writing
  <2> QED BY <2>2, <2>3, <2>5, <2>7, <2>8, <2>9 DEF IInv
<1> QED BY <1>2, <1>3 DEF Create

(* While a replaces the file, nobody else knows anything of it: other      *)
(* requests have not passed the lock, and imports are alone.               *)
LEMMA Alone ==
  ASSUME IInv, ~beside, NEW a \in Actors, pc[a] \in Critical
  PROVE  \A u \in Actors \ {a} : IF u \in Tabs THEN pc[u] \notin Critical
                                 ELSE pc[u] = "idle"
<1>1. ASSUME NEW u \in Actors \ {a}, u \in Importers PROVE pc[u] = "idle"
  BY <1>1 DEF IInv, Importing, Critical, Writing
<1>2. ASSUME NEW u \in Actors \ {a}, u \in Tabs PROVE pc[u] \notin Critical
  <2>1. CASE a \in Importers
    BY <1>2, <2>1 DEF IInv, Importing, Critical, Writing
  <2>2. CASE a \in Tabs
    BY <1>2, <2>2 DEF IInv, Locking
  <2> QED BY <2>1, <2>2 DEF Actors
<1> QED BY <1>1, <1>2 DEF Actors

(* The rename: what is saved is a list of different roots, and nobody else *)
(* relies on what it replaces.                                             *)
LEMMA RenameInv ==
  ASSUME IInv, NEW a \in Actors, Rename(a)
  PROVE  IInv'
<1>1. TypeOK /\ pc[a] = "rename" /\ temp[Proc(a)] = "own" /\ beside' = beside
  BY DEF IInv, Rename, Fresh
<1>2. CASE Fail(a) /\ file' = file
  BY <1>1, <1>2, ReturnInv DEF Fail, Writing
<1>3. CASE /\ file' = mem[a] /\ Goto(a, "sync")
           /\ temp' = [temp EXCEPT ![Proc(a)] = "none"]
           /\ mem' = [mem EXCEPT ![a] = None]
           /\ UNCHANGED <<rev, lock, op>>
  <2>1. mem[a] \in Seq(Roots) /\ Unique(mem[a])
    BY <1>1 DEF IInv, Expecting, Importing, Actors, Writing
  <2>2. TypeOK'
    <3>1. file' \in Files
      BY <1>3, <2>1, Contents
    <3> QED BY <1>1, <1>3, <3>1 DEF TypeOK, Goto, Pc
  <2>3. AlwaysLoads'
    BY <1>3, <2>1, Contents DEF AlwaysLoads, Loads, Unique, Positions, RootsIn
  <2>4. /\ pc'[a] = "sync"
        /\ \A u \in Actors \ {a} : pc'[u] = pc[u] /\ mem'[u] = mem[u]
    BY <1>1, <1>3 DEF TypeOK, Goto
  <2>5. ~beside => \A u \in Actors \ {a} : IF u \in Tabs THEN pc[u] \notin Critical
                                             ELSE pc[u] = "idle"
    BY <1>1, Alone DEF Critical, Writing
  <2>6. \A u \in Actors \ {a} : Unique(mem[u])' <=> Unique(mem[u])
    BY <2>4 DEF Unique, Positions, RootsIn
  <2>7. ASSUME NEW t \in Tabs \ {a} PROVE Locking(t)' /\ Expecting(t)'
    <3>1. /\ Locking(t) /\ Expecting(t) /\ pc'[t] = pc[t] /\ mem'[t] = mem[t] /\ t \in Actors
          /\ ~beside => pc[t] \notin Critical
      BY <2>4, <2>5 DEF IInv, Actors
    <3>2. Locking(t)'
      BY <1>3, <3>1 DEF Locking
    <3>3. Expecting(t)'
      BY <1>1, <1>3, <2>6, <3>1 DEF Expecting, Critical, Writing
    <3> QED BY <3>2, <3>3
  <2>8. ASSUME NEW i \in Importers \ {a} PROVE Importing(i)'
    <3>1. /\ Importing(i) /\ pc'[i] = pc[i] /\ mem'[i] = mem[i] /\ i \in Actors /\ i \notin Tabs
          /\ ~beside => pc[i] = "idle"
      BY <2>4, <2>5 DEF IInv, Actors
    <3> QED BY <1>1, <1>3, <2>6, <3>1 DEF Importing, Writing
  <2>9. ASSUME a \in Tabs PROVE Locking(a)' /\ Expecting(a)'
    <3>1. Locking(a) /\ Expecting(a)
      BY <2>9 DEF IInv
    <3> QED BY <1>1, <1>3, <2>4, <3>1 DEF Locking, Expecting, Critical, Writing
  <2>10. ASSUME a \in Importers PROVE Importing(a)'
    <3>1. Importing(a)
      BY <2>10 DEF IInv
    <3> QED BY <1>1, <1>3, <2>4, <3>1 DEF Importing, Writing
  <2>11. \A u \in Actors : Fresh(u)'
    <3>1. \A q \in (Servers \cup Importers) \ {Proc(a)} : temp'[q] = temp[q]
      BY <1>1, <1>3 DEF TypeOK
    <3>2. Fresh(a)'
      BY <2>4 DEF Fresh
    <3> QED BY <1>1, <2>4, <3>1, <3>2, FreshStays DEF Writing
  <2>12. \A t \in Tabs : Locking(t)' /\ Expecting(t)'
    BY <2>7, <2>9
  <2>13. \A i \in Importers : Importing(i)'
    BY <2>8, <2>10
  <2> QED BY <2>2, <2>3, <2>11, <2>12, <2>13 DEF IInv
<1> QED BY <1>1, <1>2, <1>3 DEF Rename

LEMMA CrashInv ==
  ASSUME IInv, NEW p \in Servers \cup Importers, Crash(p)
  PROVE  IInv'
<1> DEFINE dead == {a \in Actors : Proc(a) = p /\ pc[a] # "idle"}
<1>1. /\ TypeOK /\ AlwaysLoads /\ UNCHANGED <<file, beside>>
      /\ temp' = [temp EXCEPT ![p] = Remains(@)]
      /\ pc' = [a \in Actors |-> IF a \in dead THEN "idle" ELSE pc[a]]
      /\ mem' = [a \in Actors |-> IF a \in dead THEN None ELSE mem[a]]
      /\ op' = [t \in Tabs |-> IF t \in dead THEN None ELSE op[t]]
      /\ rev' = [t \in Tabs |-> IF t \in dead THEN None ELSE rev[t]]
      /\ lock' = IF lock \in dead THEN None ELSE lock
  BY DEF IInv, Crash
<1>2. TypeOK'
  BY <1>1 DEF TypeOK, Pc, Actors, Remains
<1>3. AlwaysLoads'
  BY <1>1 DEF AlwaysLoads, Loads, Unique, Positions, RootsIn
<1>4. \A u \in Actors : \/ u \in dead /\ pc'[u] = "idle"
                        \/ u \notin dead /\ pc'[u] = pc[u] /\ mem'[u] = mem[u]
  BY <1>1
<1>5. \A u \in Actors : pc[u] = "idle" => pc'[u] = "idle"
  BY <1>4
<1> HIDE DEF dead
<1>6. ASSUME NEW t \in Tabs PROVE Locking(t)' /\ Expecting(t)'
  <2>1. Locking(t) /\ Expecting(t) /\ t \in Actors
    BY DEF IInv, Actors
  <2>2. CASE t \in dead
    <3>1. pc'[t] = "idle" /\ lock' # t
      BY <1>1, <1>4, <2>1, <2>2
    <3> QED BY <3>1 DEF Locking, Expecting, Critical, Writing
  <2>3. CASE t \notin dead
    <3>1. /\ pc'[t] = pc[t] /\ mem'[t] = mem[t] /\ op'[t] = op[t] /\ rev'[t] = rev[t]
          /\ lock' = t <=> lock = t
      BY <1>1, <1>4, <2>1, <2>3
    <3>2. Locking(t)'
      BY <2>1, <3>1 DEF Locking
    <3>3. Expecting(t)'
      BY <1>1, <2>1, <3>1 DEF Expecting
    <3> QED BY <3>2, <3>3
  <2> QED BY <2>2, <2>3
<1>7. ASSUME NEW i \in Importers PROVE Importing(i)'
  <2>1. Importing(i) /\ i \in Actors
    BY DEF IInv, Actors
  <2>2. CASE i \in dead
    BY <1>4, <2>1, <2>2 DEF Importing, Writing
  <2>3. CASE i \notin dead
    <3>1. pc'[i] = pc[i] /\ mem'[i] = mem[i]
      BY <1>4, <2>1, <2>3
    <3>2. ~beside /\ pc'[i] # "idle" => \A u \in Actors \ {i} : pc'[u] = "idle"
      BY <1>5, <2>1, <3>1 DEF Importing
    <3> QED BY <1>1, <2>1, <3>1, <3>2 DEF Importing
  <2> QED BY <2>2, <2>3
<1>8. ASSUME NEW u \in Actors PROVE Fresh(u)'
  <2>1. CASE u \in dead
    BY <1>4, <2>1 DEF Fresh
  <2>2. CASE u \notin dead /\ pc[u] = "rename"
    <3>1. Proc(u) # p
      BY <2>2 DEF dead
    <3> QED BY <1>1, <1>4, <2>2, <3>1 DEF IInv, Fresh, TypeOK
  <2>3. CASE u \notin dead /\ pc[u] # "rename"
    BY <1>4, <2>3 DEF Fresh
  <2> QED BY <2>1, <2>2, <2>3
<1> QED BY <1>2, <1>3, <1>6, <1>7, <1>8 DEF IInv

LEMMA StepInv == IInv /\ [Next]_vars => IInv'
<1> SUFFICES ASSUME IInv, [Next]_vars PROVE IInv'
  OBVIOUS
<1>1. ASSUME NEW t \in Tabs, Look(t) PROVE IInv'
  BY <1>1, LookInv
<1>2. ASSUME NEW t \in Tabs, NEW r \in Requests, Submit(t, r) PROVE IInv'
  BY <1>2, SubmitInv
<1>3. ASSUME NEW i \in Importers, LoadImport(i) PROVE IInv'
  BY <1>3, LoadImportInv
<1>4. ASSUME NEW a \in Actors, Step(a) PROVE IInv'
  <2>1. CASE a \in Tabs /\ (Acquire(a) \/ Check(a) \/ Load(a))
    BY <2>1, AcquireInv, CheckInv, LoadInv
  <2>2. CASE Create(a)
    BY <2>2, CreateInv
  <2>3. CASE Rename(a)
    BY <2>3, RenameInv
  <2>4. CASE Sync(a)
    BY <2>4, ReturnInv DEF Sync
  <2> QED BY <1>4, <2>1, <2>2, <2>3, <2>4 DEF Step
<1>5. ASSUME NEW p \in Servers \cup Importers, Crash(p) PROVE IInv'
  BY <1>5, CrashInv
<1>6. CASE UNCHANGED vars
  <2>1. /\ UNCHANGED <<file, rev, beside, lock, temp, pc, op, mem>>
        /\ TypeOK /\ AlwaysLoads
    BY <1>6 DEF vars, IInv
  <2>2. TypeOK'
    BY <2>1 DEF TypeOK
  <2>3. AlwaysLoads'
    BY <2>1 DEF AlwaysLoads, Loads, Unique, Positions, RootsIn
  <2>4. ASSUME NEW t \in Tabs PROVE Locking(t)' /\ Expecting(t)'
    <3>1. Locking(t) /\ Expecting(t)
      BY DEF IInv
    <3> QED BY <2>1, <3>1 DEF Locking, Expecting
  <2>5. ASSUME NEW i \in Importers PROVE Importing(i)'
    <3>1. Importing(i)
      BY DEF IInv
    <3> QED BY <2>1, <3>1 DEF Importing
  <2>6. \A u \in Actors : Fresh(u)'
    BY <2>1 DEF IInv, Fresh
  <2> QED BY <2>2, <2>3, <2>4, <2>5, <2>6 DEF IInv
<1> QED BY <1>1, <1>2, <1>3, <1>4, <1>5, <1>6 DEF Next

(* What every request and every import may rely on at each of its steps.   *)
THEOREM Invariance == Spec => []IInv
<1> QED BY InitInv, StepInv, PTL DEF Spec

(* The configuration never holds a root twice, so it always loads, whoever *)
(* saves it when and wherever a process dies: even imports beside requests *)
(* keep this.                                                              *)
THEOREM AlwaysLoadsHolds == Spec => []AlwaysLoads
<1>1. IInv => AlwaysLoads
  BY DEF IInv
<1> QED BY <1>1, Invariance, PTL

-----------------------------------------------------------------------------
(* The refinement of AtomicConfig.                                         *)

(* A return only forgets the revision of its tab.                          *)
LEMMA ReturnForgets ==
  ASSUME NEW a \in Actors, TypeOK, Return(a), file' = file
  PROVE  Atomic!ANext
<1>1. rev' = [t \in Tabs |-> IF t \in {a} \cap Tabs THEN None ELSE rev[t]]
  BY DEF Return
<1>2. Atomic!AForget({a} \cap Tabs)
  BY <1>1 DEF Atomic!AForget
<1> QED BY <1>2 DEF Atomic!ANext

(* The operators of the instance are those of the module it extends.       *)
LEMMA SameOperators ==
  Atomic!Changed(file) = Changed(file) /\ Atomic!Extended(file) = Extended(file)
<1>1. Atomic!RootsIn(file) = RootsIn(file)
  BY DEF Atomic!RootsIn, RootsIn
<1>2. \A id : Atomic!Positions(file, id) = Positions(file, id)
  BY <1>1 DEF Atomic!Positions, Positions
<1>3. \A id, set : Atomic!Registered(file, id, set) = Registered(file, id, set)
  BY <1>1 DEF Atomic!Registered, Registered
<1>4. \A i, set : Atomic!Updated(file, i, set) = Updated(file, i, set)
  BY <1>1 DEF Atomic!Updated, Updated
<1>5. \A i : Atomic!Removed(file, i) = Removed(file, i)
  BY <1>1 DEF Atomic!Removed, Removed, Atomic!RemoveAt, RemoveAt
<1>6. {x \in Ids : Atomic!Positions(file, x) = {}} = {x \in Ids : Positions(file, x) = {}}
  BY <1>2
<1> QED BY <1>1, <1>3, <1>4, <1>5, <1>6
       DEF Atomic!Changed, Changed, Atomic!Extended, Extended

(* Every step is one of the atomic specification or none at all.           *)
LEMMA StepImplements ==
  ASSUME IInv, [Next]_vars
  PROVE  [Atomic!ANext]_<<file, rev>>
<1>1. TypeOK
  BY DEF IInv
<1>2. ASSUME NEW t \in Tabs, Look(t) PROVE Atomic!ANext
  BY <1>2 DEF Look, Atomic!ALook, Atomic!ANext
<1>3. ASSUME NEW t \in Tabs, NEW r \in Requests, Submit(t, r)
      PROVE  UNCHANGED <<file, rev>>
  BY <1>3 DEF Submit
<1>4. ASSUME NEW i \in Importers, LoadImport(i) PROVE UNCHANGED <<file, rev>>
  BY <1>4 DEF LoadImport
<1>5. ASSUME NEW a \in Actors, Step(a) PROVE [Atomic!ANext]_<<file, rev>>
  <2>1. CASE a \in Tabs /\ (Acquire(a) \/ Check(a) \/ Load(a))
    BY <1>1, <2>1, ReturnForgets
       DEF Acquire, Check, Load, LoadRegister, LoadUpdate, LoadRemove, Save
  <2>2. CASE Create(a)
    BY <1>1, <2>2, ReturnForgets DEF Create, Fail
  <2>3. CASE Rename(a)
    <3>1. CASE Fail(a) /\ UNCHANGED file
      BY <1>1, <3>1, ReturnForgets DEF Fail
    <3>2. CASE file' = mem[a] /\ rev' = rev
      <4>1. CASE a \in Tabs /\ ~beside
        <5>1. rev[a] = file /\ mem[a] \in Changed(file)
          BY <2>3, <4>1 DEF IInv, Expecting, Rename, Writing
        <5>2. Atomic!AChange(a)
          BY <3>2, <5>1, SameOperators DEF Atomic!AChange
        <5> QED BY <4>1, <5>2 DEF Atomic!ANext
      <4>2. CASE a \in Importers /\ ~beside
        <5>1. mem[a] \in Extended(file)
          BY <2>3, <4>2 DEF IInv, Importing, Rename, Writing
        <5>2. Atomic!AImport
          BY <3>2, <5>1, SameOperators DEF Atomic!AImport
        <5> QED BY <5>2 DEF Atomic!ANext
      <4>3. CASE beside
        <5>1. mem[a] \in Seq(Roots)
          BY <2>3 DEF IInv, Expecting, Importing, Rename, Actors, Writing
        <5>2. mem[a] \in Atomic!Files
          BY <5>1 DEF Atomic!Files, Atomic!Roots, Roots
        <5>3. Atomic!AOverwrite
          BY <3>2, <4>3, <5>2 DEF Atomic!AOverwrite
        <5> QED BY <5>3 DEF Atomic!ANext
      <4> QED BY <4>1, <4>2, <4>3 DEF Actors
    <3>3. temp[Proc(a)] = "own"
      BY <2>3 DEF IInv, Fresh, Rename
    <3> QED BY <2>3, <3>1, <3>2, <3>3 DEF Rename
  <2>4. CASE Sync(a)
    BY <1>1, <2>4, ReturnForgets DEF Sync
  <2> QED BY <1>5, <2>1, <2>2, <2>3, <2>4 DEF Step
<1>6. ASSUME NEW p \in Servers \cup Importers, Crash(p) PROVE Atomic!ANext
  <2> DEFINE dead == {a \in Actors : Proc(a) = p /\ pc[a] # "idle"}
  <2>1. file' = file /\ rev' = [t \in Tabs |-> IF t \in dead \cap Tabs THEN None ELSE rev[t]]
    BY <1>6 DEF Crash
  <2>2. Atomic!AForget(dead \cap Tabs)
    BY <2>1 DEF Atomic!AForget
  <2> QED BY <2>2 DEF Atomic!ANext
<1>7. CASE UNCHANGED vars
  BY <1>7 DEF vars
<1> QED BY <1>2, <1>3, <1>4, <1>5, <1>6, <1>7 DEF Next

(* Requests that race one another, fail half way or lose their server are  *)
(* atomic compare-and-sets of the configuration, as long as no import is   *)
(* run beside them.                                                        *)
THEOREM CompareAndSetHolds == Spec => CompareAndSet
<1>1. Init => Atomic!AInit
  BY DEF Init, AInit, Atomic!AInit
<1>2. IInv /\ [Next]_vars => [Atomic!ANext]_<<file, rev>>
  BY StepImplements
<1> QED BY <1>1, <1>2, Invariance, PTL DEF Spec, CompareAndSet, Atomic!ASpec

(* So nothing of the configuration is lost while they are apart.           *)
THEOREM OneChangeApart ==
  Spec => [][~beside /\ file' # file => file' \in Changed(file) \cup Extended(file)]_vars
<1>1. ASSUME IInv, [Next]_vars
      PROVE  [~beside /\ file' # file => file' \in Changed(file) \cup Extended(file)]_vars
  <2>1. [Atomic!ANext]_<<file, rev>>
    BY <1>1, StepImplements
  <2>2. ASSUME NEW t \in Tabs, Atomic!AChange(t) PROVE file' \in Changed(file)
    BY <2>2, SameOperators DEF Atomic!AChange
  <2>3. ASSUME Atomic!AImport PROVE file' \in Extended(file)
    BY <2>3, SameOperators DEF Atomic!AImport
  <2> QED BY <2>1, <2>2, <2>3
          DEF Atomic!ANext, Atomic!ALook, Atomic!AForget, Atomic!AOverwrite
<1> QED BY <1>1, Invariance, PTL DEF Spec
=============================================================================

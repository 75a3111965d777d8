-------------------------- MODULE DirectoryProofs ---------------------------
(***************************************************************************)
(* What directories hold.  A review decides on everything that is withheld *)
(* and on nothing else, for any number of paths and hashes; an             *)
(* installation of the browser is all or nothing, for any number of files, *)
(* installations, failures and crashes; and the scan of a root is exact,   *)
(* for any tree, any limits and whatever people do meanwhile.              *)
(***************************************************************************)
EXTENDS RootReview, Admission, BrowserInstall, FiniteSetTheorems,
        WellFoundedInduction, TLAPS

\* Only inventories that a root can have are compared.
ReviewTypeOK == baseline \in Roots /\ current \in Roots /\ complete \in BOOLEAN

ReviewInv == ReviewTypeOK /\ PendingIsExcluded /\ NothingIsSilent
-----------------------------------------------------------------------------
\* Of the members of S that are greater than one of them, a least set is empty.
LEMMA GreatestPath ==
  ASSUME NEW S \in SUBSET Paths, S # {}
  PROVE  \E m \in S : \A y \in S : m >= y
<1> DEFINE beyond(x) == {y \in S : y > x}
           T == {beyond(x) : x \in S}
<1>1. S \subseteq Int /\ IsFiniteSet(S)
  <2>1. IsFiniteSet(Paths)
    BY InventoryConstants, FS_Interval DEF Paths
  <2>2. IsFiniteSet(S)
    BY <2>1, FS_Subset
  <2>3. Paths \subseteq Int
    BY InventoryConstants DEF Paths
  <2>4. QED
    BY <2>2, <2>3
<1>2. IsWellFoundedOn(StrictSubsetOrdering(S), SUBSET S)
  BY <1>1, FS_FiniteSubsetsOfFinite, FS_StrictSubsetOrderingWellFounded
<1>3. T \subseteq SUBSET S /\ T # {}
  OBVIOUS
<1>4. \E U \in T : \A V \in T : <<V, U>> \notin StrictSubsetOrdering(S)
  <2> HIDE DEF T
  <2>1. QED
    BY <1>2, <1>3, WFMin
<1>5. PICK m \in S : \A V \in T : <<V, beyond(m)>> \notin StrictSubsetOrdering(S)
  BY <1>4
<1>6. ASSUME NEW y \in S, y > m
      PROVE  FALSE
  <2>1. beyond(y) \subseteq beyond(m)
    <3>1. SUFFICES ASSUME NEW z \in S, z > y
                   PROVE  z > m
      OBVIOUS
    <3>2. m \in Int /\ y \in Int /\ z \in Int
      BY <1>1
    <3>3. QED
      BY <1>6, <3>1, <3>2
  <2>2. y \in beyond(m) /\ y \notin beyond(y)
    BY <1>1, <1>6
  <2>3. beyond(y) \in T /\ beyond(y) \in SUBSET S /\ beyond(m) \in SUBSET S
    OBVIOUS
  <2> HIDE DEF beyond, T
  <2>4. <<beyond(y), beyond(m)>> \in StrictSubsetOrdering(S)
    BY <2>1, <2>2, <2>3 DEF StrictSubsetOrdering
  <2>5. QED
    BY <1>5, <2>3, <2>4
<1>7. QED
  BY <1>1, <1>5, <1>6

\* The old path of a rename candidate is one of its origins.
LEMMA OldPathIsOrigin ==
  ASSUME NEW old, NEW new, NEW p \in Renamed(old, new)
  PROVE  OldPath(old, new, p) \in Deleted(old, new)
<1> DEFINE S == Origins(old, new, p)
<1>1. S \in SUBSET Paths /\ S # {} /\ S \subseteq Deleted(old, new)
  BY DEF Renamed, Origins, Deleted
<1> HIDE DEF S
<1>2. \E m \in S : \A y \in S : m >= y
  BY <1>1, GreatestPath
<1>3. Max(S) \in S
  BY <1>2 DEF Max
<1>4. QED
  BY <1>1, <1>3 DEF OldPath, S

-----------------------------------------------------------------------------
\* Two entries of one path that are accepted, or resolvable, with the same
\* bytes are the same entry: the metadata of Markdown lie in its own bytes.
LEMMA BytesDecide ==
  ASSUME NEW old \in Roots, NEW new \in Roots, NEW whole \in BOOLEAN, NEW p \in Paths,
         Served(old, new, whole, p)
  PROVE  old[p] = new[p] /\ old[p] # None
<1>1. old[p] \in Possible(p) /\ new[p] \in Possible(p)
  BY DEF Roots
<1>2. /\ old[p] # None /\ old[p].state = "accepted" /\ old[p].hash = new[p].hash
      /\ new[p] # None
      /\ new[p].state \in IF p \in Resources THEN {"accepted"} ELSE {"accepted", "metadata_invalid"}
  BY DEF Served, Allows, Accepted, Resolvable
<1>3. CASE p \in Resources
  <2>1. /\ old[p] \in [state : {"accepted", "metadata_invalid"}, hash : Hashes]
        /\ new[p] \in [state : {"accepted", "metadata_invalid"}, hash : Hashes]
    BY <1>1, <1>2, <1>3 DEF Possible, Rejection
  <2>2. new[p].state = "accepted"
    BY <1>2, <1>3
  <2>3. QED
    BY <1>2, <2>1, <2>2
<1>4. CASE p \notin Resources
  <2>1. PICK g \in Hashes : old[p] = Entry(g)
    BY <1>1, <1>2, <1>4 DEF Possible, Rejection
  <2>2. PICK h \in Hashes : new[p] = Entry(h)
    BY <1>1, <1>2, <1>4 DEF Possible, Rejection
  <2>3. g = h
    BY <1>2, <2>1, <2>2 DEF Entry
  <2>4. QED
    BY <1>2, <2>1, <2>2, <2>3
<1>5. QED
  BY <1>3, <1>4

\* What changed, vanished or is new is named.
LEMMA ChangeNames ==
  ASSUME NEW p \in Paths,
         baseline[p] # current[p],
         Accepted(current, p) \/ Accepted(baseline, p)
  PROVE  p \in Noticed
<1>1. ASSUME NEW c \in Changes(baseline, current), p \in Named(c)
      PROVE  p \in Noticed
  BY <1>1 DEF Noticed
<1>2. ASSUME NEW kind, NEW old, Change(kind, p, old) \in Changes(baseline, current)
      PROVE  p \in Noticed
  <2>1. p \in Named(Change(kind, p, old))
    BY DEF Named, Change
  <2>2. QED
    BY <1>1, <1>2, <2>1
<1>3. CASE baseline[p] # None /\ current[p] # None
  <2>1. \E kind : Change(kind, p, None) \in Altered(baseline, current)
    BY <1>3, Zenon DEF Altered
  <2>2. QED
    BY <1>2, <2>1 DEF Changes
<1>4. CASE baseline[p] = None
  <2>1. p \in Added(baseline, current)
    BY <1>4 DEF Added, Accepted
  <2>2. \E kind, old : Change(kind, p, old) \in Arrived(baseline, current)
    BY <2>1, Zenon DEF Arrived
  <2>3. QED
    BY <1>2, <2>2 DEF Changes
<1>5. CASE current[p] = None
  <2>1. p \in Deleted(baseline, current)
    BY <1>5 DEF Deleted, Accepted
  <2>2. CASE \E q \in Renamed(baseline, current) : p = OldPath(baseline, current, q)
    <3>1. PICK q \in Renamed(baseline, current) : p = OldPath(baseline, current, q)
      BY <2>2
    <3>2. Change("renamed_candidate", q, p) \in Changes(baseline, current)
      BY <3>1, Zenon DEF Arrived, Changes
    <3>3. p \in Named(Change("renamed_candidate", q, p))
      BY InventoryConstants DEF Named, Change
    <3>4. QED
      BY <1>1, <3>2, <3>3
  <2>3. CASE ~\E q \in Renamed(baseline, current) : p = OldPath(baseline, current, q)
    <3>1. Change("deleted", p, None) \in Gone(baseline, current)
      BY <2>1, <2>3, Zenon DEF Gone
    <3>2. QED
      BY <1>2, <3>1 DEF Changes
  <2>4. QED
    BY <2>2, <2>3
<1>6. QED
  BY <1>3, <1>4, <1>5

\* A path that is named has changed, or one of its two entries is missing.
LEMMA NamedChanged ==
  ASSUME NEW p \in Noticed
  PROVE  p \in Paths /\ (baseline[p] # current[p] \/ baseline[p] = None)
<1>1. PICK c \in Changes(baseline, current) : p \in Named(c)
  BY DEF Noticed
<1>2. CASE c \in Altered(baseline, current) \cup Appeared(baseline, current)
  <2>1. c.path \in Paths /\ c.previous = None
        /\ (baseline[c.path] # current[c.path] \/ baseline[c.path] = None)
    BY <1>2 DEF Altered, Appeared, Change
  <2>2. QED
    BY <1>1, <2>1 DEF Named
<1>3. CASE c \in Arrived(baseline, current)
  <2>1. CASE \E r \in Renamed(baseline, current) :
                c = Change("renamed_candidate", r, OldPath(baseline, current, r))
    <3>1. PICK r \in Renamed(baseline, current) :
                c = Change("renamed_candidate", r, OldPath(baseline, current, r))
      BY <2>1
    <3>2. OldPath(baseline, current, r) \in Deleted(baseline, current)
      BY OldPathIsOrigin
    <3>3. r \in Paths /\ baseline[r] = None
      BY DEF Renamed, Added
    <3>4. p \in {r, OldPath(baseline, current, r)}
      BY <1>1, <3>1 DEF Named, Change
    <3>5. QED
      BY <3>2, <3>3, <3>4 DEF Deleted, Accepted
  <2>2. CASE \E r \in Added(baseline, current) : c = Change("added", r, None)
    <3>1. c.path \in Paths /\ c.previous = None /\ baseline[c.path] = None
      BY <2>2 DEF Added, Change
    <3>2. QED
      BY <1>1, <3>1 DEF Named
  <2>3. QED
    BY <1>3, <2>1, <2>2 DEF Arrived
<1>4. CASE c \in Gone(baseline, current)
  <2>1. c.path \in Deleted(baseline, current) /\ c.previous = None
    BY <1>4 DEF Gone, Change
  <2>2. QED
    BY <1>1, <2>1 DEF Named, Deleted, Accepted
<1>5. QED
  BY <1>2, <1>3, <1>4 DEF Changes

-----------------------------------------------------------------------------
(* Whatever a pending change names is excluded from document responses, in *)
(* every root and for every baseline (allows, resolve_admitted_file).      *)
LEMMA ComparisonExcludes ==
  ASSUME ReviewTypeOK
  PROVE  PendingIsExcluded
<1> SUFFICES ASSUME NEW p \in Noticed, Served(baseline, current, complete, p)
             PROVE  FALSE
  BY DEF PendingIsExcluded
<1>1. p \in Paths /\ (baseline[p] # current[p] \/ baseline[p] = None)
  BY NamedChanged
<1>2. baseline[p] = current[p] /\ baseline[p] # None
  BY <1>1, BytesDecide DEF ReviewTypeOK
<1>3. QED
  BY <1>1, <1>2

(* What is accepted now or was accepted is served or named, if the scan    *)
(* that says so is complete.                                               *)
LEMMA ComparisonTells == NothingIsSilent
<1> SUFFICES ASSUME complete, NEW p \in Paths,
                    Accepted(current, p) \/ Accepted(baseline, p),
                    ~Served(baseline, current, complete, p)
             PROVE  p \in Noticed
  BY DEF NothingIsSilent
<1>1. baseline[p] # current[p]
  <2>1. SUFFICES ASSUME baseline[p] = current[p]
                 PROVE  FALSE
    OBVIOUS
  <2>2. Accepted(baseline, p) /\ Accepted(current, p) /\ baseline[p].hash = current[p].hash
    BY <2>1 DEF Accepted
  <2>3. QED
    BY <2>2 DEF Served, Resolvable, Allows, Accepted
<1>2. QED
  BY <1>1, ChangeNames

\* Both inventories stay among those a root can have.
THEOREM ReviewInvariance == ReviewSpec => []ReviewInv
<1>1. ReviewInit => ReviewTypeOK
  BY DEF ReviewInit, ReviewTypeOK
<1>2. ReviewTypeOK /\ [Accept]_reviewVars => ReviewTypeOK'
  BY DEF ReviewTypeOK, Accept, reviewVars, Roots, Inventories, Possible
<1>3. ReviewTypeOK => ReviewInv
  BY ComparisonExcludes, ComparisonTells DEF ReviewInv
<1>4. QED
  BY <1>1, <1>2, <1>3, PTL DEF ReviewSpec

(* Nothing is served that a review still has to decide on.                 *)
THEOREM PendingIsExcludedHolds == ReviewSpec => []PendingIsExcluded
<1>1. ReviewInv => PendingIsExcluded
  BY DEF ReviewInv
<1>2. QED
  BY <1>1, ReviewInvariance, PTL

(* Nothing is withheld, and nothing goes, without a change that names it,  *)
(* as long as the scan of the root is complete.                            *)
THEOREM NothingIsSilentHolds == ReviewSpec => []NothingIsSilent
<1>1. ReviewInv => NothingIsSilent
  BY DEF ReviewInv
<1>2. QED
  BY <1>1, ReviewInvariance, PTL

-----------------------------------------------------------------------------
\* A directory with a manifest has the files the manifest names.
Whole(d) ==
  d.manifest # 0 =>
    \A f \in Assets : f \in DOMAIN d.files
                       /\ (d.files[f] = d.manifest \/ d.files[f] > LastVersion)

Good(d) ==
  d # NoDirectory =>
    /\ d = [files |-> d.files, manifest |-> d.manifest]
    /\ d.manifest \in 0..LastVersion
    /\ Whole(d)

InstallTypeOK ==
  /\ installs \in Seq([at : {"copy", "stage", "aside", "activate", "rollback", "discard", "over"},
                       version : Versions])
  /\ Len(installs) <= MaxInstalls
  /\ DOMAIN staging = Installs /\ DOMAIN backup = Installs
  /\ written \subseteq [file : Assets \cup Notes, text : Nat]
  /\ incidents \in [texts : Nat, failures : Nat, crashes : Nat, beside : BOOLEAN]

AllGood == Good(browser) /\ \A n \in Installs : Good(staging[n]) /\ Good(backup[n])

\* The installation that began last, and whether it is the only one.
Last == Len(installs)
LastAt == IF Last = 0 THEN "over" ELSE installs[Last].at
Single == \A n \in 1..Last : n # Last => installs[n].at = "over"

\* What may leave a text in a backup only.
Troubles == incidents.crashes > 0 \/ incidents.failures >= 2
InBackup(w) == \E m \in Installs : (LastAt # "over" => m # Last) /\ Holds(backup[m], w)

\* Where a text is at each step of the installation.
Safe(w) ==
  \/ Troubles /\ InBackup(w)
  \/ LastAt \in {"over", "discard"} /\ Holds(browser, w)
  \/ LastAt = "copy" /\ Holds(browser, w) /\ w.file \notin Assets
  \/ /\ LastAt \in {"stage", "aside"} /\ w.file \notin Assets
     /\ Holds(browser, w) /\ Holds(staging[Last], w)
  \/ LastAt = "activate" /\ Holds(staging[Last], w) /\ Holds(backup[Last], w)
  \/ LastAt = "rollback" /\ incidents.failures > 0 /\ Holds(backup[Last], w)

SingleInv ==
  /\ Single
  /\ LastAt \in {"activate", "rollback"} => browser = NoDirectory
  /\ \A m \in Installs : m > Last \/ (m = Last /\ LastAt \in {"copy", "stage", "aside"})
                           => backup[m] = NoDirectory
  /\ \A w \in written : w.text > LastVersion /\ Safe(w)

InstallInv == InstallTypeOK /\ AllGood /\ (~incidents.beside => SingleInv)
-----------------------------------------------------------------------------
States == {"copy", "stage", "aside", "activate", "rollback", "discard", "over"}
Rows == [at : States, version : Versions]

\* The last installation is the one that runs, if it is the only one.
LEMMA UnderType ==
  ASSUME InstallTypeOK, NEW n, NEW at, Under(n, at)
  PROVE  /\ n \in 1..Last /\ n \in Installs /\ Last \in Nat \ {0}
         /\ installs[n] \in Rows /\ installs[n].at = at
<1>1. installs \in Seq(Rows)
  BY DEF InstallTypeOK, Rows, States
<1>2. n \in 1..Last /\ installs[n].at = at
  BY <1>1 DEF Under, Last
<1>3. installs[n] \in Rows
  BY <1>1, <1>2 DEF Last
<1>4. n \in Installs /\ Last \in Nat \ {0}
  BY <1>2, InstallConstants DEF InstallTypeOK, Last, Installs
<1>5. QED
  BY <1>2, <1>3, <1>4

LEMMA AdvanceType ==
  ASSUME InstallTypeOK, NEW n \in 1..Last, NEW at \in States, Advance(n, at)
  PROVE  /\ installs' \in Seq(Rows) /\ Last' = Last
         /\ installs'[n].at = at
         /\ \A m \in 1..Last : m # n => installs'[m] = installs[m]
<1>1. installs \in Seq(Rows) /\ installs[n] \in Rows
  <2>1. installs \in Seq(Rows)
    BY DEF InstallTypeOK, Rows, States
  <2>2. QED
    BY <2>1 DEF Last
<1>2. [installs[n] EXCEPT !.at = at] \in Rows /\ [installs[n] EXCEPT !.at = at].at = at
  BY <1>1 DEF Rows
<1>3. installs' = [installs EXCEPT ![n] = [installs[n] EXCEPT !.at = at]]
  BY DEF Advance
<1>4. QED
  BY <1>1, <1>2, <1>3 DEF Last

LEMMA InstallTypes == InstallTypeOK /\ [InstallNext]_installVars => InstallTypeOK'
<1> DEFINE I == [texts : Nat, failures : Nat, crashes : Nat, beside : BOOLEAN]
<1> SUFFICES ASSUME InstallTypeOK, [InstallNext]_installVars
             PROVE  InstallTypeOK'
  OBVIOUS
<1>1. ASSUME NEW n \in Installs, NEW at, NEW to \in States, Under(n, at), Advance(n, to),
             DOMAIN staging' = Installs, DOMAIN backup' = Installs,
             written' = written, incidents' \in I
      PROVE  InstallTypeOK'
  <2>1. n \in 1..Last
    BY <1>1, UnderType
  <2>2. installs' \in Seq(Rows) /\ Last' = Last
    BY <1>1, <2>1, AdvanceType
  <2>3. QED
    BY <1>1, <2>2 DEF InstallTypeOK, Rows, States, Last
<1>2. ASSUME NEW b \in BOOLEAN, Troubled(b)
      PROVE  incidents' \in I
  BY <1>2 DEF Troubled, InstallTypeOK
<1>3. DOMAIN staging = Installs /\ DOMAIN backup = Installs /\ incidents \in I
  BY DEF InstallTypeOK
<1>4. ASSUME NEW v \in Versions, NEW force \in BOOLEAN, Install(v, force)
      PROVE  InstallTypeOK'
  <2>1. PICK at \in {"over", "copy"} : installs' = Append(installs, [at |-> at, version |-> v])
    BY <1>4 DEF Install
  <2>2. installs' \in Seq(Rows) /\ Len(installs') <= MaxInstalls
    BY <1>4, <2>1, InstallConstants DEF Install, InstallTypeOK, Rows, States
  <2>3. incidents' \in I /\ written' \subseteq written
    BY <1>4 DEF Install, InstallTypeOK
  <2>4. QED
    BY <1>3, <1>4, <2>2, <2>3 DEF Install, InstallTypeOK, Rows, States
<1>5. ASSUME NEW n \in Installs,
             Copy(n) \/ StageAssets(n) \/ RenameAside(n) \/ ActivateAssets(n) \/ RollBackInstall(n)
      PROVE  InstallTypeOK'
  <2>1. CASE Copy(n)
    BY <1>1, <1>2, <1>3, <2>1 DEF Copy, States
  <2>2. CASE StageAssets(n)
    BY <1>1, <1>2, <1>3, <2>2 DEF StageAssets, States
  <2>3. CASE RenameAside(n)
    BY <1>1, <1>2, <1>3, <2>3 DEF RenameAside, States
  <2>4. CASE ActivateAssets(n)
    BY <1>1, <1>2, <1>3, <2>4 DEF ActivateAssets, States
  <2>5. CASE RollBackInstall(n)
    BY <1>1, <1>2, <1>3, <2>5 DEF RollBackInstall, States
  <2>6. QED
    BY <1>5, <2>1, <2>2, <2>3, <2>4, <2>5
<1>6. ASSUME NEW n \in Installs, Discard(n)
      PROVE  InstallTypeOK'
  BY <1>1, <1>3, <1>6 DEF Discard, States
<1>7. ASSUME NEW n \in Installs, Killed(n)
      PROVE  InstallTypeOK'
  <2>1. Under(n, installs[n].at)
    BY <1>7 DEF Killed, Active, Under
  <2>2. incidents' \in I
    BY <1>3, <1>7 DEF Killed
  <2>3. QED
    BY <1>1, <1>3, <1>7, <2>1, <2>2 DEF Killed, States
<1>8. ASSUME NEW f \in Assets \cup Notes, WriteText(f)
      PROVE  InstallTypeOK'
  <2>1. incidents' \in I
    BY <1>3, <1>8 DEF WriteText
  <2>2. LastVersion + incidents.texts + 1 \in Nat
    BY <1>3, InstallConstants
  <2>3. written' \subseteq [file : Assets \cup Notes, text : Nat]
    BY <1>8, <2>2 DEF WriteText, InstallTypeOK
  <2>4. QED
    BY <1>8, <2>1, <2>3 DEF WriteText, InstallTypeOK
<1>9. CASE UNCHANGED installVars
  BY <1>9 DEF installVars, InstallTypeOK
<1>10. QED
  BY <1>4, <1>5, <1>6, <1>7, <1>8, <1>9 DEF InstallNext

-----------------------------------------------------------------------------
\* The directories that an installation makes and that people write into.
LEMMA EmptyGood == Good(Bare)
  BY InstallConstants DEF Good, Whole, Bare

LEMMA StagedGood ==
  ASSUME NEW v \in Versions, NEW D, NEW g
  PROVE  Good([files |-> [f \in D \cup Assets |-> IF f \in Assets THEN v ELSE g[f]], manifest |-> v])
  BY InstallConstants DEF Good, Whole, Versions

LEMMA WrittenGood ==
  ASSUME NEW d, Good(d), d # NoDirectory, NEW f, NEW text \in Nat, text > LastVersion
  PROVE  Good([d EXCEPT !.files = [g \in DOMAIN d.files \cup {f} |-> IF g = f THEN text ELSE d.files[g]]])
<1> DEFINE files == [g \in DOMAIN d.files \cup {f} |-> IF g = f THEN text ELSE d.files[g]]
           e == [files |-> files, manifest |-> d.manifest]
<1>1. [d EXCEPT !.files = files] = e
  BY DEF Good
<1>2. DOMAIN files = DOMAIN d.files \cup {f} /\ \A g \in DOMAIN files : files[g] = IF g = f THEN text ELSE d.files[g]
  OBVIOUS
<1> HIDE DEF files
<1>3. e.files = files /\ e.manifest = d.manifest
  OBVIOUS
<1>4. Whole(e)
  BY <1>2, <1>3 DEF Good, Whole
<1>5. Good(e)
  BY <1>3, <1>4 DEF Good
<1>6. QED
  BY <1>1, <1>5 DEF files

LEMMA GoodStays == InstallTypeOK /\ AllGood /\ [InstallNext]_installVars => AllGood'
<1> SUFFICES ASSUME InstallTypeOK, AllGood, [InstallNext]_installVars
             PROVE  AllGood'
  OBVIOUS
<1>1. /\ Good(NoDirectory) /\ Good(browser)
      /\ \A n \in Installs : Good(staging[n]) /\ Good(backup[n])
      /\ DOMAIN staging = Installs /\ DOMAIN backup = Installs
  BY DEF AllGood, Good, InstallTypeOK
<1>2. ASSUME NEW n \in Installs, NEW d, Good(d), staging' = [staging EXCEPT ![n] = d]
      PROVE  \A m \in Installs : Good(staging'[m])
  BY <1>1, <1>2
<1>3. ASSUME NEW n \in Installs, NEW d, Good(d), backup' = [backup EXCEPT ![n] = d]
      PROVE  \A m \in Installs : Good(backup'[m])
  BY <1>1, <1>3
<1>4. ASSUME NEW n \in Installs, Copy(n)
      PROVE  AllGood'
  BY <1>1, <1>2, <1>4, EmptyGood DEF Copy, AllGood
<1>5. ASSUME NEW n \in Installs, StageAssets(n)
      PROVE  AllGood'
  <2>1. installs[n].version \in Versions
    BY <1>5, UnderType DEF StageAssets, Rows
  <2>2. PICK d : Good(d) /\ staging' = [staging EXCEPT ![n] = d]
    BY <1>1, <1>5, <2>1, StagedGood DEF StageAssets
  <2>3. QED
    BY <1>1, <1>2, <1>5, <2>2 DEF StageAssets, AllGood
<1>6. ASSUME NEW n \in Installs, RenameAside(n)
      PROVE  AllGood'
  BY <1>1, <1>2, <1>3, <1>6 DEF RenameAside, AllGood
<1>7. ASSUME NEW n \in Installs, ActivateAssets(n)
      PROVE  AllGood'
  BY <1>1, <1>2, <1>3, <1>7 DEF ActivateAssets, AllGood
<1>8. ASSUME NEW n \in Installs, RollBackInstall(n)
      PROVE  AllGood'
  BY <1>1, <1>2, <1>3, <1>8 DEF RollBackInstall, AllGood
<1>9. ASSUME NEW n \in Installs, Discard(n)
      PROVE  AllGood'
  BY <1>1, <1>2, <1>3, <1>9 DEF Discard, AllGood
<1>10. ASSUME NEW f, WriteText(f)
       PROVE  AllGood'
  <2>1. LastVersion + incidents.texts + 1 \in Nat /\ LastVersion + incidents.texts + 1 > LastVersion
    BY InstallConstants DEF InstallTypeOK
  <2>2. Good(browser')
    BY <1>1, <1>10, <2>1, WrittenGood DEF WriteText
  <2>3. QED
    BY <1>1, <1>10, <2>2 DEF WriteText, AllGood
<1>11. ASSUME UNCHANGED <<browser, staging, backup>>
       PROVE  AllGood'
  BY <1>11 DEF AllGood
<1>12. QED
  BY <1>4, <1>5, <1>6, <1>7, <1>8, <1>9, <1>10, <1>11
     DEF InstallNext, Install, Killed, installVars

-----------------------------------------------------------------------------
\* A step of the only installation.
LEMMA SingleAdvance ==
  ASSUME InstallTypeOK, Single, NEW n, NEW at, at # "over", Under(n, at),
         NEW to \in States, Advance(n, to)
  PROVE  /\ n = Last /\ LastAt = at /\ Last' = Last /\ LastAt' = to /\ Single'
         /\ Last \in Installs /\ Last \in Nat \ {0}
<1>1. /\ n \in 1..Last /\ n \in Installs /\ Last \in Nat \ {0}
      /\ installs[n] \in Rows /\ installs[n].at = at
  BY UnderType
<1>2. n = Last
  BY <1>1 DEF Single
<1>3. /\ Last' = Last /\ installs'[n].at = to
      /\ \A m \in 1..Last : m # n => installs'[m] = installs[m]
  BY <1>1, AdvanceType
<1>4. LastAt = at /\ LastAt' = to
  BY <1>1, <1>2, <1>3 DEF LastAt
<1>5. Single'
  BY <1>2, <1>3 DEF Single
<1>6. QED
  BY <1>1, <1>2, <1>3, <1>4, <1>5

\* Failures and crashes are not forgotten.
LEMMA TroublesGrow ==
  ASSUME InstallTypeOK, NEW b \in BOOLEAN, Troubled(b)
  PROVE  /\ Troubles => Troubles'
         /\ b => incidents'.failures > 0
         /\ b /\ incidents.failures > 0 => Troubles'
         /\ incidents'.beside = incidents.beside
<1>1. incidents.failures \in Nat /\ incidents.crashes \in Nat
  BY DEF InstallTypeOK
<1>2. /\ incidents'.crashes = incidents.crashes /\ incidents'.beside = incidents.beside
      /\ incidents'.failures = incidents.failures + IF b THEN 1 ELSE 0
  BY <1>1 DEF Troubled, InstallTypeOK
<1>3. QED
  BY <1>1, <1>2 DEF Troubles

LEMMA CopySafe ==
  ASSUME InstallInv, SingleInv, NEW n \in Installs, Copy(n)
  PROVE  SingleInv'
<1>1. PICK failed \in BOOLEAN :
        /\ Troubled(failed)
        /\ staging' = [staging EXCEPT ![n] =
             IF browser = NoDirectory THEN Bare ELSE browser]
        /\ Advance(n, IF failed THEN "over" ELSE "stage")
  BY DEF Copy
<1> DEFINE to == IF failed THEN "over" ELSE "stage"
<1>2. /\ n = Last /\ LastAt = "copy" /\ Last' = Last /\ LastAt' = to /\ Single'
      /\ Last \in Installs
  BY <1>1, SingleAdvance DEF InstallInv, SingleInv, Copy, States
<1>3. Troubles => Troubles'
  BY <1>1, TroublesGrow DEF InstallInv
<1>4. UNCHANGED <<browser, backup, written>>
  BY DEF Copy
<1>5. ASSUME NEW w \in written
      PROVE  Safe(w)'
  <2>1. Safe(w)
    BY DEF SingleInv
  <2>2. CASE Troubles /\ InBackup(w)
    BY <1>2, <1>3, <1>4, <2>2 DEF Safe, InBackup
  <2>3. CASE Holds(browser, w) /\ w.file \notin Assets
    <3>1. DOMAIN staging = Installs
      BY DEF InstallInv, InstallTypeOK
    <3>2. browser # NoDirectory
      BY <2>3 DEF Holds
    <3>3. staging'[Last] = browser
      BY <1>1, <1>2, <3>1, <3>2
    <3>4. QED
      BY <1>2, <1>4, <2>3, <3>3 DEF Safe
  <2>4. QED
    BY <1>2, <2>1, <2>2, <2>3 DEF Safe
<1>6. QED
  BY <1>2, <1>4, <1>5 DEF SingleInv

LEMMA StageSafe ==
  ASSUME InstallInv, SingleInv, NEW n \in Installs, StageAssets(n)
  PROVE  SingleInv'
<1> DEFINE v == installs[n].version
           d == staging[n]
           files == [f \in DOMAIN d.files \cup Assets |-> IF f \in Assets THEN v ELSE d.files[f]]
<1>1. PICK failed \in BOOLEAN :
        /\ Troubled(failed)
        /\ staging' = [staging EXCEPT ![n] =
             IF failed THEN NoDirectory ELSE [files |-> files, manifest |-> v]]
        /\ Advance(n, IF failed THEN "over" ELSE "aside")
  BY DEF StageAssets
<1> DEFINE to == IF failed THEN "over" ELSE "aside"
<1>2. /\ n = Last /\ LastAt = "stage" /\ Last' = Last /\ LastAt' = to /\ Single'
      /\ Last \in Installs
  BY <1>1, SingleAdvance DEF InstallInv, SingleInv, StageAssets, States
<1>3. Troubles => Troubles'
  BY <1>1, TroublesGrow DEF InstallInv
<1>4. UNCHANGED <<browser, backup, written>>
  BY DEF StageAssets
<1>5. ASSUME NEW w \in written
      PROVE  Safe(w)'
  <2>1. Safe(w)
    BY DEF SingleInv
  <2>2. CASE Troubles /\ InBackup(w)
    BY <1>2, <1>3, <1>4, <2>2 DEF Safe, InBackup
  <2>3. CASE w.file \notin Assets /\ Holds(browser, w) /\ Holds(staging[Last], w)
    <3>1. DOMAIN staging = Installs
      BY DEF InstallInv, InstallTypeOK
    <3>2. CASE failed
      BY <1>2, <1>4, <2>3, <3>2 DEF Safe
    <3>3. CASE ~failed
      <4>1. w.file \in DOMAIN files /\ files[w.file] = w.text
        BY <1>2, <2>3 DEF Holds
      <4> HIDE DEF files
      <4>2. staging'[Last] = [files |-> files, manifest |-> v]
        BY <1>1, <1>2, <3>1, <3>3
      <4>3. v \in Versions
        BY UnderType DEF StageAssets, InstallInv, Rows
      <4> HIDE DEF v
      <4>4. staging'[Last] # NoDirectory
        BY <4>2, <4>3 DEF NoDirectory, Versions
      <4>5. QED
        BY <1>2, <1>4, <2>3, <3>3, <4>1, <4>2, <4>4 DEF Safe, Holds
    <3>4. QED
      BY <3>2, <3>3
  <2>4. QED
    BY <1>2, <2>1, <2>2, <2>3 DEF Safe
<1>6. QED
  BY <1>2, <1>4, <1>5 DEF SingleInv

LEMMA AsideSafe ==
  ASSUME InstallInv, SingleInv, NEW n \in Installs, RenameAside(n)
  PROVE  SingleInv'
<1>1. PICK failed \in BOOLEAN :
        /\ Troubled(failed)
        /\ IF failed THEN Advance(n, "over") /\ UNCHANGED <<browser, staging, backup>>
           ELSE IF browser = NoDirectory
           THEN /\ browser' = staging[n]
                /\ staging' = [staging EXCEPT ![n] = NoDirectory]
                /\ Advance(n, "over") /\ UNCHANGED backup
           ELSE /\ backup' = [backup EXCEPT ![n] = browser]
                /\ browser' = NoDirectory
                /\ Advance(n, "activate") /\ UNCHANGED staging
  BY DEF RenameAside
<1>2. Under(n, "aside") /\ written' = written /\ DOMAIN backup = Installs
  BY DEF RenameAside, InstallInv, InstallTypeOK
<1>3. Troubles => Troubles'
  BY <1>1, TroublesGrow DEF InstallInv
<1>4. n = Last /\ LastAt = "aside" /\ Last \in Installs /\ Last \in Nat
  BY <1>1, <1>2, SingleAdvance DEF InstallInv, SingleInv, States
<1>5. CASE failed \/ browser = NoDirectory
  <2>1. Advance(n, "over") /\ backup' = backup
    BY <1>1, <1>5
  <2>2. Last' = Last /\ LastAt' = "over" /\ Single'
    BY <1>2, <2>1, SingleAdvance DEF InstallInv, SingleInv, States
  <2>3. ASSUME NEW w \in written
        PROVE  Safe(w)'
    <3>1. (Troubles /\ InBackup(w)) \/ Holds(browser, w)
      BY <1>4 DEF SingleInv, Safe
    <3>2. CASE Troubles /\ InBackup(w)
      BY <1>3, <2>1, <2>2, <3>2 DEF Safe, InBackup
    <3>3. CASE Holds(browser, w)
      <4>1. browser' = browser
        BY <1>1, <1>5, <3>3 DEF Holds
      <4>2. QED
        BY <2>2, <3>3, <4>1 DEF Safe
    <3>4. QED
      BY <3>1, <3>2, <3>3
  <2>4. QED
    BY <1>2, <2>1, <2>2, <2>3 DEF SingleInv
<1>6. CASE ~failed /\ browser # NoDirectory
  <2>1. /\ backup' = [backup EXCEPT ![n] = browser] /\ browser' = NoDirectory
        /\ Advance(n, "activate") /\ staging' = staging
    BY <1>1, <1>6
  <2>2. Last' = Last /\ LastAt' = "activate" /\ Single'
    BY <1>2, <2>1, SingleAdvance DEF InstallInv, SingleInv, States
  <2>3. backup'[Last] = browser /\ \A m \in Installs : m # Last => backup'[m] = backup[m]
    BY <1>2, <1>4, <2>1
  <2>4. ASSUME NEW w \in written
        PROVE  Safe(w)'
    <3>1. (Troubles /\ InBackup(w)) \/ (Holds(browser, w) /\ Holds(staging[Last], w))
      BY <1>4 DEF SingleInv, Safe
    <3>2. CASE Troubles /\ InBackup(w)
      <4>1. PICK m \in Installs : m # Last /\ Holds(backup[m], w)
        BY <1>4, <3>2 DEF InBackup
      <4>2. m # Last' /\ Holds(backup'[m], w)
        BY <2>2, <2>3, <4>1
      <4>3. InBackup(w)'
        BY <4>2 DEF InBackup
      <4>4. QED
        BY <1>3, <3>2, <4>3 DEF Safe
    <3>3. CASE Holds(browser, w) /\ Holds(staging[Last], w)
      BY <2>1, <2>2, <2>3, <3>3 DEF Safe
    <3>4. QED
      BY <3>1, <3>2, <3>3
  <2>5. \A m \in Installs : m > Last => backup'[m] = NoDirectory
    BY <1>4, <2>3 DEF SingleInv, Installs
  <2>6. QED
    BY <1>2, <2>1, <2>2, <2>4, <2>5 DEF SingleInv
<1>7. QED
  BY <1>5, <1>6

LEMMA ActivateSafe ==
  ASSUME InstallInv, SingleInv, NEW n \in Installs, ActivateAssets(n)
  PROVE  SingleInv'
<1>1. PICK failed \in BOOLEAN :
        /\ Troubled(failed)
        /\ IF failed \/ browser # NoDirectory
           THEN Advance(n, "rollback") /\ UNCHANGED <<browser, staging>>
           ELSE /\ browser' = staging[n]
                /\ staging' = [staging EXCEPT ![n] = NoDirectory]
                /\ Advance(n, "discard")
  BY DEF ActivateAssets
<1>2. Under(n, "activate") /\ UNCHANGED <<backup, written>>
  BY DEF ActivateAssets
<1>3. (Troubles => Troubles') /\ (failed => incidents'.failures > 0)
  BY <1>1, TroublesGrow DEF InstallInv
<1>4. n = Last /\ LastAt = "activate"
  BY <1>1, <1>2, SingleAdvance DEF InstallInv, SingleInv, States
<1>5. browser = NoDirectory
  BY <1>4 DEF SingleInv
<1> DEFINE to == IF failed THEN "rollback" ELSE "discard"
<1>6. Last' = Last /\ LastAt' = to /\ Single'
  BY <1>1, <1>2, <1>5, SingleAdvance DEF InstallInv, SingleInv, States
<1>7. ASSUME NEW w \in written
      PROVE  Safe(w)'
  <2>1. (Troubles /\ InBackup(w)) \/ (Holds(staging[Last], w) /\ Holds(backup[Last], w))
    BY <1>4 DEF SingleInv, Safe
  <2>2. CASE Troubles /\ InBackup(w)
    BY <1>2, <1>3, <1>4, <1>6, <2>2 DEF Safe, InBackup
  <2>3. CASE Holds(staging[Last], w) /\ Holds(backup[Last], w)
    BY <1>1, <1>2, <1>3, <1>4, <1>5, <1>6, <2>3 DEF Safe
  <2>4. QED
    BY <2>1, <2>2, <2>3
<1>8. LastAt' = "rollback" => browser' = NoDirectory
  BY <1>1, <1>5, <1>6
<1>9. QED
  BY <1>2, <1>4, <1>6, <1>7, <1>8 DEF SingleInv

LEMMA RollBackSafe ==
  ASSUME InstallInv, SingleInv, NEW n \in Installs, RollBackInstall(n)
  PROVE  SingleInv'
<1>1. PICK failed \in BOOLEAN :
        /\ Troubled(failed)
        /\ IF failed \/ browser # NoDirectory THEN UNCHANGED <<browser, backup>>
           ELSE browser' = backup[n] /\ backup' = [backup EXCEPT ![n] = NoDirectory]
  BY DEF RollBackInstall
<1>2. Under(n, "rollback") /\ Advance(n, "over") /\ written' = written /\ DOMAIN backup = Installs
  BY DEF RollBackInstall, InstallInv, InstallTypeOK
<1>3. (Troubles => Troubles') /\ (failed /\ incidents.failures > 0 => Troubles')
  BY <1>1, TroublesGrow DEF InstallInv
<1>4. /\ n = Last /\ LastAt = "rollback" /\ Last' = Last /\ LastAt' = "over" /\ Single'
      /\ Last \in Installs
  BY <1>2, SingleAdvance DEF InstallInv, SingleInv, States
<1>5. browser = NoDirectory
  BY <1>4 DEF SingleInv
<1>6. CASE failed
  <2>1. UNCHANGED <<browser, backup>>
    BY <1>1, <1>6
  <2>2. ASSUME NEW w \in written
        PROVE  Safe(w)'
    <3>1. (Troubles /\ InBackup(w)) \/ (incidents.failures > 0 /\ Holds(backup[Last], w))
      BY <1>4 DEF SingleInv, Safe
    <3>2. QED
      BY <1>3, <1>4, <1>6, <2>1, <3>1 DEF Safe, InBackup
  <2>3. QED
    BY <1>2, <1>4, <2>1, <2>2 DEF SingleInv
<1>7. CASE ~failed
  <2>1. browser' = backup[Last] /\ backup' = [backup EXCEPT ![Last] = NoDirectory]
    BY <1>1, <1>4, <1>5, <1>7
  <2>2. backup'[Last] = NoDirectory /\ \A m \in Installs : m # Last => backup'[m] = backup[m]
    BY <1>2, <1>4, <2>1
  <2>3. ASSUME NEW w \in written
        PROVE  Safe(w)'
    <3>1. (Troubles /\ InBackup(w)) \/ Holds(backup[Last], w)
      BY <1>4 DEF SingleInv, Safe
    <3>2. CASE Troubles /\ InBackup(w)
      BY <1>3, <1>4, <2>2, <3>2 DEF Safe, InBackup
    <3>3. CASE Holds(backup[Last], w)
      BY <1>4, <2>1, <3>3 DEF Safe
    <3>4. QED
      BY <3>1, <3>2, <3>3
  <2>4. \A m \in Installs : m > Last => backup'[m] = NoDirectory
    BY <2>2 DEF SingleInv
  <2>5. QED
    BY <1>2, <1>4, <2>3, <2>4 DEF SingleInv
<1>8. QED
  BY <1>6, <1>7

LEMMA DiscardSafe ==
  ASSUME InstallInv, SingleInv, NEW n \in Installs, Discard(n)
  PROVE  SingleInv'
<1>1. /\ Under(n, "discard") /\ backup' = [backup EXCEPT ![n] = NoDirectory] /\ Advance(n, "over")
      /\ UNCHANGED <<browser, written, incidents>> /\ DOMAIN backup = Installs
  BY DEF Discard, InstallInv, InstallTypeOK
<1>2. n = Last /\ LastAt = "discard" /\ Last' = Last /\ LastAt' = "over" /\ Single'
  BY <1>1, SingleAdvance DEF InstallInv, SingleInv, States
<1>3. \A m \in Installs : m # Last => backup'[m] = backup[m]
  BY <1>1, <1>2
<1>4. ASSUME NEW w \in written
      PROVE  Safe(w)'
  <2>1. (Troubles /\ InBackup(w)) \/ Holds(browser, w)
    BY <1>2 DEF SingleInv, Safe
  <2>2. CASE Troubles /\ InBackup(w)
    BY <1>1, <1>2, <1>3, <2>2 DEF Safe, InBackup, Troubles
  <2>3. CASE Holds(browser, w)
    BY <1>1, <1>2, <2>3 DEF Safe
  <2>4. QED
    BY <2>1, <2>2, <2>3
<1>5. \A m \in Installs : m > Last => backup'[m] = NoDirectory
  <2>1. ASSUME NEW m \in Installs, m > Last
        PROVE  m # Last
    BY <1>1, <1>2, <2>1, UnderType DEF InstallInv
  <2>2. QED
    BY <1>3, <2>1 DEF SingleInv
<1>6. QED
  BY <1>1, <1>2, <1>4, <1>5 DEF SingleInv

LEMMA KilledSafe ==
  ASSUME InstallInv, SingleInv, NEW n \in Installs, Killed(n)
  PROVE  SingleInv'
<1>1. /\ Under(n, installs[n].at) /\ installs[n].at # "over" /\ Advance(n, "over")
      /\ UNCHANGED <<browser, backup, written>>
  BY DEF Killed, Active, Under
<1>2. n = Last /\ LastAt = installs[n].at /\ Last' = Last /\ LastAt' = "over" /\ Single'
  BY <1>1, SingleAdvance DEF InstallInv, SingleInv, States
<1>3. Troubles'
  BY DEF Killed, Troubles, InstallInv, InstallTypeOK
<1>4. Last \in Installs
  BY <1>1, <1>2, UnderType DEF InstallInv
<1>5. ASSUME NEW w \in written
      PROVE  Safe(w)'
  <2>1. InBackup(w) \/ Holds(browser, w) \/ Holds(backup[Last], w)
    BY DEF SingleInv, Safe
  <2>2. QED
    BY <1>1, <1>2, <1>3, <1>4, <2>1 DEF Safe, InBackup
<1>6. QED
  BY <1>1, <1>2, <1>5 DEF SingleInv

LEMMA InstallSafe ==
  ASSUME InstallInv, SingleInv, NEW v \in Versions, NEW force \in BOOLEAN, Install(v, force),
         ~incidents'.beside
  PROVE  SingleInv'
<1>1. Active = {}
  BY DEF Install, InstallInv, InstallTypeOK
<1>2. Last \in Nat /\ Last < MaxInstalls /\ installs \in Seq(Rows)
  BY DEF InstallInv, InstallTypeOK, Rows, States, Install, Last
<1>3. LastAt = "over" /\ \A n \in 1..Last : installs[n].at = "over"
  BY <1>1, <1>2 DEF Active, LastAt, Last
<1> DEFINE stop == browser # NoDirectory /\ (UpToDate(v) \/ (Modified(v) # {} /\ ~force))
           at == IF stop THEN "over" ELSE "copy"
           row == [at |-> at, version |-> v]
<1>4. installs' = Append(installs, row) /\ UNCHANGED <<browser, backup>>
  BY DEF Install
<1>5. row.at = at /\ row \in Rows
  BY DEF Rows, States
<1> HIDE DEF row
<1>6. /\ Last' = Last + 1 /\ installs'[Last + 1] = row
      /\ \A n \in 1..Last : installs'[n] = installs[n]
  BY <1>2, <1>4, <1>5 DEF Last
<1>7. LastAt' = at /\ Single'
  BY <1>2, <1>3, <1>5, <1>6 DEF LastAt, Single
<1>8. Troubles' = Troubles
  BY DEF Install, Troubles, InstallInv, InstallTypeOK
<1>9. ASSUME NEW w \in written'
      PROVE  w \in written /\ w.text > LastVersion /\ Safe(w)'
  <2>1. w \in written
    BY DEF Install
  <2>2. (Troubles /\ InBackup(w)) \/ Holds(browser, w)
    BY <1>3, <2>1 DEF SingleInv, Safe
  <2>3. CASE Troubles /\ InBackup(w)
    <3>1. PICK m \in Installs : Holds(backup[m], w)
      BY <2>3 DEF InBackup
    <3>2. ~(m > Last)
      BY <3>1 DEF SingleInv, Holds
    <3>3. m # Last'
      BY <1>2, <1>6, <3>2
    <3>4. InBackup(w)'
      BY <1>4, <3>1, <3>3 DEF InBackup
    <3>5. QED
      BY <1>8, <2>1, <2>3, <3>4 DEF SingleInv, Safe
  <2>4. CASE Holds(browser, w)
    <3>1. CASE at = "over"
      BY <1>4, <1>7, <2>1, <2>4, <3>1 DEF SingleInv, Safe
    <3>2. CASE at = "copy"
      <4> DEFINE original == IF browser.manifest = 0 THEN v ELSE browser.manifest
      <4>1. browser # NoDirectory /\ browser.manifest \in 0..LastVersion
        BY <2>4 DEF Holds, InstallInv, AllGood, Good
      <4>2. original \in 0..LastVersion
        BY <4>1, InstallConstants DEF Versions
      <4>3. w.text > LastVersion /\ w \in [file : Assets \cup Notes, text : Nat]
        BY <2>1 DEF SingleInv, InstallInv, InstallTypeOK
      <4>4. w.text # original
        BY <4>2, <4>3, InstallConstants
      <4>5. ASSUME w.file \in Assets
            PROVE  FALSE
        <5>1. w.file \in Modified(v)
          BY <2>4, <4>4, <4>5 DEF Holds, Modified
        <5>2. force
          BY <3>2, <4>1, <5>1
        <5>3. w = [file |-> w.file, text |-> browser.files[w.file]]
          BY <2>4, <4>3 DEF Holds
        <5>4. w \in Own(browser, Modified(v))
          BY <5>1, <5>3 DEF Own
        <5>5. QED
          BY <1>9, <4>1, <5>2, <5>4 DEF Install
      <4>6. QED
        BY <1>4, <1>7, <2>1, <2>4, <3>2, <4>3, <4>5 DEF Safe
    <3>3. QED
      BY <3>1, <3>2
  <2>5. QED
    BY <2>2, <2>3, <2>4
<1>10. \A m \in Installs : m > Last' \/ m = Last' => backup'[m] = NoDirectory
  <2>1. ASSUME NEW m \in Installs, m > Last' \/ m = Last'
        PROVE  m > Last
    BY <1>2, <1>6, <2>1, InstallConstants DEF Installs
  <2>2. QED
    BY <1>4, <2>1 DEF SingleInv
<1>11. LastAt' \notin {"activate", "rollback"}
  BY <1>7
<1>12. QED
  BY <1>7, <1>9, <1>10, <1>11 DEF SingleInv

LEMMA WriteSafe ==
  ASSUME InstallInv, SingleInv, NEW f \in Assets \cup Notes, WriteText(f)
  PROVE  SingleInv'
<1> DEFINE text == LastVersion + incidents.texts + 1
           files == [g \in DOMAIN browser.files \cup {f} |->
                       IF g = f THEN text ELSE browser.files[g]]
           new == [file |-> f, text |-> text]
<1>1. UNCHANGED <<staging, backup, installs>>
  BY DEF WriteText
<1>2. Last' = Last /\ LastAt' = LastAt /\ Single'
  BY <1>1 DEF Last, LastAt, Single, SingleInv
<1>3. browser # NoDirectory /\ LastAt \notin {"activate", "rollback"}
  BY DEF WriteText, SingleInv
<1>4. Troubles' = Troubles
  BY DEF WriteText, Troubles, InstallInv, InstallTypeOK
<1>5. text > LastVersion
  BY InstallConstants DEF InstallInv, InstallTypeOK
<1>6. browser' = [files |-> files, manifest |-> browser.manifest] /\ browser' # NoDirectory
  <2>1. browser = [files |-> browser.files, manifest |-> browser.manifest]
        /\ browser.manifest \in 0..LastVersion
    BY <1>3 DEF InstallInv, AllGood, Good
  <2>2. browser' = [browser EXCEPT !.files = files]
    BY DEF WriteText
  <2> HIDE DEF files
  <2>3. browser' = [files |-> files, manifest |-> browser.manifest]
    BY <2>1, <2>2
  <2>4. QED
    BY <2>1, <2>3, InstallConstants DEF NoDirectory
<1>7. /\ written' \subseteq {w \in written : w.file # f} \cup {new}
      /\ new \in written' => Active = {} \/ new \in {w \in written : w.file # f}
  BY DEF WriteText
<1>8. f \in DOMAIN files /\ files[f] = text
      /\ \A g \in DOMAIN browser.files : g # f => g \in DOMAIN files /\ files[g] = browser.files[g]
  OBVIOUS
<1> HIDE DEF text, files
<1>9. new.file = f /\ new.text = text
  OBVIOUS
<1> HIDE DEF new
<1>10. ASSUME NEW w \in written, w.file # f
       PROVE  w.text > LastVersion /\ Safe(w)'
  <2>1. Holds(browser, w) => Holds(browser', w)
    BY <1>6, <1>8, <1>10 DEF Holds
  <2>2. QED
    BY <1>1, <1>2, <1>3, <1>4, <2>1 DEF SingleInv, Safe, InBackup
<1>11. ASSUME NEW w \in written', w \notin {u \in written : u.file # f}
       PROVE  w.text > LastVersion /\ Safe(w)'
  <2>1. w = new /\ Active = {}
    BY <1>7, <1>11
  <2>2. LastAt = "over"
    BY <2>1 DEF Active, LastAt, Last, InstallInv, InstallTypeOK
  <2>3. Holds(browser', w)
    BY <1>6, <1>8, <1>9, <2>1 DEF Holds
  <2>4. QED
    BY <1>2, <1>5, <1>9, <2>1, <2>2, <2>3 DEF Safe
<1>12. \A w \in written' : w.text > LastVersion /\ Safe(w)'
  BY <1>10, <1>11
<1>13. QED
  BY <1>1, <1>2, <1>3, <1>12 DEF SingleInv

-----------------------------------------------------------------------------
LEMMA InstallStarts == InstallInit => InstallInv
<1> SUFFICES ASSUME InstallInit
             PROVE  InstallInv
  OBVIOUS
<1>1. installs = <<>> /\ Last = 0 /\ LastAt = "over" /\ written = {}
  BY DEF InstallInit, Last, LastAt
<1>2. InstallTypeOK
  BY <1>1, InstallConstants DEF InstallInit, InstallTypeOK, Last
<1>3. Good(NoDirectory)
  BY DEF Good
<1>4. Good(browser)
  <2>1. ASSUME NEW v \in Versions
        PROVE  Good(Packaged(v, 0))
    BY InstallConstants DEF Good, Whole, Packaged
  <2>2. QED
    BY <1>3, <2>1 DEF InstallInit
<1>5. AllGood
  BY <1>3, <1>4 DEF InstallInit, AllGood
<1>6. SingleInv
  BY <1>1 DEF InstallInit, SingleInv, Single
<1>7. QED
  BY <1>2, <1>5, <1>6 DEF InstallInv

LEMMA InstallStep == InstallInv /\ [InstallNext]_installVars => InstallInv'
<1> SUFFICES ASSUME InstallInv, [InstallNext]_installVars
             PROVE  InstallInv'
  OBVIOUS
<1>1. InstallTypeOK' /\ AllGood'
  BY InstallTypes, GoodStays DEF InstallInv
<1>2. ASSUME ~incidents'.beside
      PROVE  SingleInv'
  <2>1. SingleInv
    <3>1. ~incidents.beside
      <4>1. incidents \in [texts : Nat, failures : Nat, crashes : Nat, beside : BOOLEAN]
        BY DEF InstallInv, InstallTypeOK
      <4>2. QED
        BY <1>2, <4>1 DEF InstallNext, Install, Copy, StageAssets, RenameAside, ActivateAssets,
           RollBackInstall, Discard, Killed, WriteText, Troubled, installVars
    <3>2. QED
      BY <3>1 DEF InstallInv
  <2>2. CASE \E v \in Versions, force \in BOOLEAN : Install(v, force)
    BY <1>2, <2>1, <2>2, InstallSafe
  <2>3. CASE \E n \in Installs :
               \/ Copy(n) \/ StageAssets(n) \/ RenameAside(n) \/ ActivateAssets(n)
               \/ RollBackInstall(n) \/ Discard(n) \/ Killed(n)
    BY <2>1, <2>3, CopySafe, StageSafe, AsideSafe, ActivateSafe, RollBackSafe, DiscardSafe, KilledSafe
  <2>4. CASE \E f \in Assets \cup Notes : WriteText(f)
    BY <1>1, <2>1, <2>4, WriteSafe DEF InstallInv
  <2>5. CASE UNCHANGED installVars
    <3>1. UNCHANGED <<browser, staging, backup, installs, written, incidents>>
      BY <2>5 DEF installVars
    <3>2. QED
      BY <2>1, <3>1 DEF SingleInv, Single, Safe, InBackup, Troubles, Last, LastAt
  <2>6. QED
    BY <2>2, <2>3, <2>4, <2>5 DEF InstallNext
<1>3. QED
  BY <1>1, <1>2 DEF InstallInv

\* Every directory has the files its manifest names, and the one installation
\* that runs knows where each text is (install_browser_assets).
THEOREM InstallInvariance == InstallSpec => []InstallInv
<1>1. QED
  BY InstallStarts, InstallStep, PTL DEF InstallSpec

(* An installation is all or nothing, and loses nothing people wrote.      *)
THEOREM InstallIsSafeHolds == InstallSpec => []InstallIsSafe
<1>1. InstallInv => InstallIsSafe
  <2> SUFFICES ASSUME InstallInv
               PROVE  InstallIsSafe
    OBVIOUS
  <2>1. RootIsWhole
    BY DEF InstallInv, AllGood, Good, Whole, RootIsWhole
  <2>2. ASSUME ~incidents.beside, NEW w \in written
        PROVE  /\ Holds(browser, w) \/ \E n \in Installs : Holds(backup[n], w)
               /\ Active = {} /\ incidents.crashes = 0 /\ incidents.failures <= 1 => Holds(browser, w)
    <3>1. Safe(w)
      BY <2>2 DEF InstallInv, SingleInv
    <3>2. LastAt # "over" => Last \in Installs /\ Under(Last, LastAt)
      <4>1. Last \in Nat /\ Last <= MaxInstalls /\ DOMAIN installs = 1..Last
        BY InstallConstants DEF InstallInv, InstallTypeOK, Last
      <4>2. QED
        BY <4>1 DEF LastAt, Under, Installs
    <3>3. Holds(browser, w) \/ \E n \in Installs : Holds(backup[n], w)
      BY <3>1, <3>2 DEF Safe, InBackup
    <3>4. ASSUME Active = {}, incidents.crashes = 0, incidents.failures <= 1
          PROVE  Holds(browser, w)
      <4>1. LastAt = "over"
        BY <3>2, <3>4 DEF Active, Under
      <4>2. ~Troubles
        BY <3>4 DEF Troubles, InstallInv, InstallTypeOK
      <4>3. QED
        BY <3>1, <4>1, <4>2 DEF Safe
    <3>5. QED
      BY <3>3, <3>4
  <2>3. QED
    BY <2>1, <2>2 DEF InstallIsSafe, OwnTextsStay
<1>2. QED
  BY <1>1, InstallInvariance, PTL
-----------------------------------------------------------------------------
(* The scan of a root. *)

\* The least member of a set of numbers, which Min of the library chooses.
LEMMA LeastNumber ==
  ASSUME NEW S \in SUBSET Nat, S # {}
  PROVE  Min(S) \in S /\ \A y \in S : Min(S) <= y
<1> DEFINE R == {ss \in Nat \X Nat : ss[1] < ss[2]}
<1>1. IsWellFoundedOn(R, Nat)
  BY NatLessThanWellFounded DEF OpToRel
<1>2. \E x \in S : \A y \in S : <<y, x>> \notin R
  <2> HIDE DEF R
  <2> QED BY <1>1, WFMin
<1>3. \E x \in S : \A y \in S : x <= y
  <2>1. PICK x \in S : \A y \in S : <<y, x>> \notin R
    BY <1>2
  <2>2. ASSUME NEW y \in S PROVE x <= y
    <3>1. x \in Nat /\ y \in Nat /\ ~(y < x)
      BY <2>1
    <3> QED
      BY <3>1
  <2> QED
    BY <2>2
<1> QED
  BY <1>3 DEF Min

\* The entries of a tree are finitely many numbers.
LEMMA NodesAre == Nodes = 1..Len(Tree) /\ Len(Tree) \in Nat /\ IsFiniteSet(Nodes)
<1>1. Nodes = 1..Len(Tree) /\ Len(Tree) \in Nat
  BY AdmissionConstants DEF Nodes
<1>2. QED
  BY <1>1, FS_Interval

\* A directory comes before what is in it.
LEMMA ParentsAre ==
  ASSUME NEW n \in Nodes
  PROVE  /\ Tree[n].parent \in Nat /\ Tree[n].parent < n
         /\ Tree[n].parent # 0 => Tree[n].parent \in Nodes
         /\ Tree[n].key \in Nat /\ Tree[n].class \in {"plain", "unsupported", "hidden"}
<1>1. Tree[n] \in [parent : Nat, class : {"plain", "unsupported", "hidden"}, key : Nat]
  <2> DEFINE Names == [parent : Nat, class : {"plain", "unsupported", "hidden"}, key : Nat]
  <2>1. Tree \in Seq(Names) /\ n \in 1..Len(Tree)
    BY AdmissionConstants, NodesAre
  <2> HIDE DEF Names
  <2>2. Tree[n] \in Names
    BY <2>1
  <2> QED
    BY <2>2 DEF Names
<1>2. Tree[n].parent < n /\ n \in 1..Len(Tree)
  BY AdmissionConstants, NodesAre
<1> QED
  BY <1>1, <1>2, NodesAre

(* The recursion that defines Above is sound, since parents come first.    *)
LEMMA AboveDef ==
  ASSUME NEW n \in Nodes
  PROVE  Above[n] = IF Tree[n].parent = 0 THEN {}
                    ELSE {Tree[n].parent} \cup Above[Tree[n].parent]
<1> DEFINE Upto(k, g) == g = [m \in 1..k |-> IF Tree[m].parent = 0 THEN {}
                                             ELSE {Tree[m].parent} \cup g[Tree[m].parent]]
           Bad == {k \in 0..Len(Tree) : ~\E g : Upto(k, g)}
<1>1. \E g : Upto(0, g)
  <2>1. Upto(0, [m \in 1..0 |-> {}])
    OBVIOUS
  <2> QED
    BY <2>1
<1>2. ASSUME NEW k \in 0..Len(Tree), k + 1 <= Len(Tree), NEW g, Upto(k, g)
      PROVE  \E h : Upto(k + 1, h)
  <2> DEFINE h == [m \in 1..k + 1 |-> IF Tree[m].parent = 0 THEN {}
                                      ELSE {Tree[m].parent} \cup g[Tree[m].parent]]
  <2>1. ASSUME NEW m \in 1..k + 1
        PROVE  h[m] = IF Tree[m].parent = 0 THEN {}
                      ELSE {Tree[m].parent} \cup h[Tree[m].parent]
    <3>1. CASE Tree[m].parent = 0
      BY <3>1
    <3>2. CASE Tree[m].parent # 0
      <4>1. m \in Nodes
        BY <1>2, NodesAre
      <4>2. Tree[m].parent \in 1..k
        BY <3>2, <4>1, ParentsAre
      <4>3. ASSUME NEW q \in 1..k PROVE g[q] = h[q]
        <5>1. g[q] = IF Tree[q].parent = 0 THEN {} ELSE {Tree[q].parent} \cup g[Tree[q].parent]
          BY <1>2
        <5>2. q \in 1..k + 1
          OBVIOUS
        <5> QED
          BY <5>1, <5>2
      <4> QED
        BY <3>2, <4>2, <4>3
    <3> QED
      BY <3>1, <3>2
  <2> DEFINE H == h
  <2>2. H = [m \in 1..k + 1 |-> IF Tree[m].parent = 0 THEN {}
                                ELSE {Tree[m].parent} \cup H[Tree[m].parent]]
    <3>1. H = [m \in 1..k + 1 |-> H[m]]
      OBVIOUS
    <3> HIDE DEF h, H
    <3> QED
      BY <2>1, <3>1 DEF H
  <2> QED
    BY <2>2
<1>3. Bad = {}
  <2> SUFFICES ASSUME Bad # {} PROVE FALSE
    OBVIOUS
  <2> DEFINE k == Min(Bad)
  <2>1. k \in Bad /\ \A y \in Bad : k <= y
    <3>1. Bad \in SUBSET Nat
      OBVIOUS
    <3> HIDE DEF Bad
    <3> QED
      BY <3>1, LeastNumber
  <2> HIDE DEF k
  <2>2. k # 0
    BY <1>1, <2>1
  <2>3. k - 1 \in 0..Len(Tree) /\ k - 1 \notin Bad
    <3>1. k \in 0..Len(Tree) /\ Len(Tree) \in Nat
      BY <2>1, NodesAre
    <3>2. k - 1 \in 0..Len(Tree) /\ ~(k <= k - 1)
      BY <2>2, <3>1
    <3> HIDE DEF Bad
    <3> QED
      BY <2>1, <3>2
  <2>4. \E h : Upto((k - 1) + 1, h)
    <3>1. PICK g : Upto(k - 1, g)
      BY <2>3
    <3> HIDE DEF Upto
    <3>2. (k - 1) + 1 <= Len(Tree)
      BY <2>1
    <3> QED
      BY <1>2, <2>3, <3>1, <3>2
  <2> HIDE DEF Upto
  <2>5. (k - 1) + 1 = k
    BY <2>1
  <2> QED
    BY <2>1, <2>4, <2>5
<1>4. \E g : Upto(Len(Tree), g)
  <2>1. Len(Tree) \in 0..Len(Tree)
    BY NodesAre
  <2> HIDE DEF Upto
  <2> QED
    BY <1>3, <2>1
<1>5. Upto(Len(Tree), Above)
  BY <1>4, NodesAre DEF Above
<1> QED
  BY <1>5, NodesAre

(* What holds of an entry whose parent has it, holds of all entries.       *)
LEMMA NodeInduction ==
  ASSUME NEW S \in SUBSET Nodes,
         \A n \in Nodes : Tree[n].parent = 0 \/ Tree[n].parent \in S => n \in S
  PROVE  S = Nodes
<1> SUFFICES ASSUME Nodes \ S # {} PROVE FALSE
  OBVIOUS
<1> DEFINE Rem == Nodes \ S
           n == Min(Rem)
<1>1. Rem \in SUBSET Nat /\ Rem # {}
  BY NodesAre
<1>2. n \in Rem /\ \A y \in Rem : n <= y
  <2> HIDE DEF Rem
  <2> QED
    BY <1>1, LeastNumber
<1> HIDE DEF n
<1>3. Tree[n].parent # 0 /\ Tree[n].parent \in Rem
  BY <1>2, ParentsAre
<1>4. Tree[n].parent < n /\ Tree[n].parent \in Nat /\ n \in Nat
  BY <1>1, <1>2, ParentsAre
<1> QED
  BY <1>2, <1>3, <1>4

\* Above an entry lie earlier entries, and never itself.
LEMMA AboveIs ==
  ASSUME NEW n \in Nodes
  PROVE  Above[n] \subseteq Nodes /\ n \notin Above[n] /\ \A a \in Above[n] : a < n
<1> DEFINE S == {m \in Nodes : Above[m] \subseteq Nodes /\ \A a \in Above[m] : a < m}
<1>1. ASSUME NEW m \in Nodes, Tree[m].parent = 0 \/ Tree[m].parent \in S
      PROVE  m \in S
  <2>1. CASE Tree[m].parent = 0
    BY <2>1, AboveDef
  <2>2. CASE Tree[m].parent # 0
    <3> DEFINE q == Tree[m].parent
    <3>1. q \in S /\ q < m /\ Above[m] = {q} \cup Above[q]
      BY <1>1, <2>2, AboveDef, ParentsAre
    <3>2. \A a \in Above[q] : a \in Nodes /\ a < q
      BY <3>1
    <3>3. q \in Nodes /\ Nodes \subseteq Nat
      BY <3>1, NodesAre
    <3> HIDE DEF q
    <3>4. \A a \in Above[q] : a < m
      BY <3>1, <3>2, <3>3
    <3> QED
      BY <3>1, <3>2, <3>3, <3>4
  <2> QED
    BY <2>1, <2>2
<1>2. S = Nodes
  <2>1. S \in SUBSET Nodes
    OBVIOUS
  <2> HIDE DEF S
  <2> QED
    BY <1>1, <2>1, NodeInduction
<1>3. Above[n] \subseteq Nodes /\ \A a \in Above[n] : a < n
  BY <1>2
<1>4. ~(n < n)
  BY NodesAre
<1> QED
  BY <1>3, <1>4

\* What is above a directory is above all that is in it.
LEMMA AboveTransitive ==
  ASSUME NEW n \in Nodes, NEW a \in Above[n]
  PROVE  Above[a] \subseteq Above[n]
<1> DEFINE S == {m \in Nodes : \A b \in Above[m] : Above[b] \subseteq Above[m]}
<1>1. ASSUME NEW m \in Nodes, Tree[m].parent = 0 \/ Tree[m].parent \in S
      PROVE  m \in S
  <2>1. CASE Tree[m].parent = 0
    BY <2>1, AboveDef
  <2>2. CASE Tree[m].parent # 0
    BY <1>1, <2>2, AboveDef, ParentsAre
  <2> QED
    BY <2>1, <2>2
<1>2. S = Nodes
  <2>1. S \in SUBSET Nodes
    OBVIOUS
  <2> HIDE DEF S
  <2> QED
    BY <1>1, <2>1, NodeInduction
<1> QED
  BY <1>2

(* On the way from a directory to an entry below it lies one of its own    *)
(* entries; the root is a directory, too.                                  *)
LEMMA Branch ==
  ASSUME NEW n \in Nodes, NEW b, b = 0 \/ b \in Above[n]
  PROVE  \E c \in Above[n] \cup {n} : Tree[c].parent = b
<1> DEFINE S == {m \in Nodes : b = 0 \/ b \in Above[m] =>
                                 \E c \in Above[m] \cup {m} : Tree[c].parent = b}
<1>1. ASSUME NEW m \in Nodes, Tree[m].parent = 0 \/ Tree[m].parent \in S
      PROVE  m \in S
  <2>1. CASE Tree[m].parent = 0
    BY <2>1, AboveDef
  <2>2. CASE Tree[m].parent # 0
    BY <1>1, <2>2, AboveDef, ParentsAre
  <2> QED
    BY <2>1, <2>2
<1>2. S = Nodes
  <2>1. S \in SUBSET Nodes
    OBVIOUS
  <2> HIDE DEF S
  <2> QED
    BY <1>1, <2>1, NodeInduction
<1> QED
  BY <1>2

\* An entry lies one deeper than its directory.
LEMMA DepthIs ==
  ASSUME NEW n \in Nodes
  PROVE  /\ DepthOf(n) \in Nat /\ DepthOf(n) # 0
         /\ DepthOf(n) = IF Tree[n].parent = 0 THEN 1 ELSE DepthOf(Tree[n].parent) + 1
<1>1. ASSUME NEW m \in Nodes
      PROVE  IsFiniteSet(Above[m]) /\ DepthOf(m) \in Nat /\ DepthOf(m) # 0
  <2>1. IsFiniteSet(Above[m])
    BY AboveIs, NodesAre, FS_Subset
  <2>2. Cardinality(Above[m]) \in Nat
    BY <2>1, FS_CardinalityType
  <2> QED
    BY <2>1, <2>2 DEF DepthOf
<1>2. CASE Tree[n].parent = 0
  <2>1. Above[n] = {} /\ Cardinality({}) = 0
    BY <1>2, AboveDef, FS_EmptySet
  <2>2. DepthOf(n) = 1
    BY <2>1 DEF DepthOf
  <2> QED
    BY <1>1, <1>2, <2>2
<1>3. CASE Tree[n].parent # 0
  <2> DEFINE q == Tree[n].parent
  <2>1. q \in Nodes /\ q \notin Above[q] /\ Above[n] = Above[q] \cup {q}
    BY <1>3, ParentsAre, AboveIs, AboveDef
  <2>2. IsFiniteSet(Above[q])
    BY <1>1, <2>1
  <2> HIDE DEF q
  <2>3. Cardinality(Above[n]) = Cardinality(Above[q]) + 1
    BY <2>1, <2>2, FS_AddElement
  <2>4. DepthOf(n) = DepthOf(q) + 1
    BY <2>3 DEF DepthOf
  <2> QED
    BY <1>1, <1>3, <2>4 DEF q
<1> QED
  BY <1>2, <1>3

-----------------------------------------------------------------------------
(* How many bytes files have.                                              *)
Sized(files) == IsFiniteSet(files) /\ \A f \in files : f.size \in Nat

BytesOf(files) == UNION {{f} \X (1..f.size) : f \in files}

\* Finitely many files of some lengths have finitely many bytes.
LEMMA BytesAre ==
  ASSUME NEW files, Sized(files)
  PROVE  /\ IsFiniteSet(BytesOf(files))
         /\ Sizes(files) = Cardinality(BytesOf(files)) /\ Sizes(files) \in Nat
<1> DEFINE Of(f) == {f} \X (1..f.size)
           All == {Of(f) : f \in files}
<1>1. IsFiniteSet(All)
  <2>1. \A f \in files : Of(f) \in All
    OBVIOUS
  <2> DEFINE g == [f \in files |-> Of(f)]
  <2>2. g \in Surjection(files, All)
    BY DEF Surjection
  <2> HIDE DEF g, All
  <2> QED
    BY <2>2, FS_Surjection DEF Sized
<1>2. ASSUME NEW f \in files PROVE IsFiniteSet(Of(f))
  <2>1. IsFiniteSet({f})
    BY FS_Singleton
  <2>2. IsFiniteSet(1..f.size)
    <3>1. f.size \in Int
      BY DEF Sized
    <3> QED
      BY <3>1, FS_Interval
  <2> QED
    BY <2>1, <2>2, FS_Product
<1>3. \A T \in All : IsFiniteSet(T)
  BY <1>2
<1>4. IsFiniteSet(UNION All)
  <2> HIDE DEF All
  <2> QED
    BY <1>1, <1>3, FS_UNION
<1>5. BytesOf(files) = UNION All
  BY DEF BytesOf
<1>6. Sizes(files) = Cardinality(BytesOf(files))
  BY DEF Sizes, BytesOf
<1> QED
  BY <1>4, <1>5, <1>6, FS_CardinalityType

\* Some of the files have no more bytes than all of them.
LEMMA FewerBytes ==
  ASSUME NEW files, Sized(files), NEW some \in SUBSET files
  PROVE  Sized(some) /\ Sizes(some) <= Sizes(files)
<1>1. Sized(some)
  BY FS_Subset DEF Sized
<1>2. BytesOf(some) \subseteq BytesOf(files)
  BY DEF BytesOf
<1> QED
  BY <1>1, <1>2, BytesAre, FS_Subset

\* The bytes of a further file are added to those of the others.
LEMMA OneMoreFile ==
  ASSUME NEW files, Sized(files), NEW f, f \notin files, f.size \in Nat
  PROVE  Sized(files \cup {f}) /\ Sizes(files \cup {f}) = Sizes(files) + f.size
<1> DEFINE F == {f} \X (1..f.size)
<1>1. Sized(files \cup {f})
  BY FS_AddElement DEF Sized
<1>2. BytesOf(files \cup {f}) = BytesOf(files) \cup F
  BY DEF BytesOf
<1>3. BytesOf(files) \cap F = {}
  BY DEF BytesOf
<1>4. IsFiniteSet(F) /\ Cardinality(F) = f.size
  <2>1. IsFiniteSet({f}) /\ Cardinality({f}) = 1
    BY FS_Singleton
  <2>2. IsFiniteSet(1..f.size) /\ Cardinality(1..f.size) = f.size
    BY FS_Interval
  <2>3. IsFiniteSet(F) /\ Cardinality(F) = Cardinality({f}) * Cardinality(1..f.size)
    BY <2>1, <2>2, FS_Product
  <2>4. 1 * f.size = f.size
    OBVIOUS
  <2> HIDE DEF F
  <2>5. Cardinality(F) = 1 * f.size
    <3> DEFINE a == Cardinality({f})
               b == Cardinality(1..f.size)
               c == Cardinality(F)
    <3>1. a = 1 /\ b = f.size /\ c = a * b
      BY <2>1, <2>2, <2>3
    <3> HIDE DEF a, b, c
    <3>2. c = 1 * f.size
      BY <3>1, Zenon
    <3> QED
      BY <3>2 DEF c
  <2> QED
    BY <2>3, <2>4, <2>5
<1>5. Cardinality({}) = 0
  BY FS_EmptySet
<1> HIDE DEF F
<1>6. Cardinality(BytesOf(files) \cup F) = Cardinality(BytesOf(files)) + f.size
  <2>1. Cardinality(BytesOf(files)) \in Nat
    BY BytesAre
  <2>2. IsFiniteSet(BytesOf(files))
    BY BytesAre
  <2>3. Cardinality(BytesOf(files) \cup F)
          = Cardinality(BytesOf(files)) + Cardinality(F) - Cardinality(BytesOf(files) \cap F)
    BY <1>4, <2>2, FS_Union
  <2>4. Cardinality(BytesOf(files) \cap F) = 0
    BY <1>3, <1>5
  <2> QED
    BY <1>4, <2>1, <2>3, <2>4
<1> QED
  BY <1>1, <1>2, <1>6, BytesAre

-----------------------------------------------------------------------------
(* Where a scan is.                                                        *)
Frames == [dir : Nodes \cup {0}, left : SUBSET Nodes]

Scans == [at : {"list", "entry", "read", "over", "failed"}, limits : Bounds,
          stack : Seq(Frames), node : Nodes \cup {0}, size : Nat,
          entries : Nat, bytes : Nat, complete : BOOLEAN,
          accepted : SUBSET [node : Nodes, size : Nat],
          rejected : SUBSET Nodes, folders : SUBSET Nodes]

ScanTypes == content \in [Nodes -> Things] /\ scan \in Scans /\ changes \in Nat

Walking == scan.at \in {"list", "entry", "read"}

Level == 1..Len(scan.stack)

\* The entries of the open directories that are still to be looked at.
Left == UNION {scan.stack[i].left : i \in Level}

\* What the scan will come to, unless a limit ends it.
Pend(n) == \/ n \in Left \/ Above[n] \cap Left # {}
           \/ scan.at = "list" /\ (scan.node = 0 \/ scan.node \in Above[n])

\* What it has counted.
Names(found) == {f.node : f \in found}
Held == IF scan.at = "read" THEN {scan.node} ELSE {}
Done == Names(scan.accepted) \cup scan.rejected \cup scan.folders \cup Held

\* The open directories lie in one another.
Frame(i) ==
  LET d == scan.stack[i].dir
  IN /\ scan.stack[i].left \subseteq Inside(d)
     /\ i = 1 => d = 0
     /\ i > 1 => d \in scan.folders /\ Above[d] \subseteq scan.folders /\ DepthOf(d) = i - 1
Framed == \A i \in Level : Frame(i)

Place ==
  /\ scan.at = "list" =>
       IF scan.node = 0 THEN scan.stack = <<>>
       ELSE /\ scan.node \in scan.folders /\ Above[scan.node] \subseteq scan.folders
            /\ DepthOf(scan.node) = Len(scan.stack)
  /\ scan.at # "list" => scan.stack # <<>>
  /\ scan.at = "read" => scan.node \in Nodes

\* No entry is counted twice.
Once ==
  /\ \A n \in Nodes : Pend(n) => n \notin Done
  /\ \A f, g \in scan.accepted : f.node = g.node => f = g
  /\ Names(scan.accepted) \cap scan.rejected = {}
  /\ (Names(scan.accepted) \cup scan.rejected) \cap scan.folders = {}
  /\ (Names(scan.accepted) \cup scan.rejected \cup scan.folders) \cap Held = {}

Counted ==
  /\ scan.entries = Cardinality(scan.accepted) + Cardinality(scan.rejected \cup scan.folders)
                    + Cardinality(Held)
  /\ Sizes(scan.accepted) + (IF scan.at = "read" THEN scan.size ELSE 0) <= scan.bytes
  /\ scan.bytes <= scan.limits.total
  /\ scan.complete

Candidate(n) == Admitted(n, content[n].size)

\* If nothing has changed, the scan is right about what it has counted.
Exact ==
  /\ \A n \in Visible : n \in Done \/ Pend(n)
  /\ Done \subseteq Visible /\ Left \subseteq Visible
  /\ \A f \in scan.accepted : f.node \in Candidates /\ content[f.node].text
                              /\ f.size = content[f.node].size
  /\ \A n \in scan.folders : content[n].kind = "dir" /\ Tree[n].class # "hidden"
  /\ \A n \in scan.rejected : /\ ~(n \in Candidates /\ content[n].text)
                              /\ content[n].kind = "dir" => Tree[n].class = "hidden"
  /\ scan.at = "read" => scan.node \in Candidates /\ scan.size = content[scan.node].size
  /\ scan.bytes = Sizes({Candidate(n) : n \in Done \cap Candidates})
  /\ scan.entries <= scan.limits.entries
  /\ \A n \in Done : DepthOf(n) <= scan.limits.depth
  /\ \A n \in Done \cap Candidates : content[n].size <= scan.limits.file

\* What is in a directory needs it.
Rooted == \A n \in Nodes : content[n].kind # "absent" =>
                             \A a \in Above[n] : content[a].kind = "dir"

WalkInv == Framed /\ Place /\ Once /\ Counted /\ (changes = 0 => Rooted /\ Exact)

ScanInv == ScanTypes /\ (Walking => WalkInv) /\ ScanIsExact
-----------------------------------------------------------------------------
\* An entry to come lies as deep as the stack of open directories is high there,
\* and the walk has descended into every directory above it.
LEMMA FrameFacts ==
  ASSUME ScanTypes, Framed, NEW i \in Level, NEW n \in scan.stack[i].left
  PROVE  /\ n \in Nodes /\ n \in Left /\ DepthOf(n) = i
         /\ Above[n] \subseteq scan.folders
<1> DEFINE d == scan.stack[i].dir
<1>1. Frame(i) /\ scan.folders \subseteq Nodes
  BY DEF Framed, ScanTypes, Scans
<1>2. n \in Nodes /\ Tree[n].parent = d
  BY <1>1 DEF Frame, Inside
<1>3. n \in Left
  BY DEF Left
<1>4. i \in Int /\ i >= 1
  BY DEF Level
<1>5. CASE i = 1
  BY <1>1, <1>2, <1>3, <1>5, AboveDef, DepthIs DEF Frame
<1>6. CASE i > 1
  <2>1. d \in scan.folders /\ Above[d] \subseteq scan.folders /\ DepthOf(d) = i - 1
    BY <1>1, <1>6 DEF Frame
  <2>2. d # 0
    BY <1>1, <2>1, NodesAre
  <2>3. Above[n] = {d} \cup Above[d] /\ DepthOf(n) = (i - 1) + 1
    BY <1>2, <2>1, <2>2, AboveDef, DepthIs
  <2> QED
    BY <1>2, <1>3, <1>4, <2>1, <2>3
<1> QED
  BY <1>4, <1>5, <1>6

\* The next entry of the innermost directory is taken.
LEMMA Taken ==
  ASSUME ScanTypes, Framed, scan.stack # <<>>, Top.left # {}
  PROVE  /\ Min(Top.left) \in Top.left /\ Len(scan.stack) \in Level
         /\ Rest \in Seq(Frames) /\ Len(Rest) = Len(scan.stack)
         /\ \A i \in Level : /\ Rest[i].dir = scan.stack[i].dir
                             /\ Rest[i].left \subseteq scan.stack[i].left
         /\ UNION {Rest[i].left : i \in Level} = Left \ {Min(Top.left)}
<1> DEFINE k == Len(scan.stack)
           n == Min(Top.left)
<1>1. scan.stack \in Seq(Frames)
  BY DEF ScanTypes, Scans
<1>2. k \in Nat /\ k \in 1..k /\ \A i \in 1..k : scan.stack[i] \in Frames
  <2>1. k \in Nat /\ \A i \in 1..k : scan.stack[i] \in Frames
    <3> HIDE DEF Frames
    <3> QED
      BY <1>1
  <2>2. k # 0
    BY <1>1
  <2> QED
    BY <2>1, <2>2
<1>3. Top = scan.stack[k] /\ Top \in Frames
  BY <1>2 DEF Top
<1>4. n \in Top.left
  <2>1. Top.left \in SUBSET Nat
    BY <1>3, NodesAre DEF Frames
  <2> QED
    BY <2>1, LeastNumber
<1>5. Rest = [scan.stack EXCEPT ![k] = [Top EXCEPT !.left = Top.left \ {n}]]
  BY <1>1, <1>2, <1>3 DEF Rest, Top
<1> DEFINE f == [Top EXCEPT !.left = Top.left \ {n}]
<1>6. f \in Frames /\ f.dir = Top.dir /\ f.left = Top.left \ {n}
  BY <1>3 DEF Frames
<1> HIDE DEF f
<1>7. Rest \in Seq(Frames) /\ Len(Rest) = k
      /\ \A i \in 1..k : Rest[i] = IF i = k THEN f ELSE scan.stack[i]
  <2>1. Rest = [scan.stack EXCEPT ![k] = f]
    BY <1>5 DEF f
  <2> HIDE DEF Frames
  <2> QED
    BY <1>1, <1>2, <1>6, <2>1
<1> HIDE DEF n
<1>8. \A i \in Level : Rest[i].dir = scan.stack[i].dir
                       /\ Rest[i].left \subseteq scan.stack[i].left
  BY <1>2, <1>3, <1>6, <1>7 DEF Level
<1>9. DepthOf(n) = k
  BY <1>2, <1>3, <1>4, FrameFacts DEF Level
<1>10. UNION {Rest[i].left : i \in Level} = Left \ {n}
  <2>1. ASSUME NEW i \in Level, NEW m \in Rest[i].left PROVE m \in Left \ {n}
    <3>1. m \in scan.stack[i].left
      BY <1>8, <2>1
    <3>2. m \in Left /\ DepthOf(m) = i
      BY <3>1, FrameFacts
    <3>3. CASE i = k
      BY <1>6, <1>7, <2>1, <3>2, <3>3 DEF Level
    <3>4. CASE i # k
      BY <1>9, <3>2, <3>4
    <3> QED
      BY <3>3, <3>4
  <2>2. ASSUME NEW m \in Left \ {n} PROVE m \in UNION {Rest[i].left : i \in Level}
    <3>1. PICK i \in Level : m \in scan.stack[i].left
      BY DEF Left
    <3>2. m \in Rest[i].left
      BY <1>3, <1>6, <1>7, <3>1 DEF Level
    <3> QED
      BY <3>2
  <2> QED
    BY <2>1, <2>2
<1> QED
  BY <1>2, <1>4, <1>7, <1>8, <1>10 DEF Level, n

\* The fields of a scan, each on its own.
LEMMA ScanFields ==
  ASSUME ScanTypes
  PROVE  /\ scan.stack \in Seq(Frames) /\ scan.limits \in Bounds
         /\ scan.limits.file \in Nat /\ scan.limits.entries \in Nat
         /\ scan.limits.depth \in Nat /\ scan.limits.total \in Nat
         /\ scan.node \in Nodes \cup {0} /\ scan.size \in Nat
         /\ scan.entries \in Nat /\ scan.bytes \in Nat
         /\ scan.accepted \subseteq [node : Nodes, size : Nat]
         /\ Names(scan.accepted) \subseteq Nodes
         /\ scan.rejected \subseteq Nodes /\ scan.folders \subseteq Nodes
         /\ IsFiniteSet(scan.rejected \cup scan.folders)
         /\ Cardinality(scan.rejected \cup scan.folders) \in Nat
<1>1. /\ scan.stack \in Seq(Frames) /\ scan.limits \in Bounds
      /\ scan.node \in Nodes \cup {0} /\ scan.size \in Nat
      /\ scan.entries \in Nat /\ scan.bytes \in Nat
      /\ scan.accepted \subseteq [node : Nodes, size : Nat]
      /\ scan.rejected \subseteq Nodes /\ scan.folders \subseteq Nodes
  <2> HIDE DEF Frames
  <2> QED
    BY DEF ScanTypes, Scans
<1>2. Names(scan.accepted) \subseteq Nodes
  BY <1>1 DEF Names
<1>3. IsFiniteSet(scan.rejected \cup scan.folders)
  BY <1>1, NodesAre, FS_Subset
<1>4. /\ scan.limits.file \in Nat /\ scan.limits.entries \in Nat
      /\ scan.limits.depth \in Nat /\ scan.limits.total \in Nat
  BY <1>1, AdmissionConstants
<1> QED
  BY <1>1, <1>2, <1>3, <1>4, FS_CardinalityType

\* The files with different names are as many as their names.
LEMMA NamesAre ==
  ASSUME NEW found, found \subseteq [node : Nodes, size : Nat],
         \A f, g \in found : f.node = g.node => f = g
  PROVE  /\ IsFiniteSet(found) /\ Sized(found)
         /\ IsFiniteSet(Names(found)) /\ Cardinality(Names(found)) = Cardinality(found)
<1> DEFINE h == [f \in found |-> f.node]
<1>1. Names(found) \subseteq Nodes
  BY DEF Names
<1>2. IsFiniteSet(Names(found))
  BY <1>1, NodesAre, FS_Subset
<1>3. h \in Injection(found, Names(found)) /\ h \in Surjection(found, Names(found))
  BY DEF Names, Injection, Surjection, IsInjective
<1> HIDE DEF h
<1>4. IsFiniteSet(found)
  BY <1>2, <1>3, FS_Injection
<1>5. Cardinality(Names(found)) = Cardinality(found)
  BY <1>3, <1>4, FS_Surjection
<1>6. Sized(found)
  BY <1>4 DEF Sized
<1> QED
  BY <1>2, <1>4, <1>5, <1>6

\* The entry that a walk looks at next has not been counted.
LEMMA Entering ==
  ASSUME ScanTypes, WalkInv, scan.at = "entry", Top.left # {}, NEW n, n = Min(Top.left)
  PROVE  /\ n \in Nodes /\ n \in Left /\ n \notin Done /\ n \notin Above[n]
         /\ DepthOf(n) = Len(scan.stack) /\ Above[n] \subseteq scan.folders
         /\ Held = {}
<1>1. scan.stack # <<>> /\ Framed /\ Once
  BY DEF WalkInv, Place
<1>2. n \in Top.left /\ Len(scan.stack) \in Level
  BY <1>1, Taken
<1>3. n \in Nodes /\ n \in Left /\ DepthOf(n) = Len(scan.stack) /\ Above[n] \subseteq scan.folders
  BY <1>1, <1>2, FrameFacts DEF Top
<1> QED
  BY <1>1, <1>3, AboveIs DEF Once, Pend, Held

\* The other directories stay as they are when an entry of the innermost is taken.
LEMMA StillFramed ==
  ASSUME ScanTypes, Framed, scan.stack # <<>>, Top.left # {},
         scan'.stack = Rest, scan.folders \subseteq scan'.folders
  PROVE  Framed' /\ Left' = Left \ {Min(Top.left)} /\ Len(scan'.stack) = Len(scan.stack)
         /\ scan'.stack # <<>>
<1>1. /\ Len(Rest) = Len(scan.stack) /\ Rest \in Seq(Frames) /\ Len(scan.stack) \in Level
      /\ \A i \in Level : /\ Rest[i].dir = scan.stack[i].dir
                          /\ Rest[i].left \subseteq scan.stack[i].left
      /\ UNION {Rest[i].left : i \in Level} = Left \ {Min(Top.left)}
  BY Taken
<1>2. Level' = Level
  BY <1>1 DEF Level
<1>3. ASSUME NEW i \in Level PROVE Frame(i)'
  BY <1>1, <1>3 DEF Framed, Frame
<1>4. Rest # <<>>
  BY <1>1 DEF Level
<1>5. Left' = UNION {Rest[i].left : i \in Level}
  BY <1>2 DEF Left
<1>6. Framed'
  BY <1>2, <1>3 DEF Framed
<1> QED
  BY <1>1, <1>4, <1>5, <1>6

\* How an entry is counted that is rejected, descended into, or to be read.
LEMMA Entered ==
  ASSUME ScanTypes, WalkInv, scan.at = "entry", Top.left # {}, NEW n, n = Min(Top.left),
         scan'.stack = Rest, scan'.limits = scan.limits, scan'.complete = scan.complete,
         scan'.accepted = scan.accepted, scan'.entries = scan.entries + 1,
         \/ /\ scan'.at = "entry" /\ scan'.rejected = scan.rejected \cup {n}
            /\ scan'.folders = scan.folders /\ scan'.bytes = scan.bytes
         \/ /\ scan'.at = "list" /\ scan'.node = n /\ scan'.folders = scan.folders \cup {n}
            /\ scan'.rejected = scan.rejected /\ scan'.bytes = scan.bytes
         \/ /\ scan'.at = "read" /\ scan'.node = n
            /\ scan'.rejected = scan.rejected /\ scan'.folders = scan.folders
            /\ scan'.size \in Nat /\ scan'.bytes = scan.bytes + scan'.size
            /\ scan'.bytes <= scan.limits.total
  PROVE  /\ Framed' /\ Place' /\ Once' /\ Counted'
         /\ Done' = Done \cup {n} /\ Left' = Left \ {n}
<1>1. /\ n \in Nodes /\ n \in Left /\ n \notin Done /\ n \notin Above[n]
      /\ DepthOf(n) = Len(scan.stack) /\ Above[n] \subseteq scan.folders
      /\ Held = {}
  BY Entering
<1>2. Framed /\ Once /\ Counted /\ scan.stack # <<>>
  BY DEF WalkInv, Place
<1>3. Framed' /\ Left' = Left \ {n} /\ Len(scan'.stack) = Len(scan.stack) /\ scan'.stack # <<>>
  BY <1>2, StillFramed
<1>4. Place'
  BY <1>1, <1>3, NodesAre DEF Place
<1>5. Done' = Done \cup {n}
  BY <1>1 DEF Done, Held
<1>6. Once'
  <2>1. ASSUME NEW m \in Nodes, Pend(m)' PROVE m \notin Done'
    <3>1. m \in Left' \/ Above[m] \cap Left' # {} \/ n \in Above[m]
      BY <1>1, <2>1, NodesAre DEF Pend
    <3>2. Pend(m)
      BY <1>1, <1>3, <3>1 DEF Pend
    <3>3. m \notin Done
      BY <1>2, <3>2 DEF Once
    <3>4. m # n
      <4>1. Above[n] \cap Left = {}
        <5>1. ASSUME NEW a \in Above[n], a \in Left PROVE FALSE
          <6>1. a \in Done /\ a \in Nodes
            BY <1>1, AboveIs DEF Done
          <6> QED
            BY <1>2, <5>1, <6>1 DEF Once, Pend
        <5> QED
          BY <5>1
      <4> QED
        BY <1>1, <1>3, <3>1, <4>1
    <3> QED
      BY <1>5, <3>3, <3>4
  <2>2. /\ n \notin Names(scan.accepted) /\ n \notin scan.rejected /\ n \notin scan.folders
    BY <1>1 DEF Done
  <2> QED
    BY <1>2, <2>1, <2>2 DEF Once, Held
<1>7. Counted'
  <2>1. n \notin scan.rejected \cup scan.folders
    BY <1>1 DEF Done
  <2>2. Cardinality((scan.rejected \cup scan.folders) \cup {n})
          = Cardinality(scan.rejected \cup scan.folders) + 1
    BY <2>1, ScanFields, FS_AddElement
  <2>3. Cardinality(Held) = 0 /\ Cardinality({n}) = 1 /\ Cardinality({}) = 0
    BY <1>1, FS_EmptySet, FS_Singleton
  <2>4. /\ scan.entries = Cardinality(scan.accepted) + Cardinality(scan.rejected \cup scan.folders)
        /\ Cardinality(scan.accepted) \in Nat /\ Sizes(scan.accepted) \in Nat
        /\ Sizes(scan.accepted) <= scan.bytes /\ scan.bytes <= scan.limits.total
        /\ scan.complete
    <3>1. IsFiniteSet(scan.accepted) /\ Sized(scan.accepted)
      BY <1>2, ScanFields, NamesAre DEF Once
    <3>2. Cardinality(scan.accepted) \in Nat /\ Sizes(scan.accepted) \in Nat
      BY <3>1, FS_CardinalityType, BytesAre
    <3> QED
      BY <1>2, <2>3, <3>2, ScanFields DEF Counted
  <2> DEFINE p == Cardinality(scan.accepted)
             q == Cardinality(scan.rejected \cup scan.folders)
             z == Sizes(scan.accepted)
  <2>5. /\ p \in Nat /\ q \in Nat /\ z \in Nat /\ scan.bytes \in Nat /\ scan.limits.total \in Nat
        /\ scan.entries = p + q
    BY <2>4, ScanFields
  <2>6. Cardinality(scan.accepted)' = p /\ Sizes(scan.accepted)' = z /\ scan'.complete
    BY <2>4
  <2>7. CASE scan'.at # "read"
    <3>1. scan'.rejected \cup scan'.folders = (scan.rejected \cup scan.folders) \cup {n}
      BY <2>7
    <3>2. Cardinality(Held)' = 0 /\ Cardinality(scan.rejected \cup scan.folders)' = q + 1
      BY <2>2, <2>3, <2>7, <3>1 DEF Held
    <3> HIDE DEF p, q, z
    <3>3. scan'.entries = p + (q + 1) + 0 /\ z + 0 <= scan'.bytes
          /\ scan'.bytes <= scan'.limits.total
      BY <2>4, <2>5, <2>7 DEF z
    <3> QED
      BY <2>6, <2>7, <3>2, <3>3 DEF Counted
  <2>8. CASE scan'.at = "read"
    <3>1. scan'.rejected \cup scan'.folders = scan.rejected \cup scan.folders
      BY <2>8
    <3>2. Cardinality(Held)' = 1 /\ Cardinality(scan.rejected \cup scan.folders)' = q
      BY <2>3, <2>8, <3>1 DEF Held
    <3> HIDE DEF p, q, z
    <3>3. scan'.entries = p + q + 1 /\ z + scan'.size <= scan'.bytes
          /\ scan'.bytes <= scan'.limits.total
      BY <2>4, <2>5, <2>8 DEF z
    <3> QED
      BY <2>6, <2>8, <3>2, <3>3 DEF Counted
  <2> QED
    BY <2>7, <2>8
<1> QED
  BY <1>3, <1>4, <1>5, <1>6, <1>7

\* What may be admitted is visible, and has a length.
LEMMA CandidatesAre ==
  ASSUME ScanTypes
  PROVE  /\ Visible \subseteq Nodes /\ Candidates \subseteq Visible
         /\ IsFiniteSet(Visible) /\ Cardinality(Visible) \in Nat
         /\ \A n \in Candidates : content[n].size \in Nat
         /\ \A D \in SUBSET Candidates : Sized({Candidate(n) : n \in D})
<1>1. Visible \subseteq Nodes /\ Candidates \subseteq Visible
  BY DEF Visible, Candidates
<1>2. IsFiniteSet(Visible) /\ Cardinality(Visible) \in Nat
  BY <1>1, NodesAre, FS_Subset, FS_CardinalityType
<1>3. ASSUME NEW n \in Candidates PROVE content[n].size \in Nat
  <2>1. n \in Nodes /\ content[n] \in Things /\ content[n].kind = "file"
    BY <1>1, <1>3 DEF ScanTypes, Candidates
  <2>2. content[n] \in Regular
    BY <2>1 DEF Things, Gap, Folder, Odd
  <2> QED
    BY <2>2, AdmissionConstants DEF Regular
<1>4. ASSUME NEW D \in SUBSET Candidates PROVE Sized({Candidate(n) : n \in D})
  <2> DEFINE S == {Candidate(n) : n \in D}
  <2>1. S \subseteq [node : Nodes, size : Nat]
    BY <1>1, <1>3 DEF Candidate, Admitted
  <2>2. \A f, g \in S : f.node = g.node => f = g
    BY DEF Candidate, Admitted
  <2> HIDE DEF S
  <2>3. Sized(S)
    BY <2>1, <2>2, NamesAre
  <2> QED
    BY <2>3 DEF S
<1> QED
  BY <1>1, <1>2, <1>3, <1>4

\* The next entry is what the scan takes it for.
LEMMA EnteredExact ==
  ASSUME ScanTypes, WalkInv, Rooted, Exact, scan.at = "entry", Top.left # {},
         NEW n, n = Min(Top.left), content' = content,
         Done' = Done \cup {n}, Left' = Left \ {n},
         scan'.limits = scan.limits, scan'.accepted = scan.accepted,
         scan'.entries <= scan.limits.entries, Len(scan.stack) <= scan.limits.depth,
         \/ /\ scan'.at = "entry" /\ scan'.rejected = scan.rejected \cup {n}
            /\ scan'.folders = scan.folders /\ scan'.bytes = scan.bytes
            /\ n \notin Candidates
            /\ content[n].kind = "dir" => Tree[n].class = "hidden"
         \/ /\ scan'.at = "list" /\ scan'.node = n /\ scan'.folders = scan.folders \cup {n}
            /\ scan'.rejected = scan.rejected /\ scan'.bytes = scan.bytes
            /\ content[n].kind = "dir" /\ Tree[n].class # "hidden"
         \/ /\ scan'.at = "read" /\ scan'.node = n
            /\ scan'.rejected = scan.rejected /\ scan'.folders = scan.folders
            /\ n \in Candidates /\ scan'.size = content[n].size
            /\ scan'.bytes = scan.bytes + scan'.size /\ scan'.size <= scan.limits.file
  PROVE  Exact'
<1>1. /\ n \in Nodes /\ n \in Left /\ n \notin Done /\ n \notin Above[n]
      /\ DepthOf(n) = Len(scan.stack) /\ Held = {}
  BY Entering
<1>2. Visible' = Visible /\ Candidates' = Candidates
  BY DEF Visible, Candidates
<1>3. ASSUME NEW m \in Visible PROVE m \in Done' \/ Pend(m)'
  <2>1. CASE m \in Done \/ m = n
    BY <2>1
  <2>2. CASE m \notin Done /\ m # n
    <3>1. m \in Left \/ Above[m] \cap Left # {}
      BY <2>2, <1>3 DEF Exact, Pend
    <3>2. CASE n \in Above[m]
      <4>1. content[n].kind = "dir" /\ Tree[n].class # "hidden"
        BY <1>3, <3>2 DEF Visible, Rooted
      <4>2. n \notin Candidates
        BY <4>1 DEF Candidates
      <4>3. scan'.at = "list" /\ scan'.node = n
        BY <4>1, <4>2
      <4> QED
        BY <3>2, <4>3 DEF Pend
    <3>3. CASE n \notin Above[m]
      BY <2>2, <3>1, <3>3 DEF Pend
    <3> QED
      BY <3>2, <3>3
  <2> QED
    BY <2>1, <2>2
<1>4. Done' \subseteq Visible /\ Left' \subseteq Visible
  BY <1>1 DEF Exact
<1>5. \A f \in scan'.accepted : f.node \in Candidates /\ content[f.node].text
                                /\ f.size = content[f.node].size
  BY DEF Exact
<1>6. \A m \in scan'.folders : content[m].kind = "dir" /\ Tree[m].class # "hidden"
  BY DEF Exact
<1>7. \A m \in scan'.rejected : /\ ~(m \in Candidates /\ content[m].text)
                                /\ content[m].kind = "dir" => Tree[m].class = "hidden"
  BY DEF Exact
<1>8. scan'.at = "read" => scan'.node \in Candidates /\ scan'.size = content[scan'.node].size
  OBVIOUS
<1>9. scan'.bytes = Sizes({Candidate(m) : m \in Done' \cap Candidates})
  <2> DEFINE F == {Candidate(m) : m \in Done \cap Candidates}
  <2>1. scan.bytes = Sizes(F)
    BY DEF Exact
  <2>2. CASE scan'.at = "read"
    <3>1. {Candidate(m) : m \in Done' \cap Candidates} = F \cup {Candidate(n)}
      BY <2>2
    <3>2. Candidate(n) \notin F /\ Candidate(n).size = content[n].size
      BY <1>1 DEF Candidate, Admitted
    <3>3. content[n].size \in Nat /\ Sized(F)
      BY <2>2, CandidatesAre
    <3> HIDE DEF F
    <3>4. Sizes(F \cup {Candidate(n)}) = Sizes(F) + content[n].size
      BY <3>2, <3>3, OneMoreFile
    <3> QED
      BY <2>1, <2>2, <3>1, <3>4
  <2>3. CASE scan'.at # "read"
    <3>1. n \notin Candidates
      BY <2>3 DEF Candidates
    <3>2. Done' \cap Candidates = Done \cap Candidates
      BY <3>1
    <3> QED
      BY <2>1, <2>3, <3>2
  <2> QED
    BY <2>2, <2>3
<1>10. \A m \in Done' : DepthOf(m) <= scan'.limits.depth
  BY <1>1 DEF Exact
<1>11. \A m \in Done' \cap Candidates : content[m].size <= scan'.limits.file
  <2>1. n \in Candidates => scan'.at = "read"
    BY DEF Candidates
  <2> QED
    BY <2>1 DEF Exact
<1>12. (\A m : Candidate(m)' = Candidate(m)) /\ Held' = IF scan'.at = "read" THEN {n} ELSE {}
  BY DEF Candidate, Held
<1>13. Sizes({Candidate(m) : m \in Done \cap Candidates})'
         = Sizes({Candidate(m) : m \in Done' \cap Candidates})
  BY <1>2, <1>12
<1> QED
  BY <1>2, <1>3, <1>4, <1>5, <1>6, <1>7, <1>8, <1>9, <1>10, <1>11, <1>13 DEF Exact

\* A file that was read is admitted or rejected.
LEMMA ReadTextKeeps ==
  ASSUME ScanTypes, WalkInv, ReadText
  PROVE  ScanTypes' /\ WalkInv'
<1> DEFINE n == scan.node
           f == Admitted(n, scan.size)
<1>1. PICK passes :
        /\ content[n].kind # "other" => passes = content[n].text
        /\ scan' = IF passes
                   THEN [scan EXCEPT !.at = "entry", !.accepted = @ \cup {f}]
                   ELSE Reject(scan, n)
        /\ content' = content /\ changes' = changes
  BY DEF ReadText
<1>2. scan.at = "read" /\ n \in Nodes /\ Held = {n} /\ scan.stack # <<>>
      /\ Framed /\ Once /\ Counted
  BY DEF ReadText, WalkInv, Place, Held
<1>3. /\ scan \in Scans /\ scan.size \in Nat
      /\ scan.accepted \subseteq [node : Nodes, size : Nat]
      /\ scan.rejected \subseteq Nodes /\ scan.folders \subseteq Nodes
  BY ScanFields DEF ScanTypes
<1>4. f \in [node : Nodes, size : Nat] /\ f.node = n /\ f.size = scan.size
  BY <1>2, <1>3 DEF Admitted
<1>5. /\ scan'.at = "entry" /\ scan'.stack = scan.stack /\ scan'.limits = scan.limits
      /\ scan'.bytes = scan.bytes /\ scan'.entries = scan.entries
      /\ scan'.complete = scan.complete /\ scan'.folders = scan.folders
      /\ scan'.accepted = IF passes THEN scan.accepted \cup {f} ELSE scan.accepted
      /\ scan'.rejected = IF passes THEN scan.rejected ELSE scan.rejected \cup {n}
  BY <1>1, <1>3 DEF Reject, Scans
<1>6. ScanTypes'
  <2>1. scan' \in Scans
    <3> HIDE DEF f
    <3>1. CASE passes
      BY <1>1, <1>3, <1>4, <3>1 DEF Scans
    <3>2. CASE ~passes
      BY <1>1, <1>2, <1>3, <3>2 DEF Scans, Reject
    <3> QED
      BY <3>1, <3>2
  <2> QED
    BY <1>1, <2>1 DEF ScanTypes
<1>7. Level' = Level /\ Left' = Left /\ Held' = {}
  BY <1>5 DEF Level, Left, Held
<1>8. Names(scan.accepted)' = IF passes THEN Names(scan.accepted) \cup {n}
                              ELSE Names(scan.accepted)
  BY <1>4, <1>5 DEF Names
<1>9. Done' = Done
  BY <1>2, <1>5, <1>7, <1>8 DEF Done
<1>10. Framed' /\ Place'
  BY <1>2, <1>5, <1>7 DEF Framed, Frame, Place
<1>11. n \notin Names(scan.accepted) /\ n \notin scan.rejected /\ n \notin scan.folders
  BY <1>2 DEF Once
<1>12. Once'
  <2>1. ASSUME NEW m \in Nodes, Pend(m)' PROVE m \notin Done'
    BY <1>2, <1>5, <1>7, <1>9, <2>1 DEF Once, Pend
  <2>2. \A g, h \in scan'.accepted : g.node = h.node => g = h
    <3>1. \A g \in scan.accepted : g.node # n
      BY <1>11 DEF Names
    <3> HIDE DEF f
    <3> QED
      BY <1>2, <1>4, <1>5, <3>1 DEF Once
  <2>3. /\ Names(scan.accepted)' \cap scan'.rejected = {}
        /\ (Names(scan.accepted)' \cup scan'.rejected) \cap scan'.folders = {}
    BY <1>2, <1>5, <1>8, <1>11 DEF Once
  <2> QED
    BY <1>7, <2>1, <2>2, <2>3 DEF Once
<1>13. f \notin scan.accepted
  BY <1>4, <1>11 DEF Names
<1>14. Counted'
  <2> DEFINE p == Cardinality(scan.accepted)
             q == Cardinality(scan.rejected \cup scan.folders)
             z == Sizes(scan.accepted)
  <2>1. IsFiniteSet(scan.accepted) /\ Sized(scan.accepted)
    BY <1>2, <1>3, NamesAre DEF Once
  <2>2. /\ p \in Nat /\ q \in Nat /\ z \in Nat /\ scan.bytes \in Nat /\ scan.limits.total \in Nat
        /\ scan.entries = p + q + 1 /\ z + scan.size <= scan.bytes
        /\ scan.bytes <= scan.limits.total /\ scan.complete
    <3>1. Cardinality(Held) = 1
      BY <1>2, FS_Singleton
    <3> QED
      BY <1>2, <2>1, <3>1, ScanFields, FS_CardinalityType, BytesAre DEF Counted
  <2>3. Cardinality(Held)' = 0
    BY <1>7, FS_EmptySet
  <2>4. CASE passes
    <3>1. Cardinality(scan.accepted)' = p + 1
      BY <1>5, <1>13, <2>1, <2>4, FS_AddElement
    <3>2. Sizes(scan.accepted)' = z + scan.size
      <4> HIDE DEF f
      <4>1. Sizes(scan.accepted \cup {f}) = z + f.size
        BY <1>3, <1>4, <1>13, <2>1, OneMoreFile
      <4> QED
        BY <1>4, <1>5, <2>4, <4>1
    <3>3. Cardinality(scan.rejected \cup scan.folders)' = q
      BY <1>5, <2>4
    <3> HIDE DEF p, q, z, f
    <3>4. scan'.entries = (p + 1) + q + 0 /\ (z + scan.size) + 0 <= scan'.bytes
      BY <1>3, <1>5, <2>2
    <3> QED
      BY <1>5, <2>2, <2>3, <3>1, <3>2, <3>3, <3>4 DEF Counted
  <2>5. CASE ~passes
    <3>1. Cardinality(scan.accepted)' = p /\ Sizes(scan.accepted)' = z
      BY <1>5, <2>5
    <3>2. Cardinality(scan.rejected \cup scan.folders)' = q + 1
      <4>1. scan'.rejected \cup scan'.folders = (scan.rejected \cup scan.folders) \cup {n}
        BY <1>5, <2>5
      <4>2. n \notin scan.rejected \cup scan.folders
        BY <1>11
      <4>3. Cardinality((scan.rejected \cup scan.folders) \cup {n}) = q + 1
        BY <4>2, ScanFields, FS_AddElement
      <4> QED
        BY <4>1, <4>3
    <3> HIDE DEF p, q, z, f
    <3>3. scan'.entries = p + (q + 1) + 0 /\ z + 0 <= scan'.bytes
      BY <1>3, <1>5, <2>2
    <3> QED
      BY <1>5, <2>2, <2>3, <3>1, <3>2, <3>3 DEF Counted
  <2> QED
    BY <2>4, <2>5
<1>15. ASSUME changes' = 0 PROVE Rooted' /\ Exact'
  <2>1. Rooted /\ Exact
    BY <1>1, <1>15 DEF WalkInv
  <2>2. Rooted' /\ Visible' = Visible /\ Candidates' = Candidates
    BY <1>1, <2>1 DEF Rooted, Visible, Candidates
  <2>3. n \in Candidates /\ scan.size = content[n].size /\ content[n].kind = "file"
    BY <1>2, <2>1 DEF Exact, Candidates
  <2>4. passes = content[n].text
    BY <1>1, <2>3
  <2>5. \A m \in Visible : m \in Done' \/ Pend(m)'
    BY <1>2, <1>5, <1>7, <1>9, <2>1 DEF Exact, Pend
  <2>6. \A g \in scan'.accepted : g.node \in Candidates /\ content[g.node].text
                                  /\ g.size = content[g.node].size
    <3> HIDE DEF f
    <3> QED
      BY <1>4, <1>5, <2>1, <2>3, <2>4 DEF Exact
  <2>7. \A m \in scan'.rejected : /\ ~(m \in Candidates /\ content[m].text)
                                  /\ content[m].kind = "dir" => Tree[m].class = "hidden"
    BY <1>5, <2>1, <2>3, <2>4 DEF Exact
  <2>8. Sizes({Candidate(m) : m \in Done \cap Candidates})'
          = Sizes({Candidate(m) : m \in Done \cap Candidates})
    BY <1>1, <1>9, <2>2 DEF Candidate
  <2> HIDE DEF f, n
  <2> QED
    BY <1>1, <1>5, <1>7, <1>9, <2>1, <2>2, <2>5, <2>6, <2>7, <2>8 DEF Exact
<1> QED
  BY <1>6, <1>10, <1>12, <1>14, <1>15 DEF WalkInv

\* A directory that is opened has all its entries still to come.
LEMMA ListKeeps ==
  ASSUME ScanTypes, WalkInv, List
  PROVE  ScanTypes' /\ (Walking' => WalkInv')
<1> DEFINE d == scan.node
           new == {c \in Inside(d) : content[c].kind # "absent"}
           frame == [dir |-> d, left |-> new]
           k == Len(scan.stack)
<1>1. scan \in Scans /\ scan.stack \in Seq(Frames) /\ d \in Nodes \cup {0} /\ scan.at = "list"
      /\ Framed /\ Place /\ Once /\ Counted /\ content' = content /\ changes' = changes
  BY ScanFields DEF ScanTypes, List, WalkInv
<1>2. CASE ~(d # 0 => content[d].kind = "dir")
  <2>1. scan' = [scan EXCEPT !.at = "failed"]
    BY <1>2 DEF List
  <2>2. scan' \in Scans /\ scan'.at = "failed"
    BY <1>1, <2>1 DEF Scans
  <2> QED
    BY <1>1, <2>2 DEF ScanTypes, Walking
<1>3. CASE d # 0 => content[d].kind = "dir"
  <2>1. scan' = [scan EXCEPT !.at = "entry", !.stack = Append(scan.stack, frame)]
    BY <1>3 DEF List
  <2>2. frame \in Frames /\ frame.dir = d /\ frame.left = new
    BY <1>1 DEF Frames, Inside
  <2> HIDE DEF frame
  <2>3. /\ scan'.at = "entry" /\ scan'.stack = Append(scan.stack, frame)
        /\ scan'.limits = scan.limits /\ scan'.entries = scan.entries
        /\ scan'.bytes = scan.bytes /\ scan'.complete = scan.complete
        /\ scan'.accepted = scan.accepted /\ scan'.rejected = scan.rejected
        /\ scan'.folders = scan.folders
    BY <1>1, <2>1 DEF Scans
  <2>4. /\ k \in Nat /\ scan'.stack \in Seq(Frames) /\ Len(scan'.stack) = k + 1
        /\ \A i \in 1..k : scan'.stack[i] = scan.stack[i]
        /\ scan'.stack[k + 1] = frame /\ scan'.stack # <<>>
    <3> HIDE DEF Frames
    <3> QED
      BY <1>1, <2>2, <2>3
  <2>5. scan' \in Scans
    <3> HIDE DEF Frames
    <3> QED
      BY <1>1, <2>1, <2>3, <2>4 DEF Scans
  <2>6. ScanTypes'
    BY <1>1, <2>5 DEF ScanTypes
  <2>7. Left' = Left \cup new
    <3>1. Left' = UNION {scan'.stack[i].left : i \in 1..k + 1}
      BY <2>4 DEF Left, Level
    <3>2. ASSUME NEW i \in 1..k + 1, NEW m \in scan'.stack[i].left PROVE m \in Left \cup new
      <4>1. CASE i = k + 1
        BY <2>2, <2>4, <3>2, <4>1
      <4>2. CASE i # k + 1
        <5>1. i \in 1..k
          BY <2>4, <4>2
        <5>2. m \in scan.stack[i].left
          BY <2>4, <3>2, <5>1
        <5> QED
          BY <5>1, <5>2 DEF Left, Level
      <4> QED
        BY <4>1, <4>2
    <3>3. ASSUME NEW m \in Left PROVE \E i \in 1..k + 1 : m \in scan'.stack[i].left
      <4>1. PICK i \in 1..k : m \in scan.stack[i].left
        BY DEF Left, Level
      <4>2. i \in 1..k + 1 /\ m \in scan'.stack[i].left
        BY <2>4, <4>1
      <4> QED
        BY <4>2
    <3>4. ASSUME NEW m \in new PROVE m \in scan'.stack[k + 1].left /\ k + 1 \in 1..k + 1
      BY <2>2, <2>4
    <3> HIDE DEF new
    <3> QED
      BY <3>1, <3>2, <3>3, <3>4
  <2>8. Framed'
    <3>1. ASSUME NEW i \in 1..k + 1 PROVE Frame(i)'
      <4>1. CASE i # k + 1
        <5>1. i \in Level /\ scan'.stack[i] = scan.stack[i]
          BY <2>4, <4>1 DEF Level
        <5> QED
          BY <1>1, <2>3, <5>1 DEF Framed, Frame
      <4>2. CASE i = k + 1
        <5>1. scan'.stack[i].dir = d /\ scan'.stack[i].left = new
          BY <2>2, <2>4, <4>2
        <5>2. i = 1 => d = 0
          <6> SUFFICES ASSUME i = 1, d # 0 PROVE FALSE
            OBVIOUS
          <6>1. DepthOf(d) = k /\ d \in Nodes
            BY <1>1 DEF Place
          <6>2. k = 0
            BY <2>4, <4>2
          <6> QED
            BY <6>1, <6>2, DepthIs
        <5>3. i > 1 => d \in scan.folders /\ Above[d] \subseteq scan.folders
                       /\ DepthOf(d) = i - 1
          BY <1>1, <2>4, <4>2 DEF Place
        <5> QED
          BY <2>3, <5>1, <5>2, <5>3 DEF Frame
      <4> QED
        BY <4>1, <4>2
    <3> QED
      BY <2>4, <3>1 DEF Framed, Level
  <2>9. Place'
    BY <2>3, <2>4 DEF Place
  <2>10. Held' = {} /\ Held = {} /\ Done' = Done
    BY <1>1, <2>3 DEF Held, Done
  <2>11. ASSUME NEW m \in Nodes, Pend(m)' PROVE Pend(m)
    <3>1. m \in Left' \/ Above[m] \cap Left' # {}
      BY <2>3, <2>11 DEF Pend
    <3>2. ASSUME NEW a \in new, a = m \/ a \in Above[m] PROVE d = 0 \/ d \in Above[m]
      <4>1. a \in Nodes /\ Tree[a].parent = d
        BY DEF Inside
      <4>2. d = 0 \/ d \in Above[a]
        BY <4>1, AboveDef
      <4> QED
        BY <3>2, <4>2, AboveTransitive
    <3> HIDE DEF new
    <3> QED
      BY <1>1, <2>7, <3>1, <3>2 DEF Pend
  <2>12. Once'
    BY <1>1, <2>3, <2>10, <2>11 DEF Once
  <2>13. Counted'
    BY <1>1, <2>3, <2>10 DEF Counted
  <2>14. ASSUME changes' = 0 PROVE Rooted' /\ Exact'
    <3>1. Rooted /\ Exact
      BY <1>1, <2>14 DEF WalkInv
    <3>2. Rooted' /\ Visible' = Visible /\ Candidates' = Candidates
      BY <1>1, <3>1 DEF Rooted, Visible, Candidates
    <3>3. ASSUME NEW m \in Visible PROVE m \in Done' \/ Pend(m)'
      <4>1. CASE d = 0 \/ d \in Above[m]
        <5>1. m \in Nodes /\ content[m].kind # "absent"
          BY <3>3 DEF Visible
        <5>2. PICK c \in Above[m] \cup {m} : Tree[c].parent = d
          BY <4>1, <5>1, Branch
        <5>3. c \in Nodes /\ content[c].kind # "absent"
          BY <3>1, <5>1, <5>2, AboveIs DEF Rooted
        <5>4. c \in new
          BY <5>2, <5>3 DEF Inside
        <5> QED
          BY <2>7, <5>2, <5>4 DEF Pend
      <4>2. CASE ~(d = 0 \/ d \in Above[m])
        BY <2>7, <2>10, <3>1, <3>3, <4>2 DEF Exact, Pend
      <4> QED
        BY <4>1, <4>2
    <3>4. Left' \subseteq Visible
      <4>1. ASSUME NEW c \in new PROVE c \in Visible
        <5>1. c \in Nodes /\ Tree[c].parent = d /\ content[c].kind # "absent"
          BY DEF Inside
        <5>2. Above[c] \subseteq scan.folders
          BY <1>1, <5>1, AboveDef DEF Place
        <5> QED
          BY <3>1, <5>1, <5>2 DEF Exact, Visible
      <4> HIDE DEF new
      <4> QED
        BY <2>7, <3>1, <4>1 DEF Exact
    <3>5. Sizes({Candidate(m) : m \in Done \cap Candidates})'
            = Sizes({Candidate(m) : m \in Done \cap Candidates})
      BY <1>1, <2>10, <3>2 DEF Candidate
    <3> HIDE DEF new, d
    <3> QED
      BY <1>1, <2>3, <2>10, <3>1, <3>2, <3>3, <3>4, <3>5 DEF Exact
  <2> QED
    BY <2>6, <2>8, <2>9, <2>12, <2>13, <2>14 DEF WalkInv
<1> QED
  BY <1>2, <1>3

\* A directory that is left has no entries to come.
LEMMA LeaveKeeps ==
  ASSUME ScanTypes, WalkInv, Leave, Len(scan.stack) # 1
  PROVE  ScanTypes' /\ WalkInv'
<1> DEFINE k == Len(scan.stack)
<1>1. scan \in Scans /\ scan.stack \in Seq(Frames) /\ scan.stack # <<>> /\ scan.at = "entry"
      /\ Framed /\ Place /\ Once /\ Counted /\ content' = content /\ changes' = changes
      /\ scan.stack[k].left = {}
      /\ scan' = [scan EXCEPT !.stack = SubSeq(scan.stack, 1, k - 1)]
  BY ScanFields DEF ScanTypes, Leave, WalkInv, Top, Place
<1>2. /\ scan'.at = "entry" /\ scan'.stack = SubSeq(scan.stack, 1, k - 1)
      /\ scan'.limits = scan.limits /\ scan'.entries = scan.entries
      /\ scan'.bytes = scan.bytes /\ scan'.complete = scan.complete
      /\ scan'.accepted = scan.accepted /\ scan'.rejected = scan.rejected
      /\ scan'.folders = scan.folders
  BY <1>1 DEF Scans
<1>3. /\ k \in Nat /\ k > 1 /\ scan'.stack \in Seq(Frames) /\ Len(scan'.stack) = k - 1
      /\ \A i \in 1..k - 1 : scan'.stack[i] = scan.stack[i]
      /\ scan'.stack # <<>>
  <2> HIDE DEF Frames
  <2>1. k \in Nat /\ k > 1
    <3>1. k \in Nat /\ k # 0
      BY <1>1
    <3>2. k # 1
      OBVIOUS
    <3> HIDE DEF k
    <3> QED
      BY <3>1, <3>2
  <2>2. scan'.stack \in Seq(Frames) /\ Len(scan'.stack) = k - 1
        /\ \A i \in 1..k - 1 : scan'.stack[i] = scan.stack[i]
    BY <1>1, <1>2, <2>1
  <2> QED
    BY <2>1, <2>2
<1>4. ScanTypes'
  <2>1. scan' \in Scans
    <3> HIDE DEF Frames
    <3> QED
      BY <1>1, <1>2, <1>3 DEF Scans
  <2> QED
    BY <1>1, <2>1 DEF ScanTypes
<1>5. Left' = Left
  <2>1. Left' = UNION {scan.stack[i].left : i \in 1..k - 1}
    BY <1>3 DEF Left, Level
  <2>2. ASSUME NEW m \in Left PROVE \E i \in 1..k - 1 : m \in scan.stack[i].left
    <3>1. PICK i \in 1..k : m \in scan.stack[i].left
      BY DEF Left, Level
    <3>2. i # k
      BY <1>1, <3>1
    <3>3. i \in 1..k - 1
      BY <1>3, <3>2
    <3> QED
      BY <3>1, <3>3
  <2>3. ASSUME NEW i \in 1..k - 1 PROVE scan.stack[i].left \subseteq Left
    <3>1. i \in Level
      BY <1>3 DEF Level
    <3> QED
      BY <3>1 DEF Left
  <2> QED
    BY <2>1, <2>2, <2>3
<1>6. Framed'
  <2>1. ASSUME NEW i \in 1..k - 1 PROVE Frame(i)'
    <3>1. i \in Level /\ scan'.stack[i] = scan.stack[i]
      BY <1>3 DEF Level
    <3> QED
      BY <1>1, <1>2, <3>1 DEF Framed, Frame
  <2> QED
    BY <1>3, <2>1 DEF Framed, Level
<1>7. Place'
  BY <1>2, <1>3 DEF Place
<1>8. Held' = {} /\ Held = {} /\ Done' = Done
  BY <1>1, <1>2 DEF Held, Done
<1>9. \A m \in Nodes : Pend(m)' <=> Pend(m)
  BY <1>1, <1>2, <1>5 DEF Pend
<1>10. Once' /\ Counted'
  BY <1>1, <1>2, <1>8, <1>9 DEF Once, Counted
<1>11. ASSUME changes' = 0 PROVE Rooted' /\ Exact'
  <2>1. Rooted /\ Exact
    BY <1>1, <1>11 DEF WalkInv
  <2>2. Rooted' /\ Visible' = Visible /\ Candidates' = Candidates
    BY <1>1, <2>1 DEF Rooted, Visible, Candidates
  <2>3. Sizes({Candidate(m) : m \in Done \cap Candidates})'
          = Sizes({Candidate(m) : m \in Done \cap Candidates})
    BY <1>1, <1>8, <2>2 DEF Candidate
  <2>4. \A m \in Visible : Pend(m)' <=> Pend(m)
    BY <1>9 DEF Visible
  <2> QED
    BY <1>1, <1>2, <1>5, <1>8, <2>1, <2>2, <2>3, <2>4 DEF Exact
<1> QED
  BY <1>4, <1>6, <1>7, <1>10, <1>11 DEF WalkInv

\* Of what is there only a file has a length.
LEMMA ThingsAre ==
  ASSUME ScanTypes, NEW n \in Nodes
  PROVE  /\ content[n].kind \in {"absent", "dir", "other", "file"}
         /\ content[n].kind = "file" => content[n].size \in Nat
         /\ Tree[n].class \in {"plain", "unsupported", "hidden"}
<1>1. content[n] \in Things
  BY DEF ScanTypes
<1>2. CASE content[n] \in Regular
  BY <1>2, ParentsAre, AdmissionConstants DEF Regular
<1>3. CASE content[n] \in {Gap, Folder, Odd}
  BY <1>3, ParentsAre DEF Gap, Folder, Odd
<1> QED
  BY <1>1, <1>2, <1>3 DEF Things

\* The scan when it has counted the next entry.
Looked == [scan EXCEPT !.entries = scan.entries + 1, !.stack = Rest]

\* Only its count and its stack have changed.
LEMMA LookedIs ==
  ASSUME ScanTypes, WalkInv, scan.at = "entry", Top.left # {}
  PROVE  /\ Looked \in Scans /\ Looked.entries = scan.entries + 1 /\ Looked.stack = Rest
         /\ Looked.limits = scan.limits /\ Looked.complete = scan.complete
         /\ Looked.bytes = scan.bytes /\ Looked.accepted = scan.accepted
         /\ Looked.rejected = scan.rejected /\ Looked.folders = scan.folders
         /\ Len(Looked.stack) = Len(scan.stack)
<1>1. Rest \in Seq(Frames) /\ Len(Rest) = Len(scan.stack)
  BY Taken DEF WalkInv, Place
<1>2. scan \in Scans /\ scan.entries + 1 \in Nat
  BY ScanFields DEF ScanTypes
<1> HIDE DEF Frames
<1> QED
  BY <1>1, <1>2 DEF Looked, Scans

\* What Enter does with an entry, and when.
LEMMA EnterCases ==
  ASSUME ScanTypes, WalkInv, Enter, NEW n, n = Min(Top.left)
  PROVE  /\ scan.at = "entry" /\ Top.left # {} /\ content' = content /\ changes' = changes
         /\ \/ /\ scan' = Exceed(Looked)
               /\ \/ scan.entries + 1 > scan.limits.entries
                  \/ Len(scan.stack) > scan.limits.depth
                  \/ /\ content[n].kind = "file" /\ Tree[n].class = "plain"
                     /\ \/ content[n].size > scan.limits.file
                        \/ scan.bytes + content[n].size > scan.limits.total
            \/ /\ scan.entries + 1 <= scan.limits.entries
               /\ Len(scan.stack) <= scan.limits.depth
               /\ \/ /\ scan' = Reject(Looked, n)
                     /\ ~(content[n].kind = "file" /\ Tree[n].class = "plain")
                     /\ content[n].kind = "dir" => Tree[n].class = "hidden"
                  \/ /\ scan' = [Looked EXCEPT !.at = "list", !.node = n,
                                               !.folders = scan.folders \cup {n}]
                     /\ content[n].kind = "dir" /\ Tree[n].class # "hidden"
                  \/ /\ scan' = [Looked EXCEPT !.at = "read", !.node = n,
                                               !.size = content[n].size,
                                               !.bytes = scan.bytes + content[n].size]
                     /\ content[n].kind = "file" /\ Tree[n].class = "plain"
                     /\ content[n].size <= scan.limits.file
                     /\ scan.bytes + content[n].size <= scan.limits.total
<1> DEFINE c == content[n]
<1>1. scan.at = "entry" /\ Top.left # {} /\ content' = content /\ changes' = changes
  BY DEF Enter
<1>2. n \in Nodes
  BY <1>1, Entering
<1>3. /\ Looked.entries = scan.entries + 1 /\ Looked.limits = scan.limits
      /\ Looked.bytes = scan.bytes /\ Looked.folders = scan.folders
      /\ Len(Looked.stack) = Len(scan.stack)
  BY <1>1, LookedIs
<1>4. Looked = [scan EXCEPT !.entries = @ + 1, !.stack = Rest]
  BY DEF Looked
<1>5. scan' = IF Looked.entries > Looked.limits.entries \/ Len(Looked.stack) > Looked.limits.depth
              THEN Exceed(Looked)
              ELSE IF Tree[n].class = "hidden" \/ c.kind = "absent" THEN Reject(Looked, n)
              ELSE IF c.kind = "dir"
                   THEN [Looked EXCEPT !.at = "list", !.node = n, !.folders = @ \cup {n}]
              ELSE IF c.kind = "other" \/ Tree[n].class = "unsupported" THEN Reject(Looked, n)
              ELSE IF c.size > Looked.limits.file \/ Looked.bytes + c.size > Looked.limits.total
                   THEN Exceed(Looked)
              ELSE [Looked EXCEPT !.at = "read", !.node = n, !.size = c.size,
                                  !.bytes = @ + c.size]
  BY <1>4 DEF Enter
<1>6. /\ scan.entries \in Nat /\ scan.limits.entries \in Nat /\ Len(scan.stack) \in Nat
      /\ scan.limits.depth \in Nat /\ scan.limits.file \in Nat /\ scan.limits.total \in Nat
      /\ scan.bytes \in Nat
  <2> HIDE DEF Frames
  <2> QED
    BY ScanFields
<1>7. /\ c.kind \in {"absent", "dir", "other", "file"} /\ (c.kind = "file" => c.size \in Nat)
      /\ Tree[n].class \in {"plain", "unsupported", "hidden"}
  BY <1>2, ThingsAre
<1>8. CASE \/ scan.entries + 1 > scan.limits.entries
           \/ Len(scan.stack) > scan.limits.depth
  BY <1>1, <1>3, <1>5, <1>8
<1>9. CASE ~(\/ scan.entries + 1 > scan.limits.entries
             \/ Len(scan.stack) > scan.limits.depth)
  <2>1. scan.entries + 1 <= scan.limits.entries /\ Len(scan.stack) <= scan.limits.depth
    BY <1>6, <1>9
  <2>2. CASE Tree[n].class = "hidden" \/ c.kind = "absent"
    <3>1. scan' = Reject(Looked, n)
      BY <1>3, <1>5, <1>9, <2>2
    <3> QED
      BY <1>1, <1>7, <2>1, <2>2, <3>1
  <2>3. CASE Tree[n].class # "hidden" /\ c.kind = "dir"
    <3>1. scan' = [Looked EXCEPT !.at = "list", !.node = n, !.folders = scan.folders \cup {n}]
      BY <1>3, <1>5, <1>9, <2>3
    <3> QED
      BY <1>1, <1>7, <2>1, <2>3, <3>1
  <2>4. CASE /\ Tree[n].class # "hidden" /\ c.kind \notin {"absent", "dir"}
             /\ c.kind = "other" \/ Tree[n].class = "unsupported"
    <3>1. scan' = Reject(Looked, n)
      BY <1>3, <1>5, <1>9, <2>4
    <3> QED
      BY <1>1, <1>7, <2>1, <2>4, <3>1
  <2>5. CASE c.kind = "file" /\ Tree[n].class = "plain"
    <3>1. CASE c.size > scan.limits.file \/ scan.bytes + c.size > scan.limits.total
      <4>1. scan' = Exceed(Looked)
        BY <1>3, <1>5, <1>9, <2>5, <3>1
      <4> QED
        BY <1>1, <2>5, <3>1, <4>1
    <3>2. CASE ~(c.size > scan.limits.file \/ scan.bytes + c.size > scan.limits.total)
      <4>1. scan' = [Looked EXCEPT !.at = "read", !.node = n, !.size = c.size,
                                   !.bytes = scan.bytes + c.size]
        BY <1>3, <1>5, <1>9, <2>5, <3>2
      <4>2. c.size <= scan.limits.file /\ scan.bytes + c.size <= scan.limits.total
        BY <1>6, <1>7, <2>5, <3>2
      <4> QED
        BY <1>1, <2>1, <2>5, <4>1, <4>2
    <3> QED
      BY <3>1, <3>2
  <2> QED
    BY <1>7, <2>2, <2>3, <2>4, <2>5
<1> QED
  BY <1>8, <1>9

\* An entry that is counted is rejected, descended into, or to be read.
LEMMA EnterKeeps ==
  ASSUME ScanTypes, WalkInv, Enter, NEW n, n = Min(Top.left), scan' # Exceed(Looked)
  PROVE  ScanTypes' /\ WalkInv'
<1>1. /\ scan.at = "entry" /\ Top.left # {} /\ content' = content /\ changes' = changes
      /\ scan.entries + 1 <= scan.limits.entries /\ Len(scan.stack) <= scan.limits.depth
  BY EnterCases
<1>2. n \in Nodes
  BY <1>1, Entering
<1>3. /\ Looked \in Scans /\ Looked.entries = scan.entries + 1 /\ Looked.stack = Rest
      /\ Looked.limits = scan.limits /\ Looked.complete = scan.complete
      /\ Looked.bytes = scan.bytes /\ Looked.accepted = scan.accepted
      /\ Looked.rejected = scan.rejected /\ Looked.folders = scan.folders
  BY <1>1, LookedIs
<1>4. scan.bytes \in Nat /\ scan.rejected \subseteq Nodes /\ scan.folders \subseteq Nodes
  BY ScanFields
<1>5. /\ scan' \in Scans
      /\ scan'.stack = Rest /\ scan'.limits = scan.limits /\ scan'.complete = scan.complete
      /\ scan'.accepted = scan.accepted /\ scan'.entries = scan.entries + 1
      /\ \/ /\ scan'.at = "entry" /\ scan'.rejected = scan.rejected \cup {n}
            /\ scan'.folders = scan.folders /\ scan'.bytes = scan.bytes
            /\ n \notin Candidates
            /\ content[n].kind = "dir" => Tree[n].class = "hidden"
         \/ /\ scan'.at = "list" /\ scan'.node = n /\ scan'.folders = scan.folders \cup {n}
            /\ scan'.rejected = scan.rejected /\ scan'.bytes = scan.bytes
            /\ content[n].kind = "dir" /\ Tree[n].class # "hidden"
         \/ /\ scan'.at = "read" /\ scan'.node = n
            /\ scan'.rejected = scan.rejected /\ scan'.folders = scan.folders
            /\ content[n].kind = "file" /\ Tree[n].class = "plain"
            /\ scan'.size = content[n].size /\ scan'.size \in Nat
            /\ scan'.bytes = scan.bytes + scan'.size /\ scan'.bytes <= scan.limits.total
            /\ scan'.size <= scan.limits.file
  <2> HIDE DEF Frames
  <2>1. CASE /\ scan' = Reject(Looked, n)
             /\ ~(content[n].kind = "file" /\ Tree[n].class = "plain")
             /\ content[n].kind = "dir" => Tree[n].class = "hidden"
    <3>1. /\ scan' \in Scans
          /\ scan'.stack = Rest /\ scan'.limits = scan.limits /\ scan'.complete = scan.complete
          /\ scan'.accepted = scan.accepted /\ scan'.entries = scan.entries + 1
          /\ scan'.at = "entry" /\ scan'.rejected = scan.rejected \cup {n}
          /\ scan'.folders = scan.folders /\ scan'.bytes = scan.bytes
      BY <1>2, <1>3, <1>4, <2>1 DEF Reject, Scans
    <3>2. n \notin Candidates
      BY <2>1 DEF Candidates
    <3> QED
      BY <2>1, <3>1, <3>2
  <2>2. CASE /\ scan' = [Looked EXCEPT !.at = "list", !.node = n,
                                       !.folders = scan.folders \cup {n}]
             /\ content[n].kind = "dir" /\ Tree[n].class # "hidden"
    <3>1. /\ scan' \in Scans
          /\ scan'.stack = Rest /\ scan'.limits = scan.limits /\ scan'.complete = scan.complete
          /\ scan'.accepted = scan.accepted /\ scan'.entries = scan.entries + 1
          /\ scan'.at = "list" /\ scan'.node = n /\ scan'.folders = scan.folders \cup {n}
          /\ scan'.rejected = scan.rejected /\ scan'.bytes = scan.bytes
      BY <1>2, <1>3, <1>4, <2>2 DEF Scans
    <3> QED
      BY <2>2, <3>1
  <2>3. CASE /\ scan' = [Looked EXCEPT !.at = "read", !.node = n, !.size = content[n].size,
                                       !.bytes = scan.bytes + content[n].size]
             /\ content[n].kind = "file" /\ Tree[n].class = "plain"
             /\ content[n].size <= scan.limits.file
             /\ scan.bytes + content[n].size <= scan.limits.total
    <3>1. content[n].size \in Nat /\ scan.bytes + content[n].size \in Nat
      BY <1>2, <1>4, <2>3, ThingsAre
    <3>2. /\ scan' \in Scans
          /\ scan'.stack = Rest /\ scan'.limits = scan.limits /\ scan'.complete = scan.complete
          /\ scan'.accepted = scan.accepted /\ scan'.entries = scan.entries + 1
          /\ scan'.at = "read" /\ scan'.node = n
          /\ scan'.rejected = scan.rejected /\ scan'.folders = scan.folders
          /\ scan'.size = content[n].size /\ scan'.bytes = scan.bytes + content[n].size
      BY <1>2, <1>3, <1>4, <2>3, <3>1 DEF Scans
    <3> QED
      BY <2>3, <3>1, <3>2
  <2> QED
    BY <2>1, <2>2, <2>3, EnterCases
<1>6. ScanTypes'
  BY <1>1, <1>5 DEF ScanTypes
<1>7. Framed' /\ Place' /\ Once' /\ Counted' /\ Done' = Done \cup {n} /\ Left' = Left \ {n}
  BY <1>1, <1>5, Entered
<1>8. ASSUME changes' = 0 PROVE Rooted' /\ Exact'
  <2>1. Rooted /\ Exact
    BY <1>1, <1>8 DEF WalkInv
  <2>2. Rooted'
    BY <1>1, <2>1 DEF Rooted
  <2>3. n \in Visible
    BY <1>1, <2>1, Entering DEF Exact
  <2>4. content[n].kind = "file" /\ Tree[n].class = "plain" => n \in Candidates
    BY <2>3 DEF Candidates
  <2>5. scan'.entries <= scan.limits.entries
    BY <1>1, <1>5
  <2>6. Exact'
    BY <1>1, <1>5, <1>7, <2>1, <2>4, <2>5, EnteredExact
  <2> QED
    BY <2>2, <2>6
<1> QED
  BY <1>6, <1>7, <1>8 DEF WalkInv

\* A scan that ends keeps what it has admitted, without the paths that collide.
LEMMA FinishIs ==
  ASSUME ScanTypes, WalkInv, NEW s \in Scans, scan' = Finish(s),
         s.accepted = scan.accepted, s.rejected = scan.rejected, s.folders = scan.folders,
         s.limits = scan.limits, s.bytes = scan.bytes
  PROVE  /\ scan' \in Scans /\ scan'.at = "over"
         /\ scan'.limits = scan.limits /\ scan'.bytes = scan.bytes
         /\ scan'.entries = s.entries /\ scan'.complete = s.complete
         /\ scan'.accepted = scan.accepted \ Colliding(scan.accepted)
         /\ scan'.rejected = scan.rejected \cup Names(Colliding(scan.accepted))
         /\ scan'.folders = scan.folders
         /\ Colliding(scan'.accepted) = {} /\ Names(scan'.accepted) \cap scan'.rejected = {}
         /\ Sizes(scan'.accepted) <= scan'.limits.total /\ scan'.bytes <= scan'.limits.total
<1> DEFINE acc == scan.accepted
           both == Colliding(acc)
<1>1. /\ acc \subseteq [node : Nodes, size : Nat] /\ scan.rejected \subseteq Nodes
      /\ both \subseteq acc /\ Names(both) \subseteq Nodes
  BY ScanFields DEF Colliding, Names
<1>2. scan' = [s EXCEPT !.at = "over", !.accepted = acc \ both,
                        !.rejected = scan.rejected \cup Names(both)]
  BY DEF Finish, Names
<1>3. /\ scan' \in Scans /\ scan'.at = "over"
      /\ scan'.limits = scan.limits /\ scan'.bytes = scan.bytes
      /\ scan'.entries = s.entries /\ scan'.complete = s.complete
      /\ scan'.accepted = acc \ both
      /\ scan'.rejected = scan.rejected \cup Names(both)
      /\ scan'.folders = scan.folders
  <2> HIDE DEF both, acc, Frames
  <2>1. acc \ both \subseteq [node : Nodes, size : Nat]
        /\ scan.rejected \cup Names(both) \subseteq Nodes
    BY <1>1
  <2> DEFINE left == acc \ both
             out == scan.rejected \cup Names(both)
  <2>2. scan' = [s EXCEPT !.at = "over", !.accepted = left, !.rejected = out]
        /\ left \subseteq [node : Nodes, size : Nat] /\ out \subseteq Nodes
    BY <1>2, <2>1
  <2> HIDE DEF left, out
  <2>3. scan' \in Scans
    BY <2>2 DEF Scans
  <2>4. /\ scan'.at = "over" /\ scan'.accepted = left /\ scan'.rejected = out
        /\ scan'.limits = s.limits /\ scan'.bytes = s.bytes /\ scan'.entries = s.entries
        /\ scan'.complete = s.complete /\ scan'.folders = s.folders
    BY <2>2 DEF Scans
  <2> QED
    BY <2>3, <2>4 DEF left, out
<1>4. Colliding(acc \ both) = {}
  BY DEF Colliding
<1>5. Once /\ Counted
  BY DEF WalkInv
<1>6. Names(acc \ both) \cap (scan.rejected \cup Names(both)) = {}
  <2>1. \A f, g \in acc : f.node = g.node => f = g
    BY <1>5 DEF Once
  <2>2. Names(acc) \cap scan.rejected = {}
    BY <1>5 DEF Once
  <2> SUFFICES ASSUME NEW f \in acc \ both, f.node \in scan.rejected \cup Names(both)
               PROVE  FALSE
    BY DEF Names
  <2> HIDE DEF both, acc
  <2>3. f.node \in Names(acc)
    BY DEF Names
  <2>4. PICK g \in both : g.node = f.node
    BY <2>2, <2>3 DEF Names
  <2>5. g = f
    BY <1>1, <2>1, <2>4
  <2> QED
    BY <2>4, <2>5
<1>7. Sizes(acc \ both) <= scan.limits.total /\ scan.bytes <= scan.limits.total
  <2>1. Sized(acc)
    BY <1>1, <1>5, NamesAre DEF Once
  <2>2. Sized(acc \ both) /\ Sizes(acc \ both) <= Sizes(acc)
    <3> HIDE DEF both
    <3> QED
      BY <2>1, FewerBytes
  <2>3. Sizes(acc \ both) \in Nat /\ Sizes(acc) \in Nat
    BY <2>1, <2>2, BytesAre
  <2>4. Sizes(acc) <= scan.bytes /\ scan.bytes <= scan.limits.total
    <3>1. Sizes(acc) + (IF scan.at = "read" THEN scan.size ELSE 0) <= scan.bytes
          /\ scan.bytes <= scan.limits.total
      BY <1>5 DEF Counted
    <3> QED
      BY <2>3, <3>1, ScanFields
  <2>5. scan.bytes \in Nat /\ scan.limits.total \in Nat
    BY ScanFields
  <2> DEFINE y == Sizes(acc \ both)
             z == Sizes(acc)
  <2>6. y \in Nat /\ z \in Nat /\ y <= z /\ z <= scan.bytes
    BY <2>2, <2>3, <2>4
  <2> HIDE DEF y, z
  <2>7. y <= scan.limits.total
    BY <2>4, <2>5, <2>6
  <2> QED
    BY <2>4, <2>7 DEF y
<1> QED
  BY <1>3, <1>4, <1>6, <1>7

\* What has been counted is counted once.
LEMMA DoneAre ==
  ASSUME ScanTypes, WalkInv, Held = {}
  PROVE  /\ IsFiniteSet(Done) /\ Cardinality(Done) = scan.entries
         /\ IsFiniteSet(scan.accepted) /\ Cardinality(scan.accepted) \in Nat
         /\ scan.entries = Cardinality(scan.accepted) + Cardinality(scan.rejected \cup scan.folders)
<1> DEFINE a == Names(scan.accepted)
           b == scan.rejected \cup scan.folders
<1>1. Once /\ Counted
  BY DEF WalkInv
<1>2. IsFiniteSet(a) /\ IsFiniteSet(b) /\ Cardinality(a) = Cardinality(scan.accepted)
      /\ IsFiniteSet(scan.accepted)
  BY <1>1, ScanFields, NamesAre DEF Once
<1>3. Done = a \cup b /\ a \cap b = {}
  BY <1>1 DEF Done, Once
<1>4. Cardinality(Held) = 0 /\ Cardinality({}) = 0
  BY FS_EmptySet
<1>5. Cardinality(a) \in Nat /\ Cardinality(b) \in Nat
  BY <1>2, FS_CardinalityType
<1> HIDE DEF a, b
<1>6. IsFiniteSet(a \cup b) /\ Cardinality(a \cup b) = Cardinality(a) + Cardinality(b)
  <2>1. IsFiniteSet(a \cup b)
        /\ Cardinality(a \cup b) = Cardinality(a) + Cardinality(b) - Cardinality(a \cap b)
    BY <1>2, FS_Union
  <2>2. Cardinality(a \cap b) = 0
    BY <1>3, <1>4
  <2> QED
    BY <1>5, <2>1, <2>2
<1>7. scan.entries = Cardinality(scan.accepted) + Cardinality(b)
  <2>1. scan.entries = Cardinality(scan.accepted) + Cardinality(b) + Cardinality(Held)
    BY <1>1 DEF Counted, b
  <2> QED
    BY <1>2, <1>4, <1>5, <2>1
<1> QED
  BY <1>2, <1>3, <1>5, <1>6, <1>7 DEF b

\* A limit ends a scan only of a root that is not within the limits.
LEMMA ExceedKeeps ==
  ASSUME ScanTypes, WalkInv, Enter, NEW n, n = Min(Top.left), scan' = Exceed(Looked),
         \/ scan.entries + 1 > scan.limits.entries
         \/ Len(scan.stack) > scan.limits.depth
         \/ /\ content[n].kind = "file" /\ Tree[n].class = "plain"
            /\ \/ content[n].size > scan.limits.file
               \/ scan.bytes + content[n].size > scan.limits.total
  PROVE  ScanTypes' /\ ~Walking' /\ ScanIsExact'
<1>1. scan.at = "entry" /\ Top.left # {} /\ content' = content /\ changes' = changes
  BY DEF Enter
<1> DEFINE s == [Looked EXCEPT !.complete = FALSE]
<1>2. /\ s \in Scans /\ s.complete = FALSE /\ s.accepted = scan.accepted
      /\ s.rejected = scan.rejected /\ s.folders = scan.folders
      /\ s.limits = scan.limits /\ s.bytes = scan.bytes
  <2>1. /\ Looked \in Scans /\ Looked.limits = scan.limits
        /\ Looked.bytes = scan.bytes /\ Looked.accepted = scan.accepted
        /\ Looked.rejected = scan.rejected /\ Looked.folders = scan.folders
    BY <1>1, LookedIs
  <2> HIDE DEF Frames
  <2> QED
    BY <2>1 DEF Scans
<1>3. scan' = Finish(s)
  BY DEF Exceed
<1> HIDE DEF s
<1>4. /\ scan' \in Scans /\ scan'.at = "over" /\ scan'.complete = FALSE
      /\ scan'.limits = scan.limits /\ scan'.bytes = scan.bytes
      /\ Colliding(scan'.accepted) = {} /\ Names(scan'.accepted) \cap scan'.rejected = {}
      /\ Sizes(scan'.accepted) <= scan'.limits.total /\ scan'.bytes <= scan'.limits.total
  BY <1>2, <1>3, FinishIs
<1>5. ScanTypes' /\ ~Walking'
  BY <1>1, <1>4 DEF ScanTypes, Walking
<1>6. ASSUME changes' = 0 PROVE ~Fits'
  <2> DEFINE all == {Candidate(m) : m \in Candidates}
  <2>1. Rooted /\ Exact
    BY <1>1, <1>6 DEF WalkInv
  <2>2. n \in Nodes /\ n \in Visible /\ n \notin Done /\ DepthOf(n) = Len(scan.stack) /\ Held = {}
    BY <1>1, <2>1, Entering DEF Exact
  <2>3. Visible' = Visible /\ Candidates' = Candidates
    BY <1>1 DEF Visible, Candidates
  <2>4. Fits' <=> /\ Cardinality(Visible) <= scan.limits.entries
                  /\ \A m \in Visible : DepthOf(m) <= scan.limits.depth
                  /\ \A f \in all : f.size <= scan.limits.file
                  /\ Sizes(all) <= scan.limits.total
    BY <1>1, <1>4, <2>3 DEF Fits, Candidate
  <2>5. /\ scan.entries \in Nat /\ scan.bytes \in Nat /\ Len(scan.stack) \in Nat
        /\ scan.limits.entries \in Nat /\ scan.limits.depth \in Nat
        /\ scan.limits.file \in Nat /\ scan.limits.total \in Nat
    <3> HIDE DEF Frames
    <3> QED
      BY ScanFields
  <2>6. CASE scan.entries + 1 > scan.limits.entries
    <3>1. IsFiniteSet(Done) /\ Cardinality(Done) = scan.entries
      BY <2>2, DoneAre
    <3>2. Cardinality(Done \cup {n}) = scan.entries + 1
      <4>1. Cardinality(Done \cup {n}) = Cardinality(Done) + 1
        BY <2>2, <3>1, FS_AddElement
      <4> QED
        BY <3>1, <4>1
    <3>3. Done \cup {n} \subseteq Visible
      BY <2>1, <2>2 DEF Exact
    <3>4. Cardinality(Done \cup {n}) <= Cardinality(Visible) /\ Cardinality(Visible) \in Nat
      BY <3>3, CandidatesAre, FS_Subset
    <3>5. ~(Cardinality(Visible) <= scan.limits.entries)
      <4> DEFINE v == Cardinality(Visible)
                 w == Cardinality(Done \cup {n})
      <4>1. w = scan.entries + 1 /\ w <= v /\ v \in Nat
        BY <3>2, <3>4
      <4> HIDE DEF v, w
      <4>2. ~(v <= scan.limits.entries)
        BY <2>5, <2>6, <4>1
      <4> QED
        BY <4>2 DEF v
    <3> QED
      BY <2>4, <3>5
  <2>7. CASE Len(scan.stack) > scan.limits.depth
    <3>1. ~(DepthOf(n) <= scan.limits.depth)
      BY <2>2, <2>5, <2>7
    <3> QED
      BY <2>2, <2>4, <3>1
  <2>8. CASE /\ content[n].kind = "file" /\ Tree[n].class = "plain"
             /\ \/ content[n].size > scan.limits.file
                \/ scan.bytes + content[n].size > scan.limits.total
    <3>1. n \in Candidates /\ content[n].size \in Nat
      BY <2>2, <2>8, ThingsAre DEF Candidates
    <3>2. Candidate(n) \in all /\ Candidate(n).size = content[n].size
      BY <3>1 DEF Candidate, Admitted
    <3>3. CASE content[n].size > scan.limits.file
      <4>1. ~(content[n].size <= scan.limits.file)
        BY <2>5, <3>1, <3>3
      <4> HIDE DEF all
      <4> QED
        BY <2>4, <3>2, <4>1
    <3>4. CASE scan.bytes + content[n].size > scan.limits.total
      <4> DEFINE F == {Candidate(m) : m \in Done \cap Candidates}
      <4>1. scan.bytes = Sizes(F)
        BY <2>1 DEF Exact
      <4>2. Candidate(n) \notin F
        BY <2>2 DEF Candidate, Admitted
      <4>3. Sized(F) /\ Sized(all)
        BY CandidatesAre
      <4>4. F \cup {Candidate(n)} \subseteq all
        BY <3>2
      <4> HIDE DEF F, all
      <4>5. Sizes(F \cup {Candidate(n)}) = scan.bytes + content[n].size
        BY <3>1, <3>2, <4>1, <4>2, <4>3, OneMoreFile
      <4>6. Sizes(F \cup {Candidate(n)}) <= Sizes(all) /\ Sizes(all) \in Nat
        BY <4>3, <4>4, FewerBytes, BytesAre
      <4> DEFINE v == Sizes(all)
                 w == Sizes(F \cup {Candidate(n)})
      <4>7. w = scan.bytes + content[n].size /\ w <= v /\ v \in Nat
        BY <4>5, <4>6
      <4> HIDE DEF v, w
      <4>8. ~(v <= scan.limits.total)
        BY <2>5, <3>1, <3>4, <4>7
      <4> QED
        BY <2>4, <4>8 DEF v
    <3> QED
      BY <2>8, <3>3, <3>4
  <2> QED
    BY <2>6, <2>7, <2>8
<1>7. ScanIsExact'
  <2>1. {f.node : f \in scan'.accepted} = Names(scan'.accepted)
    BY DEF Names
  <2>2. (changes = 0)' => Fits' = FALSE
    <3>1. Fits' \in BOOLEAN
      BY DEF Fits
    <3> QED
      BY <1>6, <3>1
  <2> QED
    BY <1>4, <2>1, <2>2 DEF ScanIsExact
<1> QED
  BY <1>5, <1>7

\* A walk that comes to its end has counted all there is.
LEMMA EndKeeps ==
  ASSUME ScanTypes, WalkInv, Leave, Len(scan.stack) = 1
  PROVE  ScanTypes' /\ ~Walking' /\ ScanIsExact'
<1> DEFINE acc == scan.accepted
           both == Colliding(acc)
           rest == scan.rejected \cup scan.folders
<1>1. /\ scan.at = "entry" /\ Top.left = {} /\ scan' = Finish(scan)
      /\ content' = content /\ changes' = changes
  BY DEF Leave
<1>2. Once /\ Counted /\ Held = {}
  BY <1>1 DEF WalkInv, Held
<1>3. scan \in Scans /\ acc \subseteq [node : Nodes, size : Nat]
      /\ scan.rejected \subseteq Nodes /\ scan.folders \subseteq Nodes
  BY ScanFields DEF ScanTypes
<1>4. /\ scan' \in Scans /\ scan'.at = "over"
      /\ scan'.limits = scan.limits /\ scan'.bytes = scan.bytes
      /\ scan'.entries = scan.entries /\ scan'.complete = scan.complete
      /\ scan'.accepted = acc \ both /\ scan'.rejected = scan.rejected \cup Names(both)
      /\ scan'.folders = scan.folders
      /\ Colliding(scan'.accepted) = {} /\ Names(scan'.accepted) \cap scan'.rejected = {}
      /\ Sizes(scan'.accepted) <= scan'.limits.total /\ scan'.bytes <= scan'.limits.total
  BY <1>1, <1>3, FinishIs
<1>5. scan.complete
  BY <1>2 DEF Counted
<1>6. ScanTypes' /\ ~Walking'
  BY <1>1, <1>4 DEF ScanTypes, Walking
<1>7. scan'.entries = Cardinality(scan'.accepted)
                      + Cardinality(scan'.rejected \cup scan'.folders)
  <2>1. both \subseteq acc
    BY DEF Colliding
  <2>2. IsFiniteSet(acc) /\ scan.entries = Cardinality(acc) + Cardinality(rest)
    BY <1>2, DoneAre
  <2>3. \A f, g \in acc : f.node = g.node => f = g
    BY <1>2 DEF Once
  <2> HIDE DEF acc, both, rest
  <2>4. /\ IsFiniteSet(both) /\ IsFiniteSet(Names(both))
        /\ Cardinality(Names(both)) = Cardinality(both)
    BY <1>3, <2>1, <2>3, NamesAre
  <2>5. IsFiniteSet(rest)
    BY ScanFields DEF rest
  <2>6. Names(both) \cap rest = {}
    BY <1>2, <2>1 DEF Once, Names, acc, rest
  <2>7. Cardinality(rest \cup Names(both)) = Cardinality(rest) + Cardinality(both)
    <3>1. Cardinality(rest \cup Names(both))
            = Cardinality(rest) + Cardinality(Names(both)) - Cardinality(rest \cap Names(both))
      BY <2>4, <2>5, FS_Union
    <3>2. Cardinality(rest \cap Names(both)) = 0
      BY <2>6, FS_EmptySet
    <3> QED
      BY <2>4, <2>5, <3>1, <3>2, FS_CardinalityType
  <2>8. Cardinality(acc \ both) = Cardinality(acc) - Cardinality(both)
    <3>1. Cardinality(acc \ both) = Cardinality(acc) - Cardinality(acc \cap both)
      BY <2>2, FS_Difference
    <3>2. acc \cap both = both
      BY <2>1
    <3> QED
      BY <3>1, <3>2
  <2>9. Cardinality(acc) \in Nat /\ Cardinality(both) \in Nat /\ Cardinality(rest) \in Nat
    BY <2>2, <2>4, <2>5, FS_CardinalityType
  <2>10. scan'.rejected \cup scan'.folders = rest \cup Names(both)
    BY <1>4 DEF rest
  <2> DEFINE p == Cardinality(acc)
             q == Cardinality(both)
             r == Cardinality(rest)
  <2>11. /\ Cardinality(scan'.accepted) = p - q
         /\ Cardinality(scan'.rejected \cup scan'.folders) = r + q
         /\ scan'.entries = p + r /\ p \in Nat /\ q \in Nat /\ r \in Nat
    BY <1>4, <2>2, <2>7, <2>8, <2>9, <2>10
  <2> HIDE DEF p, q, r
  <2>12. p + r = (p - q) + (r + q)
    BY <2>11
  <2> QED
    BY <2>11, <2>12
<1>8. ASSUME changes' = 0
      PROVE  /\ Fits' = TRUE
             /\ scan'.accepted = {Candidate(n) : n \in Retained}
             /\ scan'.rejected = {n \in Visible \ Retained :
                                    content[n].kind = "dir" => Tree[n].class = "hidden"}
  <2>1. Rooted /\ Exact
    BY <1>1, <1>8 DEF WalkInv
  <2>2. Left = {}
    <3>1. Level = {1}
      BY DEF Level
    <3>2. scan.stack[1].left = {}
      BY <1>1 DEF Top
    <3> QED
      BY <3>1, <3>2 DEF Left
  <2>3. Visible = Done
    BY <1>1, <2>1, <2>2 DEF Exact, Pend
  <2>4. Visible' = Visible /\ Candidates' = Candidates /\ Candidates \subseteq Done
    BY <1>1, <2>3 DEF Visible, Candidates
  <2>5. Fits'
    <3> DEFINE all == {Candidate(n) : n \in Candidates}
    <3>1. Done \cap Candidates = Candidates
      BY <2>4
    <3>2. Cardinality(Visible) <= scan.limits.entries
      BY <1>2, <2>1, <2>3, DoneAre DEF Exact
    <3>3. \A n \in Visible : DepthOf(n) <= scan.limits.depth
      BY <2>1, <2>3 DEF Exact
    <3>4. \A f \in all : f.size <= scan.limits.file
      BY <2>1, <3>1 DEF Exact, Candidate, Admitted
    <3>5. Sizes(all) = scan.bytes
      BY <2>1, <3>1 DEF Exact
    <3>6. Sizes(all) <= scan.limits.total
      BY <1>2, <3>5 DEF Counted
    <3> QED
      BY <1>1, <1>4, <2>4, <3>2, <3>3, <3>4, <3>6 DEF Fits, Candidate
  <2>6. \A n : n \in Candidates /\ content[n].text <=> n \in Names(acc)
    <3>1. ASSUME NEW n, n \in Candidates, content[n].text PROVE n \in Names(acc)
      <4>1. content[n].kind = "file" /\ n \in Done
        BY <2>4, <3>1 DEF Candidates
      <4>2. n \notin scan.rejected /\ n \notin scan.folders
        BY <2>1, <3>1, <4>1 DEF Exact
      <4> QED
        BY <1>2, <4>1, <4>2 DEF Done
    <3>2. ASSUME NEW n \in Names(acc) PROVE n \in Candidates /\ content[n].text
      BY <2>1 DEF Exact, Names
    <3> QED
      BY <3>1, <3>2
  <2>7. \A f \in acc : f = Candidate(f.node)
    <3> SUFFICES ASSUME NEW f \in acc PROVE f = Candidate(f.node)
      OBVIOUS
    <3>1. f \in [node : Nodes, size : Nat] /\ f.size = content[f.node].size
      BY <1>3, <2>1 DEF Exact
    <3> QED
      BY <3>1 DEF Candidate, Admitted
  <2>8. \A f \in acc : f \in both <=> ~Sole(f.node)
    <3> SUFFICES ASSUME NEW f \in acc PROVE f \in both <=> ~Sole(f.node)
      OBVIOUS
    <3>1. ASSUME f \in both PROVE ~Sole(f.node)
      <4>1. PICK g \in acc \ {f} : Key(f) = Key(g)
        BY <3>1 DEF Colliding
      <4>2. g.node # f.node
        BY <1>2, <4>1 DEF Once
      <4>3. g.node \in Candidates /\ content[g.node].text
        BY <2>1, <4>1 DEF Exact
      <4> QED
        BY <4>1, <4>2, <4>3 DEF Sole, Key
    <3>2. ASSUME ~Sole(f.node) PROVE f \in both
      <4>1. PICK m \in Candidates \ {f.node} : content[m].text /\ Tree[m].key = Tree[f.node].key
        BY <3>2 DEF Sole
      <4>2. PICK g \in acc : g.node = m
        BY <2>6, <4>1 DEF Names
      <4> QED
        BY <4>1, <4>2 DEF Colliding, Key
    <3> QED
      BY <3>1, <3>2
  <2>9. \A n : n \in Retained <=> \E f \in acc \ both : f.node = n
    <3>1. ASSUME NEW n \in Retained PROVE \E f \in acc \ both : f.node = n
      <4>1. PICK f \in acc : f.node = n
        BY <2>6 DEF Names, Retained
      <4> QED
        BY <2>8, <4>1 DEF Retained
    <3>2. ASSUME NEW f \in acc \ both PROVE f.node \in Retained
      <4>1. f.node \in Candidates /\ content[f.node].text
        BY <2>1 DEF Exact
      <4> QED
        BY <2>8, <4>1 DEF Retained
    <3> HIDE DEF both, acc
    <3> QED
      BY <3>1, <3>2
  <2>10. scan'.accepted = {Candidate(n) : n \in Retained}
    <3> HIDE DEF both, acc
    <3>1. ASSUME NEW f \in acc \ both PROVE f \in {Candidate(n) : n \in Retained}
      BY <2>7, <2>9
    <3>2. ASSUME NEW n \in Retained PROVE Candidate(n) \in acc \ both
      <4>1. PICK f \in acc \ both : f.node = n
        BY <2>9
      <4> QED
        BY <2>7, <4>1
    <3> QED
      BY <1>4, <3>1, <3>2
  <2>11. scan'.rejected = {n \in Visible \ Retained :
                             content[n].kind = "dir" => Tree[n].class = "hidden"}
    <3>1. ASSUME NEW n \in scan.rejected
          PROVE  /\ n \in Visible /\ n \notin Retained
                 /\ content[n].kind = "dir" => Tree[n].class = "hidden"
      BY <2>1, <2>3 DEF Exact, Done, Retained
    <3>2. ASSUME NEW n \in Names(both)
          PROVE  /\ n \in Visible /\ n \notin Retained /\ content[n].kind # "dir"
      <4>1. PICK f \in both : f.node = n
        BY DEF Names
      <4>2. f \in acc
        BY DEF Colliding
      <4>3. n \in Candidates /\ ~Sole(n)
        BY <2>1, <2>8, <4>1, <4>2 DEF Exact
      <4> QED
        BY <4>3 DEF Candidates, Retained
    <3>3. ASSUME NEW n \in Visible \ Retained, content[n].kind = "dir" => Tree[n].class = "hidden"
          PROVE  n \in scan.rejected \cup Names(both)
      <4>1. n \in Names(acc) \cup scan.rejected \cup scan.folders
        BY <1>2, <2>3, <3>3 DEF Done
      <4>2. n \notin scan.folders
        BY <2>1, <3>3 DEF Exact
      <4>3. CASE n \in Names(acc)
        <5>1. PICK f \in acc : f.node = n
          BY <4>3 DEF Names
        <5>2. n \in Candidates /\ content[n].text
          BY <2>6, <4>3
        <5>3. f \in both
          BY <2>8, <3>3, <5>1, <5>2 DEF Retained
        <5> HIDE DEF both
        <5> QED
          BY <5>1, <5>3 DEF Names
      <4> QED
        BY <4>1, <4>2, <4>3
    <3> HIDE DEF both, acc
    <3> QED
      BY <1>4, <3>1, <3>2, <3>3
  <2>12. Fits' \in BOOLEAN
    BY DEF Fits
  <2> QED
    BY <2>5, <2>10, <2>11, <2>12
<1>9. ScanIsExact'
  <2>1. {f.node : f \in scan'.accepted} = Names(scan'.accepted)
    BY DEF Names
  <2>2. Visible' = Visible /\ Candidates' = Candidates
    BY <1>1 DEF Visible, Candidates
  <2>3. Retained' = Retained
    BY <1>1, <2>2 DEF Retained, Sole
  <2>4. scan'.complete = TRUE
    BY <1>3, <1>4, <1>5 DEF Scans
  <2>5. ASSUME changes' = 0
        PROVE  /\ scan'.complete = Fits'
               /\ scan'.accepted = {Admitted(n, content[n].size) : n \in Retained}'
               /\ scan'.rejected = {n \in Visible \ Retained :
                                      content[n].kind = "dir" => Tree[n].class = "hidden"}'
    <3>1. scan'.complete = Fits'
      BY <1>8, <2>4, <2>5
    <3>2. scan'.accepted = {Admitted(n, content[n].size) : n \in Retained}'
      BY <1>1, <1>8, <2>3, <2>5 DEF Candidate
    <3>3. scan'.rejected = {n \in Visible \ Retained :
                              content[n].kind = "dir" => Tree[n].class = "hidden"}'
      BY <1>1, <1>8, <2>2, <2>3, <2>5
    <3> QED
      BY <3>1, <3>2, <3>3
  <2> QED
    BY <1>4, <1>7, <2>1, <2>5 DEF ScanIsExact
<1> QED
  BY <1>6, <1>9

\* What people do beside a scan takes nothing from what it has counted.
LEMMA WorkKeeps ==
  ASSUME ScanTypes, WalkInv, NEW n \in Nodes, NEW c \in Things, Work(n, c)
  PROVE  ScanTypes' /\ WalkInv'
<1>1. scan' = scan /\ changes' = changes + 1
      /\ content' = Placed([content EXCEPT ![n] = c])
  BY DEF Work
<1>2. content' \in [Nodes -> Things]
  <2>1. [content EXCEPT ![n] = c] \in [Nodes -> Things] /\ Gap \in Things
    BY DEF ScanTypes, Things
  <2> HIDE DEF Things
  <2> QED
    BY <1>1, <2>1 DEF Placed
<1>3. changes' \in Nat /\ changes' # 0
  BY <1>1 DEF ScanTypes
<1>4. ScanTypes'
  BY <1>1, <1>2, <1>3 DEF ScanTypes
<1>5. Framed' /\ Place' /\ Counted'
  BY <1>1 DEF WalkInv, Framed, Frame, Level, Place, Counted, Held
<1>6. Once'
  BY <1>1 DEF WalkInv, Once, Pend, Done, Held, Left, Level
<1> QED
  BY <1>3, <1>4, <1>5, <1>6 DEF WalkInv

\* A limit ends the walk, and nothing else that is done with an entry does.
LEMMA ExceedDiffers ==
  ASSUME ScanTypes, WalkInv, Enter, NEW n, n = Min(Top.left)
  PROVE  \/ /\ scan' = Exceed(Looked)
            /\ \/ scan.entries + 1 > scan.limits.entries
               \/ Len(scan.stack) > scan.limits.depth
               \/ /\ content[n].kind = "file" /\ Tree[n].class = "plain"
                  /\ \/ content[n].size > scan.limits.file
                     \/ scan.bytes + content[n].size > scan.limits.total
         \/ scan' # Exceed(Looked) /\ scan'.at # "over"
<1>1. scan.at = "entry" /\ Top.left # {}
  BY DEF Enter
<1>2. Looked \in Scans
  BY <1>1, LookedIs
<1> HIDE DEF Frames
<1>3. Exceed(Looked).at = "over"
  BY <1>2 DEF Exceed, Finish, Scans
<1>4. /\ Reject(Looked, n).at # "over"
      /\ [Looked EXCEPT !.at = "list", !.node = n, !.folders = scan.folders \cup {n}].at
           # "over"
      /\ [Looked EXCEPT !.at = "read", !.node = n, !.size = content[n].size,
                        !.bytes = scan.bytes + content[n].size].at # "over"
  BY <1>2 DEF Reject, Scans
<1> QED
  BY <1>3, <1>4, EnterCases

\* A scan starts with everything to come and nothing counted.
LEMMA ScanStarts == AdmissionInit => ScanInv
<1> SUFFICES ASSUME AdmissionInit PROVE ScanInv
  OBVIOUS
<1>1. PICK b \in Bounds : scan = Start(b)
  BY DEF AdmissionInit
<1>2. PICK c \in [Nodes -> Things] : content = Placed(c)
  BY DEF AdmissionInit
<1>3. changes = 0
  BY DEF AdmissionInit
<1>4. /\ scan.at = "list" /\ scan.stack = <<>> /\ scan.node = 0 /\ scan.limits = b
      /\ scan.entries = 0 /\ scan.bytes = 0 /\ scan.complete = TRUE
      /\ scan.accepted = {} /\ scan.rejected = {} /\ scan.folders = {}
  BY <1>1 DEF Start
<1>5. ScanTypes
  <2>1. content \in [Nodes -> Things]
    <3>1. Gap \in Things
      BY DEF Things
    <3> HIDE DEF Things
    <3> QED
      BY <1>2, <3>1 DEF Placed
  <2>2. scan \in Scans
    <3>1. <<>> \in Seq(Frames)
      OBVIOUS
    <3> HIDE DEF Frames
    <3> QED
      BY <1>1, <3>1 DEF Start, Scans
  <2> QED
    BY <1>3, <2>1, <2>2 DEF ScanTypes
<1>6. Level = {} /\ Left = {} /\ Names(scan.accepted) = {} /\ Held = {} /\ Done = {}
  BY <1>4 DEF Level, Left, Names, Held, Done
<1>7. Framed /\ Place /\ Once
  BY <1>4, <1>6 DEF Framed, Place, Once
<1>8. b.total \in Nat /\ b.entries \in Nat
  BY AdmissionConstants
<1>9. Cardinality({}) = 0 /\ Sizes({}) = 0
  <2>1. BytesOf({}) = {} /\ Sized({})
    BY FS_EmptySet DEF BytesOf, Sized
  <2> QED
    BY <2>1, BytesAre, FS_EmptySet
<1>10. Counted
  <2>1. Cardinality(scan.accepted) = 0 /\ Cardinality(scan.rejected \cup scan.folders) = 0
        /\ Cardinality(Held) = 0 /\ Sizes(scan.accepted) = 0
    BY <1>4, <1>6, <1>9
  <2>2. /\ scan.entries = 0 + 0 + 0 /\ scan.at # "read" /\ 0 + 0 <= scan.bytes
        /\ scan.bytes <= scan.limits.total /\ scan.complete
    BY <1>4, <1>8
  <2> QED
    BY <2>1, <2>2 DEF Counted
<1>11. Rooted
  <2> SUFFICES ASSUME NEW n \in Nodes, content[n].kind # "absent", NEW a \in Above[n]
               PROVE  content[a].kind = "dir"
    BY DEF Rooted
  <2>1. \A d \in Above[n] : c[d].kind = "dir"
    BY <1>2 DEF Placed, Gap
  <2>2. a \in Nodes /\ \A d \in Above[a] : c[d].kind = "dir"
    BY <2>1, AboveIs, AboveTransitive
  <2> QED
    BY <1>2, <2>1, <2>2 DEF Placed
<1>12. Exact
  <2>1. \A n \in Visible : Pend(n)
    BY <1>4 DEF Pend
  <2>2. {Candidate(n) : n \in Done \cap Candidates} = {}
    BY <1>6
  <2>3. scan.bytes = Sizes({Candidate(n) : n \in Done \cap Candidates})
    BY <1>4, <1>9, <2>2
  <2>4. scan.entries <= scan.limits.entries
    BY <1>4, <1>8
  <2> QED
    BY <1>4, <1>6, <2>1, <2>3, <2>4 DEF Exact
<1>13. ScanIsExact
  BY <1>4 DEF ScanIsExact
<1> QED
  BY <1>5, <1>7, <1>10, <1>11, <1>12, <1>13 DEF ScanInv, WalkInv

\* A step of the scan, or of the people who work beside it.
AdmissionStep == AdmissionNext \/ \E n \in Nodes, c \in Things : Work(n, c)

\* No step of the scan or of the people breaks the invariant.
LEMMA ScanSteps == ScanInv /\ [AdmissionStep]_admissionVars => ScanInv'
<1> SUFFICES ASSUME ScanInv, [AdmissionStep]_admissionVars PROVE ScanInv'
  OBVIOUS
<1>1. ScanTypes /\ (Walking => WalkInv) /\ ScanIsExact
  BY DEF ScanInv
<1> DEFINE Going == ScanTypes' /\ Walking' /\ WalkInv'
<1>2. ASSUME Walking, ScanTypes', WalkInv', Walking' PROVE ScanInv'
  BY <1>2 DEF ScanInv, Walking, ScanIsExact
<1>3. CASE List
  <2>1. ScanTypes' /\ (Walking' => WalkInv') /\ scan'.at \in {"entry", "failed"}
    <3>1. Walking
      BY <1>3 DEF List, Walking
    <3>2. ScanTypes' /\ (Walking' => WalkInv')
      BY <1>1, <1>3, <3>1, ListKeeps
    <3>3. scan'.at \in {"entry", "failed"}
      <4>1. scan \in Scans
        BY <1>1 DEF ScanTypes
      <4> HIDE DEF Frames
      <4> QED
        BY <1>3, <4>1 DEF List, Scans
    <3> QED
      BY <3>2, <3>3
  <2> QED
    BY <2>1 DEF ScanInv, ScanIsExact
<1>4. CASE Leave
  <2>1. Walking /\ scan.at = "entry"
    BY <1>4 DEF Leave, Walking
  <2>2. CASE Len(scan.stack) = 1
    BY <1>1, <1>4, <2>1, <2>2, EndKeeps DEF ScanInv
  <2>3. CASE Len(scan.stack) # 1
    <3>1. ScanTypes' /\ WalkInv'
      BY <1>1, <1>4, <2>1, <2>3, LeaveKeeps
    <3>2. scan'.at = "entry"
      <4>1. scan \in Scans
        BY <1>1 DEF ScanTypes
      <4> HIDE DEF Frames
      <4> QED
        BY <1>4, <2>1, <2>3, <4>1 DEF Leave, Scans
    <3> QED
      BY <3>1, <3>2 DEF ScanInv, ScanIsExact
  <2> QED
    BY <2>2, <2>3
<1>5. CASE Enter
  <2> DEFINE n == Min(Top.left)
  <2>1. Walking
    BY <1>5 DEF Enter, Walking
  <2>2. CASE scan' = Exceed(Looked)
    <3>1. \/ scan.entries + 1 > scan.limits.entries
          \/ Len(scan.stack) > scan.limits.depth
          \/ /\ content[n].kind = "file" /\ Tree[n].class = "plain"
             /\ \/ content[n].size > scan.limits.file
                \/ scan.bytes + content[n].size > scan.limits.total
      BY <1>1, <1>5, <2>1, <2>2, ExceedDiffers
    <3> QED
      BY <1>1, <1>5, <2>1, <2>2, <3>1, ExceedKeeps DEF ScanInv
  <2>3. CASE scan' # Exceed(Looked)
    <3>1. ScanTypes' /\ WalkInv'
      BY <1>1, <1>5, <2>1, <2>3, EnterKeeps
    <3>2. scan'.at # "over"
      BY <1>1, <1>5, <2>1, <2>3, ExceedDiffers
    <3> QED
      BY <3>1, <3>2 DEF ScanInv, ScanIsExact
  <2> QED
    BY <2>2, <2>3
<1>6. CASE ReadText
  <2>1. Walking /\ scan.at = "read"
    BY <1>6 DEF ReadText, Walking
  <2>2. ScanTypes' /\ WalkInv'
    BY <1>1, <1>6, <2>1, ReadTextKeeps
  <2>3. scan'.at = "entry"
    <3>1. scan \in Scans
      BY <1>1 DEF ScanTypes
    <3> HIDE DEF Frames
    <3> QED
      BY <1>6, <3>1 DEF ReadText, Reject, Scans
  <2> QED
    BY <2>2, <2>3 DEF ScanInv, ScanIsExact
<1>7. CASE \E n \in Nodes, c \in Things : Work(n, c)
  <2>1. PICK n \in Nodes, c \in Things : Work(n, c)
    BY <1>7
  <2>2. Walking /\ scan' = scan
    <3>1. scan \in Scans /\ scan.at \notin {"over", "failed"} /\ scan' = scan
      BY <1>1, <2>1 DEF ScanTypes, Work
    <3> HIDE DEF Frames
    <3> QED
      BY <3>1 DEF Scans, Walking
  <2>3. ScanTypes' /\ WalkInv'
    BY <1>1, <2>1, <2>2, WorkKeeps
  <2> QED
    BY <2>2, <2>3 DEF ScanInv, ScanIsExact, Walking
<1>8. CASE UNCHANGED admissionVars
  <2>1. content' = content /\ scan' = scan /\ changes' = changes
    BY <1>8 DEF admissionVars
  <2>2. ScanTypes' /\ (Walking' => WalkInv')
    BY <1>1, <2>1 DEF ScanTypes, Walking, WalkInv, Framed, Frame, Level, Place, Once, Pend, Done,
                      Held, Left, Counted, Rooted, Exact, Visible, Candidates, Candidate
  <2>3. ScanIsExact'
    <3>1. Visible' = Visible /\ Candidates' = Candidates
      BY <2>1 DEF Visible, Candidates
    <3>2. Retained' = Retained /\ Fits' = Fits
      BY <2>1, <3>1 DEF Retained, Sole, Fits
    <3> QED
      BY <1>1, <2>1, <3>1, <3>2 DEF ScanIsExact
  <2> QED
    BY <2>2, <2>3 DEF ScanInv
<1> QED
  BY <1>3, <1>4, <1>5, <1>6, <1>7, <1>8 DEF AdmissionStep, AdmissionNext

(* THEOREM.  The inductive invariant of the walk: the open directories lie *)
(* in one another, no entry is counted twice, and as long as nothing has   *)
(* changed every entry that is visible is either counted, rightly, or lies *)
(* in or below an entry that is still to come.  For any tree, any limits,  *)
(* any lengths of files and any number of changes.                         *)
THEOREM ScanInvariance == AdmissionSpec => []ScanInv
<1>1. AdmissionInit => ScanInv
  BY ScanStarts
<1>2. ScanInv /\ [AdmissionNext \/ \E n \in Nodes, c \in Things : Work(n, c)]_admissionVars
        => ScanInv'
  BY ScanSteps DEF AdmissionStep
<1> QED
  BY <1>1, <1>2, PTL DEF AdmissionSpec

(* THEOREM.  scan_document_root returns a complete inventory exactly when  *)
(* the root is within the limits, and then the right one; and whatever     *)
(* people do meanwhile, no two paths it admits collide, the bytes admitted *)
(* are within the limit, and a complete walk counts each entry once.       *)
THEOREM ScanIsExactHolds == AdmissionSpec => []ScanIsExact
<1>1. ScanInv => ScanIsExact
  BY DEF ScanInv
<1> QED
  BY <1>1, ScanInvariance, PTL
=============================================================================

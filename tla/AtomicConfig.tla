---------------------------- MODULE AtomicConfig -----------------------------
(***************************************************************************)
(* What the configuration of the document roots promises: an accepted      *)
(* request is one atomic compare-and-set.  It changes the configuration    *)
(* whose revision the requester holds, or it changes nothing.  An import   *)
(* of the command line adds to the configuration, unless it is run beside  *)
(* a request: then either may overwrite the other's.                       *)
(***************************************************************************)
EXTENDS Integers, Sequences, SequencesExt

CONSTANTS
  Ids,       \* the identities of document roots
  Settings,  \* mount, path, priority and the two flags of a root
  Tabs,      \* browser tabs and other clients of the HTTP interface
  Missing,   \* there is no config.toml
  None       \* no revision

Roots == [id : Ids, set : Settings]

ASSUME ConfigConstants == {Missing, None} \cap Seq(Roots) = {} /\ Missing # None

VARIABLES
  file,   \* config.toml: Missing, or its roots in their order
  rev,    \* the revision each tab holds: a hash, so the contents it names
  beside  \* is an import run beside a request?

Files == Seq(Roots) \cup {Missing}

\* load_browser_config: a file that is missing has no roots.
RootsIn(f) == IF f = Missing THEN <<>> ELSE f

\* Where root id is configured.
Positions(f, id) == {i \in DOMAIN RootsIn(f) : RootsIn(f)[i].id = id}

\* What a registration, an update or a removal may make of a configuration.
Registered(f, id, set) == Append(RootsIn(f), [id |-> id, set |-> set])
Updated(f, i, set) == [RootsIn(f) EXCEPT ![i] = [@ EXCEPT !.set = set]]
Removed(f, i) == RemoveAt(RootsIn(f), i)

Changed(f) ==
  {Registered(f, id, set) : id \in {x \in Ids : Positions(f, x) = {}}, set \in Settings}
  \cup {Updated(f, i, set) : i \in DOMAIN RootsIn(f), set \in Settings}
  \cup {Removed(f, i) : i \in DOMAIN RootsIn(f)}

\* An import keeps what is there and may add a root behind it.
Extended(f) ==
  {RootsIn(f)}
  \cup {Registered(f, id, set) : id \in {x \in Ids : Positions(f, x) = {}}, set \in Settings}

AInit == file = Missing /\ rev = [t \in Tabs |-> None]

ALook(t) == rev' = [rev EXCEPT ![t] = file] /\ UNCHANGED file

AForget(ts) == /\ rev' = [t \in Tabs |-> IF t \in ts THEN None ELSE rev[t]]
               /\ UNCHANGED file

AChange(t) == /\ rev[t] = file
              /\ file' \in Changed(file)
              /\ UNCHANGED rev

AImport == file' \in Extended(file) /\ UNCHANGED rev

\* What an import beside a request leaves is not promised.
AOverwrite == beside /\ file' \in Files /\ UNCHANGED rev

ANext == \/ \E t \in Tabs : ALook(t) \/ AChange(t)
         \/ \E ts \in SUBSET Tabs : AForget(ts)
         \/ AImport \/ AOverwrite

ASpec == AInit /\ [][ANext]_<<file, rev>>
=============================================================================

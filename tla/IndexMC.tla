------------------------------- MODULE IndexMC -------------------------------
(***************************************************************************)
(* Small instances of the index and its clients.  Each shape bounds other  *)
(* things, for the cases it is there for: failures and edits of one        *)
(* server, requests beside each other, two servers on one index root, more *)
(* documents; and the embedding of chunks, which an indexing job waits for.*)
(***************************************************************************)
EXTENDS RelationApply, Embedding, TLC

CONSTANTS b1, b2, s1, s2, a1, a2

VARIABLE shape

vars == <<shape, indexVars, applyVars, embedVars>>

Texts == {b1, b2}
Hosts == {s1, s2}
Requests == {a1, a2}
Clients == [batch : {1, 2}, tpm : {2, 3}, rpm : {1, 2}]
Estimates ==
  UNION {{[count |-> n, upto |-> t] : t \in {u \in [0..n -> 0..6] :
            u[0] = 0 /\ \A i \in 1..n : u[i] - u[i - 1] \in {1, 2}}} : n \in 0..3}

\* servers, documents, generations, edits, faults, both of them, and requests
Shapes == [failing   |-> [hosts |-> 1, docs |-> 2, gen |-> 4, edits |-> 2, faults |-> 2, both |-> 3, applies |-> 1],
           requests  |-> [hosts |-> 1, docs |-> 2, gen |-> 3, edits |-> 1, faults |-> 1, both |-> 2, applies |-> 2],
           servers   |-> [hosts |-> 2, docs |-> 2, gen |-> 3, edits |-> 1, faults |-> 0, both |-> 1, applies |-> 1],
           documents |-> [hosts |-> 1, docs |-> 3, gen |-> 3, edits |-> 0, faults |-> 1, both |-> 1, applies |-> 1],
           merging   |-> [hosts |-> 1, docs |-> 3, gen |-> 4, edits |-> 0, faults |-> 0, both |-> 0, applies |-> 2]]

Within ==
  LET b == Shapes[shape]
  IN /\ db # Missing => db.gen <= b.gen
     /\ env.edits <= b.edits /\ env.faults <= b.faults /\ env.edits + env.faults <= b.both
     /\ Cardinality({a \in Applies : apply[a] # None}) <= b.applies
     /\ \A d \in Docs : d > b.docs => docs[d].body = None

Init ==
  /\ IndexInit /\ ApplyInit /\ EmbedInit
  /\ \/ /\ shape \in DOMAIN Shapes
        /\ Cardinality(servers) = Shapes[shape].hosts
        /\ \A d \in Docs : docs[d].body = IF d > Shapes[shape].docs THEN None ELSE b1
        /\ config = CHOOSE c \in Configs : TRUE
        /\ chunks.count = 0
     \/ /\ shape = "embedding"
        /\ Alone /\ \A d \in Docs : docs[d].body = None

Next ==
  \/ shape \in DOMAIN Shapes /\ UNCHANGED <<shape, embedVars>> /\ IndexNext /\ Within'
  \/ shape = "embedding" /\ EmbedNext /\ UNCHANGED <<shape, indexVars, applyVars>>

IndexSpec == Init /\ [][Next]_vars

Symmetry == Permutations(Requests) \cup Permutations(Hosts)
=============================================================================

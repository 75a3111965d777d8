---------------------------- MODULE RootConfigMC -----------------------------
(***************************************************************************)
(* Two tabs on two servers and one import.                                 *)
(***************************************************************************)
EXTENDS RootConfig, TLC

CONSTANTS a, b, x, y, t1, t2, s1, s2

TwoServers == t1 :> s1 @@ t2 :> s2

Symmetric == Permutations({a, b}) \cup Permutations({x, y})
             \cup {t1 :> t2 @@ t2 :> t1 @@ s1 :> s2 @@ s2 :> s1}
=============================================================================

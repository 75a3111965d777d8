------------------------------ MODULE AccessMC -------------------------------
(***************************************************************************)
(* Access to a server in each of its editing modes: a local editor pairs   *)
(* one browser, an authenticated server has users and sessions.  Before    *)
(* there is a server there are commands about its credentials.             *)
(***************************************************************************)
EXTENDS Pairing, Sessions, LocalTls, TLC

CONSTANTS p1, p2, t1, t2, s1, s2, r1, r2, alice

VARIABLES
  mode,   \* of the server, for its life, or "Credentials" before there is one
  asked   \* a request that shall be decided, or None

vars == <<mode, asked, pairVars, sessVars, tlsVars>>

Names == {alice}
Secrets == {p1, p2}
Pair == {t1, t2}
SessionIds == {s1, s2}
Commands == {r1, r2}
Granted == {"admin"}
Protected == {{"content.write"}}
Symmetry == Permutations(Pair) \cup Permutations(SessionIds) \cup Permutations(Secrets)

(* A request to a deployment in some mode: with the headers of the server's *)
(* own page, or with any headers from an automation.                       *)
Asked(m) ==
  {[to |-> d, route |-> r, who |-> w, headers |-> BrowserHeaders(d)] :
     d \in {e \in Deployments : e.mode = m}, r \in Table[TRUE],
     w \in SessionsOf([mode |-> m]) \cup {Nobody}}
  \cup {[to |-> d, route |-> r, who |-> Automation, headers |-> h] :
     d \in {e \in Deployments : e.mode = m}, r \in Table[TRUE], h \in Headers}

\* Where no command runs, the state of the commands is as small as it can be.
NoCommands ==
  /\ disk = <<>> /\ tmp = <<>> /\ bak = <<>> /\ run = <<>>
  /\ keys = 0 /\ past = NoPast

AuthInit ==
  /\ mode \in Modes \cup {"Credentials"}
  /\ PairInit /\ SessInit
  /\ IF mode = "Credentials" THEN TlsInit ELSE NoCommands
  /\ mode = "Credentials" => \A u \in Users : ~row[u].weak
  /\ \/ asked = None
     \/ /\ \A u \in Users : ~row[u].weak
        /\ mode \in Modes
        /\ asked \in {a \in Asked(mode) : a.route \in Table[a.to.compat] /\ mode \in a.route.modes}

\* Only a local editor has a code, only an authenticated server has users.
AuthNext ==
  /\ asked = None
  /\ \/ mode = "LocalEditor" /\ PairNext /\ UNCHANGED <<sessVars, tlsVars>>
     \/ mode = "AuthenticatedTls" /\ SessNext /\ UNCHANGED <<pairVars, tlsVars>>
     \/ mode = "Credentials" /\ TlsNext /\ UNCHANGED <<pairVars, sessVars>>
  /\ UNCHANGED <<mode, asked>>

AuthSpec == AuthInit /\ [][AuthNext]_vars
-----------------------------------------------------------------------------
RunsAsked == asked.route \in Routes(asked.to) /\ Runs(asked.to, asked.route, asked.who, asked.headers)

\* The capabilities that no session can use in this deployment.
Withdrawn(d) == IF d.proxy THEN RootManagement ELSE {}

(* Every route that a server is started with can be used from its browser: *)
(* some session that can exist in its mode satisfies the contract, except  *)
(* for the management of roots behind a proxy.                             *)
RoutesReachable ==
  asked # None /\ asked.route.caps \cap Withdrawn(asked.to) = {} =>
    /\ asked.route \in Routes(asked.to)
    /\ \E who \in SessionsOf(asked.to) \cup {Nobody} :
         Runs(asked.to, asked.route, who, BrowserHeaders(asked.to))

(* What a server tells a session that it may do, when it signs in and when *)
(* it refreshes, is what it lets it do, for a paired browser as for the    *)
(* users of every set of roles.                                            *)
AdvertisedIsEnforced ==
  /\ asked # None /\ asked.who \in SessionsOf(asked.to)
  /\ asked.route.access \notin {"AnonymousRead", "AuthenticationBootstrap"}
  => RunsAsked = (/\ asked.route.caps \subseteq Advertised(asked.who)
                 /\ asked.route.caps \cap Withdrawn(asked.to) = {})

(* The token of an automation has no capabilities of its own and is held   *)
(* back by exclusion only.  Still it runs nothing, with any headers, that  *)
(* a browser without the role of an administrator could not run.           *)
TokenIsNoStronger ==
  asked # None /\ asked.who = Automation /\ RunsAsked =>
    \/ Runs(asked.to, asked.route, Nobody, asked.headers)
    \/ \E who \in SessionsOf(asked.to) :
         "admin" \notin who.roles /\ Runs(asked.to, asked.route, who, BrowserHeaders(asked.to))
=============================================================================

------------------------------- MODULE Pairing -------------------------------
(***************************************************************************)
(* The pairing of a browser with a local editor (LocalAuthState of         *)
(* crates/okf-http/src/auth.rs): one code, its lifetime, the attempts of a *)
(* window and the cooldown between two windows.  Every operation holds one *)
(* lock, so each is one step; the clock may advance between any two.  An   *)
(* operation reads the clock just before it takes the lock: the two are    *)
(* one step here.                                                          *)
(***************************************************************************)
EXTENDS Naturals

CONSTANTS
  PairingTtl,   \* the lifetime of a code
  SessionTtl,   \* the lifetime of a session
  MaxAttempts,  \* the attempts of a window
  Cooldown,     \* the time between two windows
  MaxClock      \* the bound of the clock

ASSUME PairingConstants ==
  /\ PairingTtl \in Nat \ {0} /\ SessionTtl \in Nat \ {0}
  /\ MaxAttempts \in Nat \ {0} /\ Cooldown \in Nat \ {0}
  /\ MaxClock \in Nat

VARIABLES
  clock,
  code,      \* is there a code still?
  left,      \* attempts_remaining
  blocked,   \* is blocked_until set?
  until,     \* blocked_until
  session,   \* the sessions map: is the session of the pairing in it?
  expires,   \* expires_at of that session
  guesses,   \* codes that were compared and found wrong (history)
  windows    \* cooldowns begun (history)

pairVars == <<clock, code, left, blocked, until, session, expires, guesses, windows>>

PairTypeOK ==
  /\ clock \in Nat /\ code \in BOOLEAN
  /\ left \in 0..MaxAttempts
  /\ blocked \in BOOLEAN /\ until \in Nat
  /\ session \in BOOLEAN /\ expires \in Nat
  /\ guesses \in Nat /\ windows \in Nat

PairInit ==
  /\ clock = 0 /\ code = TRUE
  /\ left = MaxAttempts /\ blocked = FALSE /\ until = 0
  /\ session = FALSE /\ expires = 0
  /\ guesses = 0 /\ windows = 0
-----------------------------------------------------------------------------
\* prune_expired: what is left of the code and of the session.
CodeLives == code /\ clock < PairingTtl
SessionLives == session /\ clock < expires

Prune == code' = CodeLives /\ session' = SessionLives

\* pairing_available, session_status and authorize_session only prune.
Consult ==
  /\ Prune
  /\ UNCHANGED <<clock, left, blocked, until, expires, guesses, windows>>

\* A mutant: the cooldown begins and ends with the attempt that starts it.
CoolingNever == blocked /\ clock + Cooldown < until

Cooling == blocked /\ clock < until

\* The attempts of the window an attempt falls in.
Attempts == IF blocked THEN MaxAttempts ELSE left

PairRight ==
  /\ CodeLives /\ ~Cooling
  /\ code' = FALSE /\ session' = TRUE /\ expires' = clock + SessionTtl
  /\ left' = Attempts /\ blocked' = FALSE
  /\ UNCHANGED <<clock, until, guesses, windows>>

PairWrong ==
  /\ CodeLives /\ ~Cooling
  /\ Prune
  /\ guesses' = guesses + 1
  /\ left' = Attempts - 1
  /\ blocked' = (Attempts = 1)
  /\ until' = IF Attempts = 1 THEN clock + Cooldown ELSE until
  /\ windows' = IF Attempts = 1 THEN windows + 1 ELSE windows
  /\ UNCHANGED <<clock, expires>>

\* An attempt without a code, or during a cooldown, is refused as it comes.
PairRefused ==
  /\ ~CodeLives \/ Cooling
  /\ Prune
  /\ UNCHANGED <<clock, left, blocked, until, expires, guesses, windows>>

PairLogout ==
  /\ session' = FALSE
  /\ UNCHANGED <<clock, code, left, blocked, until, expires, guesses, windows>>

Tick ==
  /\ clock < MaxClock /\ clock' = clock + 1
  /\ UNCHANGED <<code, left, blocked, until, session, expires, guesses, windows>>

PairNext == Consult \/ PairRight \/ PairWrong \/ PairRefused \/ PairLogout \/ Tick

PairSpec == PairInit /\ [][PairNext]_pairVars
-----------------------------------------------------------------------------
\* The windows that can begin before the code ends.
Windows == (PairingTtl + Cooldown - 1) \div Cooldown

(* Whatever the order of attempts, cooldowns and the end of the code, a    *)
(* code is guessed at no more often than in MaxAttempts attempts of each   *)
(* window that begins within its lifetime: pair() refreshes the attempts   *)
(* only after a cooldown, and a cooldown only starts after a full window.  *)
GuessBound == guesses <= MaxAttempts * Windows
=============================================================================

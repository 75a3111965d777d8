------------------------------ MODULE LocalTls -------------------------------
(***************************************************************************)
(* The credentials of a local HTTPS server and the commands that make and  *)
(* renew them (crates/okf-http/src/tls.rs): four managed files, written or *)
(* renamed one after the other by processes that no lock keeps apart, with *)
(* a rollback where a step fails and none where a process dies.            *)
(*                                                                         *)
(* A key is the number of its generation; the certificate of an authority  *)
(* is the number of its key; a chain names the key it certifies and the    *)
(* authority that signed it.  Names, fingerprints and expiry are left out. *)
(***************************************************************************)
EXTENDS Integers, Sequences

CONSTANTS
  Absent,
  Processes,  \* that run a command; each has its id, which files may carry
  MaxKeys, MaxFails, MaxCrashes   \* bounds of the model

\* A chain; a LocalTlsCommand that runs: its place, the authority and the key it made.
Chains == [key : Nat, ca : Nat \cup {Absent}]
CommandStates == [op : {"init", "clean", "renew", "restore"}, at : 1..8,
                  ca : Nat \cup {Absent}, key : Nat]

ASSUME TlsConstants ==
  /\ MaxKeys \in Nat /\ MaxFails \in Nat /\ MaxCrashes \in Nat
  /\ Absent \notin Nat \cup Chains \cup CommandStates

VARIABLES
  disk,      \* LocalTlsPaths: the managed files
  tmp, bak,  \* the staged and the set aside credentials of each process
  run,       \* the command of each process, or Absent
  keys,      \* how many keys were generated
  past       \* history: failures, crashes, commands beside each other, and the
             \* authority of the last success

tlsVars == <<disk, tmp, bak, run, keys, past>>

Managed == {"ca", "caKey", "key", "chain"}
Credentials == {"key", "chain"}
NoCredentials == [f \in Credentials |-> Absent]

NoPast == [fails |-> 0, crashes |-> 0, beside |-> FALSE, crossed |-> FALSE, ca |-> Absent]

TlsInit ==
  /\ disk = [f \in Managed |-> Absent]
  /\ tmp = [p \in Processes |-> NoCredentials] /\ bak = [p \in Processes |-> NoCredentials]
  /\ run = [p \in Processes |-> Absent]
  /\ keys = 0
  /\ past = NoPast
-----------------------------------------------------------------------------
\* prepare_tls, for every host of a local server: what a server starts with.
Prepared == disk["key"] # Absent /\ disk["chain"] # Absent /\ disk["chain"].key = disk["key"]

\* verify_local_tls: the authority as well, and that it signed the chain.
Valid ==
  /\ disk["caKey"] # Absent /\ disk["ca"] # Absent
  /\ Prepared /\ disk["chain"].ca = disk["ca"]

Others(p) == {q \in Processes \ {p} : run[q] # Absent}

(* A command begins with what it generated.  Two of them may run beside    *)
(* each other; when one of them initializes, they cross.                   *)
Launch(p, op, ca, n) ==
  /\ keys' = keys + n
  /\ run' = [run EXCEPT ![p] = [op |-> op, at |-> 1, ca |-> ca, key |-> keys + n]]
  /\ past' = [past EXCEPT !.beside = @ \/ Others(p) # {},
                !.crossed = @ \/ \E q \in Others(p) : {op, run[q].op} \cap {"init", "clean"} # {}]
  /\ UNCHANGED <<disk, tmp, bak>>

On(p, op, at) == run[p] # Absent /\ run[p].op = op /\ run[p].at = at
Go(p, at) == run' = [run EXCEPT ![p].at = at]
Turn(p, op) == run' = [run EXCEPT ![p] = [op |-> op, at |-> 1, ca |-> @.ca, key |-> @.key]]
Stop(p) == run' = [run EXCEPT ![p] = Absent]

\* Whether a step of a command fails: the bound counts it.
Fails(b) ==
  /\ b => past.fails < MaxFails
  /\ past' = IF b THEN [past EXCEPT !.fails = @ + 1] ELSE past

Content(p) == [caKey |-> run[p].ca, ca |-> run[p].ca, key |-> run[p].key,
               chain |-> [key |-> run[p].key, ca |-> run[p].ca]]
-----------------------------------------------------------------------------
(* initialize_local_tls *)

\* A mutant: only the credentials of the server are looked for.
BeginInitServer(p) ==
  /\ run[p] = Absent /\ keys + 2 <= MaxKeys
  /\ \A f \in Credentials : disk[f] = Absent
  /\ Launch(p, "init", keys + 1, 2)

BeginInit(p) ==
  /\ run[p] = Absent /\ keys + 2 <= MaxKeys
  /\ \A f \in Managed : disk[f] = Absent
  /\ Launch(p, "init", keys + 1, 2)

WriteOrder == <<"caKey", "ca", "key", "chain">>
CleanOrder == <<"ca", "caKey", "key", "chain">>

\* write_new_file: a file that is there is not written.
WriteNew(p) ==
  \E i \in 1..4 : \E failed \in BOOLEAN :
    LET f == WriteOrder[i]
    IN /\ On(p, "init", i)
       /\ Fails(failed)
       /\ IF failed \/ disk[f] # Absent
          THEN Turn(p, "clean") /\ UNCHANGED disk
          ELSE disk' = [disk EXCEPT ![f] = Content(p)[f]] /\ Go(p, i + 1)
       /\ UNCHANGED <<tmp, bak, keys>>

\* What failed removes every managed file, whoever wrote it.
Clean(p) ==
  /\ \E i \in 1..4 :
       /\ On(p, "clean", i)
       /\ disk' = [disk EXCEPT ![CleanOrder[i]] = Absent]
       /\ IF i = 4 THEN Stop(p) ELSE Go(p, i + 1)
  /\ UNCHANGED <<tmp, bak, keys, past>>

\* The last step of both commands.  It reads the files at one moment here.
VerifyLocal(p) ==
  /\ On(p, "init", 5) \/ On(p, "renew", 8)
  /\ \/ Valid /\ Stop(p) /\ past' = [past EXCEPT !.ca = disk["ca"]]
     \/ \E failed \in BOOLEAN :
          /\ failed \/ ~Valid
          /\ Fails(failed)
          /\ IF run[p].op = "init" THEN Turn(p, "clean")
             ELSE Stop(p)
  /\ UNCHANGED <<disk, tmp, bak, keys>>
-----------------------------------------------------------------------------
(* renew_local_tls and atomic_replace_pair *)

\* verify_ca_certificate and verify_issued_certificate
AuthorityMatches == disk["ca"] # Absent /\ disk["caKey"] = disk["ca"]

\* What cannot be signed is not staged, nor is anything beside what is staged.
BeginRenew(p) ==
  /\ run[p] = Absent /\ keys < MaxKeys
  /\ AuthorityMatches
  /\ tmp[p] = NoCredentials /\ bak[p] = NoCredentials
  /\ Launch(p, "renew", disk["ca"], 1)

\* The new key, then the new chain.  What fails may be left behind.
Stage(p) ==
  \E i \in {1, 2} : \E failed, left \in BOOLEAN :
    LET f == <<"key", "chain">>[i]
    IN /\ On(p, "renew", i)
       /\ Fails(failed)
       /\ ~failed => left
       /\ tmp' = [tmp EXCEPT ![p] =
                    IF failed /\ i = 2 THEN [NoCredentials EXCEPT !["chain"] = IF left THEN Content(p)[f] ELSE Absent]
                    ELSE IF left THEN [@ EXCEPT ![f] = Content(p)[f]] ELSE @]
       /\ IF failed THEN Stop(p) ELSE Go(p, i + 1)
       /\ UNCHANGED <<disk, bak, keys>>

\* The old key, then the old chain, are renamed away.
SetAside(p) ==
  \E i \in {3, 4} : \E failed \in BOOLEAN :
    LET f == <<"key", "chain">>[i - 2]
    IN /\ On(p, "renew", i)
       /\ Fails(failed)
       /\ IF failed \/ disk[f] = Absent
          THEN Turn(p, "restore") /\ UNCHANGED <<disk, bak>>
          ELSE /\ bak' = [bak EXCEPT ![p][f] = disk[f]]
               /\ disk' = [disk EXCEPT ![f] = Absent]
               /\ Go(p, i + 1)
       /\ UNCHANGED <<tmp, keys>>

\* The new ones take their place; a key without its chain is withdrawn.
Activate(p) ==
  \E i \in {5, 6} : \E failed \in BOOLEAN :
    LET f == <<"key", "chain">>[i - 4]
    IN /\ On(p, "renew", i)
       /\ Fails(failed)
       /\ IF failed
          THEN /\ Turn(p, "restore")
               /\ disk' = IF f = "chain" THEN [disk EXCEPT !["key"] = Absent] ELSE disk
               /\ UNCHANGED tmp
          ELSE /\ disk' = [disk EXCEPT ![f] = tmp[p][f]]
               /\ tmp' = [tmp EXCEPT ![p][f] = Absent]
               /\ Go(p, i + 1)
       /\ UNCHANGED <<bak, keys>>

\* A mutant: the old chain is not brought back.
RestoreKey(p) ==
  \E failed \in BOOLEAN :
    /\ On(p, "restore", 1)
    /\ Fails(failed)
    /\ IF failed \/ bak[p]["key"] = Absent THEN UNCHANGED <<disk, bak>>
       ELSE /\ disk' = [disk EXCEPT !["key"] = bak[p]["key"]]
            /\ bak' = [bak EXCEPT ![p]["key"] = Absent]
    /\ Go(p, 3)
    /\ UNCHANGED <<tmp, keys>>

\* The rollback puts back what was set aside, as far as it can.
Restore(p) ==
  \E i \in {1, 2} : \E failed \in BOOLEAN :
    LET f == <<"key", "chain">>[i]
    IN /\ On(p, "restore", i)
       /\ Fails(failed)
       /\ IF failed \/ bak[p][f] = Absent THEN UNCHANGED <<disk, bak>>
          ELSE /\ disk' = [disk EXCEPT ![f] = bak[p][f]]
               /\ bak' = [bak EXCEPT ![p][f] = Absent]
       /\ Go(p, i + 1)
       /\ UNCHANGED <<tmp, keys>>

\* Staged files go, and what was set aside when all went well.
Unstage(p) ==
  /\ On(p, "renew", 7) \/ On(p, "restore", 3)
  /\ tmp' = [tmp EXCEPT ![p] = NoCredentials]
  /\ IF run[p].op = "renew" THEN bak' = [bak EXCEPT ![p] = NoCredentials] /\ Go(p, 8)
     ELSE UNCHANGED bak /\ Stop(p)
  /\ UNCHANGED <<disk, keys, past>>

\* A process dies between two steps.
Die(p) ==
  /\ run[p] # Absent /\ past.crashes < MaxCrashes
  /\ Stop(p)
  /\ past' = [past EXCEPT !.crashes = @ + 1]
  /\ UNCHANGED <<disk, tmp, bak, keys>>

TlsNext ==
  \E p \in Processes :
    \/ BeginInit(p) \/ WriteNew(p) \/ Clean(p) \/ VerifyLocal(p)
    \/ BeginRenew(p) \/ Stage(p) \/ SetAside(p) \/ Activate(p) \/ Restore(p) \/ Unstage(p)
    \/ Die(p)

TlsSpec == TlsInit /\ [][TlsNext]_tlsVars
-----------------------------------------------------------------------------
(* What was reported as initialized or renewed stays usable: a server can  *)
(* start with it whenever no command runs.  One failing step is rolled     *)
(* back, and renewals beside each other do not mix their pairs; what the   *)
(* code does not survive is a crash, a second failure, a failure beside    *)
(* another command, and an initialization beside another command.          *)
CredentialsStay ==
  /\ past.ca # Absent /\ ~past.crossed
  /\ \A p \in Processes : run[p] = Absent
  /\ past.crashes = 0 /\ past.fails <= IF past.beside THEN 0 ELSE 1
  => Valid

(* The authority that people have imported is never replaced or removed,   *)
(* whatever fails or dies, unless an initialization runs beside another    *)
(* command: then the one that fails removes the files of the other.        *)
CaRetained ==
  past.ca # Absent /\ ~past.crossed => disk["ca"] = past.ca /\ disk["caKey"] = past.ca
=============================================================================

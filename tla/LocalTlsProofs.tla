--------------------------- MODULE LocalTlsProofs ----------------------------
(***************************************************************************)
(* The authority of a local server is retained, and the pair it serves     *)
(* with stays usable: for any number of processes that make and renew      *)
(* credentials, fail and die, by themselves and as a part of the whole.    *)
(***************************************************************************)
EXTENDS AccessMC, TLAPS

Contents == {Absent} \cup Nat \cup Chains

TypeOK ==
  /\ disk \in [Managed -> Contents]
  /\ disk["ca"] \in Nat \cup {Absent} /\ disk["caKey"] \in Nat \cup {Absent}
  /\ tmp \in [Processes -> [Credentials -> Contents]]
  /\ bak \in [Processes -> [Credentials -> Contents]]
  /\ run \in [Processes -> {Absent} \cup CommandStates]
  /\ keys \in Nat
  /\ past \in [fails : Nat, crashes : Nat, beside : BOOLEAN, crossed : BOOLEAN, ca : Contents]

Does(p, ops) == run[p] # Absent /\ run[p].op \in ops

\* Who initializes, or cleans up, is alone.
AloneInit == \A p, q \in Processes : Does(p, {"init", "clean"}) /\ run[q] # Absent => p = q

\* What an initialization has written of the authority is still there.
Progress ==
  \A p \in Processes : Does(p, {"init"}) =>
    /\ run[p].at >= 2 => disk["caKey"] = run[p].ca
    /\ run[p].at >= 3 => disk["ca"] = run[p].ca

Renewing == \A p \in Processes : Does(p, {"renew", "restore"}) => disk["caKey"] = disk["ca"]

NoInit == past.ca # Absent => \A p \in Processes : ~Does(p, {"init", "clean"})

Kept == past.ca # Absent => disk["ca"] = past.ca /\ disk["caKey"] = past.ca

Local == AloneInit /\ Progress /\ Renewing /\ NoInit /\ Kept

\* What every step keeps, as long as no initialization ran beside a command.
IInv == TypeOK /\ (~past.crossed => Local)
-----------------------------------------------------------------------------
LEMMA Start == TlsInit => IInv
  BY DEF TlsInit, NoPast, NoCredentials, IInv, TypeOK, Local, AloneInit, Progress, Renewing,
     NoInit, Kept, Does, Contents, CommandStates, Managed, Credentials

-----------------------------------------------------------------------------
(* A step that leaves the authority alone and lets no process become one   *)
(* that initializes keeps the local part of the invariant.                 *)

Frame ==
  /\ disk'["ca"] = disk["ca"] /\ disk'["caKey"] = disk["caKey"]
  /\ past'.ca = past.ca /\ past'.crossed = past.crossed
  /\ \A q \in Processes :
       \/ run'[q] = run[q] \/ run'[q] = Absent
       \/ Does(q, {"renew", "restore"}) /\ run'[q].op \in {"renew", "restore"}

LEMMA Framed ==
  ASSUME Local, Frame
  PROVE  Local'
<1>1. \A q \in Processes : Does(q, {"init", "clean"})' => run'[q] = run[q] /\ Does(q, {"init", "clean"})
  BY DEF Frame, Does
<1>2. \A q \in Processes : run'[q] # Absent => run[q] # Absent
  BY DEF Frame, Does
<1>3. AloneInit'
  BY <1>1, <1>2 DEF Local, AloneInit
<1>4. Progress'
  BY <1>1 DEF Local, Progress, Frame, Does
<1>5. \A q \in Processes : Does(q, {"renew", "restore"})' => Does(q, {"renew", "restore"})
  BY DEF Frame, Does
<1>6. Renewing'
  BY <1>5 DEF Local, Renewing, Frame
<1>7. NoInit'
  BY <1>1 DEF Local, NoInit, Frame
<1>8. Kept'
  BY DEF Local, Kept, Frame
<1>9. QED
  BY <1>3, <1>4, <1>6, <1>7, <1>8 DEF Local

\* What Fails leaves of the history.
LEMMA FailsKeeps ==
  ASSUME TypeOK, NEW b \in BOOLEAN, Fails(b)
  PROVE  /\ past' \in [fails : Nat, crashes : Nat, beside : BOOLEAN, crossed : BOOLEAN, ca : Contents]
         /\ past'.ca = past.ca /\ past'.crossed = past.crossed
  BY DEF TypeOK, Fails

\* What one process writes and remembers has its type.
LEMMA ContentType ==
  ASSUME TypeOK, NEW p \in Processes, run[p] # Absent, run[p].ca \in Nat \cup {Absent},
         NEW f \in Managed
  PROVE  Content(p)[f] \in Contents
<1>1. run[p] \in CommandStates
  BY DEF TypeOK
<1>2. run[p].key \in Nat /\ run[p].ca \in Nat \cup {Absent}
  BY <1>1 DEF CommandStates
<1>3. QED
  BY <1>2 DEF Content, Contents, Chains, Managed

-----------------------------------------------------------------------------
(* One lemma for each step of a command.                                   *)

\* A command that turns to its cleanup or its rollback keeps what it made.
LEMMA Turned ==
  ASSUME TypeOK, NEW p \in Processes, run[p] # Absent, NEW op \in {"clean", "restore"}, Turn(p, op)
  PROVE  /\ run' \in [Processes -> {Absent} \cup CommandStates]
         /\ run'[p] # Absent /\ run'[p].op = op /\ run'[p].at = 1
         /\ run'[p].ca = run[p].ca /\ run'[p].key = run[p].key
         /\ \A q \in Processes : q # p => run'[q] = run[q]
<1> DEFINE new == [op |-> op, at |-> 1, ca |-> run[p].ca, key |-> run[p].key]
<1>1. run[p] \in CommandStates
  BY DEF TypeOK
<1>2. new \in CommandStates /\ new.op = op /\ new.at = 1 /\ new.ca = run[p].ca /\ new.key = run[p].key
  BY <1>1 DEF CommandStates
<1>3. run' = [run EXCEPT ![p] = new]
  BY DEF Turn
<1> HIDE DEF new
<1>4. new # Absent
  BY <1>2, TlsConstants
<1>5. QED
  BY <1>2, <1>3, <1>4 DEF TypeOK

\* So does one that goes on.
LEMMA Gone ==
  ASSUME TypeOK, NEW p \in Processes, run[p] # Absent, NEW at \in 1..8, Go(p, at)
  PROVE  /\ run' \in [Processes -> {Absent} \cup CommandStates]
         /\ run'[p] # Absent /\ run'[p].op = run[p].op /\ run'[p].at = at
         /\ run'[p].ca = run[p].ca /\ run'[p].key = run[p].key
         /\ \A q \in Processes : q # p => run'[q] = run[q]
<1> DEFINE new == [run[p] EXCEPT !.at = at]
<1>1. run[p] \in CommandStates
  BY DEF TypeOK
<1>2. /\ new \in CommandStates /\ new.op = run[p].op /\ new.at = at
      /\ new.ca = run[p].ca /\ new.key = run[p].key
  BY <1>1 DEF CommandStates
<1>3. run' = [run EXCEPT ![p] = new]
  BY DEF Go
<1> HIDE DEF new
<1>4. new # Absent
  BY <1>2, TlsConstants
<1>5. QED
  BY <1>2, <1>3, <1>4 DEF TypeOK

LEMMA Stopped ==
  ASSUME TypeOK, NEW p \in Processes, Stop(p)
  PROVE  /\ run' \in [Processes -> {Absent} \cup CommandStates]
         /\ run'[p] = Absent
         /\ \A q \in Processes : q # p => run'[q] = run[q]
  BY DEF Stop, TypeOK

LEMMA BeginInitKeeps ==
  ASSUME IInv, NEW p \in Processes, BeginInit(p)
  PROVE  IInv'
<1> DEFINE new == [op |-> "init", at |-> 1, ca |-> keys + 1, key |-> keys + 2]
<1>1. TypeOK
  BY DEF IInv
<1>2. /\ run[p] = Absent /\ run' = [run EXCEPT ![p] = new] /\ keys' = keys + 2
      /\ disk["ca"] = Absent
      /\ past' = [past EXCEPT !.beside = @ \/ Others(p) # {},
                    !.crossed = @ \/ \E q \in Others(p) : {"init", run[q].op} \cap {"init", "clean"} # {}]
      /\ UNCHANGED <<disk, tmp, bak>>
  BY DEF BeginInit, Launch, Managed
<1>3. new \in CommandStates
  BY <1>1 DEF TypeOK, CommandStates
<1>4. /\ past' \in [fails : Nat, crashes : Nat, beside : BOOLEAN, crossed : BOOLEAN, ca : Contents]
      /\ past'.ca = past.ca /\ (past.crossed => past'.crossed)
      /\ past'.crossed \/ Others(p) = {}
  <2>1. (Others(p) # {}) \in BOOLEAN
    OBVIOUS
  <2>2. (\E q \in Others(p) : {"init", run[q].op} \cap {"init", "clean"} # {}) \/ Others(p) = {}
    OBVIOUS
  <2>3. QED
    BY <1>1, <1>2, <2>1, <2>2 DEF TypeOK
<1>5. TypeOK'
  BY <1>1, <1>2, <1>3, <1>4 DEF TypeOK
<1>6. ASSUME ~past'.crossed
      PROVE  Local'
  <2>1. Local /\ Others(p) = {}
    BY <1>4, <1>6 DEF IInv
  <2>2. \A q \in Processes : q # p => run[q] = Absent /\ run'[q] = Absent
    BY <1>1, <1>2, <2>1 DEF TypeOK, Others
  <2>3. past.ca = Absent
    BY <1>2, <2>1 DEF Local, Kept
  <2>4. run'[p] = new
    BY <1>1, <1>2 DEF TypeOK
  <2>5. AloneInit'
    BY <2>2 DEF AloneInit, Does
  <2>6. Progress'
    BY <2>2, <2>4 DEF Progress, Does
  <2>7. Renewing'
    BY <2>2, <2>4 DEF Renewing, Does
  <2>8. NoInit' /\ Kept'
    BY <1>4, <2>3 DEF NoInit, Kept
  <2>9. QED
    BY <2>5, <2>6, <2>7, <2>8 DEF Local
<1>7. QED
  BY <1>5, <1>6 DEF IInv

LEMMA WriteNewKeeps ==
  ASSUME IInv, NEW p \in Processes, WriteNew(p)
  PROVE  IInv'
<1>1. TypeOK
  BY DEF IInv
<1>2. PICK i \in 1..4, failed \in BOOLEAN :
        /\ On(p, "init", i) /\ Fails(failed)
        /\ IF failed \/ disk[WriteOrder[i]] # Absent
           THEN Turn(p, "clean") /\ UNCHANGED disk
           ELSE disk' = [disk EXCEPT ![WriteOrder[i]] = Content(p)[WriteOrder[i]]] /\ Go(p, i + 1)
        /\ UNCHANGED <<tmp, bak, keys>>
  BY DEF WriteNew
<1> DEFINE f == WriteOrder[i]
<1>3. /\ past' \in [fails : Nat, crashes : Nat, beside : BOOLEAN, crossed : BOOLEAN, ca : Contents]
      /\ past'.ca = past.ca /\ past'.crossed = past.crossed
  BY <1>1, <1>2, FailsKeeps
<1>4. /\ run[p] # Absent /\ run[p] \in CommandStates /\ run[p].op = "init" /\ run[p].at = i
      /\ run[p].ca \in Nat \cup {Absent} /\ Does(p, {"init", "clean"}) /\ Does(p, {"init"})
  BY <1>1, <1>2 DEF On, TypeOK, CommandStates, Does
<1>5. /\ f \in Managed
      /\ i = 1 => f = "caKey"
      /\ i = 2 => f = "ca"
      /\ i >= 3 => f # "ca" /\ f # "caKey"
  BY DEF WriteOrder, Managed
<1>6. ASSUME ~past.crossed
      PROVE  /\ Local /\ past.ca = Absent
             /\ \A q \in Processes : q # p => run[q] = Absent
  BY <1>4, <1>6 DEF IInv, Local, AloneInit, NoInit
<1>7. CASE failed \/ disk[f] # Absent
  <2>1. Turn(p, "clean") /\ UNCHANGED disk
    BY <1>2, <1>7
  <2>2. run'[p].op = "clean" /\ run' \in [Processes -> {Absent} \cup CommandStates]
        /\ \A q \in Processes : q # p => run'[q] = run[q]
    BY <1>1, <1>4, <2>1, Turned
  <2>3. TypeOK'
    BY <1>1, <1>2, <1>3, <2>1, <2>2 DEF TypeOK
  <2>4. ASSUME ~past.crossed
        PROVE  Local'
    <3>1. AloneInit' /\ Progress' /\ Renewing'
      BY <1>6, <2>2, <2>4 DEF AloneInit, Progress, Renewing, Does
    <3>2. NoInit' /\ Kept'
      BY <1>3, <1>6, <2>4 DEF NoInit, Kept
    <3>3. QED
      BY <3>1, <3>2 DEF Local
  <2>5. QED
    BY <1>3, <2>3, <2>4 DEF IInv
<1>8. CASE ~(failed \/ disk[f] # Absent)
  <2>1. disk' = [disk EXCEPT ![f] = Content(p)[f]] /\ run' = [run EXCEPT ![p].at = i + 1]
    BY <1>2, <1>8 DEF Go
  <2>2. /\ run'[p].op = "init" /\ run'[p].at = i + 1 /\ run'[p].ca = run[p].ca
        /\ run' \in [Processes -> {Absent} \cup CommandStates]
        /\ \A q \in Processes : q # p => run'[q] = run[q]
    <3>1. i + 1 \in 1..8
      OBVIOUS
    <3>2. QED
      BY <1>1, <1>2, <1>4, <1>8, <3>1, Gone
  <2>3. Content(p)[f] \in Contents
    BY <1>1, <1>4, <1>5, ContentType
  <2>4. /\ disk' \in [Managed -> Contents]
        /\ i = 1 => disk'["caKey"] = run[p].ca /\ disk'["ca"] = disk["ca"]
        /\ i = 2 => disk'["ca"] = run[p].ca /\ disk'["caKey"] = disk["caKey"]
        /\ i >= 3 => disk'["ca"] = disk["ca"] /\ disk'["caKey"] = disk["caKey"]
    <3>1. Content(p)["ca"] = run[p].ca /\ Content(p)["caKey"] = run[p].ca
      BY DEF Content
    <3>2. disk \in [Managed -> Contents]
      BY <1>1 DEF TypeOK
    <3>3. QED
      BY <1>5, <2>1, <2>3, <3>1, <3>2 DEF Managed
  <2>5. i = 1 \/ i = 2 \/ i >= 3
    OBVIOUS
  <2>6. disk'["ca"] \in Nat \cup {Absent} /\ disk'["caKey"] \in Nat \cup {Absent}
    BY <1>1, <1>4, <2>4, <2>5 DEF TypeOK
  <2>7. TypeOK'
    BY <1>1, <1>2, <1>3, <2>2, <2>4, <2>6 DEF TypeOK
  <2>8. ASSUME ~past.crossed
        PROVE  Local'
    <3>1. \A q \in Processes : q # p => run'[q] = Absent
      BY <1>6, <2>2, <2>8
    <3>2. AloneInit' /\ Renewing'
      BY <2>2, <3>1 DEF AloneInit, Renewing, Does
    <3>3. (i >= 2 => disk["caKey"] = run[p].ca) /\ (i >= 3 => disk["ca"] = run[p].ca)
      BY <1>4, <1>6, <2>8 DEF Local, Progress
    <3>4. disk'["caKey"] = run[p].ca /\ (i >= 2 => disk'["ca"] = run[p].ca)
      BY <2>4, <3>3
    <3>5. Progress'
      <4>1. ASSUME NEW q \in Processes, Does(q, {"init"})'
            PROVE  /\ run'[q].at >= 2 => disk'["caKey"] = run'[q].ca
                   /\ run'[q].at >= 3 => disk'["ca"] = run'[q].ca
        <5>1. q = p
          BY <3>1, <4>1 DEF Does
        <5>2. run'[p].at >= 3 => i >= 2
          BY <2>2
        <5>3. QED
          BY <2>2, <3>4, <5>1, <5>2
      <4>2. QED
        BY <4>1 DEF Progress
    <3>6. NoInit' /\ Kept'
      BY <1>3, <1>6, <2>8 DEF NoInit, Kept
    <3>7. QED
      BY <3>2, <3>5, <3>6 DEF Local
  <2>9. QED
    BY <1>3, <2>7, <2>8 DEF IInv
<1>9. QED
  BY <1>7, <1>8

LEMMA CleanKeeps ==
  ASSUME IInv, NEW p \in Processes, Clean(p)
  PROVE  IInv'
<1>1. TypeOK
  BY DEF IInv
<1>2. PICK i \in 1..4 :
        /\ On(p, "clean", i)
        /\ disk' = [disk EXCEPT ![CleanOrder[i]] = Absent]
        /\ IF i = 4 THEN Stop(p) ELSE Go(p, i + 1)
        /\ UNCHANGED <<tmp, bak, keys, past>>
  BY DEF Clean
<1>3. run[p] # Absent /\ run[p].op = "clean" /\ Does(p, {"init", "clean"})
  BY <1>2 DEF On, Does
<1>4. disk' \in [Managed -> Contents]
      /\ disk'["ca"] \in Nat \cup {Absent} /\ disk'["caKey"] \in Nat \cup {Absent}
  <2>1. CleanOrder[i] \in Managed
    BY DEF CleanOrder, Managed
  <2>2. QED
    BY <1>1, <1>2, <2>1 DEF TypeOK, Managed, Contents
<1>5. /\ run' \in [Processes -> {Absent} \cup CommandStates]
      /\ run'[p] = Absent \/ run'[p].op = "clean"
      /\ \A q \in Processes : q # p => run'[q] = run[q]
  <2>1. CASE i = 4
    BY <1>1, <1>2, <2>1, Stopped
  <2>2. CASE i # 4
    <3>1. i + 1 \in 1..8
      OBVIOUS
    <3>2. QED
      BY <1>1, <1>2, <1>3, <2>2, <3>1, Gone
  <2>3. QED
    BY <2>1, <2>2
<1>6. TypeOK'
  BY <1>1, <1>2, <1>4, <1>5 DEF TypeOK
<1>7. ASSUME ~past.crossed
      PROVE  Local'
  <2>1. past.ca = Absent /\ \A q \in Processes : q # p => run'[q] = Absent
    BY <1>3, <1>5, <1>7 DEF IInv, Local, AloneInit, NoInit
  <2>2. AloneInit' /\ Progress' /\ Renewing'
    BY <1>5, <2>1 DEF AloneInit, Progress, Renewing, Does
  <2>3. NoInit' /\ Kept'
    BY <1>2, <2>1 DEF NoInit, Kept
  <2>4. QED
    BY <2>2, <2>3 DEF Local
<1>8. QED
  BY <1>2, <1>6, <1>7 DEF IInv

LEMMA VerifyLocalKeeps ==
  ASSUME IInv, NEW p \in Processes, VerifyLocal(p)
  PROVE  IInv'
<1>1. TypeOK
  BY DEF IInv
<1>2. /\ On(p, "init", 5) \/ On(p, "renew", 8)
      /\ UNCHANGED <<disk, tmp, bak, keys>>
  BY DEF VerifyLocal
<1>3. run[p] # Absent /\ run[p] \in CommandStates /\ run[p].op \in {"init", "renew"}
  BY <1>1, <1>2 DEF On, TypeOK
<1>4. CASE Valid /\ Stop(p) /\ past' = [past EXCEPT !.ca = disk["ca"]]
  <2>1. /\ run' \in [Processes -> {Absent} \cup CommandStates] /\ run'[p] = Absent
        /\ \A q \in Processes : q # p => run'[q] = run[q]
    BY <1>1, <1>4, Stopped
  <2>2. /\ past' \in [fails : Nat, crashes : Nat, beside : BOOLEAN, crossed : BOOLEAN, ca : Contents]
        /\ past'.ca = disk["ca"] /\ past'.crossed = past.crossed
    BY <1>1, <1>4 DEF TypeOK, Contents
  <2>3. TypeOK'
    BY <1>1, <1>2, <2>1, <2>2 DEF TypeOK
  <2>4. ASSUME ~past.crossed
        PROVE  Local'
    <3>1. Local
      BY <2>4 DEF IInv
    <3>2. disk["caKey"] = disk["ca"]
      BY <1>2, <3>1 DEF On, Local, Progress, Renewing, Does
    <3>3. \A q \in Processes : q # p => ~Does(q, {"init", "clean"})
      BY <1>3, <3>1 DEF Local, AloneInit, Does
    <3>4. AloneInit' /\ Progress' /\ NoInit'
      BY <2>1, <3>3 DEF AloneInit, Progress, NoInit, Does
    <3>5. Renewing' /\ Kept'
      BY <1>2, <2>2, <3>2 DEF Renewing, Kept
    <3>6. QED
      BY <3>4, <3>5 DEF Local
  <2>5. QED
    BY <2>2, <2>3, <2>4 DEF IInv
<1>5. ASSUME NEW failed \in BOOLEAN, Fails(failed),
             IF run[p].op = "init" THEN Turn(p, "clean") ELSE Stop(p)
      PROVE  IInv'
  <2>1. /\ past' \in [fails : Nat, crashes : Nat, beside : BOOLEAN, crossed : BOOLEAN, ca : Contents]
        /\ past'.ca = past.ca /\ past'.crossed = past.crossed
    BY <1>1, <1>5, FailsKeeps
  <2>2. CASE run[p].op = "init"
    <3>1. /\ run' \in [Processes -> {Absent} \cup CommandStates] /\ run'[p].op = "clean"
          /\ \A q \in Processes : q # p => run'[q] = run[q]
      BY <1>1, <1>3, <1>5, <2>2, Turned
    <3>2. TypeOK'
      BY <1>1, <1>2, <2>1, <3>1 DEF TypeOK
    <3>3. ASSUME ~past.crossed
          PROVE  Local'
      <4>1. past.ca = Absent /\ \A q \in Processes : q # p => run'[q] = Absent
        BY <1>3, <2>2, <3>1, <3>3 DEF IInv, Local, AloneInit, NoInit, Does
      <4>2. AloneInit' /\ Progress' /\ Renewing'
        BY <3>1, <4>1 DEF AloneInit, Progress, Renewing, Does
      <4>3. NoInit' /\ Kept'
        BY <2>1, <4>1 DEF NoInit, Kept
      <4>4. QED
        BY <4>2, <4>3 DEF Local
    <3>4. QED
      BY <2>1, <3>2, <3>3 DEF IInv
  <2>3. CASE run[p].op # "init"
    <3>1. /\ run' \in [Processes -> {Absent} \cup CommandStates] /\ run'[p] = Absent
          /\ \A q \in Processes : q # p => run'[q] = run[q]
      BY <1>1, <1>5, <2>3, Stopped
    <3>2. TypeOK'
      BY <1>1, <1>2, <2>1, <3>1 DEF TypeOK
    <3>3. Frame
      BY <1>2, <2>1, <3>1 DEF Frame
    <3>4. QED
      BY <2>1, <3>2, <3>3, Framed DEF IInv
  <2>4. QED
    BY <2>2, <2>3
<1>6. QED
  BY <1>4, <1>5 DEF VerifyLocal

LEMMA BeginRenewKeeps ==
  ASSUME IInv, NEW p \in Processes, BeginRenew(p)
  PROVE  IInv'
<1> DEFINE new == [op |-> "renew", at |-> 1, ca |-> disk["ca"], key |-> keys + 1]
<1>1. TypeOK
  BY DEF IInv
<1>2. /\ run[p] = Absent /\ run' = [run EXCEPT ![p] = new] /\ keys' = keys + 1
      /\ disk["caKey"] = disk["ca"]
      /\ past' = [past EXCEPT !.beside = @ \/ Others(p) # {},
                    !.crossed = @ \/ \E q \in Others(p) : {"renew", run[q].op} \cap {"init", "clean"} # {}]
      /\ UNCHANGED <<disk, tmp, bak>>
  BY DEF BeginRenew, Launch, AuthorityMatches
<1>3. new \in CommandStates
  BY <1>1 DEF TypeOK, CommandStates
<1>4. /\ past' \in [fails : Nat, crashes : Nat, beside : BOOLEAN, crossed : BOOLEAN, ca : Contents]
      /\ past'.ca = past.ca /\ (past.crossed => past'.crossed)
      /\ past'.crossed \/ \A q \in Others(p) : run[q].op \notin {"init", "clean"}
  <2>1. (Others(p) # {}) \in BOOLEAN
    OBVIOUS
  <2>2. \/ \E q \in Others(p) : {"renew", run[q].op} \cap {"init", "clean"} # {}
        \/ \A q \in Others(p) : run[q].op \notin {"init", "clean"}
    OBVIOUS
  <2>3. QED
    BY <1>1, <1>2, <2>1, <2>2 DEF TypeOK
<1>5. TypeOK'
  BY <1>1, <1>2, <1>3, <1>4 DEF TypeOK
<1>6. ASSUME ~past'.crossed
      PROVE  Local'
  <2>1. Local /\ \A q \in Others(p) : run[q].op \notin {"init", "clean"}
    BY <1>4, <1>6 DEF IInv
  <2>2. run'[p] = new /\ \A q \in Processes : q # p => run'[q] = run[q]
    BY <1>1, <1>2 DEF TypeOK
  <2>3. \A q \in Processes : ~Does(q, {"init", "clean"})'
    BY <2>1, <2>2 DEF Does, Others
  <2>4. AloneInit' /\ Progress' /\ NoInit'
    BY <2>3 DEF AloneInit, Progress, NoInit, Does
  <2>5. Renewing' /\ Kept'
    BY <1>2, <1>4, <2>1 DEF Renewing, Local, Kept
  <2>6. QED
    BY <2>4, <2>5 DEF Local
<1>7. QED
  BY <1>5, <1>6 DEF IInv

(* The steps of a renewal touch the pair of the server, not the authority. *)

\* A renewal goes on, turns to its rollback or stops.
LEMMA RenewalMoves ==
  ASSUME TypeOK, NEW p \in Processes, Does(p, {"renew", "restore"}), NEW at \in 1..8,
         Go(p, at) \/ Turn(p, "restore") \/ Stop(p)
  PROVE  /\ run' \in [Processes -> {Absent} \cup CommandStates]
         /\ \A q \in Processes :
              \/ run'[q] = run[q] \/ run'[q] = Absent
              \/ Does(q, {"renew", "restore"}) /\ run'[q].op \in {"renew", "restore"}
<1>1. run[p] # Absent /\ run[p].op \in {"renew", "restore"}
  BY DEF Does
<1>2. CASE Go(p, at)
  BY <1>1, <1>2, Gone
<1>3. CASE Turn(p, "restore")
  BY <1>1, <1>3, Turned
<1>4. CASE Stop(p)
  BY <1>4, Stopped
<1>5. QED
  BY <1>2, <1>3, <1>4

\* One of the credentials of one process, or of the server, is changed.
LEMMA OneCredential ==
  ASSUME NEW files \in [Processes -> [Credentials -> Contents]], NEW p \in Processes,
         NEW f \in Credentials, NEW c \in Contents
  PROVE  [files EXCEPT ![p][f] = c] \in [Processes -> [Credentials -> Contents]]
<1> DEFINE new == [files[p] EXCEPT ![f] = c]
<1>1. new \in [Credentials -> Contents]
  OBVIOUS
<1>2. [files EXCEPT ![p][f] = c] = [files EXCEPT ![p] = new]
  OBVIOUS
<1> HIDE DEF new
<1>3. QED
  BY <1>1, <1>2

LEMMA PairOnly ==
  ASSUME TypeOK, NEW f \in Credentials, NEW c \in Contents, disk' = [disk EXCEPT ![f] = c]
  PROVE  /\ disk' \in [Managed -> Contents]
         /\ disk'["ca"] = disk["ca"] /\ disk'["caKey"] = disk["caKey"]
  BY DEF TypeOK, Credentials, Managed

\* What a step of a renewal has to show.
LEMMA RenewalKeeps ==
  ASSUME IInv, NEW p \in Processes, Does(p, {"renew", "restore"}), NEW at \in 1..8,
         Go(p, at) \/ Turn(p, "restore") \/ Stop(p),
         NEW failed \in BOOLEAN, Fails(failed),
         tmp' \in [Processes -> [Credentials -> Contents]],
         bak' \in [Processes -> [Credentials -> Contents]],
         disk' \in [Managed -> Contents],
         disk'["ca"] = disk["ca"], disk'["caKey"] = disk["caKey"],
         keys' = keys
  PROVE  IInv'
<1>1. TypeOK
  BY DEF IInv
<1>2. /\ past' \in [fails : Nat, crashes : Nat, beside : BOOLEAN, crossed : BOOLEAN, ca : Contents]
      /\ past'.ca = past.ca /\ past'.crossed = past.crossed
  BY <1>1, FailsKeeps
<1>3. /\ run' \in [Processes -> {Absent} \cup CommandStates]
      /\ \A q \in Processes :
           \/ run'[q] = run[q] \/ run'[q] = Absent
           \/ Does(q, {"renew", "restore"}) /\ run'[q].op \in {"renew", "restore"}
  BY <1>1, RenewalMoves
<1>4. TypeOK'
  BY <1>1, <1>2, <1>3 DEF TypeOK
<1>5. Frame
  BY <1>2, <1>3 DEF Frame
<1>6. QED
  BY <1>2, <1>4, <1>5, Framed DEF IInv

LEMMA StageKeeps ==
  ASSUME IInv, NEW p \in Processes, Stage(p)
  PROVE  IInv'
<1>1. TypeOK
  BY DEF IInv
<1>2. PICK i \in {1, 2}, failed \in BOOLEAN, written \in BOOLEAN :
        LET f == <<"key", "chain">>[i]
        IN /\ On(p, "renew", i)
           /\ Fails(failed)
           /\ failed \/ written
           /\ tmp' = [tmp EXCEPT ![p] =
                IF failed /\ i = 2 THEN [NoCredentials EXCEPT !["chain"] = IF written THEN Content(p)[f] ELSE Absent]
                ELSE IF written THEN [@ EXCEPT ![f] = Content(p)[f]] ELSE @]
           /\ IF failed THEN Stop(p) ELSE Go(p, i + 1)
           /\ UNCHANGED <<disk, bak, keys>>
  BY DEF Stage
<1> DEFINE f == <<"key", "chain">>[i]
<1>3. f \in Credentials /\ f \in Managed
  BY DEF Credentials, Managed
<1>4. Does(p, {"renew", "restore"}) /\ run[p] # Absent /\ run[p].ca \in Nat \cup {Absent}
  BY <1>1, <1>2 DEF On, Does, TypeOK, CommandStates
<1>5. Content(p)[f] \in Contents
  BY <1>1, <1>3, <1>4, ContentType
<1>6. tmp' \in [Processes -> [Credentials -> Contents]]
  <2> DEFINE new == IF failed /\ i = 2 THEN [NoCredentials EXCEPT !["chain"] = IF written THEN Content(p)[f] ELSE Absent]
                    ELSE IF written THEN [tmp[p] EXCEPT ![f] = Content(p)[f]] ELSE tmp[p]
  <2>1. tmp[p] \in [Credentials -> Contents] /\ NoCredentials \in [Credentials -> Contents]
    BY <1>1 DEF TypeOK, NoCredentials, Contents
  <2>2. Absent \in Contents
    BY DEF Contents
  <2>3. new \in [Credentials -> Contents]
    <3> HIDE DEF f
    <3>1. \A g \in [Credentials -> Contents], h \in Credentials, c \in Contents :
            [g EXCEPT ![h] = c] \in [Credentials -> Contents]
      OBVIOUS
    <3>2. "chain" \in Credentials
      BY DEF Credentials
    <3>3. QED
      BY <1>3, <1>5, <2>1, <2>2, <3>1, <3>2
  <2>4. tmp' = [tmp EXCEPT ![p] = new]
    BY <1>2
  <2> HIDE DEF new
  <2>5. QED
    BY <1>1, <2>3, <2>4 DEF TypeOK
<1>7. i + 1 \in 1..8
  OBVIOUS
<1>8. (Go(p, i + 1) \/ Turn(p, "restore") \/ Stop(p)) /\ Fails(failed)
  BY <1>2
<1>9. UNCHANGED <<disk, bak, keys>>
  BY <1>2
<1>10. bak' \in [Processes -> [Credentials -> Contents]] /\ disk' \in [Managed -> Contents]
  BY <1>1, <1>9 DEF TypeOK
<1>11. QED
  BY <1>4, <1>6, <1>7, <1>8, <1>9, <1>10, RenewalKeeps

LEMMA SetAsideKeeps ==
  ASSUME IInv, NEW p \in Processes, SetAside(p)
  PROVE  IInv'
<1>1. TypeOK
  BY DEF IInv
<1>2. PICK i \in {3, 4}, failed \in BOOLEAN :
        LET f == <<"key", "chain">>[i - 2]
        IN /\ On(p, "renew", i)
           /\ Fails(failed)
           /\ IF failed \/ disk[f] = Absent
              THEN Turn(p, "restore") /\ UNCHANGED <<disk, bak>>
              ELSE /\ bak' = [bak EXCEPT ![p][f] = disk[f]]
                   /\ disk' = [disk EXCEPT ![f] = Absent]
                   /\ Go(p, i + 1)
           /\ UNCHANGED <<tmp, keys>>
  BY DEF SetAside
<1> DEFINE f == <<"key", "chain">>[i - 2]
<1>3. f \in Credentials /\ f \in Managed
  BY DEF Credentials, Managed
<1>4. Does(p, {"renew", "restore"})
  BY <1>2 DEF On, Does
<1>5. disk[f] \in Contents /\ Absent \in Contents
  BY <1>1, <1>3 DEF TypeOK, Contents
<1>6. i + 1 \in 1..8
  OBVIOUS
<1>7. Fails(failed) /\ UNCHANGED <<tmp, keys>>
  BY <1>2
<1>8. tmp' \in [Processes -> [Credentials -> Contents]] /\ disk \in [Managed -> Contents]
      /\ bak \in [Processes -> [Credentials -> Contents]]
  BY <1>1, <1>7 DEF TypeOK
<1>9. CASE failed \/ disk[f] = Absent
  <2>1. Turn(p, "restore") /\ UNCHANGED <<disk, bak>>
    BY <1>2, <1>9
  <2>2. QED
    BY <1>4, <1>6, <1>7, <1>8, <2>1, RenewalKeeps
<1>10. CASE ~(failed \/ disk[f] = Absent)
  <2>1. /\ bak' = [bak EXCEPT ![p][f] = disk[f]]
        /\ disk' = [disk EXCEPT ![f] = Absent] /\ Go(p, i + 1)
    BY <1>2, <1>10
  <2> HIDE DEF f
  <2>2. bak' \in [Processes -> [Credentials -> Contents]]
    BY <1>3, <1>5, <1>8, <2>1, OneCredential
  <2>3. disk' \in [Managed -> Contents] /\ disk'["ca"] = disk["ca"] /\ disk'["caKey"] = disk["caKey"]
    BY <1>1, <1>3, <1>5, <2>1, PairOnly
  <2>4. QED
    BY <1>4, <1>6, <1>7, <1>8, <2>1, <2>2, <2>3, RenewalKeeps
<1>11. QED
  BY <1>9, <1>10

LEMMA ActivateKeeps ==
  ASSUME IInv, NEW p \in Processes, Activate(p)
  PROVE  IInv'
<1>1. TypeOK
  BY DEF IInv
<1>2. PICK i \in {5, 6}, failed \in BOOLEAN :
        LET f == <<"key", "chain">>[i - 4]
        IN /\ On(p, "renew", i)
           /\ Fails(failed)
           /\ IF failed
              THEN /\ Turn(p, "restore")
                   /\ disk' = IF f = "chain" THEN [disk EXCEPT !["key"] = Absent] ELSE disk
                   /\ UNCHANGED tmp
              ELSE /\ disk' = [disk EXCEPT ![f] = tmp[p][f]]
                   /\ tmp' = [tmp EXCEPT ![p][f] = Absent]
                   /\ Go(p, i + 1)
           /\ UNCHANGED <<bak, keys>>
  BY DEF Activate
<1> DEFINE f == <<"key", "chain">>[i - 4]
<1>3. f \in Credentials /\ "key" \in Credentials
  BY DEF Credentials
<1>4. Does(p, {"renew", "restore"})
  BY <1>2 DEF On, Does
<1>5. tmp[p][f] \in Contents /\ Absent \in Contents
  BY <1>1, <1>3 DEF TypeOK, Contents
<1>6. i + 1 \in 1..8
  OBVIOUS
<1>7. Fails(failed) /\ UNCHANGED <<bak, keys>>
  BY <1>2
<1>8. bak' \in [Processes -> [Credentials -> Contents]] /\ disk \in [Managed -> Contents]
      /\ tmp \in [Processes -> [Credentials -> Contents]]
  BY <1>1, <1>7 DEF TypeOK
<1>9. CASE failed
  <2>1. Turn(p, "restore") /\ UNCHANGED tmp
    BY <1>2, <1>9
  <2>2. disk' = disk \/ disk' = [disk EXCEPT !["key"] = Absent]
    BY <1>2, <1>9
  <2>3. disk' \in [Managed -> Contents] /\ disk'["ca"] = disk["ca"] /\ disk'["caKey"] = disk["caKey"]
    BY <1>1, <1>3, <1>5, <1>8, <2>2, PairOnly
  <2>4. QED
    BY <1>4, <1>6, <1>7, <1>8, <2>1, <2>3, RenewalKeeps
<1>10. CASE ~failed
  <2>1. /\ disk' = [disk EXCEPT ![f] = tmp[p][f]]
        /\ tmp' = [tmp EXCEPT ![p][f] = Absent] /\ Go(p, i + 1)
    BY <1>2, <1>10
  <2> HIDE DEF f
  <2>2. tmp' \in [Processes -> [Credentials -> Contents]]
    BY <1>3, <1>5, <1>8, <2>1, OneCredential
  <2>3. disk' \in [Managed -> Contents] /\ disk'["ca"] = disk["ca"] /\ disk'["caKey"] = disk["caKey"]
    BY <1>1, <1>3, <1>5, <2>1, PairOnly
  <2>4. QED
    BY <1>4, <1>6, <1>7, <1>8, <2>1, <2>2, <2>3, RenewalKeeps
<1>11. QED
  BY <1>9, <1>10

LEMMA RestoreKeeps ==
  ASSUME IInv, NEW p \in Processes, Restore(p)
  PROVE  IInv'
<1>1. TypeOK
  BY DEF IInv
<1>2. PICK i \in {1, 2}, failed \in BOOLEAN :
        LET f == <<"key", "chain">>[i]
        IN /\ On(p, "restore", i)
           /\ Fails(failed)
           /\ IF failed \/ bak[p][f] = Absent THEN UNCHANGED <<disk, bak>>
              ELSE /\ disk' = [disk EXCEPT ![f] = bak[p][f]]
                   /\ bak' = [bak EXCEPT ![p][f] = Absent]
           /\ Go(p, i + 1)
           /\ UNCHANGED <<tmp, keys>>
  BY DEF Restore
<1> DEFINE f == <<"key", "chain">>[i]
<1>3. f \in Credentials
  BY DEF Credentials
<1>4. Does(p, {"renew", "restore"})
  BY <1>2 DEF On, Does
<1>5. bak[p][f] \in Contents /\ Absent \in Contents
  BY <1>1, <1>3 DEF TypeOK, Contents
<1>6. i + 1 \in 1..8
  OBVIOUS
<1>7. Go(p, i + 1) /\ Fails(failed) /\ UNCHANGED <<tmp, keys>>
  BY <1>2
<1>8. tmp' \in [Processes -> [Credentials -> Contents]] /\ disk \in [Managed -> Contents]
      /\ bak \in [Processes -> [Credentials -> Contents]]
  BY <1>1, <1>7 DEF TypeOK
<1>9. CASE UNCHANGED <<disk, bak>>
  BY <1>4, <1>6, <1>7, <1>8, <1>9, RenewalKeeps
<1>10. CASE disk' = [disk EXCEPT ![f] = bak[p][f]] /\ bak' = [bak EXCEPT ![p][f] = Absent]
  <2> HIDE DEF f
  <2>1. bak' \in [Processes -> [Credentials -> Contents]]
    BY <1>3, <1>5, <1>8, <1>10, OneCredential
  <2>2. disk' \in [Managed -> Contents] /\ disk'["ca"] = disk["ca"] /\ disk'["caKey"] = disk["caKey"]
    BY <1>1, <1>3, <1>5, <1>10, PairOnly
  <2>3. QED
    BY <1>4, <1>6, <1>7, <1>8, <2>1, <2>2, RenewalKeeps
<1>11. QED
  BY <1>2, <1>9, <1>10

LEMMA UnstageKeeps ==
  ASSUME IInv, NEW p \in Processes, Unstage(p)
  PROVE  IInv'
<1>1. TypeOK
  BY DEF IInv
<1>2. /\ On(p, "renew", 7) \/ On(p, "restore", 3)
      /\ tmp' = [tmp EXCEPT ![p] = NoCredentials]
      /\ bak' = bak \/ bak' = [bak EXCEPT ![p] = NoCredentials]
      /\ Go(p, 8) \/ Stop(p)
      /\ UNCHANGED <<disk, keys, past>>
  BY DEF Unstage
<1>3. Does(p, {"renew", "restore"})
  BY <1>2 DEF On, Does
<1>4. NoCredentials \in [Credentials -> Contents]
  BY DEF NoCredentials, Contents
<1>5. /\ tmp' \in [Processes -> [Credentials -> Contents]]
      /\ bak' \in [Processes -> [Credentials -> Contents]] /\ disk' \in [Managed -> Contents]
  BY <1>1, <1>2, <1>4 DEF TypeOK
<1>6. FALSE \in BOOLEAN /\ Fails(FALSE) /\ 8 \in 1..8
  BY <1>2 DEF Fails
<1>7. disk'["ca"] = disk["ca"] /\ disk'["caKey"] = disk["caKey"] /\ keys' = keys
  BY <1>2
<1>8. Go(p, 8) \/ Turn(p, "restore") \/ Stop(p)
  BY <1>2
<1>9. QED
  BY <1>3, <1>5, <1>6, <1>7, <1>8, RenewalKeeps

LEMMA DieKeeps ==
  ASSUME IInv, NEW p \in Processes, Die(p)
  PROVE  IInv'
<1>1. TypeOK
  BY DEF IInv
<1>2. Stop(p) /\ past' = [past EXCEPT !.crashes = @ + 1] /\ UNCHANGED <<disk, tmp, bak, keys>>
  BY DEF Die
<1>3. /\ run' \in [Processes -> {Absent} \cup CommandStates] /\ run'[p] = Absent
      /\ \A q \in Processes : q # p => run'[q] = run[q]
  BY <1>1, <1>2, Stopped
<1>4. /\ past' \in [fails : Nat, crashes : Nat, beside : BOOLEAN, crossed : BOOLEAN, ca : Contents]
      /\ past'.ca = past.ca /\ past'.crossed = past.crossed
  BY <1>1, <1>2 DEF TypeOK
<1>5. TypeOK'
  BY <1>1, <1>2, <1>3, <1>4 DEF TypeOK
<1>6. Frame
  BY <1>2, <1>3, <1>4 DEF Frame
<1>7. QED
  BY <1>4, <1>5, <1>6, Framed DEF IInv
-----------------------------------------------------------------------------
(* The pair of a server while renewals take it apart.                      *)

\* Nothing has happened yet that a pair does not survive.
Healthy ==
  ~past.crossed /\ past.crashes = 0 /\ past.fails <= IF past.beside THEN 0 ELSE 1

Doing(p, op, places) == Does(p, {op}) /\ run[p].at \in places

\* Who has taken the key, and the chain, away and has put nothing in its place.
KeyOut(p) == Doing(p, "renew", {4, 5}) \/ (Doing(p, "restore", {1}) /\ bak[p]["key"] # Absent)
ChainOut(p) == Doing(p, "renew", {5, 6}) \/ (Doing(p, "restore", {1, 2}) /\ bak[p]["chain"] # Absent)

Taken ==
  /\ \A p, q \in Processes : (KeyOut(p) /\ KeyOut(q)) \/ (ChainOut(p) /\ ChainOut(q)) => p = q
  /\ disk["key"] = Absent <=> \E p \in Processes : KeyOut(p)
  /\ disk["chain"] = Absent <=> \E p \in Processes : ChainOut(p)

\* k is the key of the server, wherever it is.
KeyIs(k) ==
  /\ \A p \in Processes : KeyOut(p) => bak[p]["key"] = k
  /\ (\A p \in Processes : ~KeyOut(p)) => disk["key"] = k

\* The chain certifies it, wherever the chain is or the one that follows it.
Fits ==
  /\ disk["chain"] # Absent => KeyIs(disk["chain"].key) /\ disk["chain"].ca = past.ca
  /\ \A p \in Processes :
       /\ Doing(p, "renew", {6}) => KeyIs(run[p].key)
       /\ Doing(p, "restore", {1, 2}) /\ bak[p]["chain"] # Absent => KeyIs(bak[p]["chain"].key)

\* What a renewal has staged and set aside so far.
InHand(p) ==
  /\ Does(p, {"renew", "restore"}) => run[p].ca = past.ca
  /\ Doing(p, "renew", 2..5) => tmp[p]["key"] = run[p].key
  /\ Doing(p, "renew", 3..6) => tmp[p]["chain"] = [key |-> run[p].key, ca |-> run[p].ca]
  /\ Doing(p, "renew", 1..3) => bak[p]["key"] = Absent
  /\ Doing(p, "renew", 1..4) => bak[p]["chain"] = Absent
  /\ Doing(p, "renew", 4..6) => bak[p]["key"] # Absent
  /\ Doing(p, "renew", {5, 6}) => bak[p]["chain"] # Absent /\ bak[p]["chain"].key = bak[p]["key"]
  /\ bak[p]["chain"] # Absent /\ (Doing(p, "renew", {5, 6}) \/ Doing(p, "restore", {1, 2}))
       => bak[p]["chain"].ca = past.ca
  /\ Doing(p, "restore", {1}) /\ bak[p]["chain"] # Absent => bak[p]["key"] # Absent
  /\ Doing(p, "restore", {2}) => bak[p]["key"] = Absent

\* Only a failing step makes a renewal that runs alone roll back.
OneByOne ==
  ~past.beside =>
    /\ \A p, q \in Processes : run[p] # Absent /\ run[q] # Absent => p = q
    /\ \A p \in Processes : Does(p, {"restore"}) => past.fails >= 1

Renewable == Taken /\ Fits /\ OneByOne /\ \A p \in Processes : InHand(p)

\* Before the first success there is nothing but what an initialization writes.
Untouched ==
  /\ \A p \in Processes :
       /\ ~Does(p, {"renew", "restore"})
       /\ \A i, j \in 1..4 : Doing(p, "clean", {i}) /\ j < i => disk[CleanOrder[j]] = Absent
  /\ (\A p \in Processes : ~Does(p, {"init", "clean"})) => \A f \in Managed : disk[f] = Absent
  /\ ~past.beside => \A p, q \in Processes : run[p] # Absent /\ run[q] # Absent => p = q

PairInv == Healthy => IF past.ca = Absent THEN Untouched ELSE Renewable
-----------------------------------------------------------------------------
(* How a step of p moves the key and the chain.                            *)
Apart(p) ==
  \A q \in Processes \ {p} : run'[q] = run[q] /\ bak'[q] = bak[q] /\ tmp'[q] = tmp[q]

KeyStays(p) ==
  /\ KeyOut(p)' <=> KeyOut(p)
  /\ disk'["key"] = disk["key"] /\ (KeyOut(p) => bak'[p]["key"] = bak[p]["key"])
KeyTaken(p) ==
  /\ ~KeyOut(p) /\ KeyOut(p)'
  /\ disk["key"] # Absent /\ disk'["key"] = Absent /\ bak'[p]["key"] = disk["key"]
KeyReturned(p) ==
  /\ KeyOut(p) /\ ~KeyOut(p)'
  /\ bak[p]["key"] # Absent /\ disk'["key"] = bak[p]["key"]

ChainStays(p) == (ChainOut(p)' <=> ChainOut(p)) /\ disk'["chain"] = disk["chain"]
ChainTaken(p) ==
  ~ChainOut(p) /\ ChainOut(p)' /\ disk["chain"] # Absent /\ disk'["chain"] = Absent
ChainReturned(p) == ChainOut(p) /\ ~ChainOut(p)' /\ disk'["chain"] # Absent

LEMMA OthersSame ==
  ASSUME NEW p \in Processes, Apart(p), past'.ca = past.ca, NEW q \in Processes \ {p}
  PROVE  /\ KeyOut(q)' <=> KeyOut(q)
         /\ ChainOut(q)' <=> ChainOut(q)
         /\ \A op, places : Doing(q, op, places)' <=> Doing(q, op, places)
         /\ bak'[q] = bak[q] /\ run'[q] = run[q]
         /\ InHand(q) => InHand(q)'
<1>1. run'[q] = run[q] /\ bak'[q] = bak[q] /\ tmp'[q] = tmp[q]
  BY DEF Apart
<1>2. \A op, places : Doing(q, op, places)' <=> Doing(q, op, places)
  BY <1>1 DEF Doing, Does
<1>3. \A ops : Does(q, ops)' <=> Does(q, ops)
  BY <1>1 DEF Does
<1>4. (KeyOut(q)' <=> KeyOut(q)) /\ (ChainOut(q)' <=> ChainOut(q))
  BY <1>1, <1>2 DEF KeyOut, ChainOut
<1>5. InHand(q) => InHand(q)'
  BY <1>1, <1>2, <1>3 DEF InHand
<1>6. QED
  BY <1>1, <1>2, <1>4, <1>5

LEMMA KeyMoves ==
  ASSUME Taken, NEW p \in Processes, Apart(p), past'.ca = past.ca,
         KeyStays(p) \/ KeyTaken(p) \/ KeyReturned(p)
  PROVE  /\ \A q, r \in Processes : KeyOut(q)' /\ KeyOut(r)' => q = r
         /\ disk'["key"] = Absent <=> \E q \in Processes : KeyOut(q)'
         /\ \A k : KeyIs(k) => KeyIs(k)'
<1>1. \A q \in Processes \ {p} : (KeyOut(q)' <=> KeyOut(q)) /\ bak'[q] = bak[q]
  BY OthersSame
<1>2. /\ \A q, r \in Processes : KeyOut(q) /\ KeyOut(r) => q = r
      /\ disk["key"] = Absent <=> \E q \in Processes : KeyOut(q)
  BY DEF Taken
<1>3. CASE KeyStays(p)
  BY <1>1, <1>2, <1>3 DEF KeyStays, KeyIs
<1>4. CASE KeyTaken(p)
  BY <1>1, <1>2, <1>4 DEF KeyTaken, KeyIs
<1>5. CASE KeyReturned(p)
  BY <1>1, <1>2, <1>5 DEF KeyReturned, KeyIs
<1>6. QED
  BY <1>3, <1>4, <1>5

LEMMA ChainMoves ==
  ASSUME Taken, NEW p \in Processes, Apart(p), past'.ca = past.ca,
         ChainStays(p) \/ ChainTaken(p) \/ ChainReturned(p)
  PROVE  /\ \A q, r \in Processes : ChainOut(q)' /\ ChainOut(r)' => q = r
         /\ disk'["chain"] = Absent <=> \E q \in Processes : ChainOut(q)'
<1>1. \A q \in Processes \ {p} : ChainOut(q)' <=> ChainOut(q)
  BY OthersSame
<1>2. /\ \A q, r \in Processes : ChainOut(q) /\ ChainOut(r) => q = r
      /\ disk["chain"] = Absent <=> \E q \in Processes : ChainOut(q)
  BY DEF Taken
<1>3. CASE ChainStays(p)
  BY <1>1, <1>2, <1>3 DEF ChainStays
<1>4. CASE ChainTaken(p)
  BY <1>1, <1>2, <1>4 DEF ChainTaken
<1>5. CASE ChainReturned(p)
  BY <1>1, <1>2, <1>5 DEF ChainReturned
<1>6. QED
  BY <1>3, <1>4, <1>5

\* A step of p that keeps what the key is keeps the pair renewable, if what p
\* puts in place of the chain, or still has in hand of it, fits the key.
LEMMA PairKeeps ==
  ASSUME Renewable, NEW p \in Processes, Apart(p), past'.ca = past.ca,
         KeyStays(p) \/ KeyTaken(p) \/ KeyReturned(p),
         ChainStays(p) \/ ChainTaken(p) \/ ChainReturned(p),
         ChainReturned(p) => KeyIs(disk'["chain"].key) /\ disk'["chain"].ca = past.ca,
         Doing(p, "renew", {6})' => Doing(p, "renew", {6}) /\ run'[p] = run[p],
         Doing(p, "restore", {1, 2})' /\ bak'[p]["chain"] # Absent => KeyIs(bak'[p]["chain"].key),
         InHand(p)', OneByOne'
  PROVE  Renewable'
<1>1. Taken /\ Fits /\ \A q \in Processes : InHand(q)
  BY DEF Renewable
<1>2. /\ \A q, r \in Processes : KeyOut(q)' /\ KeyOut(r)' => q = r
      /\ disk'["key"] = Absent <=> \E q \in Processes : KeyOut(q)'
      /\ \A k : KeyIs(k) => KeyIs(k)'
  BY <1>1, KeyMoves
<1>3. /\ \A q, r \in Processes : ChainOut(q)' /\ ChainOut(r)' => q = r
      /\ disk'["chain"] = Absent <=> \E q \in Processes : ChainOut(q)'
  BY <1>1, ChainMoves
<1>4. Taken'
  BY <1>2, <1>3 DEF Taken
<1>5. disk'["chain"] # Absent => KeyIs(disk["chain"].key)' /\ disk'["chain"].ca = past'.ca
  <2>1. CASE ChainStays(p)
    BY <1>1, <1>2, <2>1 DEF ChainStays, Fits
  <2>2. CASE ChainTaken(p)
    BY <2>2 DEF ChainTaken
  <2>3. CASE ChainReturned(p)
    BY <1>2, <2>3
  <2>4. QED
    BY <2>1, <2>2, <2>3
<1>6. ASSUME NEW q \in Processes
      PROVE  /\ Doing(q, "renew", {6})' => KeyIs(run[q].key)'
             /\ Doing(q, "restore", {1, 2})' /\ bak'[q]["chain"] # Absent
                  => KeyIs(bak[q]["chain"].key)'
  <2>1. CASE q = p
    BY <1>1, <1>2, <2>1 DEF Fits
  <2>2. CASE q # p
    <3>1. /\ \A op, places : Doing(q, op, places)' <=> Doing(q, op, places)
          /\ bak'[q] = bak[q] /\ run'[q] = run[q]
      BY <2>2, OthersSame
    <3>2. QED
      BY <1>1, <1>2, <3>1 DEF Fits
  <2>3. QED
    BY <2>1, <2>2
<1>7. Fits'
  BY <1>5, <1>6 DEF Fits
<1>8. \A q \in Processes : InHand(q)'
  BY <1>1, OthersSame
<1>9. QED
  BY <1>4, <1>7, <1>8 DEF Renewable
-----------------------------------------------------------------------------
-----------------------------------------------------------------------------
(* What a step does to the history.                                        *)
Later ==
  /\ past.crossed => past'.crossed
  /\ past.crashes <= past'.crashes /\ past.fails <= past'.fails
  /\ past.beside => past'.beside

LEMMA HealthyBefore ==
  ASSUME TypeOK, TypeOK', Later, Healthy'
  PROVE  Healthy
<1> DEFINE f == past.fails
           g == past'.fails
<1>1. f \in Nat /\ g \in Nat /\ past.crashes \in Nat /\ past'.crashes \in Nat
  BY DEF TypeOK
<1>2. past'.crashes = 0 /\ ~past'.crossed /\ g <= IF past'.beside THEN 0 ELSE 1
  BY DEF Healthy
<1>3. past.crashes = 0 /\ ~past.crossed /\ f <= g
  BY <1>1, <1>2 DEF Later
<1>4. f <= IF past.beside THEN 0 ELSE 1
  <2> HIDE DEF f, g
  <2>1. CASE past.beside
    <3>1. g <= 0
      BY <1>2, <2>1 DEF Later
    <3>2. QED
      BY <1>1, <1>3, <2>1, <3>1
  <2>2. CASE ~past.beside
    <3>1. g <= 1
      BY <1>1, <1>2
    <3>2. QED
      BY <1>1, <1>3, <2>2, <3>1
  <2>3. QED
    BY <2>1, <2>2
<1>5. QED
  BY <1>3, <1>4 DEF Healthy

LEMMA FailsCounts ==
  ASSUME TypeOK, NEW b \in BOOLEAN, Fails(b)
  PROVE  /\ past'.fails = past.fails + (IF b THEN 1 ELSE 0) /\ past.fails \in Nat
         /\ past'.crashes = past.crashes /\ past'.beside = past.beside
         /\ past'.crossed = past.crossed /\ past'.ca = past.ca
<1>1. /\ past \in [fails : Nat, crashes : Nat, beside : BOOLEAN, crossed : BOOLEAN, ca : Contents]
      /\ past' = IF b THEN [past EXCEPT !.fails = @ + 1] ELSE past
  BY DEF TypeOK, Fails
<1>2. CASE b
  BY <1>1, <1>2
<1>3. CASE ~b
  BY <1>1, <1>3
<1>4. QED
  BY <1>2, <1>3

LEMMA FailsLater ==
  ASSUME TypeOK, NEW b \in BOOLEAN, Fails(b)
  PROVE  Later
<1>1. past'.fails = past.fails + (IF b THEN 1 ELSE 0) /\ past.fails \in Nat
  BY FailsCounts
<1>2. past.fails <= past'.fails
  BY <1>1
<1>3. past.crashes \in Nat /\ past'.crashes = past.crashes /\ past'.beside = past.beside
      /\ past'.crossed = past.crossed
  BY FailsCounts DEF TypeOK
<1>4. QED
  BY <1>2, <1>3 DEF Later

\* As long as a pair survives, what fails is the first failure of a renewal
\* that runs alone and has not turned to its rollback.
LEMMA FailsOnce ==
  ASSUME TypeOK, OneByOne, Healthy', Fails(TRUE), NEW p \in Processes, run[p] # Absent
  PROVE  /\ ~past.beside /\ ~past'.beside /\ past'.fails = 1
         /\ \A q \in Processes : run[q] # Absent => q = p
         /\ ~Does(p, {"restore"})
<1>1. /\ past'.fails = past.fails + 1 /\ past.fails \in Nat /\ past'.beside = past.beside
      /\ past.beside \in BOOLEAN
  BY FailsCounts DEF TypeOK
<1>2. past'.fails <= IF past'.beside THEN 0 ELSE 1
  BY DEF Healthy
<1>3. ~past.beside
  BY <1>1, <1>2
<1>4. past.fails = 0
  BY <1>1, <1>2
<1>5. QED
  BY <1>1, <1>3, <1>4 DEF OneByOne

\* Who goes on does not run beside another command because of that.
LEMMA OneByOneKeeps ==
  ASSUME TypeOK, OneByOne, NEW p \in Processes, run[p] # Absent,
         \A q \in Processes \ {p} : run'[q] = run[q],
         past'.beside = past.beside, past'.fails \in Nat, past.fails <= past'.fails,
         Does(p, {"restore"})' => Does(p, {"restore"}) \/ past.beside \/ past'.fails = 1
  PROVE  OneByOne'
<1> SUFFICES ASSUME ~past'.beside
             PROVE  /\ \A q, r \in Processes : run'[q] # Absent /\ run'[r] # Absent => q = r
                    /\ \A q \in Processes : Does(q, {"restore"})' => past'.fails >= 1
  BY DEF OneByOne
<1>1. ~past.beside
  OBVIOUS
<1>2. /\ \A q, r \in Processes : run[q] # Absent /\ run[r] # Absent => q = r
      /\ \A q \in Processes : Does(q, {"restore"}) => past.fails >= 1
  BY <1>1 DEF OneByOne
<1>3. \A q \in Processes : run'[q] # Absent => q = p
  BY <1>2
<1>4. Does(p, {"restore"})' => past'.fails >= 1
  <2>1. past.fails \in Nat
    BY DEF TypeOK
  <2>2. QED
    BY <1>1, <1>2, <2>1
<1>5. QED
  BY <1>3, <1>4 DEF Does
-----------------------------------------------------------------------------
(* The steps of a renewal, once an authority was reported.                 *)

\* One credential of p is changed, and nothing else.
LEMMA Put ==
  ASSUME NEW files \in [Processes -> [Credentials -> Contents]], NEW p \in Processes,
         NEW f \in Credentials, NEW c, NEW new, new = [files EXCEPT ![p][f] = c]
  PROVE  /\ new[p][f] = c
         /\ \A g \in Credentials \ {f} : new[p][g] = files[p][g]
         /\ \A q \in Processes \ {p} : new[q] = files[q]
<1> DEFINE mine == [files[p] EXCEPT ![f] = c]
<1>1. new = [files EXCEPT ![p] = mine]
  OBVIOUS
<1>2. mine[f] = c /\ \A g \in Credentials \ {f} : mine[g] = files[p][g]
  OBVIOUS
<1> HIDE DEF mine
<1>3. new[p] = mine /\ \A q \in Processes \ {p} : new[q] = files[q]
  BY <1>1
<1>4. QED
  BY <1>2, <1>3

LEMMA BeginRenewPair ==
  ASSUME IInv, Renewable, Healthy, past.ca # Absent, NEW p \in Processes, BeginRenew(p)
  PROVE  Renewable'
<1> DEFINE new == [op |-> "renew", at |-> 1, ca |-> disk["ca"], key |-> keys + 1]
<1>1. TypeOK /\ disk["ca"] = past.ca /\ Taken /\ OneByOne
  BY DEF IInv, Healthy, Local, Kept, Renewable
<1>2. /\ run[p] = Absent /\ run' = [run EXCEPT ![p] = new]
      /\ past' = [past EXCEPT !.beside = @ \/ Others(p) # {},
                    !.crossed = @ \/ \E q \in Others(p) : {"renew", run[q].op} \cap {"init", "clean"} # {}]
      /\ bak[p] = NoCredentials /\ disk' = disk /\ bak' = bak /\ tmp' = tmp
  BY DEF BeginRenew, Launch
<1>3. new \in CommandStates /\ new.op = "renew" /\ new.at = 1 /\ new.ca = disk["ca"]
  BY <1>1 DEF TypeOK, CommandStates
<1> HIDE DEF new
<1>4. new # Absent
  BY <1>3, TlsConstants
<1>5. run'[p] = new /\ \A q \in Processes \ {p} : run'[q] = run[q]
  BY <1>1, <1>2 DEF TypeOK
<1>6. /\ past'.ca = past.ca /\ past'.fails = past.fails
      /\ past'.beside = (past.beside \/ Others(p) # {})
  <2>1. (Others(p) # {}) \in BOOLEAN
    OBVIOUS
  <2>2. QED
    BY <1>1, <1>2, <2>1 DEF TypeOK
<1>7. Apart(p)
  BY <1>2, <1>5 DEF Apart
<1>8. ~KeyOut(p) /\ ~ChainOut(p)
  BY <1>2 DEF KeyOut, ChainOut, Doing, Does
<1>9. ~KeyOut(p)' /\ ~ChainOut(p)' /\ ~Doing(p, "renew", {6})' /\ ~Doing(p, "restore", {1, 2})'
  BY <1>3, <1>5 DEF KeyOut, ChainOut, Doing, Does
<1>10. KeyStays(p) /\ ChainStays(p)
  BY <1>2, <1>8, <1>9 DEF KeyStays, ChainStays
<1>11. InHand(p)'
  <2>1. bak'[p]["key"] = Absent /\ bak'[p]["chain"] = Absent
    BY <1>2 DEF NoCredentials, Credentials
  <2>2. QED
    BY <1>1, <1>3, <1>5, <1>6, <2>1 DEF InHand, Doing, Does
<1>12. OneByOne'
  <2> SUFFICES ASSUME ~past'.beside
               PROVE  /\ \A q, r \in Processes : run'[q] # Absent /\ run'[r] # Absent => q = r
                      /\ \A q \in Processes : Does(q, {"restore"})' => past'.fails >= 1
    BY DEF OneByOne
  <2>1. Others(p) = {}
    BY <1>6
  <2>2. \A q \in Processes : run'[q] # Absent => q = p
    BY <1>5, <2>1 DEF Others
  <2>3. QED
    BY <1>3, <1>5, <2>2 DEF Does
<1>13. QED
  BY <1>6, <1>7, <1>9, <1>10, <1>11, <1>12, PairKeeps DEF ChainStays, ChainReturned

LEMMA StagePair ==
  ASSUME IInv, Renewable, Healthy', NEW p \in Processes, Stage(p)
  PROVE  Renewable'
<1>1. TypeOK /\ Taken /\ OneByOne /\ InHand(p)
  BY DEF IInv, Renewable
<1>2. PICK i \in {1, 2}, failed \in BOOLEAN, written \in BOOLEAN :
        LET f == <<"key", "chain">>[i]
        IN /\ On(p, "renew", i)
           /\ Fails(failed)
           /\ ~failed => written
           /\ tmp' = [tmp EXCEPT ![p] =
                IF failed /\ i = 2 THEN [NoCredentials EXCEPT !["chain"] = IF written THEN Content(p)[f] ELSE Absent]
                ELSE IF written THEN [@ EXCEPT ![f] = Content(p)[f]] ELSE @]
           /\ IF failed THEN Stop(p) ELSE Go(p, i + 1)
           /\ UNCHANGED <<disk, bak, keys>>
  BY DEF Stage
<1>3. run[p] # Absent /\ run[p].op = "renew" /\ run[p].at = i /\ disk' = disk /\ bak' = bak
  BY <1>2 DEF On
<1>4. /\ past'.fails = past.fails + (IF failed THEN 1 ELSE 0) /\ past.fails \in Nat
      /\ past'.beside = past.beside /\ past'.ca = past.ca
  BY <1>1, <1>2, FailsCounts
<1>5. past'.fails \in Nat /\ past.fails <= past'.fails
  BY <1>4
<1>6. \A q \in Processes \ {p} : tmp'[q] = tmp[q]
  BY <1>1, <1>2 DEF TypeOK
<1>7. ~KeyOut(p) /\ ~ChainOut(p)
  BY <1>3 DEF KeyOut, ChainOut, Doing, Does
<1>8. CASE failed
  <2>1. run'[p] = Absent /\ \A q \in Processes \ {p} : run'[q] = run[q]
    BY <1>1, <1>2, <1>8, Stopped
  <2>2. /\ ~KeyOut(p)' /\ ~ChainOut(p)' /\ InHand(p)' /\ ~Does(p, {"restore"})'
        /\ ~Doing(p, "renew", {6})' /\ ~Doing(p, "restore", {1, 2})'
    BY <2>1 DEF KeyOut, ChainOut, Doing, Does, InHand
  <2>3. Apart(p) /\ KeyStays(p) /\ ChainStays(p)
    BY <1>3, <1>6, <1>7, <2>1, <2>2 DEF Apart, KeyStays, ChainStays
  <2>4. OneByOne'
    BY <1>1, <1>3, <1>4, <1>5, <2>1, <2>2, OneByOneKeeps
  <2>5. QED
    BY <1>4, <2>2, <2>3, <2>4, PairKeeps DEF ChainStays, ChainReturned
<1>9. CASE ~failed
  <2>1. /\ run'[p] # Absent /\ run'[p].op = "renew" /\ run'[p].at = i + 1
        /\ run'[p].ca = run[p].ca /\ run'[p].key = run[p].key
        /\ \A q \in Processes \ {p} : run'[q] = run[q]
    BY <1>1, <1>2, <1>3, <1>9, Gone
  <2>2. /\ ~KeyOut(p)' /\ ~ChainOut(p)' /\ ~Does(p, {"restore"})'
        /\ ~Doing(p, "renew", {6})' /\ ~Doing(p, "restore", {1, 2})'
    BY <2>1 DEF KeyOut, ChainOut, Doing, Does
  <2>3. Apart(p) /\ KeyStays(p) /\ ChainStays(p)
    BY <1>3, <1>6, <1>7, <2>1, <2>2 DEF Apart, KeyStays, ChainStays
  <2>4. OneByOne'
    BY <1>1, <1>3, <1>4, <1>5, <2>1, <2>2, OneByOneKeeps
  <2>5. bak[p]["key"] = Absent /\ bak[p]["chain"] = Absent /\ run[p].ca = past.ca
    BY <1>1, <1>3 DEF InHand, Doing, Does
  <2>6. CASE i = 1
    <3>1. tmp'[p]["key"] = run[p].key
      <4>1. tmp' = [tmp EXCEPT ![p]["key"] = Content(p)["key"]]
        BY <1>2, <1>9, <2>6
      <4>2. tmp'[p]["key"] = Content(p)["key"]
        BY <1>1, <4>1, Put DEF TypeOK, Credentials
      <4>3. QED
        BY <4>2 DEF Content
    <3>2. InHand(p)'
      BY <1>3, <1>4, <2>1, <2>5, <2>6, <3>1 DEF InHand, Doing, Does
    <3>3. QED
      BY <1>4, <2>2, <2>3, <2>4, <3>2, PairKeeps DEF ChainStays, ChainReturned
  <2>7. CASE i = 2
    <3>1. /\ tmp'[p]["key"] = tmp[p]["key"]
          /\ tmp'[p]["chain"] = [key |-> run[p].key, ca |-> run[p].ca]
      <4>1. tmp' = [tmp EXCEPT ![p]["chain"] = Content(p)["chain"]]
        BY <1>2, <1>9, <2>7
      <4>2. tmp'[p]["chain"] = Content(p)["chain"] /\ tmp'[p]["key"] = tmp[p]["key"]
        BY <1>1, <4>1, Put DEF TypeOK, Credentials
      <4>3. QED
        BY <4>2 DEF Content
    <3>2. tmp[p]["key"] = run[p].key
      BY <1>1, <1>3, <2>7 DEF InHand, Doing, Does
    <3>3. InHand(p)'
      BY <1>3, <1>4, <2>1, <2>5, <2>7, <3>1, <3>2 DEF InHand, Doing, Does
    <3>4. QED
      BY <1>4, <2>2, <2>3, <2>4, <3>3, PairKeeps DEF ChainStays, ChainReturned
  <2>8. QED
    BY <2>6, <2>7
<1>10. QED
  BY <1>8, <1>9

\* Who takes what is not there is not alone.
LEMMA TakenByAnother ==
  ASSUME Taken, OneByOne, NEW p \in Processes, run[p] # Absent,
         \/ disk["key"] = Absent /\ ~KeyOut(p)
         \/ disk["chain"] = Absent /\ ~ChainOut(p)
  PROVE  past.beside
<1>1. PICK q \in Processes : q # p /\ (KeyOut(q) \/ ChainOut(q))
  BY DEF Taken
<1>2. run[q] # Absent
  BY <1>1 DEF KeyOut, ChainOut, Doing, Does
<1>3. QED
  BY <1>1, <1>2 DEF OneByOne

LEMMA SetAsidePair ==
  ASSUME IInv, Renewable, Healthy', NEW p \in Processes, SetAside(p)
  PROVE  Renewable'
<1>1. TypeOK /\ Taken /\ OneByOne /\ InHand(p) /\ Fits
  BY DEF IInv, Renewable
<1>2. PICK i \in {3, 4}, failed \in BOOLEAN :
        LET f == <<"key", "chain">>[i - 2]
        IN /\ On(p, "renew", i)
           /\ Fails(failed)
           /\ IF failed \/ disk[f] = Absent
              THEN Turn(p, "restore") /\ UNCHANGED <<disk, bak>>
              ELSE /\ bak' = [bak EXCEPT ![p][f] = disk[f]]
                   /\ disk' = [disk EXCEPT ![f] = Absent]
                   /\ Go(p, i + 1)
           /\ UNCHANGED <<tmp, keys>>
  BY DEF SetAside
<1> DEFINE f == <<"key", "chain">>[i - 2]
<1>3. run[p] # Absent /\ run[p].op = "renew" /\ run[p].at = i /\ tmp' = tmp
  BY <1>2 DEF On
<1>4. /\ past'.fails = past.fails + (IF failed THEN 1 ELSE 0) /\ past.fails \in Nat
      /\ past'.beside = past.beside /\ past'.ca = past.ca
  BY <1>1, <1>2, FailsCounts
<1>5. past'.fails \in Nat /\ past.fails <= past'.fails
  BY <1>4
<1>6. /\ run[p].ca = past.ca /\ bak[p]["chain"] = Absent
      /\ tmp[p]["chain"] = [key |-> run[p].key, ca |-> run[p].ca] /\ tmp[p]["key"] = run[p].key
      /\ i = 3 => bak[p]["key"] = Absent
      /\ i = 4 => bak[p]["key"] # Absent
  BY <1>1, <1>3 DEF InHand, Doing, Does
<1>7. ~ChainOut(p) /\ (KeyOut(p) <=> i = 4)
  BY <1>3 DEF KeyOut, ChainOut, Doing, Does
<1>8. CASE failed \/ disk[f] = Absent
  <2>1. /\ run'[p] # Absent /\ run'[p].op = "restore" /\ run'[p].at = 1 /\ run'[p].ca = run[p].ca
        /\ \A q \in Processes \ {p} : run'[q] = run[q]
    BY <1>1, <1>2, <1>3, <1>8, Turned
  <2>2. disk' = disk /\ bak' = bak
    BY <1>2, <1>8
  <2>3. ~ChainOut(p)' /\ (KeyOut(p)' <=> i = 4) /\ ~Doing(p, "renew", {6})'
    BY <1>6, <2>1, <2>2 DEF KeyOut, ChainOut, Doing, Does
  <2>4. Apart(p) /\ KeyStays(p) /\ ChainStays(p)
    BY <1>3, <1>7, <2>1, <2>2, <2>3 DEF Apart, KeyStays, ChainStays
  <2>5. past.beside \/ past'.fails = 1
    <3>1. CASE failed
      BY <1>1, <1>2, <1>3, <3>1, FailsOnce
    <3>2. CASE disk[f] = Absent
      <4>1. (disk["key"] = Absent /\ ~KeyOut(p)) \/ (disk["chain"] = Absent /\ ~ChainOut(p))
        BY <1>7, <3>2
      <4>2. QED
        BY <1>1, <1>3, <4>1, TakenByAnother
    <3>3. QED
      BY <1>8, <3>1, <3>2
  <2>6. OneByOne'
    BY <1>1, <1>3, <1>4, <1>5, <2>1, <2>5, OneByOneKeeps
  <2>7. InHand(p)'
    BY <1>4, <1>6, <2>1, <2>2 DEF InHand, Doing, Does
  <2>8. QED
    BY <1>4, <1>6, <2>2, <2>3, <2>4, <2>6, <2>7, PairKeeps DEF ChainStays, ChainReturned
<1>9. CASE ~(failed \/ disk[f] = Absent)
  <2>1. /\ bak' = [bak EXCEPT ![p][f] = disk[f]] /\ disk' = [disk EXCEPT ![f] = Absent]
        /\ Go(p, i + 1) /\ disk[f] # Absent
    BY <1>2, <1>9
  <2>2. /\ run'[p] # Absent /\ run'[p].op = "renew" /\ run'[p].at = i + 1
        /\ run'[p].ca = run[p].ca /\ run'[p].key = run[p].key
        /\ \A q \in Processes \ {p} : run'[q] = run[q]
    BY <1>1, <1>3, <2>1, Gone
  <2>3. f \in Credentials /\ f = IF i = 3 THEN "key" ELSE "chain"
    BY DEF Credentials
  <2>4. /\ bak'[p][f] = disk[f]
        /\ \A g \in Credentials \ {f} : bak'[p][g] = bak[p][g]
        /\ \A q \in Processes \ {p} : bak'[q] = bak[q]
    <3> HIDE DEF f
    <3>1. QED
      BY <1>1, <2>1, <2>3, Put DEF TypeOK
  <2>5. disk'[f] = Absent /\ \A g \in Managed \ {f} : disk'[g] = disk[g]
    <3> HIDE DEF f
    <3>1. QED
      BY <1>1, <2>1, <2>3 DEF TypeOK, Managed, Credentials
  <2>6. Apart(p)
    BY <1>3, <2>2, <2>4 DEF Apart
  <2>7. ~Does(p, {"restore"})' /\ ~Doing(p, "renew", {6})' /\ ~Doing(p, "restore", {1, 2})'
    BY <2>2 DEF Does, Doing
  <2>8. OneByOne'
    BY <1>1, <1>3, <1>4, <1>5, <2>2, <2>7, OneByOneKeeps
  <2>9. KeyOut(p)' /\ (ChainOut(p)' <=> i = 4)
    BY <2>2 DEF KeyOut, ChainOut, Doing, Does
  <2>10. CASE i = 3
    <3>1. /\ disk["key"] # Absent /\ disk'["key"] = Absent /\ disk'["chain"] = disk["chain"]
          /\ bak'[p]["key"] = disk["key"] /\ bak'[p]["chain"] = Absent
      BY <1>6, <2>1, <2>3, <2>4, <2>5, <2>10 DEF Credentials, Managed
    <3>2. KeyTaken(p) /\ ChainStays(p)
      BY <1>7, <2>9, <2>10, <3>1 DEF KeyTaken, ChainStays
    <3>3. InHand(p)'
      BY <1>3, <1>4, <1>6, <2>2, <2>10, <3>1 DEF InHand, Doing, Does
    <3>4. QED
      BY <1>4, <2>6, <2>7, <2>8, <3>2, <3>3, PairKeeps DEF ChainStays, ChainReturned
  <2>11. CASE i = 4
    <3>1. /\ disk["chain"] # Absent /\ disk'["chain"] = Absent /\ disk'["key"] = disk["key"]
          /\ bak'[p]["chain"] = disk["chain"] /\ bak'[p]["key"] = bak[p]["key"]
      BY <2>1, <2>3, <2>4, <2>5, <2>11 DEF Credentials, Managed
    <3>2. KeyStays(p) /\ ChainTaken(p)
      BY <1>7, <2>9, <2>11, <3>1 DEF KeyStays, ChainTaken
    <3>3. disk["chain"].key = bak[p]["key"] /\ disk["chain"].ca = past.ca
      BY <1>1, <1>7, <2>11, <3>1 DEF Fits, KeyIs
    <3>4. InHand(p)'
      BY <1>3, <1>4, <1>6, <2>2, <2>11, <3>1, <3>3 DEF InHand, Doing, Does
    <3>5. QED
      BY <1>4, <2>6, <2>7, <2>8, <3>2, <3>4, PairKeeps DEF ChainTaken, ChainReturned
  <2>12. QED
    BY <2>10, <2>11
<1>10. QED
  BY <1>8, <1>9

LEMMA RestorePair ==
  ASSUME IInv, Renewable, Healthy', NEW p \in Processes, Restore(p)
  PROVE  Renewable'
<1>1. TypeOK /\ Taken /\ OneByOne /\ InHand(p) /\ Fits
  BY DEF IInv, Renewable
<1>2. PICK i \in {1, 2}, failed \in BOOLEAN :
        LET f == <<"key", "chain">>[i]
        IN /\ On(p, "restore", i)
           /\ Fails(failed)
           /\ IF failed \/ bak[p][f] = Absent THEN UNCHANGED <<disk, bak>>
              ELSE /\ disk' = [disk EXCEPT ![f] = bak[p][f]]
                   /\ bak' = [bak EXCEPT ![p][f] = Absent]
           /\ Go(p, i + 1)
           /\ UNCHANGED <<tmp, keys>>
  BY DEF Restore
<1> DEFINE f == <<"key", "chain">>[i]
<1>3. run[p] # Absent /\ run[p].op = "restore" /\ run[p].at = i /\ tmp' = tmp
  BY <1>2 DEF On
<1>4. ~failed
  BY <1>1, <1>2, <1>3, FailsOnce DEF Does
<1>5. /\ past'.fails = past.fails /\ past.fails \in Nat
      /\ past'.beside = past.beside /\ past'.ca = past.ca
  BY <1>1, <1>2, <1>4, FailsCounts
<1>6. past'.fails \in Nat /\ past.fails <= past'.fails
  BY <1>5
<1>7. /\ run'[p] # Absent /\ run'[p].op = "restore" /\ run'[p].at = i + 1
      /\ run'[p].ca = run[p].ca
      /\ \A q \in Processes \ {p} : run'[q] = run[q]
  BY <1>1, <1>2, <1>3, Gone
<1>8. /\ run[p].ca = past.ca
      /\ bak[p]["chain"] # Absent => bak[p]["chain"].ca = past.ca /\ KeyIs(bak[p]["chain"].key)
      /\ i = 1 /\ bak[p]["chain"] # Absent => bak[p]["key"] # Absent
      /\ i = 2 => bak[p]["key"] = Absent
  BY <1>1, <1>3 DEF InHand, Doing, Does, Fits
<1>9. /\ KeyOut(p) <=> i = 1 /\ bak[p]["key"] # Absent
      /\ ChainOut(p) <=> bak[p]["chain"] # Absent
      /\ ~KeyOut(p)' /\ (ChainOut(p)' <=> i = 1 /\ bak'[p]["chain"] # Absent)
      /\ ~Doing(p, "renew", {6})' /\ Does(p, {"restore"}) /\ (Doing(p, "restore", {1, 2})' <=> i = 1)
  BY <1>3, <1>7 DEF KeyOut, ChainOut, Doing, Does
<1>10. OneByOne'
  BY <1>1, <1>3, <1>5, <1>6, <1>7, <1>9, OneByOneKeeps
<1>11. CASE bak[p][f] = Absent
  <2>1. disk' = disk /\ bak' = bak
    BY <1>2, <1>11
  <2>2. bak[p]["key"] = Absent /\ (i = 2 => bak[p]["chain"] = Absent)
    BY <1>8, <1>11
  <2>3. Apart(p) /\ KeyStays(p) /\ ChainStays(p)
    BY <1>3, <1>7, <1>9, <2>1, <2>2 DEF Apart, KeyStays, ChainStays
  <2>4. InHand(p)'
    BY <1>5, <1>7, <1>8, <2>1, <2>2 DEF InHand, Doing, Does
  <2>5. QED
    BY <1>5, <1>8, <1>9, <1>10, <2>1, <2>3, <2>4, PairKeeps DEF ChainStays, ChainReturned
<1>12. CASE bak[p][f] # Absent
  <2>1. disk' = [disk EXCEPT ![f] = bak[p][f]] /\ bak' = [bak EXCEPT ![p][f] = Absent]
    BY <1>2, <1>4, <1>12
  <2>2. f \in Credentials /\ f = IF i = 1 THEN "key" ELSE "chain"
    BY DEF Credentials
  <2>3. /\ bak'[p][f] = Absent
        /\ \A g \in Credentials \ {f} : bak'[p][g] = bak[p][g]
        /\ \A q \in Processes \ {p} : bak'[q] = bak[q]
    <3> HIDE DEF f
    <3>1. QED
      BY <1>1, <2>1, <2>2, Put DEF TypeOK
  <2>4. disk'[f] = bak[p][f] /\ \A g \in Managed \ {f} : disk'[g] = disk[g]
    <3> HIDE DEF f
    <3>1. QED
      BY <1>1, <2>1, <2>2 DEF TypeOK, Managed, Credentials
  <2>5. Apart(p)
    BY <1>3, <1>7, <2>3 DEF Apart
  <2>6. CASE i = 1
    <3>1. /\ bak[p]["key"] # Absent /\ disk'["key"] = bak[p]["key"] /\ disk'["chain"] = disk["chain"]
          /\ bak'[p]["key"] = Absent /\ bak'[p]["chain"] = bak[p]["chain"]
      BY <1>12, <2>2, <2>3, <2>4, <2>6 DEF Credentials, Managed
    <3>2. KeyReturned(p) /\ ChainStays(p)
      BY <1>9, <2>6, <3>1 DEF KeyReturned, ChainStays
    <3>3. InHand(p)'
      BY <1>5, <1>7, <1>8, <2>6, <3>1 DEF InHand, Doing, Does
    <3>4. QED
      BY <1>5, <1>8, <1>9, <1>10, <2>5, <3>1, <3>2, <3>3, PairKeeps DEF ChainStays, ChainReturned
  <2>7. CASE i = 2
    <3>1. /\ bak[p]["chain"] # Absent /\ disk'["chain"] = bak[p]["chain"] /\ disk'["key"] = disk["key"]
      BY <1>12, <2>2, <2>4, <2>7 DEF Credentials, Managed
    <3>2. KeyStays(p) /\ ChainReturned(p)
      BY <1>9, <2>7, <3>1 DEF KeyStays, ChainReturned
    <3>3. InHand(p)'
      BY <1>5, <1>7, <1>8, <2>7 DEF InHand, Doing, Does
    <3>4. QED
      BY <1>5, <1>8, <1>9, <1>10, <2>5, <2>7, <3>1, <3>2, <3>3, PairKeeps
  <2>8. QED
    BY <2>6, <2>7
<1>13. QED
  BY <1>11, <1>12

\* The key of p is activated: it is the key of the server now.
LEMMA KeyActivated ==
  ASSUME Taken, Fits, \A q \in Processes : InHand(q), NEW p \in Processes, Apart(p),
         past'.ca = past.ca, Doing(p, "renew", {5}), Doing(p, "renew", {6})',
         disk'["key"] = run[p].key, disk'["key"] # Absent, disk'["chain"] = disk["chain"],
         run'[p].key = run[p].key, InHand(p)', OneByOne'
  PROVE  Renewable'
<1>1. KeyOut(p) /\ ChainOut(p) /\ ~KeyOut(p)' /\ ChainOut(p)'
  BY DEF KeyOut, ChainOut, Doing, Does
<1>2. \A q \in Processes \ {p} :
        /\ KeyOut(q)' <=> KeyOut(q)
        /\ ChainOut(q)' <=> ChainOut(q)
        /\ Doing(q, "renew", {6})' <=> Doing(q, "renew", {6})
        /\ Doing(q, "restore", {1, 2})' <=> Doing(q, "restore", {1, 2})
        /\ bak'[q] = bak[q]
  BY OthersSame
<1>3. \A q \in Processes \ {p} : ~KeyOut(q) /\ ~ChainOut(q)
  BY <1>1 DEF Taken
<1>4. disk["chain"] = Absent
  BY <1>1 DEF Taken
<1>5. \A q \in Processes : ~KeyOut(q)'
  BY <1>1, <1>2, <1>3
<1>6. \A q \in Processes : ChainOut(q)' => q = p
  BY <1>2, <1>3
<1>7. Taken'
  BY <1>1, <1>4, <1>5, <1>6 DEF Taken
<1>8. KeyIs(run[p].key)'
  BY <1>5 DEF KeyIs
<1>9. \A q \in Processes : Doing(q, "renew", {6})' => q = p
  BY <1>6 DEF ChainOut, Doing
<1>10. \A q \in Processes : ~(Doing(q, "restore", {1, 2})' /\ bak'[q]["chain"] # Absent)
  <2>1. ~Doing(p, "restore", {1, 2})'
    BY DEF Doing, Does
  <2>2. QED
    BY <1>2, <1>3, <2>1 DEF ChainOut
<1>11. Fits'
  BY <1>4, <1>8, <1>9, <1>10 DEF Fits
<1>12. \A q \in Processes : InHand(q)'
  BY OthersSame
<1>13. QED
  BY <1>7, <1>11, <1>12 DEF Renewable

\* The chain is not: the new key is withdrawn, and the old one is the key again.
LEMMA KeyWithdrawn ==
  ASSUME Taken, \A q \in Processes : InHand(q), NEW p \in Processes, Apart(p),
         past'.ca = past.ca, \A q \in Processes : run[q] # Absent => q = p,
         Doing(p, "renew", {6}), Doing(p, "restore", {1})',
         disk'["key"] = Absent, disk'["chain"] = disk["chain"], bak' = bak,
         InHand(p)', OneByOne'
  PROVE  Renewable'
<1>1. bak[p]["key"] # Absent /\ bak[p]["chain"] # Absent /\ bak[p]["chain"].key = bak[p]["key"]
  BY DEF InHand, Doing
<1>2. \A q \in Processes : run'[q] # Absent => q = p
  BY DEF Apart
<1>3. KeyOut(p)' /\ ChainOut(p)' /\ ChainOut(p)
  BY <1>1 DEF KeyOut, ChainOut, Doing
<1>4. \A q \in Processes : KeyOut(q)' \/ ChainOut(q)' \/ Doing(q, "renew", {6})'
                             \/ Doing(q, "restore", {1, 2})' => q = p
  BY <1>2 DEF KeyOut, ChainOut, Doing, Does
<1>5. disk'["chain"] = Absent
  BY <1>3 DEF Taken
<1>6. Taken'
  BY <1>3, <1>4, <1>5 DEF Taken
<1>7. KeyIs(bak[p]["chain"].key)'
  BY <1>1, <1>3, <1>4 DEF KeyIs
<1>8. ~Doing(p, "renew", {6})'
  BY DEF Doing, Does
<1>9. Fits'
  BY <1>4, <1>5, <1>7, <1>8 DEF Fits
<1>10. \A q \in Processes : InHand(q)'
  BY OthersSame
<1>11. QED
  BY <1>6, <1>9, <1>10 DEF Renewable

LEMMA ActivatePair ==
  ASSUME IInv, Renewable, Healthy', NEW p \in Processes, Activate(p)
  PROVE  Renewable'
<1>1. TypeOK /\ Taken /\ OneByOne /\ InHand(p) /\ Fits /\ \A q \in Processes : InHand(q)
  BY DEF IInv, Renewable
<1>2. PICK i \in {5, 6}, failed \in BOOLEAN :
        LET f == <<"key", "chain">>[i - 4]
        IN /\ On(p, "renew", i)
           /\ Fails(failed)
           /\ IF failed
              THEN /\ Turn(p, "restore")
                   /\ disk' = IF f = "chain" THEN [disk EXCEPT !["key"] = Absent] ELSE disk
                   /\ UNCHANGED tmp
              ELSE /\ disk' = [disk EXCEPT ![f] = tmp[p][f]]
                   /\ tmp' = [tmp EXCEPT ![p][f] = Absent]
                   /\ Go(p, i + 1)
           /\ UNCHANGED <<bak, keys>>
  BY DEF Activate
<1> DEFINE f == <<"key", "chain">>[i - 4]
<1>3. run[p] # Absent /\ run[p].op = "renew" /\ run[p].at = i /\ bak' = bak
  BY <1>2 DEF On
<1>4. /\ past'.fails = past.fails + (IF failed THEN 1 ELSE 0) /\ past.fails \in Nat
      /\ past'.beside = past.beside /\ past'.ca = past.ca
  BY <1>1, <1>2, FailsCounts
<1>5. past'.fails \in Nat /\ past.fails <= past'.fails
  BY <1>4
<1>6. /\ run[p].ca = past.ca /\ (i = 5 => tmp[p]["key"] = run[p].key)
      /\ tmp[p]["chain"] = [key |-> run[p].key, ca |-> run[p].ca]
      /\ bak[p]["key"] # Absent /\ bak[p]["chain"] # Absent
      /\ bak[p]["chain"].key = bak[p]["key"] /\ bak[p]["chain"].ca = past.ca
  BY <1>1, <1>3 DEF InHand, Doing, Does
<1>7. ChainOut(p) /\ (KeyOut(p) <=> i = 5) /\ (Doing(p, "renew", {6}) <=> i = 6)
      /\ (Doing(p, "renew", {5}) <=> i = 5)
  BY <1>3 DEF KeyOut, ChainOut, Doing, Does
<1>8. CASE failed
  <2>1. /\ run'[p] # Absent /\ run'[p].op = "restore" /\ run'[p].at = 1 /\ run'[p].ca = run[p].ca
        /\ \A q \in Processes \ {p} : run'[q] = run[q]
    BY <1>1, <1>2, <1>3, <1>8, Turned
  <2>2. /\ tmp' = tmp /\ (i = 5 => disk' = disk)
        /\ i = 6 => disk' = [disk EXCEPT !["key"] = Absent]
    BY <1>2, <1>8
  <2>3. Apart(p)
    BY <1>3, <2>1, <2>2 DEF Apart
  <2>4. KeyOut(p)' /\ ChainOut(p)' /\ ~Doing(p, "renew", {6})' /\ Doing(p, "restore", {1})'
    BY <1>3, <1>6, <2>1 DEF KeyOut, ChainOut, Doing, Does
  <2>5. past'.fails = 1 /\ \A q \in Processes : run[q] # Absent => q = p
    BY <1>1, <1>2, <1>3, <1>8, FailsOnce
  <2>6. OneByOne'
    BY <1>1, <1>3, <1>4, <1>5, <2>1, <2>5, OneByOneKeeps
  <2>7. InHand(p)'
    BY <1>3, <1>4, <1>6, <2>1 DEF InHand, Doing, Does
  <2>8. CASE i = 5
    <3>1. KeyStays(p) /\ ChainStays(p)
      BY <1>3, <1>7, <2>2, <2>4, <2>8 DEF KeyStays, ChainStays
    <3>2. KeyIs(bak[p]["key"])
      BY <1>1, <1>7, <2>8 DEF KeyIs, Taken
    <3>3. QED
      BY <1>3, <1>4, <1>6, <2>3, <2>4, <2>6, <2>7, <3>1, <3>2, PairKeeps DEF ChainStays, ChainReturned
  <2>9. CASE i = 6
    <3>1. disk'["key"] = Absent /\ disk'["chain"] = disk["chain"]
      BY <1>1, <2>2, <2>9 DEF TypeOK, Managed
    <3>2. QED
      BY <1>1, <1>3, <1>4, <1>7, <2>3, <2>4, <2>5, <2>6, <2>7, <2>9, <3>1, KeyWithdrawn
  <2>10. QED
    BY <2>8, <2>9
<1>9. CASE ~failed
  <2>1. /\ disk' = [disk EXCEPT ![f] = tmp[p][f]] /\ tmp' = [tmp EXCEPT ![p][f] = Absent]
        /\ Go(p, i + 1)
    BY <1>2, <1>9
  <2>2. /\ run'[p] # Absent /\ run'[p].op = "renew" /\ run'[p].at = i + 1
        /\ run'[p].ca = run[p].ca /\ run'[p].key = run[p].key
        /\ \A q \in Processes \ {p} : run'[q] = run[q]
    BY <1>1, <1>3, <2>1, Gone
  <2>3. f \in Credentials /\ f = IF i = 5 THEN "key" ELSE "chain"
    BY DEF Credentials
  <2>4. /\ \A g \in Credentials \ {f} : tmp'[p][g] = tmp[p][g]
        /\ \A q \in Processes \ {p} : tmp'[q] = tmp[q]
    <3> HIDE DEF f
    <3>1. QED
      BY <1>1, <2>1, <2>3, Put DEF TypeOK
  <2>5. disk'[f] = tmp[p][f] /\ \A g \in Managed \ {f} : disk'[g] = disk[g]
    <3> HIDE DEF f
    <3>1. QED
      BY <1>1, <2>1, <2>3 DEF TypeOK, Managed, Credentials
  <2>6. Apart(p)
    BY <1>3, <2>2, <2>4 DEF Apart
  <2>7. ~Does(p, {"restore"})' /\ ~KeyOut(p)' /\ (ChainOut(p)' <=> i = 5)
        /\ (Doing(p, "renew", {6})' <=> i = 5) /\ ~Doing(p, "restore", {1, 2})'
    BY <2>2 DEF Does, Doing, KeyOut, ChainOut
  <2>8. OneByOne'
    BY <1>1, <1>3, <1>4, <1>5, <2>2, <2>7, OneByOneKeeps
  <2>9. run[p].key \in Nat /\ run[p].ca \in Nat \cup {Absent}
    BY <1>1, <1>3 DEF TypeOK, CommandStates
  <2>10. CASE i = 5
    <3>1. disk'["key"] = run[p].key /\ disk'["chain"] = disk["chain"] /\ tmp'[p]["chain"] = tmp[p]["chain"]
      BY <1>6, <2>3, <2>4, <2>5, <2>10 DEF Credentials, Managed
    <3>2. run[p].key # Absent
      BY <2>9, TlsConstants
    <3>3. InHand(p)'
      BY <1>3, <1>4, <1>6, <2>2, <2>10, <3>1 DEF InHand, Doing, Does
    <3>4. QED
      BY <1>1, <1>4, <1>7, <2>2, <2>6, <2>7, <2>8, <2>10, <3>1, <3>2, <3>3, KeyActivated
  <2>11. CASE i = 6
    <3>1. disk'["key"] = disk["key"] /\ disk'["chain"] = [key |-> run[p].key, ca |-> run[p].ca]
      BY <1>6, <2>3, <2>5, <2>11 DEF Credentials, Managed
    <3>2. disk'["chain"] \in Chains
      BY <2>9, <3>1 DEF Chains
    <3>3. disk'["chain"] # Absent
      BY <3>2, TlsConstants
    <3>4. disk'["chain"].key = run[p].key /\ disk'["chain"].ca = past.ca /\ KeyIs(run[p].key)
      BY <1>1, <1>6, <1>7, <2>11, <3>1 DEF Fits
    <3>5. KeyStays(p) /\ ChainReturned(p)
      BY <1>3, <1>7, <2>7, <2>11, <3>1, <3>3 DEF KeyStays, ChainReturned
    <3>6. InHand(p)'
      BY <1>4, <1>6, <2>2, <2>11 DEF InHand, Doing, Does
    <3>7. QED
      BY <1>4, <2>6, <2>7, <2>8, <2>11, <3>4, <3>5, <3>6, PairKeeps
  <2>12. QED
    BY <2>10, <2>11
<1>10. QED
  BY <1>8, <1>9

\* What is no part of the pair any more goes away with its command.
LEMMA UnstagePair ==
  ASSUME IInv, Renewable, NEW p \in Processes, Unstage(p)
  PROVE  Renewable'
<1>1. TypeOK /\ Taken /\ OneByOne /\ InHand(p)
  BY DEF IInv, Renewable
<1>2. /\ On(p, "renew", 7) \/ On(p, "restore", 3)
      /\ tmp' = [tmp EXCEPT ![p] = NoCredentials]
      /\ IF run[p].op = "renew" THEN bak' = [bak EXCEPT ![p] = NoCredentials] /\ Go(p, 8)
         ELSE UNCHANGED bak /\ Stop(p)
      /\ UNCHANGED <<disk, keys, past>>
  BY DEF Unstage
<1>3. run[p] # Absent
  BY <1>2 DEF On
<1>4. /\ tmp'[p] = NoCredentials
      /\ \A q \in Processes \ {p} : tmp'[q] = tmp[q] /\ bak'[q] = bak[q]
  BY <1>1, <1>2 DEF TypeOK
<1>5. \/ run'[p] = Absent
      \/ /\ run[p].op = "renew" /\ run'[p] # Absent /\ run'[p].op = "renew" /\ run'[p].at = 8
         /\ run'[p].ca = run[p].ca
  BY <1>1, <1>2, <1>3, Gone, Stopped
<1>6. \A q \in Processes \ {p} : run'[q] = run[q]
  BY <1>1, <1>2, <1>3, Gone, Stopped
<1>7. Apart(p)
  BY <1>4, <1>6 DEF Apart
<1>8. ~KeyOut(p) /\ ~ChainOut(p)
  BY <1>2 DEF On, KeyOut, ChainOut, Doing, Does
<1>9. /\ ~KeyOut(p)' /\ ~ChainOut(p)' /\ ~Does(p, {"restore"})'
      /\ ~Doing(p, "renew", {6})' /\ ~Doing(p, "restore", {1, 2})'
  BY <1>5 DEF KeyOut, ChainOut, Doing, Does
<1>10. KeyStays(p) /\ ChainStays(p)
  BY <1>2, <1>8, <1>9 DEF KeyStays, ChainStays
<1>11. past'.fails \in Nat /\ past.fails <= past'.fails /\ past' = past
  BY <1>1, <1>2 DEF TypeOK
<1>12. OneByOne'
  BY <1>1, <1>3, <1>6, <1>9, <1>11, OneByOneKeeps
<1>13. InHand(p)'
  BY <1>1, <1>3, <1>5, <1>11 DEF InHand, Doing, Does
<1>14. QED
  BY <1>7, <1>9, <1>10, <1>11, <1>12, <1>13, PairKeeps DEF ChainStays, ChainReturned

LEMMA VerifyLocalPair ==
  ASSUME IInv, Renewable, Healthy, past.ca # Absent, NEW p \in Processes, VerifyLocal(p)
  PROVE  Renewable'
<1>1. TypeOK /\ Taken /\ OneByOne /\ InHand(p) /\ NoInit /\ Kept
  BY DEF IInv, Renewable, Healthy, Local
<1>2. /\ On(p, "init", 5) \/ On(p, "renew", 8)
      /\ UNCHANGED <<disk, tmp, bak, keys>>
      /\ \/ Valid /\ Stop(p) /\ past' = [past EXCEPT !.ca = disk["ca"]]
         \/ \E failed \in BOOLEAN :
              /\ failed \/ ~Valid
              /\ Fails(failed)
              /\ IF run[p].op = "init" THEN Turn(p, "clean") ELSE Stop(p)
  BY DEF VerifyLocal
<1>3. run[p] # Absent /\ run[p].op = "renew" /\ run[p].at = 8
  BY <1>1, <1>2 DEF On, NoInit, Does
<1>4. Stop(p)
  BY <1>2, <1>3
<1>5. /\ past'.ca = past.ca /\ past'.beside = past.beside
      /\ past'.fails \in Nat /\ past.fails <= past'.fails
  <2>1. CASE past' = [past EXCEPT !.ca = disk["ca"]]
    BY <1>1, <2>1 DEF TypeOK, Kept
  <2>2. ASSUME NEW failed \in BOOLEAN, Fails(failed)
        PROVE  <1>5
    <3>1. /\ past'.fails = past.fails + (IF failed THEN 1 ELSE 0) /\ past.fails \in Nat
          /\ past'.beside = past.beside /\ past'.ca = past.ca
      BY <1>1, <2>2, FailsCounts
    <3>2. QED
      BY <3>1
  <2>3. QED
    BY <1>2, <2>1, <2>2
<1>6. run'[p] = Absent /\ \A q \in Processes \ {p} : run'[q] = run[q]
  BY <1>1, <1>4, Stopped
<1>7. ~KeyOut(p) /\ ~ChainOut(p)
  BY <1>3 DEF KeyOut, ChainOut, Doing, Does
<1>8. /\ ~KeyOut(p)' /\ ~ChainOut(p)' /\ InHand(p)' /\ ~Does(p, {"restore"})'
      /\ ~Doing(p, "renew", {6})' /\ ~Doing(p, "restore", {1, 2})'
  BY <1>6 DEF KeyOut, ChainOut, Doing, Does, InHand
<1>9. Apart(p) /\ KeyStays(p) /\ ChainStays(p)
  BY <1>2, <1>6, <1>7, <1>8 DEF Apart, KeyStays, ChainStays
<1>10. OneByOne'
  BY <1>1, <1>3, <1>5, <1>6, <1>8, OneByOneKeeps
<1>11. QED
  BY <1>5, <1>8, <1>9, <1>10, PairKeeps DEF ChainStays, ChainReturned
-----------------------------------------------------------------------------
(* The steps of an initialization, before the first success.               *)

LEMMA BeginInitUntouched ==
  ASSUME IInv, Untouched, Healthy', NEW p \in Processes, BeginInit(p)
  PROVE  Untouched' /\ past'.ca = past.ca
<1> DEFINE new == [op |-> "init", at |-> 1, ca |-> keys + 1, key |-> keys + 2]
<1>1. TypeOK
  BY DEF IInv
<1>2. /\ run[p] = Absent /\ run' = [run EXCEPT ![p] = new] /\ disk' = disk
      /\ past' = [past EXCEPT !.beside = @ \/ Others(p) # {},
                    !.crossed = @ \/ \E q \in Others(p) : {"init", run[q].op} \cap {"init", "clean"} # {}]
  BY DEF BeginInit, Launch
<1>3. new \in CommandStates /\ new.op = "init"
  <2>1. keys + 1 \in Nat /\ keys + 2 \in Nat
    BY <1>1 DEF TypeOK
  <2>2. QED
    BY <2>1 DEF CommandStates
<1> HIDE DEF new
<1>4. new # Absent
  BY <1>3, TlsConstants
<1>5. run'[p] = new /\ \A q \in Processes \ {p} : run'[q] = run[q]
  BY <1>1, <1>2 DEF TypeOK
<1>6. Others(p) = {} /\ past'.ca = past.ca
  <2>1. past'.crossed = (past.crossed \/ \E q \in Others(p) : {"init", run[q].op} \cap {"init", "clean"} # {})
        /\ past'.ca = past.ca
    BY <1>1, <1>2 DEF TypeOK
  <2>2. \A q \in Others(p) : {"init", run[q].op} \cap {"init", "clean"} # {}
    OBVIOUS
  <2>3. QED
    BY <2>1, <2>2 DEF Healthy
<1>7. \A q \in Processes : run'[q] # Absent => q = p
  BY <1>5, <1>6 DEF Others
<1>8. Does(p, {"init", "clean"})' /\ ~Does(p, {"renew", "restore"})' /\ ~Does(p, {"clean"})'
  BY <1>3, <1>4, <1>5 DEF Does
<1>9. \A q \in Processes : ~Does(q, {"renew", "restore"})' /\ ~Does(q, {"clean"})'
  BY <1>7, <1>8 DEF Does
<1>10. QED
  BY <1>6, <1>7, <1>8, <1>9 DEF Untouched, Doing

\* A step of an initialization, or of its cleanup, that is alone.
LEMMA UntouchedKeeps ==
  ASSUME Untouched, NEW p \in Processes, \A q \in Processes : run[q] # Absent => q = p,
         \A q \in Processes \ {p} : run'[q] = run[q],
         Does(p, {"init", "clean"})' \/ (run'[p] = Absent /\ \A f \in Managed : disk'[f] = Absent),
         \A i, j \in 1..4 : Doing(p, "clean", {i})' /\ j < i => disk'[CleanOrder[j]] = Absent
  PROVE  Untouched'
<1>1. \A q \in Processes : run'[q] # Absent => q = p
  OBVIOUS
<1>2. \A q \in Processes : ~Does(q, {"renew", "restore"})'
  BY <1>1 DEF Does
<1>3. \A q \in Processes : \A i, j \in 1..4 :
        Doing(q, "clean", {i})' /\ j < i => disk'[CleanOrder[j]] = Absent
  BY <1>1 DEF Doing, Does
<1>4. (\A q \in Processes : ~Does(q, {"init", "clean"})') => \A f \in Managed : disk'[f] = Absent
  OBVIOUS
<1>5. QED
  BY <1>1, <1>2, <1>3, <1>4 DEF Untouched

LEMMA WriteNewUntouched ==
  ASSUME IInv, Untouched, Healthy, NEW p \in Processes, WriteNew(p)
  PROVE  Untouched' /\ past'.ca = past.ca
<1>1. TypeOK /\ AloneInit
  BY DEF IInv, Healthy, Local
<1>2. PICK i \in 1..4, failed \in BOOLEAN :
        /\ On(p, "init", i) /\ Fails(failed)
        /\ Turn(p, "clean") \/ Go(p, i + 1)
  BY DEF WriteNew
<1>3. run[p] # Absent /\ run[p].op = "init" /\ past'.ca = past.ca
  BY <1>1, <1>2, FailsCounts DEF On
<1>4. \A q \in Processes : run[q] # Absent => q = p
  BY <1>1, <1>3 DEF AloneInit, Does
<1>5. CASE Turn(p, "clean")
  <2>1. /\ run'[p] # Absent /\ run'[p].op = "clean" /\ run'[p].at = 1
        /\ \A q \in Processes \ {p} : run'[q] = run[q]
    BY <1>1, <1>3, <1>5, Turned
  <2>2. \A k, j \in 1..4 : ~(Doing(p, "clean", {k})' /\ j < k)
    BY <2>1 DEF Doing
  <2>3. QED
    BY <1>3, <1>4, <2>1, <2>2, UntouchedKeeps DEF Does
<1>6. CASE Go(p, i + 1)
  <2>1. i + 1 \in 1..8
    OBVIOUS
  <2>2. /\ run'[p] # Absent /\ run'[p].op = "init"
        /\ \A q \in Processes \ {p} : run'[q] = run[q]
    BY <1>1, <1>3, <1>6, <2>1, Gone
  <2>3. \A k \in 1..4 : ~Doing(p, "clean", {k})'
    BY <2>2 DEF Doing, Does
  <2>4. QED
    BY <1>3, <1>4, <2>2, <2>3, UntouchedKeeps DEF Does
<1>7. QED
  BY <1>2, <1>5, <1>6

LEMMA CleanUntouched ==
  ASSUME IInv, Untouched, Healthy, NEW p \in Processes, Clean(p)
  PROVE  Untouched' /\ past'.ca = past.ca
<1>1. TypeOK /\ AloneInit
  BY DEF IInv, Healthy, Local
<1>2. PICK i \in 1..4 :
        /\ On(p, "clean", i)
        /\ disk' = [disk EXCEPT ![CleanOrder[i]] = Absent]
        /\ IF i = 4 THEN Stop(p) ELSE Go(p, i + 1)
  BY DEF Clean
<1>3. run[p] # Absent /\ run[p].op = "clean" /\ run[p].at = i /\ past' = past
  BY <1>2 DEF On, Clean
<1>4. \A q \in Processes : run[q] # Absent => q = p
  BY <1>1, <1>3 DEF AloneInit, Does
<1>5. \A j \in 1..4 : j < i => disk[CleanOrder[j]] = Absent
  BY <1>3 DEF Untouched, Doing, Does
<1>6. \A j \in 1..4 : CleanOrder[j] \in Managed
  BY DEF CleanOrder, Managed
<1>7. \A j \in 1..4 : j <= i => disk'[CleanOrder[j]] = Absent
  <2>1. disk'[CleanOrder[i]] = Absent
    BY <1>1, <1>2, <1>6 DEF TypeOK
  <2>2. \A f \in Managed : disk[f] = Absent => disk'[f] = Absent
    BY <1>1, <1>2 DEF TypeOK
  <2>3. QED
    BY <1>5, <1>6, <2>1, <2>2
<1>8. CASE i = 4
  <2>1. run'[p] = Absent /\ \A q \in Processes \ {p} : run'[q] = run[q]
    BY <1>1, <1>2, <1>8, Stopped
  <2>2. \A f \in Managed : disk'[f] = Absent
    <3>1. /\ disk'[CleanOrder[1]] = Absent /\ disk'[CleanOrder[2]] = Absent
          /\ disk'[CleanOrder[3]] = Absent /\ disk'[CleanOrder[4]] = Absent
      BY <1>7, <1>8
    <3>2. QED
      BY <3>1 DEF Managed, CleanOrder
  <2>3. \A k \in 1..4 : ~Doing(p, "clean", {k})'
    BY <2>1 DEF Doing, Does
  <2>4. QED
    BY <1>3, <1>4, <2>1, <2>2, <2>3, UntouchedKeeps
<1>9. CASE i # 4
  <2>1. i + 1 \in 1..8
    OBVIOUS
  <2>2. /\ run'[p] # Absent /\ run'[p].op = "clean" /\ run'[p].at = i + 1
        /\ \A q \in Processes \ {p} : run'[q] = run[q]
    BY <1>1, <1>2, <1>3, <1>9, <2>1, Gone
  <2>3. \A k, j \in 1..4 : Doing(p, "clean", {k})' /\ j < k => disk'[CleanOrder[j]] = Absent
    <3>1. \A k \in 1..4 : Doing(p, "clean", {k})' => k = i + 1
      BY <2>2 DEF Doing
    <3>2. QED
      BY <1>7, <3>1
  <2>4. QED
    BY <1>3, <1>4, <2>2, <2>3, UntouchedKeeps DEF Does
<1>10. QED
  BY <1>8, <1>9

\* What an initialization reports is a pair that renewals can take apart.
LEMMA FirstPair ==
  ASSUME \A q \in Processes : run'[q] = Absent, Valid', past'.ca = disk'["ca"]
  PROVE  Renewable'
<1>1. \A q \in Processes : \A op, places : ~Doing(q, op, places)'
  BY DEF Doing, Does
<1>2. \A q \in Processes : ~KeyOut(q)' /\ ~ChainOut(q)'
  BY <1>1 DEF KeyOut, ChainOut
<1>3. /\ disk'["key"] # Absent /\ disk'["chain"] # Absent
      /\ disk'["chain"].key = disk'["key"] /\ disk'["chain"].ca = disk'["ca"]
  BY DEF Valid, Prepared
<1>4. Taken'
  BY <1>2, <1>3 DEF Taken
<1>5. KeyIs(disk["chain"].key)'
  BY <1>2, <1>3 DEF KeyIs
<1>6. Fits'
  BY <1>1, <1>3, <1>5 DEF Fits
<1>7. OneByOne' /\ \A q \in Processes : InHand(q)'
  BY <1>1 DEF OneByOne, InHand, Does
<1>8. QED
  BY <1>4, <1>6, <1>7 DEF Renewable

LEMMA VerifyLocalUntouched ==
  ASSUME IInv, Untouched, Healthy, past.ca = Absent, NEW p \in Processes, VerifyLocal(p)
  PROVE  IF past'.ca = Absent THEN Untouched' ELSE Renewable'
<1>1. TypeOK /\ AloneInit
  BY DEF IInv, Healthy, Local
<1>2. /\ On(p, "init", 5) \/ On(p, "renew", 8)
      /\ UNCHANGED <<disk, tmp, bak, keys>>
      /\ \/ Valid /\ Stop(p) /\ past' = [past EXCEPT !.ca = disk["ca"]]
         \/ \E failed \in BOOLEAN :
              /\ failed \/ ~Valid
              /\ Fails(failed)
              /\ IF run[p].op = "init" THEN Turn(p, "clean") ELSE Stop(p)
  BY DEF VerifyLocal
<1>3. run[p] # Absent /\ run[p].op = "init"
  BY <1>2 DEF On, Untouched, Does
<1>4. \A q \in Processes : run[q] # Absent => q = p
  BY <1>1, <1>3 DEF AloneInit, Does
<1>5. CASE Valid /\ Stop(p) /\ past' = [past EXCEPT !.ca = disk["ca"]]
  <2>1. \A q \in Processes : run'[q] = Absent
    BY <1>1, <1>4, <1>5, Stopped
  <2>2. past'.ca = disk["ca"] /\ disk["ca"] # Absent /\ disk' = disk
    BY <1>1, <1>2, <1>5 DEF TypeOK, Valid
  <2>3. Valid'
    BY <1>5, <2>2 DEF Valid, Prepared
  <2>4. QED
    BY <2>1, <2>2, <2>3, FirstPair
<1>6. ASSUME NEW failed \in BOOLEAN, Fails(failed), Turn(p, "clean")
      PROVE  Untouched' /\ past'.ca = Absent
  <2>1. /\ run'[p] # Absent /\ run'[p].op = "clean" /\ run'[p].at = 1
        /\ \A q \in Processes \ {p} : run'[q] = run[q]
    BY <1>1, <1>3, <1>6, Turned
  <2>2. \A k, j \in 1..4 : ~(Doing(p, "clean", {k})' /\ j < k)
    BY <2>1 DEF Doing
  <2>3. past'.ca = Absent
    BY <1>1, <1>6, FailsCounts
  <2>4. QED
    BY <1>4, <2>1, <2>2, <2>3, UntouchedKeeps DEF Does
<1>7. QED
  BY <1>2, <1>3, <1>5, <1>6

\* Nothing can be renewed before there is an authority.
LEMMA NothingToRenew ==
  ASSUME IInv, Untouched, Healthy', NEW p \in Processes, BeginRenew(p)
  PROVE  FALSE
<1>1. TypeOK
  BY DEF IInv
<1>2. run[p] = Absent /\ disk["ca"] # Absent
      /\ past' = [past EXCEPT !.beside = @ \/ Others(p) # {},
                    !.crossed = @ \/ \E q \in Others(p) : {"renew", run[q].op} \cap {"init", "clean"} # {}]
  BY DEF BeginRenew, Launch, AuthorityMatches
<1>3. PICK q \in Processes : Does(q, {"init", "clean"})
  BY <1>2 DEF Untouched, Managed
<1>4. q \in Others(p) /\ {"renew", run[q].op} \cap {"init", "clean"} # {}
  BY <1>2, <1>3 DEF Does, Others
<1>5. past'.crossed = (past.crossed \/ \E r \in Others(p) : {"renew", run[r].op} \cap {"init", "clean"} # {})
  BY <1>1, <1>2 DEF TypeOK
<1>6. QED
  BY <1>4, <1>5 DEF Healthy
-----------------------------------------------------------------------------
\* Who begins adds to the history, and takes nothing from it.
LEMMA LaunchLater ==
  ASSUME TypeOK, NEW p, NEW op, NEW ca, NEW n, Launch(p, op, ca, n)
  PROVE  Later
<1>1. past' = [past EXCEPT !.beside = @ \/ Others(p) # {},
                 !.crossed = @ \/ \E q \in Others(p) : {op, run[q].op} \cap {"init", "clean"} # {}]
  BY DEF Launch
<1>2. past \in [fails : Nat, crashes : Nat, beside : BOOLEAN, crossed : BOOLEAN, ca : Contents]
  BY DEF TypeOK
<1> DEFINE others == Others(p) # {}
           crossing == \E q \in Others(p) : {op, run[q].op} \cap {"init", "clean"} # {}
<1>3. past' = [past EXCEPT !.beside = @ \/ others, !.crossed = @ \/ crossing]
  BY <1>1
<1> HIDE DEF others, crossing
<1>4. /\ past'.fails = past.fails /\ past'.crashes = past.crashes
      /\ past'.beside = (past.beside \/ others) /\ past'.crossed = (past.crossed \/ crossing)
  BY <1>2, <1>3
<1>5. past.crossed => past'.crossed
  BY <1>4
<1>6. past.beside => past'.beside
  BY <1>4
<1>7. past.fails <= past'.fails /\ past.crashes <= past'.crashes
  BY <1>2, <1>4
<1>8. QED
  BY <1>5, <1>6, <1>7 DEF Later

LEMMA StepLater ==
  ASSUME TypeOK, NEW p \in Processes,
         \/ BeginInit(p) \/ WriteNew(p) \/ Clean(p) \/ VerifyLocal(p)
         \/ BeginRenew(p) \/ Stage(p) \/ SetAside(p) \/ Activate(p) \/ Restore(p) \/ Unstage(p)
  PROVE  Later
<1>1. past \in [fails : Nat, crashes : Nat, beside : BOOLEAN, crossed : BOOLEAN, ca : Contents]
  BY DEF TypeOK
<1>2. CASE past' = past
  BY <1>1, <1>2 DEF Later
<1>3. ASSUME NEW failed \in BOOLEAN, Fails(failed)
      PROVE  Later
  BY <1>3, FailsLater
<1>4. CASE past' = [past EXCEPT !.ca = disk["ca"]]
  <2>1. /\ past'.fails = past.fails /\ past'.crashes = past.crashes
        /\ past'.beside = past.beside /\ past'.crossed = past.crossed
    BY <1>1, <1>4
  <2>2. QED
    BY <1>1, <2>1 DEF Later
<1>5. CASE BeginInit(p) \/ BeginRenew(p)
  BY <1>5, LaunchLater DEF BeginInit, BeginRenew
<1>6. CASE Clean(p) \/ Unstage(p)
  BY <1>2, <1>6 DEF Clean, Unstage
<1>7. CASE VerifyLocal(p)
  BY <1>3, <1>4, <1>7 DEF VerifyLocal
<1>8. CASE WriteNew(p) \/ Stage(p) \/ SetAside(p) \/ Activate(p) \/ Restore(p)
  BY <1>3, <1>8 DEF WriteNew, Stage, SetAside, Activate, Restore
<1>9. QED
  BY <1>5, <1>6, <1>7, <1>8

\* The authority that was reported stays reported, and the same.
LEMMA CaStays ==
  ASSUME IInv, Healthy, NEW p \in Processes,
         \/ VerifyLocal(p) /\ past.ca # Absent
         \/ BeginRenew(p) \/ Stage(p) \/ SetAside(p) \/ Activate(p) \/ Restore(p) \/ Unstage(p)
  PROVE  past'.ca = past.ca
<1>1. TypeOK /\ Kept
  BY DEF IInv, Healthy, Local
<1>2. ASSUME NEW failed \in BOOLEAN, Fails(failed)
      PROVE  past'.ca = past.ca
  BY <1>1, <1>2, FailsCounts
<1>3. CASE BeginRenew(p)
  BY <1>1, <1>3 DEF BeginRenew, Launch, TypeOK
<1>4. CASE Unstage(p)
  BY <1>4 DEF Unstage
<1>5. CASE VerifyLocal(p) /\ past.ca # Absent
  <2>1. CASE past' = [past EXCEPT !.ca = disk["ca"]]
    BY <1>1, <1>5, <2>1 DEF TypeOK, Kept
  <2>2. QED
    BY <1>2, <1>5, <2>1 DEF VerifyLocal
<1>6. CASE Stage(p) \/ SetAside(p) \/ Activate(p) \/ Restore(p)
  BY <1>2, <1>6 DEF Stage, SetAside, Activate, Restore
<1>7. QED
  BY <1>3, <1>4, <1>5, <1>6

\* Every step keeps the pair, as long as nothing happened that it does not survive.
LEMMA PairSteps ==
  ASSUME IInv, IInv', PairInv, [TlsNext]_tlsVars
  PROVE  PairInv'
<1> SUFFICES ASSUME Healthy'
             PROVE  IF past'.ca = Absent THEN Untouched' ELSE Renewable'
  BY DEF PairInv
<1>1. TypeOK /\ TypeOK'
  BY DEF IInv
<1>2. CASE UNCHANGED tlsVars
  BY <1>2 DEF tlsVars, PairInv, Healthy, Untouched, Renewable, Taken, Fits, OneByOne, InHand,
     KeyIs, KeyOut, ChainOut, Doing, Does
<1>3. ASSUME NEW p \in Processes,
             \/ BeginInit(p) \/ WriteNew(p) \/ Clean(p) \/ VerifyLocal(p)
             \/ BeginRenew(p) \/ Stage(p) \/ SetAside(p) \/ Activate(p) \/ Restore(p) \/ Unstage(p)
      PROVE  IF past'.ca = Absent THEN Untouched' ELSE Renewable'
  <2>1. Healthy
    BY <1>1, <1>3, StepLater, HealthyBefore
  <2>2. CASE past.ca = Absent
    <3>1. Untouched
      BY <2>1, <2>2 DEF PairInv
    <3>2. \A q \in Processes : ~Does(q, {"renew", "restore"})
      BY <3>1 DEF Untouched
    <3>3. ~(Stage(p) \/ SetAside(p) \/ Activate(p) \/ Restore(p) \/ Unstage(p))
      BY <3>2 DEF Stage, SetAside, Activate, Restore, Unstage, On, Does
    <3>4. QED
      BY <1>3, <2>1, <2>2, <3>1, <3>3, BeginInitUntouched, WriteNewUntouched, CleanUntouched,
         VerifyLocalUntouched, NothingToRenew
  <2>3. CASE past.ca # Absent
    <3>1. Renewable /\ Local
      BY <2>1, <2>3 DEF PairInv, IInv, Healthy
    <3>2. ~(BeginInit(p) \/ WriteNew(p) \/ Clean(p))
      <4>1. disk["ca"] # Absent /\ ~Does(p, {"init", "clean"})
        BY <2>3, <3>1 DEF Local, Kept, NoInit
      <4>2. QED
        BY <4>1 DEF BeginInit, WriteNew, Clean, On, Does, Managed
    <3>3. past'.ca = past.ca
      BY <1>3, <2>1, <2>3, <3>2, CaStays
    <3>4. Renewable'
      BY <1>3, <2>1, <2>3, <3>1, <3>2, BeginRenewPair, StagePair, SetAsidePair, ActivatePair,
         RestorePair, UnstagePair, VerifyLocalPair
    <3>5. QED
      BY <2>3, <3>3, <3>4
  <2>4. QED
    BY <2>2, <2>3
<1>4. ASSUME NEW p \in Processes, Die(p)
      PROVE  FALSE
  <2>1. past'.crashes = past.crashes + 1 /\ past.crashes \in Nat
    BY <1>1, <1>4 DEF Die, TypeOK
  <2>2. QED
    BY <2>1 DEF Healthy
<1>5. QED
  BY <1>2, <1>3, <1>4 DEF TlsNext

LEMMA PairStart == TlsInit => PairInv
<1> SUFFICES ASSUME TlsInit
             PROVE  Untouched
  BY DEF TlsInit, NoPast, PairInv
<1>1. (\A p \in Processes : run[p] = Absent) /\ \A f \in Managed : disk[f] = Absent
  BY DEF TlsInit
<1>2. QED
  BY <1>1 DEF Untouched, Doing, Does

\* Where nothing runs, a pair that renewals can take apart is whole.
LEMMA PairWhole == IInv /\ PairInv => CredentialsStay
<1> SUFFICES ASSUME IInv, PairInv, past.ca # Absent, ~past.crossed,
                    \A p \in Processes : run[p] = Absent,
                    past.crashes = 0, past.fails <= IF past.beside THEN 0 ELSE 1
             PROVE  Valid
  BY DEF CredentialsStay
<1>1. Renewable /\ Kept
  BY DEF PairInv, Healthy, IInv, Local
<1>2. \A p \in Processes : ~KeyOut(p) /\ ~ChainOut(p)
  BY DEF KeyOut, ChainOut, Doing, Does
<1>3. disk["key"] # Absent /\ disk["chain"] # Absent
  BY <1>1, <1>2 DEF Renewable, Taken
<1>4. disk["chain"].key = disk["key"] /\ disk["chain"].ca = past.ca
  BY <1>1, <1>2, <1>3 DEF Renewable, Fits, KeyIs
<1>5. QED
  BY <1>1, <1>3, <1>4 DEF Valid, Prepared, Kept
-----------------------------------------------------------------------------
\* Every step of every command keeps the invariant.
LEMMA Steps == IInv /\ [TlsNext]_tlsVars => IInv'
<1> SUFFICES ASSUME IInv, [TlsNext]_tlsVars
             PROVE  IInv'
  OBVIOUS
<1>1. CASE UNCHANGED tlsVars
  BY <1>1 DEF tlsVars, IInv, TypeOK, Local, AloneInit, Progress, Renewing, NoInit, Kept, Does
<1>2. ASSUME NEW p \in Processes,
             \/ BeginInit(p) \/ WriteNew(p) \/ Clean(p) \/ VerifyLocal(p)
             \/ BeginRenew(p) \/ Stage(p) \/ SetAside(p) \/ Activate(p) \/ Restore(p) \/ Unstage(p)
             \/ Die(p)
      PROVE  IInv'
  BY <1>2, BeginInitKeeps, WriteNewKeeps, CleanKeeps, VerifyLocalKeeps, BeginRenewKeeps,
     StageKeeps, SetAsideKeeps, ActivateKeeps, RestoreKeeps, UnstageKeeps, DieKeeps
<1>3. QED
  BY <1>1, <1>2 DEF TlsNext

(* While no initialization runs beside another command, who initializes is *)
(* alone, finds what it wrote, and does not run once an authority was      *)
(* reported: this holds of initialize_local_tls and renew_local_tls for    *)
(* any number of processes, failures and crashes.                          *)
THEOREM Invariance == TlsSpec => []IInv
  BY Start, Steps, PTL DEF TlsSpec

(* The certificate and the key of the authority that a command reported    *)
(* are what the next renewal signs with: nothing that fails or dies in     *)
(* initialize_local_tls, renew_local_tls or atomic_replace_pair replaces   *)
(* or removes them.                                                        *)
THEOREM CaRetainedHolds == TlsSpec => []CaRetained
<1>1. IInv => CaRetained
  BY DEF IInv, Local, Kept, CaRetained
<1>2. QED
  BY <1>1, Invariance, PTL

(* While renewals take the pair of a server apart, whoever has taken the    *)
(* key away still has it, the chain that is there or that comes next fits   *)
(* the key, and only one failing step of a renewal that runs alone leads    *)
(* to a rollback: SetAside, Activate and Restore of atomic_replace_pair,    *)
(* for any number of processes.                                             *)
THEOREM PairInvariance == TlsSpec => [](IInv /\ PairInv)
<1>1. TlsInit => IInv /\ PairInv
  BY Start, PairStart
<1>2. (IInv /\ PairInv) /\ [TlsNext]_tlsVars => (IInv /\ PairInv)'
  BY Steps, PairSteps
<1>3. QED
  BY <1>1, <1>2, PTL DEF TlsSpec

(* What initialize_local_tls or renew_local_tls reported as done is what a  *)
(* server can start with whenever no command runs, although one step of a   *)
(* renewal failed or renewals ran beside each other.                        *)
THEOREM CredentialsStayHolds == TlsSpec => []CredentialsStay
  BY PairInvariance, PairWhole, PTL
-----------------------------------------------------------------------------
(* The commands as a part of the whole: they run before there is a server, *)
(* and what was proved of them holds of every start.                       *)
Commanded == IF mode = "Credentials" THEN IInv /\ PairInv ELSE NoCommands

\* In the mode of the commands only they move; in the others they do not.
LEMMA CommandsStay == AuthSpec => []Commanded
<1>1. AuthInit => Commanded
  BY Start, PairStart DEF AuthInit, Commanded
<1>2. Commanded /\ [AuthNext]_vars => Commanded'
  <2> SUFFICES ASSUME Commanded, [AuthNext]_vars PROVE Commanded'
    OBVIOUS
  <2>1. mode' = mode
    BY DEF AuthNext, vars
  <2>2. CASE mode = "Credentials"
    <3>1. [TlsNext]_tlsVars
      <4>1. CASE AuthNext
        BY <2>2, <4>1 DEF AuthNext
      <4>2. CASE UNCHANGED vars
        BY <4>2 DEF vars
      <4> QED
        BY <4>1, <4>2
    <3>2. IInv /\ PairInv
      BY <2>2 DEF Commanded
    <3>3. IInv'
      BY <3>1, <3>2, Steps
    <3>4. PairInv'
      BY <3>1, <3>2, <3>3, PairSteps
    <3> QED
      BY <2>1, <2>2, <3>3, <3>4 DEF Commanded
  <2>3. CASE mode # "Credentials"
    <3>1. UNCHANGED tlsVars
      <4>1. CASE AuthNext
        BY <2>3, <4>1 DEF AuthNext
      <4>2. CASE UNCHANGED vars
        BY <4>2 DEF vars
      <4> QED
        BY <4>1, <4>2
    <3> QED
      BY <2>1, <2>3, <3>1 DEF Commanded, NoCommands, tlsVars
  <2> QED
    BY <2>2, <2>3
<1> QED
  BY <1>1, <1>2, PTL DEF AuthSpec

(* The authority is retained and the reported credentials stay usable in   *)
(* the whole of which the commands are a part, whatever its mode.          *)
THEOREM ServerKeepsCredentials == AuthSpec => [](CaRetained /\ CredentialsStay)
<1>1. Commanded => CaRetained /\ CredentialsStay
  <2> SUFFICES ASSUME Commanded PROVE CaRetained /\ CredentialsStay
    OBVIOUS
  <2>1. CASE mode = "Credentials"
    BY <2>1, PairWhole DEF Commanded, IInv, Local, Kept, CaRetained
  <2>2. CASE mode # "Credentials"
    <3>1. past.ca = Absent
      BY <2>2 DEF Commanded, NoCommands, NoPast
    <3> QED
      BY <3>1 DEF CaRetained, CredentialsStay
  <2> QED
    BY <2>1, <2>2
<1> QED
  BY <1>1, CommandsStay, PTL
=============================================================================

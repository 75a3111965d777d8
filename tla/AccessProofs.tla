---------------------------- MODULE AccessProofs -----------------------------
(***************************************************************************)
(* A change of a user ends its sessions, and the last password stays: for  *)
(* any number of users, sessions, requests and commands beside the server. *)
(* The guesses at a pairing code are bounded: for every lifetime, cooldown *)
(* and number of attempts, and for every order of attempts and of time.    *)
(* The table of route contracts is valid and agrees with the capabilities  *)
(* of sessions and of the token, for every deployment, and what was proved *)
(* of the parts holds of the server as a whole.                            *)
(***************************************************************************)
EXTENDS AccessMC, TLAPS, Integers

TypeOK ==
  /\ row \in [Users -> Rows \cup {None}]
  /\ sessions \in [Ids -> SessionRecords \cup {None}]
  /\ drawn \subseteq Ids
  /\ task \in [Tasks -> Requests \cup {None}]
  /\ changes \in [Users -> Nat] /\ life \in [Users -> Nat]
  /\ given \in [Users -> Passwords] /\ crossed \in [Users -> SUBSET Passwords]

(* What may be the password of a user: the last one, or one that a login   *)
(* brings back.                                                            *)
accepted == [u \in Users |-> {given[u]} \cup crossed[u]]

(* What a session, or a login that is about to enter one, knows of its     *)
(* user: within one life of the user, the epoch of the row R[u] and the    *)
(* number C[u] of changes advance together.                                *)
Knows(c, R, C, L) ==
  /\ c.user \in Users /\ c.epoch \in Nat /\ c.saw \in Nat /\ c.life \in Nat
  /\ c.life <= L[c.user] /\ c.saw <= C[c.user]
  /\ c.life = L[c.user] /\ R[c.user] # None => C[c.user] + c.epoch = R[c.user].epoch + c.saw

\* What a request that found a session carries along.
Carries(r, R, C, L) ==
  /\ r.cred \in SessionRecords /\ Knows(r.cred, R, C, L)
  /\ r.cred.saw <= r.saw /\ r.saw <= C[r.cred.user]
  /\ r.pc = "roles" /\ r.cred.life = L[r.cred.user] /\ r.epoch = r.cred.epoch => r.cred.saw = r.saw
  /\ r.pc = "granted" /\ r.cred.life = L[r.cred.user] => r.cred.saw = r.saw

RequestFine(r, R, C, L, U) ==
  /\ r.pc \in {"lookup", "row", "roles", "granted"} => r.id \in Ids
  /\ r.pc \in {"verify", "upgrade", "enter", "change"} => r.user \in Users
  /\ r.pc = "upgrade" => r.pw \in Passwords /\ r.pw \in U[r.user]
  /\ r.pc \in {"upgrade", "enter"} => Knows(r, R, C, L)
  /\ r.pc \in {"row", "roles", "granted"} => Carries(r, R, C, L)

SessionsFine == \A s \in Ids : sessions[s] # None => Knows(sessions[s], row, changes, life)

TasksFine == \A t \in Tasks : task[t] # None => RequestFine(task[t], row, changes, life, accepted)

RowsFine ==
  \A u \in Users : Present(u) => row[u].hash \in accepted[u]

SessInv == TypeOK /\ SessionsFine /\ TasksFine /\ RowsFine
-----------------------------------------------------------------------------
(* What a step may do to the tables: epochs and changes advance together   *)
(* while a user lives.                                                     *)
Together(R, C, L, Rn, Cn, Ln) ==
  \A u \in Users :
    /\ C[u] <= Cn[u] /\ L[u] <= Ln[u]
    /\ L[u] = Ln[u] /\ Rn[u] # None => R[u] # None /\ Cn[u] + R[u].epoch = Rn[u].epoch + C[u]

Epochs(R) == \A u \in Users : R[u] # None => R[u].epoch \in Nat

LEMMA KnowsStays ==
  ASSUME NEW R, NEW C \in [Users -> Nat], NEW L \in [Users -> Nat], Epochs(R),
         NEW Rn, NEW Cn \in [Users -> Nat], NEW Ln \in [Users -> Nat], Epochs(Rn),
         Together(R, C, L, Rn, Cn, Ln),
         NEW c, Knows(c, R, C, L)
  PROVE  Knows(c, Rn, Cn, Ln)
<1> DEFINE u == c.user
<1>1. u \in Users /\ c.life \in Nat /\ c.saw \in Nat /\ c.epoch \in Nat
      /\ C[u] \in Nat /\ Cn[u] \in Nat /\ L[u] \in Nat /\ Ln[u] \in Nat
  BY DEF Knows
<1>2. /\ C[u] <= Cn[u] /\ L[u] <= Ln[u]
      /\ L[u] = Ln[u] /\ Rn[u] # None => R[u] # None /\ Cn[u] + R[u].epoch = Rn[u].epoch + C[u]
  BY <1>1 DEF Together
<1>3. c.life <= Ln[u] /\ c.saw <= Cn[u]
  BY <1>1, <1>2 DEF Knows
<1>4. ASSUME c.life = Ln[u], Rn[u] # None
      PROVE  Cn[u] + c.epoch = Rn[u].epoch + c.saw
  <2>1. L[u] = Ln[u] /\ c.life = L[u]
    BY <1>1, <1>2, <1>4 DEF Knows
  <2>2. R[u] # None /\ Cn[u] + R[u].epoch = Rn[u].epoch + C[u]
    BY <1>2, <1>4, <2>1
  <2>3. C[u] + c.epoch = R[u].epoch + c.saw
    BY <2>1, <2>2 DEF Knows
  <2>4. R[u].epoch \in Nat /\ Rn[u].epoch \in Nat
    BY <1>1, <1>4, <2>2 DEF Epochs
  <2>5. QED
    BY <1>1, <2>2, <2>3, <2>4
<1>5. QED
  BY <1>1, <1>3, <1>4 DEF Knows

LEMMA CarriesStays ==
  ASSUME NEW R, NEW C \in [Users -> Nat], NEW L \in [Users -> Nat], Epochs(R),
         NEW Rn, NEW Cn \in [Users -> Nat], NEW Ln \in [Users -> Nat], Epochs(Rn),
         Together(R, C, L, Rn, Cn, Ln),
         NEW r \in Requests, Carries(r, R, C, L)
  PROVE  Carries(r, Rn, Cn, Ln)
<1> DEFINE c == r.cred
<1> DEFINE u == c.user
<1>1. c \in SessionRecords /\ Knows(c, R, C, L)
  BY DEF Carries
<1>2. Knows(c, Rn, Cn, Ln)
  BY <1>1, KnowsStays
<1>3. u \in Users /\ c.life \in Nat /\ L[u] \in Nat /\ Ln[u] \in Nat /\ C[u] \in Nat /\ Cn[u] \in Nat
      /\ r.saw \in Nat /\ c.life <= L[u]
  BY <1>1 DEF Knows, Requests
<1>4. C[u] <= Cn[u] /\ L[u] <= Ln[u]
  BY <1>3 DEF Together
<1>5. c.life = Ln[u] => c.life = L[u]
  BY <1>3, <1>4
<1>6. c.saw <= r.saw /\ r.saw <= Cn[u]
  BY <1>3, <1>4 DEF Carries
<1>7. QED
  BY <1>1, <1>2, <1>5, <1>6 DEF Carries

LEMMA RequestStays ==
  ASSUME NEW R, NEW C \in [Users -> Nat], NEW L \in [Users -> Nat], Epochs(R),
         NEW Rn, NEW Cn \in [Users -> Nat], NEW Ln \in [Users -> Nat], Epochs(Rn),
         Together(R, C, L, Rn, Cn, Ln),
         NEW r \in Requests, NEW U, RequestFine(r, R, C, L, U)
  PROVE  RequestFine(r, Rn, Cn, Ln, U)
<1>1. r.pc \in {"upgrade", "enter"} => Knows(r, Rn, Cn, Ln)
  BY KnowsStays DEF RequestFine
<1>2. r.pc \in {"row", "roles", "granted"} => Carries(r, Rn, Cn, Ln)
  BY CarriesStays DEF RequestFine
<1>3. QED
  BY <1>1, <1>2 DEF RequestFine

LEMMA EpochsOf == TypeOK => Epochs(row)
  BY DEF TypeOK, Epochs, Rows

\* What one step has to show: what is new of sessions and requests is judged
\* by the tables before the step, and the tables move together.
LEMMA StepKeeps ==
  ASSUME SessInv, TypeOK', RowsFine',
         \A t \in Tasks : task'[t] # None /\ task'[t].pc = "upgrade" =>
           task'[t].pw \in accepted'[task'[t].user],
         Together(row, changes, life, row', changes', life'),
         \A s \in Ids : sessions'[s] # None =>
           sessions'[s] = sessions[s] \/ Knows(sessions'[s], row, changes, life),
         \A t \in Tasks : task'[t] # None =>
           task'[t] = task[t] \/ RequestFine(task'[t], row, changes, life, accepted)
  PROVE  SessInv'
<1>1. Epochs(row) /\ Epochs(row')
  <2>1. Epochs(row)
    BY EpochsOf DEF SessInv
  <2>2. Epochs(row')
    BY DEF TypeOK, Epochs, Rows
  <2>3. QED
    BY <2>1, <2>2
<1>2. /\ changes \in [Users -> Nat] /\ life \in [Users -> Nat]
      /\ changes' \in [Users -> Nat] /\ life' \in [Users -> Nat]
  BY DEF SessInv, TypeOK
<1>3. SessionsFine'
  <2>1. ASSUME NEW s \in Ids, sessions'[s] # None
        PROVE  Knows(sessions'[s], row', changes', life')
    <3>1. Knows(sessions'[s], row, changes, life)
      BY <2>1 DEF SessInv, SessionsFine
    <3>2. QED
      BY <1>1, <1>2, <3>1, KnowsStays
  <2>2. QED
    BY <2>1 DEF SessionsFine
<1>4. TasksFine'
  <2>1. ASSUME NEW t \in Tasks, task'[t] # None
        PROVE  RequestFine(task'[t], row', changes', life', accepted')
    <3>1. RequestFine(task'[t], row, changes, life, accepted)
      BY <2>1 DEF SessInv, TasksFine
    <3>2. task'[t] \in Requests
      BY <2>1 DEF TypeOK
    <3>3. RequestFine(task'[t], row', changes', life', accepted)
      BY <1>1, <1>2, <3>1, <3>2, RequestStays
    <3>4. task'[t].pc = "upgrade" => task'[t].pw \in accepted'[task'[t].user]
      BY <2>1
    <3>5. QED
      BY <3>3, <3>4 DEF RequestFine
  <2>2. QED
    BY <2>1 DEF TasksFine
<1>5. QED
  BY <1>3, <1>4 DEF SessInv

-----------------------------------------------------------------------------
(* The statements that change the tables.                                  *)

\* The logins that are about to write a hash write one that may be there.
Pending == \A t \in Tasks : At(t, "upgrade") => task[t].pw \in accepted'[task[t].user]

\* What such a statement has to show.
TableStep ==
  /\ row' \in [Users -> Rows \cup {None}]
  /\ changes' \in [Users -> Nat] /\ life' \in [Users -> Nat]
  /\ given' \in [Users -> Passwords] /\ crossed' \in [Users -> SUBSET Passwords]
  /\ Together(row, changes, life, row', changes', life')
  /\ RowsFine' /\ Pending

LEMMA RowOf ==
  ASSUME TypeOK, NEW u \in Users, Present(u)
  PROVE  /\ row[u] \in Rows /\ row[u].epoch \in Nat /\ row[u].hash \in Passwords
         /\ row[u].weak \in BOOLEAN /\ row[u].enabled \in BOOLEAN
  BY DEF TypeOK, Present, Rows

\* A new password, and the older ones that are about to be written again.
LEMMA GiveSteps ==
  ASSUME SessInv, NEW u \in Users, NEW p \in Passwords, Give(u, p)
  PROVE  /\ given' \in [Users -> Passwords] /\ crossed' \in [Users -> SUBSET Passwords]
         /\ p \in accepted'[u] /\ \A v \in Users \ {u} : accepted'[v] = accepted[v]
         /\ Pending
<1> DEFINE older == {task[t].pw : t \in Upgrading(u)}
<1>1. TypeOK
  BY DEF SessInv
<1>2. ASSUME NEW t \in Tasks, At(t, "upgrade")
      PROVE  /\ task[t].user \in Users /\ task[t].pw \in Passwords
             /\ task[t].pw \in accepted[task[t].user]
  BY <1>2 DEF SessInv, TasksFine, RequestFine, At
<1>3. older \subseteq Passwords
  BY <1>2 DEF Upgrading
<1>4. given' = [given EXCEPT ![u] = p] /\ crossed' = [crossed EXCEPT ![u] = older]
  BY DEF Give
<1>5. \A t \in Tasks : At(t, "upgrade") /\ task[t].user = u => task[t].pw \in older
  BY DEF Upgrading
<1> HIDE DEF older
<1>6. given' \in [Users -> Passwords] /\ crossed' \in [Users -> SUBSET Passwords]
  BY <1>1, <1>3, <1>4 DEF TypeOK
<1>7. /\ given'[u] = p /\ crossed'[u] = older
      /\ \A v \in Users \ {u} : given'[v] = given[v] /\ crossed'[v] = crossed[v]
  BY <1>1, <1>4 DEF TypeOK
<1>8. \A v \in Users : accepted'[v] = {given'[v]} \cup crossed'[v]
  BY DEF accepted
<1>9. \A v \in Users : accepted[v] = {given[v]} \cup crossed[v]
  BY DEF accepted
<1>10. p \in accepted'[u] /\ \A v \in Users \ {u} : accepted'[v] = accepted[v]
  BY <1>7, <1>8, <1>9
<1>11. ASSUME NEW t \in Tasks, At(t, "upgrade") PROVE task[t].pw \in accepted'[task[t].user]
  <2>1. CASE task[t].user = u
    BY <1>5, <1>7, <1>8, <1>11, <2>1
  <2>2. CASE task[t].user # u
    BY <1>2, <1>10, <1>11, <2>2
  <2>3. QED
    BY <2>1, <2>2
<1>12. QED
  BY <1>6, <1>10, <1>11 DEF Pending

\* Where no password is set, nothing is pending that was not before.
LEMMA NothingGiven ==
  ASSUME SessInv, UNCHANGED <<given, crossed>>
  PROVE  /\ given' \in [Users -> Passwords] /\ crossed' \in [Users -> SUBSET Passwords]
         /\ accepted' = accepted /\ Pending
<1>1. accepted' = accepted
  BY DEF accepted
<1>2. Pending
  BY <1>1 DEF SessInv, TasksFine, RequestFine, At, Pending
<1>3. QED
  BY <1>1, <1>2 DEF SessInv, TypeOK

LEMMA AddUserSteps ==
  ASSUME SessInv, NEW u \in Users, NEW p \in Passwords, AddUser(u, p)
  PROVE  TableStep
<1>1. TypeOK
  BY DEF SessInv
<1>2. /\ row[u] = None /\ row' = [row EXCEPT ![u] = Strong(p)]
      /\ life' = [life EXCEPT ![u] = @ + 1] /\ changes' = changes
  BY DEF AddUser, Present
<1>3. Strong(p) \in Rows /\ Strong(p).hash = p /\ Strong(p).weak = FALSE
  BY DEF Strong, Rows
<1>4. /\ row' \in [Users -> Rows \cup {None}] /\ changes' \in [Users -> Nat]
      /\ life' \in [Users -> Nat]
  BY <1>1, <1>2, <1>3 DEF TypeOK
<1>5. ASSUME NEW v \in Users
      PROVE  /\ changes[v] <= changes'[v] /\ life[v] <= life'[v]
             /\ life[v] = life'[v] /\ row'[v] # None =>
                  row[v] # None /\ changes'[v] + row[v].epoch = row'[v].epoch + changes[v]
  <2>1. life[v] \in Nat /\ changes[v] \in Nat
    BY <1>1 DEF TypeOK
  <2>2. CASE v = u
    BY <1>1, <1>2, <2>1, <2>2 DEF TypeOK
  <2>3. CASE v # u
    <3>1. row'[v] = row[v] /\ life'[v] = life[v] /\ changes'[v] = changes[v]
      BY <1>1, <1>2, <2>3 DEF TypeOK
    <3>2. row[v] # None => row[v].epoch \in Nat
      BY <1>1, RowOf DEF Present
    <3>3. QED
      BY <2>1, <3>1, <3>2
  <2>4. QED
    BY <2>2, <2>3
<1>6. /\ given' \in [Users -> Passwords] /\ crossed' \in [Users -> SUBSET Passwords]
      /\ p \in accepted'[u] /\ \A v \in Users \ {u} : accepted'[v] = accepted[v]
      /\ Pending
  BY GiveSteps DEF AddUser
<1>7. RowsFine'
  <2>1. ASSUME NEW v \in Users, row'[v] # None
        PROVE  row'[v].hash \in accepted'[v]
    <3>1. CASE v = u
      BY <1>1, <1>2, <1>3, <1>6, <3>1 DEF TypeOK
    <3>2. CASE v # u
      <4>1. row'[v] = row[v] /\ accepted'[v] = accepted[v]
        BY <1>1, <1>2, <1>6, <3>2 DEF TypeOK
      <4>2. QED
        BY <2>1, <4>1 DEF SessInv, RowsFine, Present
    <3>3. QED
      BY <3>1, <3>2
  <2>2. QED
    BY <1>2, <2>1 DEF RowsFine, Present
<1>8. QED
  BY <1>2, <1>4, <1>5, <1>7, <1>6 DEF TableStep, Together

\* One row that stays present: its epoch and the changes of its user grow
\* by the same n, and its password is one that may be there.
LEMMA RowSteps ==
  ASSUME SessInv, NEW u \in Users, Present(u), NEW r \in Rows, NEW n \in Nat,
         r.epoch = row[u].epoch + n,
         row' = [row EXCEPT ![u] = r], changes' = [changes EXCEPT ![u] = @ + n],
         given' \in [Users -> Passwords], crossed' \in [Users -> SUBSET Passwords],
         r.hash \in accepted'[u], \A v \in Users \ {u} : accepted'[v] = accepted[v],
         Pending, life' = life
  PROVE  TableStep
<1>1. TypeOK
  BY DEF SessInv
<1>2. /\ row' \in [Users -> Rows \cup {None}] /\ changes' \in [Users -> Nat] /\ life' \in [Users -> Nat]
  BY <1>1 DEF TypeOK
<1>3. ASSUME NEW v \in Users
      PROVE  /\ changes[v] <= changes'[v] /\ life[v] <= life'[v]
             /\ life[v] = life'[v] /\ row'[v] # None =>
                  row[v] # None /\ changes'[v] + row[v].epoch = row'[v].epoch + changes[v]
  <2>1. life[v] \in Nat /\ changes[v] \in Nat /\ (row[v] # None => row[v].epoch \in Nat)
    BY <1>1, RowOf DEF TypeOK, Present
  <2>2. CASE v = u
    <3>1. row'[v] = r /\ changes'[v] = changes[v] + n /\ row[v] # None
      BY <1>1, <2>2 DEF TypeOK, Present
    <3>2. r.epoch = row[v].epoch + n
      BY <2>2
    <3>3. QED
      BY <2>1, <3>1, <3>2
  <2>3. CASE v # u
    <3>1. row'[v] = row[v] /\ changes'[v] = changes[v]
      BY <1>1, <2>3 DEF TypeOK
    <3>2. QED
      BY <2>1, <3>1
  <2>4. QED
    BY <2>2, <2>3
<1>4. RowsFine'
  <2>1. ASSUME NEW v \in Users, row'[v] # None
        PROVE  row'[v].hash \in accepted'[v]
    <3>1. CASE v = u
      <4>1. row'[v] = r
        BY <1>1, <3>1 DEF TypeOK
      <4>2. QED
        BY <3>1, <4>1
    <3>2. CASE v # u
      <4>1. row'[v] = row[v] /\ accepted'[v] = accepted[v]
        BY <1>1, <3>2 DEF TypeOK
      <4>2. QED
        BY <2>1, <4>1 DEF SessInv, RowsFine, Present
    <3>3. QED
      BY <3>1, <3>2
  <2>2. QED
    BY <2>1 DEF RowsFine, Present
<1>5. QED
  BY <1>2, <1>3, <1>4 DEF TableStep, Together

LEMMA SetPasswordSteps ==
  ASSUME SessInv, NEW u \in Users, NEW p \in Passwords, SetPassword(u, p)
  PROVE  TableStep
<1> DEFINE r == [hash |-> p, weak |-> FALSE, enabled |-> row[u].enabled, epoch |-> row[u].epoch + 1]
<1>1. TypeOK /\ Present(u)
  BY DEF SessInv, SetPassword
<1>2. row[u] \in Rows
  BY <1>1, RowOf
<1>3. r \in Rows /\ r.epoch = row[u].epoch + 1 /\ r.hash = p /\ r.weak = FALSE
  BY <1>2 DEF Rows
<1>4. row' = [row EXCEPT ![u] = r]
  BY DEF SetPassword
<1> HIDE DEF r
<1>5. changes' = [changes EXCEPT ![u] = @ + 1] /\ life' = life
  BY DEF SetPassword, Changed
<1>6. /\ given' \in [Users -> Passwords] /\ crossed' \in [Users -> SUBSET Passwords]
      /\ p \in accepted'[u] /\ \A v \in Users \ {u} : accepted'[v] = accepted[v]
      /\ Pending
  BY GiveSteps DEF SetPassword
<1>7. QED
  BY <1>1, <1>3, <1>4, <1>5, <1>6, RowSteps

LEMMA DisableUserSteps ==
  ASSUME SessInv, NEW u \in Users, DisableUser(u)
  PROVE  TableStep
<1> DEFINE r == [hash |-> row[u].hash, weak |-> row[u].weak, enabled |-> FALSE, epoch |-> row[u].epoch + 1]
<1>1. TypeOK /\ Present(u)
  BY DEF SessInv, DisableUser
<1>2. row[u] \in Rows
  BY <1>1, RowOf
<1>3. r \in Rows /\ r.epoch = row[u].epoch + 1 /\ r.hash = row[u].hash /\ r.weak = row[u].weak
  BY <1>2 DEF Rows
<1>4. row' = [row EXCEPT ![u] = r]
  BY DEF DisableUser
<1> HIDE DEF r
<1>5. changes' = [changes EXCEPT ![u] = @ + 1] /\ life' = life /\ UNCHANGED <<given, crossed>>
  BY DEF DisableUser, Changed
<1>6. /\ given' \in [Users -> Passwords] /\ crossed' \in [Users -> SUBSET Passwords]
      /\ accepted' = accepted /\ Pending
  BY <1>5, NothingGiven
<1>7. row[u].hash \in accepted'[u]
  BY <1>1, <1>6 DEF SessInv, RowsFine
<1>8. QED
  BY <1>1, <1>3, <1>4, <1>5, <1>6, <1>7, RowSteps

LEMMA ChangeRoleSteps ==
  ASSUME SessInv, NEW u \in Users, NEW R, ChangeRole(u, R)
  PROVE  TableStep
<1> DEFINE r == [row[u] EXCEPT !.epoch = @ + 1]
<1>1. TypeOK /\ Present(u)
  BY DEF SessInv, ChangeRole
<1>2. row[u] \in Rows
  BY <1>1, RowOf
<1>3. r \in Rows /\ r.epoch = row[u].epoch + 1 /\ r.hash = row[u].hash /\ r.weak = row[u].weak
  BY <1>2 DEF Rows
<1>4. row' = [row EXCEPT ![u] = r]
  BY DEF ChangeRole
<1> HIDE DEF r
<1>5. changes' = [changes EXCEPT ![u] = @ + 1] /\ life' = life /\ UNCHANGED <<given, crossed>>
  BY DEF ChangeRole, Changed
<1>6. /\ given' \in [Users -> Passwords] /\ crossed' \in [Users -> SUBSET Passwords]
      /\ accepted' = accepted /\ Pending
  BY <1>5, NothingGiven
<1>7. row[u].hash \in accepted'[u]
  BY <1>1, <1>6 DEF SessInv, RowsFine
<1>8. QED
  BY <1>1, <1>3, <1>4, <1>5, <1>6, <1>7, RowSteps

LEMMA RemoveUserSteps ==
  ASSUME SessInv, NEW u \in Users, RemoveUser(u)
  PROVE  TableStep
<1>1. TypeOK
  BY DEF SessInv
<1>2. /\ row' = [row EXCEPT ![u] = None]
      /\ UNCHANGED <<changes, life, given, crossed>>
  BY DEF RemoveUser
<1>3. row' \in [Users -> Rows \cup {None}] /\ row'[u] = None
      /\ \A v \in Users : v # u => row'[v] = row[v]
  BY <1>1, <1>2 DEF TypeOK
<1>4. Together(row, changes, life, row', changes', life')
  <2>1. ASSUME NEW v \in Users
        PROVE  /\ changes[v] <= changes'[v] /\ life[v] <= life'[v]
               /\ row'[v] # None => row[v] # None /\ changes'[v] + row[v].epoch = row'[v].epoch + changes[v]
    <3>1. changes[v] \in Nat /\ life[v] \in Nat /\ (row[v] # None => row[v].epoch \in Nat)
      BY <1>1, RowOf DEF TypeOK, Present
    <3>2. row'[v] # None => row'[v] = row[v]
      BY <1>3
    <3>3. QED
      BY <1>2, <3>1, <3>2
  <2>2. QED
    BY <2>1 DEF Together
<1>5. /\ given' \in [Users -> Passwords] /\ crossed' \in [Users -> SUBSET Passwords]
      /\ accepted' = accepted /\ Pending
  BY <1>2, NothingGiven
<1>6. RowsFine'
  BY <1>3, <1>5 DEF SessInv, RowsFine, Present
<1>7. QED
  BY <1>1, <1>2, <1>3, <1>4, <1>5, <1>6 DEF TableStep, TypeOK

LEMMA CommandLineKeeps ==
  ASSUME SessInv, CommandLine
  PROVE  SessInv'
<1>1. TableStep
  BY AddUserSteps, SetPasswordSteps, DisableUserSteps, RemoveUserSteps, ChangeRoleSteps
     DEF CommandLine
<1>2. UNCHANGED <<sessions, drawn, task>>
  BY DEF CommandLine
<1>3. TypeOK'
  BY <1>1, <1>2 DEF SessInv, TypeOK, TableStep
<1>4. \A t \in Tasks : task'[t] # None /\ task'[t].pc = "upgrade" =>
        task'[t].pw \in accepted'[task'[t].user]
  BY <1>1, <1>2 DEF TableStep, Pending, At
<1>5. QED
  BY <1>1, <1>2, <1>3, <1>4, StepKeeps DEF TableStep

-----------------------------------------------------------------------------
(* The steps of requests.                                                  *)

LEMMA StillSteps ==
  ASSUME SessInv, UNCHANGED <<row, changes, life, given, crossed>>
  PROVE  TableStep
<1>1. TypeOK
  BY DEF SessInv
<1>2. Together(row, changes, life, row', changes', life')
  <2>1. ASSUME NEW v \in Users
        PROVE  /\ changes[v] <= changes[v] /\ life[v] <= life[v]
               /\ row[v] # None => changes[v] + row[v].epoch = row[v].epoch + changes[v]
    <3>1. changes[v] \in Nat /\ life[v] \in Nat /\ (row[v] # None => row[v].epoch \in Nat)
      BY <1>1, RowOf DEF TypeOK, Present
    <3>2. QED
      BY <3>1
  <2>2. QED
    BY <2>1 DEF Together
<1>3. /\ given' \in [Users -> Passwords] /\ crossed' \in [Users -> SUBSET Passwords]
      /\ accepted' = accepted /\ Pending
  BY NothingGiven
<1>4. RowsFine'
  BY <1>3 DEF SessInv, RowsFine, Present
<1>5. QED
  BY <1>1, <1>2, <1>3, <1>4 DEF TableStep, TypeOK

\* What a request's step has to show.
LEMMA MoveKeeps ==
  ASSUME SessInv, TableStep, NEW t \in Tasks, NEW r \in Requests \cup {None}, Become(t, r),
         r # None => RequestFine(r, row, changes, life, accepted),
         r # None /\ r.pc = "upgrade" => UNCHANGED <<given, crossed>>,
         sessions' \in [Ids -> SessionRecords \cup {None}], drawn' \subseteq Ids,
         \A s \in Ids : sessions'[s] # None =>
           sessions'[s] = sessions[s] \/ Knows(sessions'[s], row, changes, life)
  PROVE  SessInv'
<1>1. TypeOK
  BY DEF SessInv
<1>2. task' \in [Tasks -> Requests \cup {None}] /\ task'[t] = r
      /\ \A q \in Tasks : q # t => task'[q] = task[q]
  BY <1>1 DEF Become, TypeOK
<1>3. TypeOK'
  BY <1>1, <1>2 DEF TypeOK, TableStep
<1>4. \A q \in Tasks : task'[q] # None =>
        task'[q] = task[q] \/ RequestFine(task'[q], row, changes, life, accepted)
  BY <1>2
<1>5. ASSUME NEW q \in Tasks, task'[q] # None, task'[q].pc = "upgrade"
      PROVE  task'[q].pw \in accepted'[task'[q].user]
  <2>1. CASE q = t
    <3>1. accepted' = accepted
      BY <1>2, <1>5, <2>1 DEF accepted
    <3>2. QED
      BY <1>2, <1>5, <2>1, <3>1 DEF RequestFine
  <2>2. CASE q # t
    BY <1>2, <1>5, <2>2 DEF TableStep, Pending, At
  <2>3. QED
    BY <2>1, <2>2
<1>6. QED
  BY <1>3, <1>4, <1>5, StepKeeps DEF TableStep

\* A step that leaves the tables and the sessions alone.
LEMMA QuietMoveKeeps ==
  ASSUME SessInv, NEW t \in Tasks, NEW r \in Requests \cup {None}, Become(t, r),
         r # None => RequestFine(r, row, changes, life, accepted),
         UNCHANGED <<tables, sessions, drawn, history>>
  PROVE  SessInv'
<1>1. UNCHANGED <<row, changes, life, given, crossed, sessions, drawn>>
  BY DEF tables, history
<1>2. TableStep
  BY <1>1, StillSteps
<1>3. sessions' \in [Ids -> SessionRecords \cup {None}] /\ drawn' \subseteq Ids
  BY <1>1 DEF SessInv, TypeOK
<1>4. QED
  BY <1>1, <1>2, <1>3, MoveKeeps

LEMMA AnswerKeeps ==
  ASSUME SessInv, NEW t \in Tasks, Answer(t), UNCHANGED <<tables, sessions, drawn, history>>
  PROVE  SessInv'
  BY QuietMoveKeeps DEF Answer

\* Requests that carry nothing yet.
LEMMA BlankIsRequest == Blank \in Requests
  BY DEF Blank, Requests, Places, Operations

LEMMA IdleIsFine ==
  ASSUME NEW r, r.pc \in {"drop", "sweep", "target"} \/ (r.pc = "lookup" /\ r.id \in Ids)
  PROVE  RequestFine(r, row, changes, life, accepted)
  BY DEF RequestFine

LEMMA NamedIsFine ==
  ASSUME NEW r, r.pc \in {"verify", "change"}, r.user \in Users
  PROVE  RequestFine(r, row, changes, life, accepted)
  BY DEF RequestFine

LEMMA Started ==
  ASSUME NEW op \in Operations, NEW pc \in Places, NEW u \in Users \cup {None}
  PROVE  LET r == [Blank EXCEPT !.pc = pc, !.op = op, !.user = u]
         IN r \in Requests /\ r.pc = pc /\ r.user = u /\ r.op = op
  BY BlankIsRequest DEF Requests

LEMMA LoginStarted ==
  ASSUME NEW u \in Users
  PROVE  LET r == [Blank EXCEPT !.op = "login", !.pc = "verify", !.user = u]
         IN r \in Requests /\ r.pc = "verify" /\ r.user = u
  BY BlankIsRequest DEF Requests, Places, Operations

LEMMA Rejected ==
  ASSUME NEW s \in Ids \cup {None}
  PROVE  LET r == [Blank EXCEPT !.pc = "drop", !.id = s] IN r \in Requests /\ r.pc = "drop"
  BY BlankIsRequest DEF Requests, Places

LEMMA Repeated ==
  ASSUME NEW op \in Operations, NEW s \in Ids \cup {None}
  PROVE  LET r == [Blank EXCEPT !.op = op, !.id = s] IN r \in Requests /\ r.pc = "lookup" /\ r.id = s
<1> DEFINE r == [Blank EXCEPT !.op = op, !.id = s]
<1>1. r \in Requests
  BY BlankIsRequest DEF Requests
<1>2. r.pc = "lookup" /\ r.id = s
  BY DEF Blank
<1>3. QED
  BY <1>1, <1>2

LEMMA BeginKeeps ==
  ASSUME SessInv, NEW t \in Tasks, Begin(t)
  PROVE  SessInv'
<1>1. UNCHANGED <<tables, sessions, drawn, history>>
  BY DEF Begin
<1>2. ASSUME NEW u \in Users, Receive(t, [Blank EXCEPT !.op = "login", !.pc = "verify", !.user = u])
      PROVE  SessInv'
  <2> DEFINE r == [Blank EXCEPT !.op = "login", !.pc = "verify", !.user = u]
  <2>1. r \in Requests /\ r.pc = "verify" /\ r.user = u
    BY LoginStarted
  <2>2. Become(t, r)
    BY <1>2 DEF Receive
  <2> HIDE DEF r
  <2>3. QED
    BY <1>1, <2>1, <2>2, QuietMoveKeeps, NamedIsFine
<1>3. ASSUME NEW op \in Operations, NEW need \in SUBSET KnownCapabilities, NEW again \in BOOLEAN,
             Asks(t, op, need, again)
      PROVE  SessInv'
  <2>1. PICK s \in drawn :
          Receive(t, [Blank EXCEPT !.op = op, !.id = s, !.need = need, !.again = again])
    BY <1>3 DEF Asks
  <2> DEFINE r == [Blank EXCEPT !.op = op, !.id = s, !.need = need, !.again = again]
  <2>2. s \in Ids
    BY DEF SessInv, TypeOK
  <2>3. r \in Requests /\ r.pc = "lookup" /\ r.id = s
    <3>1. r \in Requests
      BY <1>3, <2>2, BlankIsRequest DEF Requests
    <3>2. r.pc = "lookup" /\ r.id = s
      BY DEF Blank
    <3>3. QED
      BY <3>1, <3>2
  <2>4. Become(t, r)
    BY <2>1 DEF Receive
  <2> HIDE DEF r
  <2>5. QED
    BY <1>1, <2>2, <2>3, <2>4, QuietMoveKeeps, IdleIsFine
<1>4. /\ {} \in SUBSET KnownCapabilities /\ {"session.logout"} \in SUBSET KnownCapabilities
      /\ {"password.change"} \in SUBSET KnownCapabilities
      /\ {"security.manage"} \in SUBSET KnownCapabilities
      /\ \A n \in Needs : n \in SUBSET KnownCapabilities
  <2>1. \A n \in Needs : n \in SUBSET KnownCapabilities
    BY SessionConstants
  <2>2. {"session.logout", "password.change", "security.manage"} \subseteq KnownCapabilities
    BY DEF KnownCapabilities, PersistentSecurity
  <2>3. QED
    BY <2>1, <2>2
<1>5. {"serve", "refresh", "logout", "password", "revoke", "revoke_user"} \subseteq Operations
  BY DEF Operations
<1>6. QED
  BY <1>2, <1>3, <1>4, <1>5 DEF Begin

LEMMA LookupKeeps ==
  ASSUME SessInv, NEW t \in Tasks, Lookup(t)
  PROVE  SessInv'
<1> DEFINE found == sessions[task[t].id]
<1>1. TypeOK /\ UNCHANGED <<tables, sessions, drawn, history>>
  BY DEF SessInv, Lookup
<1>2. task[t] \in Requests
  BY <1>1 DEF TypeOK, Lookup, At
<1>3. CASE Answer(t)
  BY <1>1, <1>3, AnswerKeeps
<1>4. CASE found # None /\ Become(t, [task[t] EXCEPT !.pc = "row", !.cred = found, !.saw = changes[found.user]])
  <2> DEFINE r == [task[t] EXCEPT !.pc = "row", !.cred = found, !.saw = changes[found.user]]
  <2> task[t].id \in Ids
    BY <1>2 DEF SessInv, TasksFine, RequestFine, Lookup, At
  <2>1. found \in SessionRecords /\ Knows(found, row, changes, life)
    BY <1>1, <1>4 DEF TypeOK, SessInv, SessionsFine
  <2>2. found.user \in Users /\ changes[found.user] \in Nat /\ found.saw <= changes[found.user]
    BY <1>1, <2>1 DEF Knows, TypeOK
  <2>3. /\ r \in Requests /\ r.pc = "row" /\ r.cred = found /\ r.saw = changes[found.user]
        /\ r.id = task[t].id
    <3>1. r \in Requests
      BY <1>2, <2>1, <2>2 DEF Requests, Places
    <3>2. r.pc = "row" /\ r.cred = found /\ r.saw = changes[found.user] /\ r.id = task[t].id
      BY <1>2 DEF Requests
    <3>3. QED
      BY <3>1, <3>2
  <2>4. Become(t, r)
    BY <1>4
  <2> HIDE DEF r
  <2>5. RequestFine(r, row, changes, life, accepted)
    <3>1. Carries(r, row, changes, life)
      BY <2>1, <2>2, <2>3 DEF Carries
    <3>2. QED
      BY <2>3, <3>1 DEF RequestFine
  <2>6. QED
    BY <1>1, <2>3, <2>4, <2>5, QuietMoveKeeps
<1>5. QED
  BY <1>3, <1>4 DEF Lookup

\* A session that is gone, stale or unreadable is on its way out.
LEMMA RejectKeeps ==
  ASSUME SessInv, NEW t \in Tasks, task[t] \in Requests, Reject(t),
         UNCHANGED <<tables, sessions, drawn, history>>
  PROVE  SessInv'
<1> DEFINE r == [Blank EXCEPT !.pc = "drop", !.id = task[t].id]
<1>1. r \in Requests
  BY BlankIsRequest DEF Requests, Places
<1>2. r.pc = "drop"
  BY DEF Blank
<1>3. Become(t, r)
  BY DEF Reject
<1> HIDE DEF r
<1>4. QED
  BY <1>1, <1>2, <1>3, QuietMoveKeeps, IdleIsFine

\* What a request at one of these places carries.
LEMMA CarriesOf ==
  ASSUME SessInv, NEW t \in Tasks, task[t] # None, task[t].pc \in {"row", "roles", "granted"}
  PROVE  /\ task[t] \in Requests /\ task[t].id \in Ids
         /\ Carries(task[t], row, changes, life)
  BY DEF SessInv, TypeOK, TasksFine, RequestFine

LEMMA ReadRowKeeps ==
  ASSUME SessInv, NEW t \in Tasks, ReadRow(t)
  PROVE  SessInv'
<1> DEFINE c == task[t].cred
<1>1. TypeOK /\ UNCHANGED <<tables, sessions, drawn, history>>
  BY DEF SessInv, ReadRow
<1>2. task[t] \in Requests /\ task[t].id \in Ids /\ Carries(task[t], row, changes, life)
  BY CarriesOf DEF ReadRow, At
<1>3. CASE Reject(t)
  BY <1>1, <1>2, <1>3, RejectKeeps
<1>4. CASE row[c.user] # None /\ Become(t, [task[t] EXCEPT !.pc = "roles", !.epoch = row[c.user].epoch])
  <2> DEFINE e == row[c.user].epoch
  <2> DEFINE r == [task[t] EXCEPT !.pc = "roles", !.epoch = e]
  <2>1. c \in SessionRecords /\ Knows(c, row, changes, life) /\ c.user \in Users
        /\ c.saw <= task[t].saw /\ task[t].saw <= changes[c.user]
    BY <1>2 DEF Carries, Knows
  <2>2. e \in Nat
    BY <1>1, <1>4, <2>1, RowOf DEF Present
  <2>3. r \in Requests /\ r.pc = "roles" /\ r.epoch = e /\ r.cred = c
        /\ r.saw = task[t].saw /\ r.id = task[t].id
    <3>1. r \in Requests
      BY <1>2, <2>2 DEF Requests, Places
    <3>2. r.pc = "roles" /\ r.epoch = e /\ r.cred = c /\ r.saw = task[t].saw /\ r.id = task[t].id
      BY <1>2 DEF Requests
    <3>3. QED
      BY <3>1, <3>2
  <2>4. c.life = life[c.user] /\ e = c.epoch => c.saw = task[t].saw
    <3>1. c.saw \in Nat /\ c.epoch \in Nat /\ task[t].saw \in Nat /\ changes[c.user] \in Nat
      BY <1>1, <1>2, <2>1 DEF Knows, Requests, TypeOK
    <3>2. c.life = life[c.user] => changes[c.user] + c.epoch = e + c.saw
      BY <1>4, <2>1 DEF Knows
    <3>3. QED
      BY <2>1, <2>2, <3>1, <3>2
  <2>5. Become(t, r)
    BY <1>4
  <2> HIDE DEF r
  <2>6. Carries(r, row, changes, life)
    BY <2>1, <2>3, <2>4 DEF Carries
  <2>7. RequestFine(r, row, changes, life, accepted)
    BY <1>2, <2>3, <2>6 DEF RequestFine
  <2>8. QED
    BY <1>1, <2>3, <2>5, <2>7, QuietMoveKeeps
<1>5. QED
  BY <1>3, <1>4 DEF ReadRow

LEMMA ReadRolesKeeps ==
  ASSUME SessInv, NEW t \in Tasks, ReadRoles(t)
  PROVE  SessInv'
<1> DEFINE c == task[t].cred
<1>1. TypeOK /\ UNCHANGED <<tables, sessions, drawn, history>>
  BY DEF SessInv, ReadRoles
<1>2. task[t] \in Requests /\ task[t].id \in Ids /\ Carries(task[t], row, changes, life)
      /\ task[t].pc = "roles"
  BY CarriesOf DEF ReadRoles, At
<1>3. CASE Reject(t)
  BY <1>1, <1>2, <1>3, RejectKeeps
<1>4. CASE Answer(t)
  BY <1>1, <1>4, AnswerKeeps
<1>5. CASE task[t].epoch = c.epoch /\ Become(t, [task[t] EXCEPT !.pc = "granted"])
  <2> DEFINE r == [task[t] EXCEPT !.pc = "granted"]
  <2>1. r \in Requests
    BY <1>2 DEF Requests, Places
  <2>2. r.pc = "granted" /\ r.cred = c /\ r.saw = task[t].saw /\ r.id = task[t].id
    BY <1>2 DEF Requests
  <2>3. Become(t, r)
    BY <1>5
  <2> HIDE DEF r
  <2>4. Carries(r, row, changes, life)
    BY <1>2, <1>5, <2>2 DEF Carries
  <2>5. RequestFine(r, row, changes, life, accepted)
    BY <1>2, <2>2, <2>4 DEF RequestFine
  <2>6. QED
    BY <1>1, <2>1, <2>3, <2>5, QuietMoveKeeps
<1>6. QED
  BY <1>3, <1>4, <1>5 DEF ReadRoles

\* A request may end sessions as it moves.
LEMMA EndingMoveKeeps ==
  ASSUME SessInv, NEW t \in Tasks, NEW r \in Requests \cup {None}, Become(t, r),
         r # None => RequestFine(r, row, changes, life, accepted),
         sessions' \in [Ids -> SessionRecords \cup {None}],
         \A s \in Ids : sessions'[s] = None \/ sessions'[s] = sessions[s],
         UNCHANGED <<tables, drawn, history>>
  PROVE  SessInv'
<1>1. UNCHANGED <<row, changes, life, given, crossed, drawn>>
  BY DEF tables, history
<1>2. TableStep
  BY <1>1, StillSteps
<1>3. drawn' \subseteq Ids
  BY <1>1 DEF SessInv, TypeOK
<1>4. QED
  BY <1>1, <1>2, <1>3, MoveKeeps

LEMMA OneEnds ==
  ASSUME TypeOK, NEW id, sessions' = [sessions EXCEPT ![id] = None]
  PROVE  /\ sessions' \in [Ids -> SessionRecords \cup {None}]
         /\ \A s \in Ids : sessions'[s] = None \/ sessions'[s] = sessions[s]
  BY DEF TypeOK

LEMMA DropKeeps ==
  ASSUME SessInv, NEW t \in Tasks, Drop(t)
  PROVE  SessInv'
<1>1. TypeOK /\ Become(t, None) /\ UNCHANGED <<tables, drawn, history>>
      /\ sessions' = [sessions EXCEPT ![task[t].id] = None]
  BY DEF SessInv, Drop, Answer
<1>2. QED
  BY <1>1, OneEnds, EndingMoveKeeps

\* The handler of a request that was granted goes on.
LEMMA ContinueKeeps ==
  ASSUME SessInv, NEW t \in Tasks, task[t] \in Requests, NEW pc \in Places,
         NEW u \in Users \cup {None}, Continue(t, pc, u),
         pc \in {"sweep", "target"} \/ (pc \in {"verify", "change"} /\ u \in Users),
         UNCHANGED <<tables, drawn, history>>
  PROVE  SessInv'
<1> DEFINE r == [Blank EXCEPT !.pc = pc, !.op = task[t].op, !.user = u]
<1>1. r \in Requests
  BY BlankIsRequest DEF Requests
<1>2. r.pc = pc /\ r.user = u
  BY DEF Blank
<1>3. Become(t, r) /\ UNCHANGED sessions
  BY DEF Continue
<1> HIDE DEF r
<1>4. RequestFine(r, row, changes, life, accepted)
  BY <1>2, IdleIsFine, NamedIsFine
<1>5. QED
  BY <1>1, <1>3, <1>4, QuietMoveKeeps

LEMMA HandleKeeps ==
  ASSUME SessInv, NEW t \in Tasks, Handle(t)
  PROVE  SessInv'
<1> DEFINE u == task[t].cred.user
<1>1. TypeOK /\ UNCHANGED <<tables, drawn, history>>
  BY DEF SessInv, Handle
<1>2. task[t] \in Requests /\ task[t].id \in Ids /\ Carries(task[t], row, changes, life)
  BY CarriesOf DEF Handle, At
<1>3. u \in Users
  BY <1>2 DEF Carries, Knows
<1>4. CASE Become(t, [Blank EXCEPT !.op = task[t].op, !.id = task[t].id]) /\ UNCHANGED sessions
  <2> DEFINE r == [Blank EXCEPT !.op = task[t].op, !.id = task[t].id]
  <2>1. r \in Requests
    BY <1>2, BlankIsRequest DEF Requests
  <2>2. r.pc = "lookup" /\ r.id = task[t].id
    BY DEF Blank
  <2>3. Become(t, r)
    BY <1>4
  <2> HIDE DEF r
  <2>4. QED
    BY <1>1, <1>2, <1>4, <2>1, <2>2, <2>3, IdleIsFine, QuietMoveKeeps
<1>5. CASE Answer(t) /\ UNCHANGED sessions
  BY <1>1, <1>5, AnswerKeeps
<1>6. CASE Answer(t) /\ sessions' = [sessions EXCEPT ![task[t].id] = None]
  BY <1>1, <1>6, OneEnds, EndingMoveKeeps DEF Answer
<1>7. CASE Continue(t, "verify", u) \/ Continue(t, "sweep", u) \/ Continue(t, "target", None)
  <2>1. {"verify", "sweep", "target"} \subseteq Places
    BY DEF Places
  <2>2. QED
    BY <1>1, <1>2, <1>3, <1>7, <2>1, ContinueKeeps
<1>8. QED
  BY <1>4, <1>5, <1>6, <1>7 DEF Handle

\* What follows when a password was verified.
LEMMA VerifiedKeeps ==
  ASSUME SessInv, TableStep, UNCHANGED <<sessions, drawn>>, NEW t \in Tasks, NEW q \in Requests,
         q.user \in Users, q.op = "login" => Knows(q, row, changes, life), Verified(t, q)
  PROVE  SessInv'
<1>1. sessions' \in [Ids -> SessionRecords \cup {None}] /\ drawn' \subseteq Ids
  BY DEF SessInv, TypeOK
<1>2. CASE q.op = "login"
  <2> DEFINE r == [q EXCEPT !.pc = "enter", !.pw = None]
  <2>1. r \in Requests
    BY DEF Requests, Places
  <2>2. r.pc = "enter" /\ r.user = q.user /\ r.epoch = q.epoch /\ r.saw = q.saw /\ r.life = q.life
    BY DEF Requests
  <2>3. Become(t, r)
    BY <1>2 DEF Verified
  <2> HIDE DEF r
  <2>4. Knows(r, row, changes, life)
    BY <1>2, <2>2 DEF Knows
  <2>5. RequestFine(r, row, changes, life, accepted)
    BY <2>2, <2>4 DEF RequestFine
  <2>6. QED
    BY <1>1, <2>1, <2>2, <2>3, <2>5, MoveKeeps
<1>3. CASE q.op # "login"
  <2> DEFINE r == [Blank EXCEPT !.pc = "change", !.op = q.op, !.user = q.user]
  <2>1. r \in Requests
    BY BlankIsRequest DEF Requests, Places
  <2>2. r.pc = "change" /\ r.user = q.user
    BY DEF Blank
  <2>3. Become(t, r)
    BY <1>3 DEF Verified
  <2> HIDE DEF r
  <2>4. QED
    BY <1>1, <2>1, <2>2, <2>3, NamedIsFine, MoveKeeps
<1>4. QED
  BY <1>2, <1>3

LEMMA VerifyKeeps ==
  ASSUME SessInv, NEW t \in Tasks, Verify(t)
  PROVE  SessInv'
<1> DEFINE u == task[t].user
<1> DEFINE read == [task[t] EXCEPT !.epoch = row[u].epoch, !.saw = changes[u], !.life = life[u]]
<1>1. TypeOK /\ UNCHANGED <<tables, sessions, drawn, history>>
  BY DEF SessInv, Verify
<1>2. task[t] \in Requests /\ u \in Users
  BY <1>1 DEF TypeOK, SessInv, TasksFine, RequestFine, Verify, At
<1>3. CASE Answer(t)
  BY <1>1, <1>3, AnswerKeeps
<1>4. ASSUME row[u] # None
      PROVE  /\ read \in Requests /\ read.user = u /\ read.op = task[t].op
             /\ Knows(read, row, changes, life)
  <2>1. row[u].epoch \in Nat /\ changes[u] \in Nat /\ life[u] \in Nat
    BY <1>1, <1>2, <1>4, RowOf DEF Present, TypeOK
  <2>2. read \in Requests
    BY <1>2, <2>1 DEF Requests
  <2>3. /\ read.user = u /\ read.op = task[t].op /\ read.epoch = row[u].epoch
        /\ read.saw = changes[u] /\ read.life = life[u]
    BY <1>2 DEF Requests
  <2> HIDE DEF read
  <2>4. Knows(read, row, changes, life)
    BY <1>2, <2>1, <2>3 DEF Knows
  <2>5. QED
    BY <2>2, <2>3, <2>4
<1>5. ASSUME NEW p \in Passwords, row[u] # None, row[u].hash = p,
             Become(t, [read EXCEPT !.pc = "upgrade", !.pw = p])
      PROVE  SessInv'
  <2> DEFINE r == [read EXCEPT !.pc = "upgrade", !.pw = p]
  <2>1. read \in Requests /\ read.user = u /\ Knows(read, row, changes, life)
    BY <1>4, <1>5
  <2> HIDE DEF read
  <2>2. r \in Requests
    BY <1>5, <2>1 DEF Requests, Places
  <2>3. r.pc = "upgrade" /\ r.pw = p /\ r.user = u /\ r.epoch = read.epoch /\ r.saw = read.saw
        /\ r.life = read.life
    BY <2>1 DEF Requests
  <2>4. Become(t, r)
    BY <1>5
  <2> HIDE DEF r
  <2>5. Knows(r, row, changes, life)
    BY <2>1, <2>3 DEF Knows
  <2>6. p \in accepted[u]
    BY <1>2, <1>5 DEF SessInv, RowsFine, Present
  <2>7. RequestFine(r, row, changes, life, accepted)
    BY <1>2, <1>5, <2>3, <2>5, <2>6 DEF RequestFine
  <2>8. QED
    BY <1>1, <2>2, <2>4, <2>7, QuietMoveKeeps
<1>6. CASE row[u] # None /\ Verified(t, read)
  <2>1. read \in Requests /\ read.user \in Users /\ Knows(read, row, changes, life)
    BY <1>2, <1>4, <1>6
  <2>2. TableStep /\ UNCHANGED <<sessions, drawn>>
    BY <1>1, StillSteps DEF tables, history
  <2> HIDE DEF read
  <2>3. QED
    BY <1>6, <2>1, <2>2, VerifiedKeeps
<1>7. QED
  BY <1>3, <1>5, <1>6 DEF Verify, NeedsUpgrade

LEMMA UpgradeKeeps ==
  ASSUME SessInv, NEW t \in Tasks, Upgrade(t)
  PROVE  SessInv'
<1> DEFINE u == task[t].user
<1>1. TypeOK /\ UNCHANGED <<roles, sessions, drawn, history>> /\ Verified(t, task[t])
  BY DEF SessInv, Upgrade
<1>2. /\ task[t] \in Requests /\ u \in Users
      /\ task[t].pw \in Passwords /\ task[t].pw \in accepted[u]
      /\ Knows(task[t], row, changes, life)
  BY <1>1 DEF TypeOK, SessInv, TasksFine, RequestFine, Upgrade, At
<1>3. UNCHANGED <<changes, life, given, crossed>>
  BY <1>1 DEF history
<1>4. CASE Present(u)
  <2> DEFINE r == [row[u] EXCEPT !.hash = task[t].pw, !.weak = FALSE]
  <2>1. row[u] \in Rows
    BY <1>1, <1>2, <1>4, RowOf
  <2>2. r \in Rows /\ r.epoch = row[u].epoch /\ r.hash = task[t].pw
    BY <1>2, <2>1 DEF Rows
  <2>3. row' = [row EXCEPT ![u] = r]
    BY <1>4 DEF Upgrade
  <2> HIDE DEF r
  <2>4. changes' = [changes EXCEPT ![u] = @ + 0] /\ r.epoch = row[u].epoch + 0
    BY <1>1, <1>2, <1>3, <2>1, <2>2 DEF TypeOK, Rows
  <2>5. /\ given' \in [Users -> Passwords] /\ crossed' \in [Users -> SUBSET Passwords]
        /\ accepted' = accepted /\ Pending
    BY <1>3, NothingGiven
  <2>6. TableStep
    BY <1>2, <1>3, <1>4, <2>2, <2>3, <2>4, <2>5, RowSteps
  <2>7. QED
    BY <1>1, <1>2, <2>6, VerifiedKeeps
<1>5. CASE ~Present(u)
  <2>1. row' = row
    BY <1>5 DEF Upgrade
  <2>2. TableStep
    BY <1>3, <2>1, StillSteps
  <2>3. QED
    BY <1>1, <1>2, <2>2, VerifiedKeeps
<1>6. QED
  BY <1>4, <1>5

LEMMA EnterKeeps ==
  ASSUME SessInv, NEW t \in Tasks, Enter(t)
  PROVE  SessInv'
<1>1. TypeOK /\ UNCHANGED <<row, changes, life, given, crossed>> /\ Become(t, None)
  BY DEF SessInv, Enter, Answer, tables, history
<1>2. PICK s \in Ids \ drawn :
        sessions' = [sessions EXCEPT ![s] = Entered(t)] /\ drawn' = drawn \cup {s}
  BY DEF Enter
<1>3. task[t] \in Requests /\ Knows(task[t], row, changes, life)
  BY <1>1 DEF TypeOK, SessInv, TasksFine, RequestFine, Enter, At
<1>4. Entered(t) \in SessionRecords /\ Knows(Entered(t), row, changes, life)
  BY <1>3 DEF Knows, Entered, SessionRecords
<1>5. /\ sessions' \in [Ids -> SessionRecords \cup {None}] /\ drawn' \subseteq Ids
      /\ \A i \in Ids : sessions'[i] = sessions[i] \/ Knows(sessions'[i], row, changes, life)
  BY <1>1, <1>2, <1>4 DEF TypeOK
<1>6. TableStep
  BY <1>1, StillSteps
<1>7. QED
  BY <1>1, <1>5, <1>6, MoveKeeps

LEMMA ChangePasswordKeeps ==
  ASSUME SessInv, NEW t \in Tasks, ChangePassword(t)
  PROVE  SessInv'
<1> DEFINE u == task[t].user
<1>1. TypeOK /\ drawn' = drawn
  BY DEF SessInv, ChangePassword
<1>2. task[t] \in Requests /\ u \in Users
  BY <1>1 DEF TypeOK, SessInv, TasksFine, RequestFine, ChangePassword, At
<1>3. CASE Present(u)
  <2>1. PICK p \in Passwords : SetPassword(u, p)
    BY <1>3 DEF ChangePassword
  <2>2. TableStep
    BY <1>2, <2>1, SetPasswordSteps
  <2> DEFINE r == [Blank EXCEPT !.pc = "sweep", !.op = task[t].op, !.user = u]
  <2>3. r \in Requests
    BY <1>2, BlankIsRequest DEF Requests, Places
  <2>4. r.pc = "sweep"
    BY DEF Blank
  <2>5. Become(t, r) /\ sessions' = sessions
    BY <1>3 DEF ChangePassword, Continue
  <2> HIDE DEF r
  <2>6. sessions' \in [Ids -> SessionRecords \cup {None}] /\ drawn' \subseteq Ids
    BY <1>1, <2>5 DEF TypeOK
  <2>7. QED
    BY <2>2, <2>3, <2>4, <2>5, <2>6, IdleIsFine, MoveKeeps
<1>4. CASE ~Present(u)
  BY <1>4, <1>1, AnswerKeeps DEF ChangePassword
<1>5. QED
  BY <1>3, <1>4

LEMMA TargetKeeps ==
  ASSUME SessInv, NEW t \in Tasks, Target(t)
  PROVE  SessInv'
<1>1. UNCHANGED <<tables, drawn, history>> /\ task[t] \in Requests
  BY DEF SessInv, TypeOK, Target, At
<1>2. CASE Answer(t) /\ UNCHANGED sessions
  BY <1>1, <1>2, AnswerKeeps
<1>3. ASSUME NEW u \in Users, Continue(t, "sweep", u)
      PROVE  SessInv'
  <2>1. "sweep" \in Places
    BY DEF Places
  <2>2. QED
    BY <1>1, <1>3, <2>1, ContinueKeeps
<1>4. QED
  BY <1>2, <1>3 DEF Target

LEMMA SweepKeeps ==
  ASSUME SessInv, NEW t \in Tasks, Sweep(t)
  PROVE  SessInv'
<1>1. /\ Become(t, None) /\ UNCHANGED <<tables, drawn, history>>
      /\ sessions' = [s \in Ids |-> IF sessions[s] # None /\ sessions[s].user = task[t].user
                                    THEN None ELSE sessions[s]]
  BY DEF Sweep, Answer
<1>2. /\ sessions' \in [Ids -> SessionRecords \cup {None}]
      /\ \A s \in Ids : sessions'[s] = None \/ sessions'[s] = sessions[s]
  BY <1>1 DEF SessInv, TypeOK
<1>3. QED
  BY <1>1, <1>2, EndingMoveKeeps

LEMMA FailKeeps ==
  ASSUME SessInv, NEW t \in Tasks, Fail(t)
  PROVE  SessInv'
<1>1. UNCHANGED <<tables, sessions, drawn, history>>
  BY DEF Fail
<1>2. CASE (At(t, "row") \/ At(t, "roles")) /\ Reject(t)
  <2>1. task[t] \in Requests
    BY <1>2 DEF SessInv, TypeOK, At
  <2>2. QED
    BY <1>1, <1>2, <2>1, RejectKeeps
<1>3. CASE Answer(t)
  BY <1>1, <1>3, AnswerKeeps
<1>4. QED
  BY <1>2, <1>3 DEF Fail

\* Sessions that end without a request, and a server that starts again.
LEMMA EndKeeps ==
  ASSUME SessInv, UNCHANGED <<tables, drawn, history>>,
         sessions' \in [Ids -> SessionRecords \cup {None}],
         \A s \in Ids : sessions'[s] = None \/ sessions'[s] = sessions[s],
         task' \in [Tasks -> Requests \cup {None}],
         \A t \in Tasks : task'[t] = None \/ task'[t] = task[t]
  PROVE  SessInv'
<1>1. UNCHANGED <<row, changes, life, given, crossed, drawn>>
  BY DEF tables, history
<1>2. TableStep
  BY <1>1, StillSteps
<1>3. TypeOK'
  BY <1>1 DEF SessInv, TypeOK
<1>4. \A t \in Tasks : task'[t] # None /\ task'[t].pc = "upgrade" =>
        task'[t].pw \in accepted'[task'[t].user]
  BY <1>2 DEF TableStep, Pending, At
<1>5. QED
  BY <1>2, <1>3, <1>4, StepKeeps DEF TableStep

LEMMA ExpireKeeps ==
  ASSUME SessInv, NEW s \in Ids, Expire(s)
  PROVE  SessInv'
<1>1. TypeOK /\ UNCHANGED <<tables, drawn, task, history>> /\ sessions' = [sessions EXCEPT ![s] = None]
  BY DEF SessInv, Expire
<1>2. task' \in [Tasks -> Requests \cup {None}]
  BY <1>1 DEF TypeOK
<1>3. QED
  BY <1>1, <1>2, OneEnds, EndKeeps

LEMMA RestartKeeps ==
  ASSUME SessInv, Restart
  PROVE  SessInv'
  BY EndKeeps DEF Restart
-----------------------------------------------------------------------------
LEMMA SessStart == SessInit => SessInv
<1> SUFFICES ASSUME SessInit
             PROVE  SessInv
  OBVIOUS
<1>1. /\ sessions = [s \in Ids |-> None] /\ drawn = {} /\ task = [t \in Tasks |-> None]
      /\ changes = [u \in Users |-> 0] /\ life = [u \in Users |-> 1]
      /\ given = [u \in Users |-> row[u].hash] /\ crossed = [u \in Users |-> {}]
  BY DEF SessInit
<1>2. row \in [Users -> Rows]
  <2>1. {[hash |-> p, weak |-> w, enabled |-> TRUE, epoch |-> 1] : p \in Passwords, w \in BOOLEAN}
          \subseteq Rows
    <3>1. \A p \in Passwords, w \in BOOLEAN :
            [hash |-> p, weak |-> w, enabled |-> TRUE, epoch |-> 1] \in Rows
      <4>1. TRUE \in BOOLEAN /\ 1 \in Nat
        OBVIOUS
      <4>2. QED
        BY <4>1 DEF Rows
    <3>2. QED
      BY <3>1
  <2>2. QED
    BY <2>1 DEF SessInit
<1>3. \A u \in Users : row[u].hash \in Passwords /\ row[u].weak \in BOOLEAN
  BY <1>2 DEF Rows
<1>4. TypeOK
  BY <1>1, <1>2, <1>3 DEF TypeOK
<1>5. SessionsFine /\ TasksFine
  BY <1>1 DEF SessionsFine, TasksFine
<1>6. RowsFine
  BY <1>1 DEF RowsFine, accepted
<1>7. QED
  BY <1>4, <1>5, <1>6 DEF SessInv

LEMMA SessStep == SessInv /\ [SessNext]_sessVars => SessInv'
<1> SUFFICES ASSUME SessInv, [SessNext]_sessVars
             PROVE  SessInv'
  OBVIOUS
<1>1. ASSUME NEW t \in Tasks, Step(t)
      PROVE  SessInv'
  BY <1>1, BeginKeeps, LookupKeeps, ReadRowKeeps, ReadRolesKeeps, DropKeeps, HandleKeeps,
     VerifyKeeps, UpgradeKeeps, EnterKeeps, ChangePasswordKeeps, TargetKeeps, SweepKeeps,
     FailKeeps DEF Step
<1>2. CASE UNCHANGED sessVars
  <2>1. /\ UNCHANGED <<tables, drawn, history>> /\ sessions' = sessions /\ task' = task
    BY <1>2 DEF sessVars
  <2>2. sessions' \in [Ids -> SessionRecords \cup {None}] /\ task' \in [Tasks -> Requests \cup {None}]
    BY <2>1 DEF SessInv, TypeOK
  <2>3. QED
    BY <2>1, <2>2, EndKeeps
<1>3. QED
  BY <1>1, <1>2, CommandLineKeeps, ExpireKeeps, RestartKeeps DEF SessNext

(* Within one life of a user, the epoch of its row and the number of its   *)
(* changes advance together, and every session, every login in progress    *)
(* and every request that looked its session up stays behind by what       *)
(* changed since: for users.rs, auth.rs and the handlers of lib.rs.        *)
THEOREM SessInvariance == SessSpec => []SessInv
  BY SessStart, SessStep, PTL DEF SessSpec

(* A request is never granted with a session that signed in before a       *)
(* change of its user that the request comes after, unless the user was    *)
(* removed and added again (current_authorization of auth.rs).             *)
THEOREM ChangeEndsSessionsHolds == SessSpec => []ChangeEndsSessions
<1>1. SessInv => ChangeEndsSessions
  <2> SUFFICES ASSUME SessInv, NEW t \in Tasks, At(t, "granted"),
                      task[t].cred.life = life[task[t].cred.user]
               PROVE  task[t].cred.saw = task[t].saw
    BY DEF ChangeEndsSessions
  <2>1. task[t] # None /\ task[t].pc = "granted"
    BY DEF At
  <2>2. Carries(task[t], row, changes, life)
    BY <2>1, CarriesOf
  <2>3. QED
    BY <2>1, <2>2 DEF Carries
<1>2. QED
  BY <1>1, SessInvariance, PTL

(* The password that was set last stays, but for the logins that had found *)
(* an older one right and were about to write a new hash of it when it was *)
(* set (authenticate_authorization of users.rs).                           *)
THEOREM PasswordSticksHolds == SessSpec => []PasswordSticks
<1>1. SessInv => PasswordSticks
  BY DEF SessInv, RowsFine, PasswordSticks, accepted
<1>2. QED
  BY <1>1, SessInvariance, PTL
-----------------------------------------------------------------------------
(* The guesses at a code.                                                  *)

\* The attempts of the open window that were used.
Used == IF blocked THEN 0 ELSE MaxAttempts - left

\* Every guess belongs to a full window or to the open one.
Counted ==
  /\ guesses = MaxAttempts * windows + Used
  /\ ~blocked => left > 0

\* The open window began after one cooldown for each window before it, and a
\* window in which somebody guessed began before the code ended.
Spaced ==
  /\ windows * Cooldown <= IF blocked THEN until ELSE clock
  /\ windows * Cooldown < PairingTtl + Cooldown
  /\ Used > 0 => windows * Cooldown < PairingTtl

PairInv == PairTypeOK /\ Counted /\ Spaced
-----------------------------------------------------------------------------
LEMMA NextMultiple == \A a, b \in Nat : (a + 1) * b = a * b + b /\ b * (a + 1) = b * a + b /\ a * b \in Nat
  OBVIOUS

LEMMA Monotone == \A a, b, c \in Nat : a <= b => a * c <= b * c
  OBVIOUS

\* What fits into n, fits into it as often as the division says.
LEMMA DivisionCounts ==
  ASSUME NEW w \in Nat, NEW c \in Nat \ {0}, NEW n \in Nat, w * c <= n
  PROVE  w <= n \div c
<1> DEFINE q == n \div c
<1>1. q \in Nat /\ n < (q + 1) * c
  OBVIOUS
<1>2. ASSUME w >= q + 1
      PROVE  FALSE
  <2>1. (q + 1) * c <= w * c
    BY <1>1, <1>2, Monotone
  <2>2. QED
    BY <1>1, <2>1
<1>3. QED
  BY <1>1, <1>2

-----------------------------------------------------------------------------
Flags == code \in BOOLEAN /\ blocked \in BOOLEAN /\ session \in BOOLEAN

Numbers ==
  /\ clock \in Nat /\ left \in 0..MaxAttempts /\ until \in Nat /\ expires \in Nat
  /\ guesses \in Nat /\ windows \in Nat

LEMMA TwoKinds == (PairTypeOK <=> Flags /\ Numbers) /\ (PairTypeOK' <=> Flags' /\ Numbers')
  BY DEF PairTypeOK, Flags, Numbers

LEMMA PairStart == PairInit => PairInv
<1> SUFFICES ASSUME PairInit
             PROVE  PairInv
  OBVIOUS
<1>1. PairTypeOK
  <2>1. Flags
    BY Zenon DEF PairInit, Flags
  <2>2. Numbers
    BY PairingConstants DEF PairInit, Numbers
  <2>3. QED
    BY <2>1, <2>2, TwoKinds
<1>2. MaxAttempts * 0 = 0 /\ 0 * Cooldown = 0
  BY PairingConstants
<1>3. Used = 0
  BY PairingConstants DEF PairInit, Used
<1>4. Counted /\ Spaced
  BY <1>2, <1>3, PairingConstants DEF PairInit, Counted, Spaced
<1>5. QED
  BY <1>1, <1>4 DEF PairInv

\* The steps that neither guess nor end a cooldown.
LEMMA QuietKeeps ==
  ASSUME PairInv, PairTypeOK', clock' >= clock,
         left' = left, blocked' = blocked, until' = until, guesses' = guesses, windows' = windows
  PROVE  PairInv'
<1>1. Used' = Used
  BY DEF Used
<1>2. Counted'
  BY <1>1 DEF PairInv, Counted
<1>3. windows * Cooldown \in Nat
  BY PairingConstants, NextMultiple DEF PairInv, PairTypeOK
<1>4. Spaced'
  BY <1>1, <1>3 DEF PairInv, Spaced, PairTypeOK
<1>5. QED
  BY <1>2, <1>4 DEF PairInv

\* What an attempt that is compared finds.
LEMMA Compared ==
  ASSUME PairInv, CodeLives, ~Cooling
  PROVE  /\ Attempts \in 1..MaxAttempts
         /\ guesses = MaxAttempts * windows + (MaxAttempts - Attempts)
         /\ windows * Cooldown \in Nat /\ windows * Cooldown <= clock /\ clock < PairingTtl
<1>1. windows * Cooldown \in Nat
  BY PairingConstants, NextMultiple DEF PairInv, PairTypeOK
<1>2. CASE blocked
  BY <1>1, <1>2, PairingConstants
     DEF PairInv, PairTypeOK, Counted, Spaced, Used, CodeLives, Cooling, Attempts
<1>3. CASE ~blocked
  BY <1>1, <1>3, PairingConstants
     DEF PairInv, PairTypeOK, Counted, Spaced, Used, CodeLives, Cooling, Attempts
<1>4. QED
  BY <1>2, <1>3 DEF PairInv, PairTypeOK

LEMMA PairRightKeeps ==
  ASSUME PairInv, PairRight
  PROVE  PairInv'
<1>1. /\ Attempts \in 1..MaxAttempts
      /\ guesses = MaxAttempts * windows + (MaxAttempts - Attempts)
      /\ windows * Cooldown \in Nat /\ windows * Cooldown <= clock /\ clock < PairingTtl
  BY Compared DEF PairRight
<1>2. PairTypeOK'
  <2>1. Flags'
    BY Zenon DEF PairRight, Flags
  <2>2. Numbers'
    BY <1>1, TwoKinds, PairingConstants DEF PairInv, PairRight, Numbers
  <2>3. QED
    BY <2>1, <2>2, TwoKinds
<1>3. Used' = MaxAttempts - Attempts
  BY DEF PairRight, Used
<1>4. Counted'
  BY <1>1, <1>3 DEF PairRight, Counted
<1>5. Spaced'
  <2>1. ~blocked' /\ clock' = clock /\ windows' = windows
    BY Zenon DEF PairRight
  <2>2. PairingTtl \in Nat /\ Cooldown \in Nat /\ clock \in Nat
    BY PairingConstants DEF PairInv, PairTypeOK
  <2>3. QED
    BY <1>1, <2>1, <2>2 DEF Spaced
<1>6. QED
  BY <1>2, <1>4, <1>5 DEF PairInv

LEMMA PairWrongKeeps ==
  ASSUME PairInv, PairWrong
  PROVE  PairInv'
<1>1. /\ Attempts \in 1..MaxAttempts
      /\ guesses = MaxAttempts * windows + (MaxAttempts - Attempts)
      /\ windows * Cooldown \in Nat /\ windows * Cooldown <= clock /\ clock < PairingTtl
  BY Compared DEF PairWrong
<1>2. PairTypeOK'
  <2>1. Flags'
    BY Zenon DEF PairWrong, Prune, CodeLives, SessionLives, Flags
  <2>2. Numbers'
    BY <1>1, TwoKinds, PairingConstants DEF PairInv, PairWrong, Numbers
  <2>3. QED
    BY <2>1, <2>2, TwoKinds
<1>3. CASE Attempts = 1
  <2>1. /\ blocked' /\ left' = 0 /\ guesses' = guesses + 1 /\ windows' = windows + 1
        /\ until' = clock + Cooldown
    <3>1. blocked'
      BY <1>3, Zenon DEF PairWrong
    <3>2. QED
      BY <1>3, <3>1 DEF PairWrong
  <2>2. /\ MaxAttempts * (windows + 1) = MaxAttempts * windows + MaxAttempts
        /\ (windows + 1) * Cooldown = windows * Cooldown + Cooldown
    BY PairingConstants, NextMultiple DEF PairInv, PairTypeOK
  <2>3. Used' = 0
    BY <2>1 DEF Used
  <2>4. MaxAttempts * windows \in Nat /\ guesses \in Nat
    BY PairingConstants, NextMultiple DEF PairInv, PairTypeOK
  <2>5. guesses' = MaxAttempts * windows' + Used'
    BY <1>1, <1>3, <2>1, <2>2, <2>3, <2>4, PairingConstants
  <2>6. Counted'
    BY <2>1, <2>5 DEF Counted
  <2>7. windows' * Cooldown <= until' /\ windows' * Cooldown < PairingTtl + Cooldown
    BY <1>1, <2>1, <2>2, PairingConstants DEF PairInv, PairTypeOK
  <2>8. Spaced'
    BY <2>1, <2>3, <2>7 DEF Spaced
  <2>9. QED
    BY <1>2, <2>6, <2>8 DEF PairInv
<1>4. CASE Attempts # 1
  <2>1. /\ ~blocked' /\ left' = Attempts - 1 /\ guesses' = guesses + 1 /\ windows' = windows
        /\ clock' = clock
    <3>1. ~blocked'
      BY <1>4, Zenon DEF PairWrong
    <3>2. QED
      BY <1>4, <3>1 DEF PairWrong
  <2>2. Used' = MaxAttempts - (Attempts - 1)
    BY <2>1 DEF Used
  <2>3. MaxAttempts * windows \in Nat /\ guesses \in Nat
    BY PairingConstants, NextMultiple DEF PairInv, PairTypeOK
  <2>4. guesses' = MaxAttempts * windows' + Used' /\ left' > 0
    BY <1>1, <1>4, <2>1, <2>2, <2>3, PairingConstants
  <2>5. Counted'
    BY <2>1, <2>4 DEF Counted
  <2>6. Spaced'
    BY <1>1, <2>1, PairingConstants DEF Spaced, PairInv, PairTypeOK
  <2>7. QED
    BY <1>2, <2>5, <2>6 DEF PairInv
<1>5. QED
  BY <1>3, <1>4

LEMMA PairStep == PairInv /\ [PairNext]_pairVars => PairInv'
<1> SUFFICES ASSUME PairInv, [PairNext]_pairVars
             PROVE  PairInv'
  OBVIOUS
<1>1. CASE Consult \/ PairRefused
  <2>1. PairTypeOK' /\ clock' >= clock
    <3>1. Flags'
      BY <1>1, TwoKinds, Zenon DEF PairInv, Consult, PairRefused, Prune, CodeLives, SessionLives, Flags
    <3>2. Numbers' /\ clock' >= clock
      BY <1>1, TwoKinds DEF PairInv, Consult, PairRefused, Prune, CodeLives, SessionLives, Numbers
    <3>3. QED
      BY <3>1, <3>2, TwoKinds
  <2>2. QED
    BY <1>1, <2>1, QuietKeeps DEF Consult, PairRefused
<1>2. CASE PairLogout
  <2>1. PairTypeOK' /\ clock' >= clock
    <3>1. Flags'
      BY <1>2, TwoKinds, Zenon DEF PairInv, PairLogout, Flags
    <3>2. Numbers' /\ clock' >= clock
      BY <1>2, TwoKinds DEF PairInv, PairLogout, Numbers
    <3>3. QED
      BY <3>1, <3>2, TwoKinds
  <2>2. QED
    BY <1>2, <2>1, QuietKeeps DEF PairLogout
<1>3. CASE Tick
  <2>1. PairTypeOK' /\ clock' >= clock
    <3>1. Flags'
      BY <1>3, TwoKinds, Zenon DEF PairInv, Tick, Flags
    <3>2. Numbers' /\ clock' >= clock
      BY <1>3, TwoKinds DEF PairInv, Tick, Numbers
    <3>3. QED
      BY <3>1, <3>2, TwoKinds
  <2>2. QED
    BY <1>3, <2>1, QuietKeeps DEF Tick
<1>4. CASE UNCHANGED pairVars
  <2>1. PairTypeOK' /\ clock' >= clock
    <3>1. Flags'
      BY <1>4, TwoKinds, Zenon DEF PairInv, pairVars, Flags
    <3>2. Numbers' /\ clock' >= clock
      BY <1>4, TwoKinds DEF PairInv, pairVars, Numbers
    <3>3. QED
      BY <3>1, <3>2, TwoKinds
  <2>2. QED
    BY <1>4, <2>1, QuietKeeps DEF pairVars
<1>5. QED
  BY <1>1, <1>2, <1>3, <1>4, PairRightKeeps, PairWrongKeeps DEF PairNext

(* Every guess that pair() compares belongs to a window, and each window   *)
(* after the first begins one cooldown after the one before it: for every  *)
(* lifetime, cooldown and number of attempts.                              *)
THEOREM PairInvariance == PairSpec => []PairInv
  BY PairStart, PairStep, PTL DEF PairSpec

LEMMA BoundFollows == PairInv => GuessBound
<1> SUFFICES ASSUME PairInv
             PROVE  GuessBound
  OBVIOUS
<1> DEFINE n == PairingTtl + Cooldown - 1
<1>1. n \in Nat /\ windows \in Nat /\ windows * Cooldown \in Nat
  BY PairingConstants, NextMultiple DEF PairInv, PairTypeOK
<1>2. windows * Cooldown <= n
  BY <1>1, PairingConstants DEF PairInv, Spaced
<1>3. windows <= Windows
  BY <1>1, <1>2, DivisionCounts, PairingConstants DEF Windows
<1>4. Windows \in Nat
  BY <1>1, PairingConstants DEF Windows
<1>5. CASE Used = 0
  <2>1. MaxAttempts * windows <= MaxAttempts * Windows
    BY <1>1, <1>3, <1>4, PairingConstants, Monotone
  <2>2. MaxAttempts * windows \in Nat
    BY <1>1, PairingConstants, NextMultiple
  <2>3. QED
    BY <1>5, <2>1, <2>2 DEF PairInv, Counted, GuessBound
<1>6. CASE Used # 0
  <2>1. Used > 0 /\ Used <= MaxAttempts /\ Used \in Nat
    BY <1>6, PairingConstants DEF Used, PairInv, PairTypeOK
  <2>2. (windows + 1) * Cooldown <= n
    BY <1>1, <2>1, NextMultiple, PairingConstants DEF PairInv, Spaced
  <2>3. windows + 1 <= Windows
    BY <1>1, <2>2, DivisionCounts, PairingConstants DEF Windows
  <2>4. MaxAttempts * (windows + 1) <= MaxAttempts * Windows
    BY <1>1, <1>4, <2>3, PairingConstants, Monotone
  <2>5. MaxAttempts * (windows + 1) = MaxAttempts * windows + MaxAttempts /\ MaxAttempts * windows \in Nat
    BY <1>1, PairingConstants, NextMultiple
  <2>6. guesses = MaxAttempts * windows + Used /\ MaxAttempts \in Nat
    BY PairingConstants DEF PairInv, Counted
  <2>7. MaxAttempts * Windows \in Nat
    BY <1>4, PairingConstants, NextMultiple
  <2>8. MaxAttempts * windows + Used <= MaxAttempts * Windows
    BY <2>1, <2>4, <2>5, <2>6, <2>7
  <2>9. QED
    BY <2>6, <2>8 DEF GuessBound
<1>7. QED
  BY <1>5, <1>6

(* A pairing code is compared with no more than the attempts of the        *)
(* windows that begin in its lifetime, whatever the constants of           *)
(* LocalAuthState are and however attempts, cooldowns and time interleave. *)
THEOREM GuessBoundHolds == PairSpec => []GuessBound
  BY PairInvariance, BoundFollows, PTL
-----------------------------------------------------------------------------
(* The server as a whole: in its mode one of its parts moves, and what was *)
(* proved of each part holds of the server.                                *)
THEOREM ServerIsItsParts == AuthSpec => PairSpec /\ SessSpec
<1>1. AuthInit => PairInit /\ SessInit
  BY DEF AuthInit
<1>2. [AuthNext]_vars => [PairNext]_pairVars /\ [SessNext]_sessVars
  <2> SUFFICES ASSUME [AuthNext]_vars
               PROVE  [PairNext]_pairVars /\ [SessNext]_sessVars
    OBVIOUS
  <2>1. CASE UNCHANGED vars
    <3>1. UNCHANGED pairVars /\ UNCHANGED sessVars
      BY <2>1 DEF vars
    <3> QED
      BY <3>1
  <2>2. CASE PairNext /\ UNCHANGED <<sessVars, tlsVars>>
    BY <2>2
  <2>3. CASE SessNext /\ UNCHANGED <<pairVars, tlsVars>>
    BY <2>3
  <2>4. CASE TlsNext /\ UNCHANGED <<pairVars, sessVars>>
    BY <2>4
  <2> QED
    BY <2>1, <2>2, <2>3, <2>4 DEF AuthNext
<1> QED
  BY <1>1, <1>2, PTL DEF AuthSpec, PairSpec, SessSpec

(* A local editor's code is guessed no more often than the attempts allow, *)
(* and a change of a user of an authenticated server ends its sessions and *)
(* keeps its password, whatever mode the server is started in.             *)
THEOREM ServerHolds == AuthSpec => [](GuessBound /\ ChangeEndsSessions /\ PasswordSticks)
  BY ServerIsItsParts, GuessBoundHolds, ChangeEndsSessionsHolds, PasswordSticksHolds, PTL
-----------------------------------------------------------------------------
(* The table of routes.  What makes a group of contracts fine is kept by   *)
(* the union of groups, so that the table is fine if each group is and the *)
(* names of their paths differ.                                            *)
Methods == {"GET", "POST", "PUT", "DELETE"}

(* What a valid table asks of one contract; and, beyond the table, that the *)
(* greatest session of each mode has what the contract asks of a session:  *)
(* a paired browser, or a user with all roles.                             *)
Fits(access, modes, caps) ==
  /\ modes # {} /\ caps # {} /\ caps \subseteq KnownCapabilities
  /\ (access = "AnonymousRead") = (modes = Modes)
  /\ "ReadOnly" \in modes => access = "AnonymousRead"
  /\ access = "AuthenticationBootstrap" =>
       \/ modes = {"LocalEditor"} /\ "session.pair" \in caps
       \/ modes = Tls /\ "session.login" \in caps
       \/ modes = EditModes /\ "session.recover" \in caps
  /\ access = "SecurityAdministration" =>
       modes = Tls /\ caps \cap (PersistentSecurity \cup {"session.logout"}) # {}
  /\ access = "TokenSpending" => "voyage.spend" \in caps
  /\ access = "CanonicalWrite" => "content.write" \in caps
  /\ access \notin {"AnonymousRead", "AuthenticationBootstrap"} =>
       /\ modes \subseteq EditModes
       /\ "LocalEditor" \in modes => caps \subseteq PairedCapabilities
       /\ caps \subseteq CapabilitiesForRoles(UserRoles)

ContractFine(r) == r.method \in Methods /\ Fits(r.access, r.modes, r.caps)

\* No two of these contracts are for the same requests.
Single(routes) == \A r, s \in routes : r.method = s.method /\ r.path = s.path => r = s

Named(routes, names) == \A r \in routes : r.path[2] \in names

GroupFine(routes, names) ==
  Single(routes) /\ Named(routes, names) /\ \A r \in routes : ContractFine(r)

\* The methods and the names that the contracts of a group are made of.
EntriesFine(entries, names) == \A e \in entries : e[1] \in Methods /\ e[2] \in names

\* What a contract knows of the group it comes from.
LEMMA ContractIs ==
  ASSUME NEW prefix, NEW entries, NEW access, NEW modes, NEW caps,
         NEW r \in Contract(prefix, entries, access, modes, caps)
  PROVE  /\ r.access = access /\ r.modes = modes /\ r.caps = caps
         /\ \E e \in entries : r.method = e[1] /\ r.path = <<prefix, e[2]>>
  BY DEF Contract

\* The contracts of one group differ in their method or their path.
LEMMA ContractGroup ==
  ASSUME NEW prefix, NEW entries, NEW access, NEW modes, NEW caps, NEW names,
         EntriesFine(entries, names), Fits(access, modes, caps)
  PROVE  GroupFine(Contract(prefix, entries, access, modes, caps), names)
<1> DEFINE g == Contract(prefix, entries, access, modes, caps)
<1>1. Single(g)
  BY DEF Contract, Single
<1>2. Named(g, names) /\ \A r \in g : ContractFine(r)
  <2> SUFFICES ASSUME NEW r \in g PROVE r.path[2] \in names /\ ContractFine(r)
    BY DEF Named
  <2>1. /\ r.access = access /\ r.modes = modes /\ r.caps = caps
        /\ \E e \in entries : r.method = e[1] /\ r.path = <<prefix, e[2]>>
    BY ContractIs
  <2> QED
    BY <2>1 DEF EntriesFine, ContractFine
<1> QED
  BY <1>1, <1>2 DEF GroupFine

\* So do the contracts that the macros make for two prefixes.
LEMMA ApiGroup ==
  ASSUME NEW entries, NEW access, NEW modes, NEW caps, NEW names,
         EntriesFine(entries, names), Fits(access, modes, caps)
  PROVE  GroupFine(Api(entries, access, modes, caps), names)
<1> DEFINE A == Contract("/api/v1", entries, access, modes, caps)
           B == Contract("/api/okf", entries, access, modes, caps)
<1>1. GroupFine(A, names) /\ GroupFine(B, names)
  BY ContractGroup
<1>2. ASSUME NEW r \in A, NEW s \in B PROVE r.path # s.path
  <2>1. r.path[1] = "/api/v1"
    BY ContractIs
  <2>2. s.path[1] = "/api/okf"
    BY ContractIs
  <2> QED
    BY <2>1, <2>2
<1> HIDE DEF A, B
<1>3. GroupFine(A \cup B, names)
  BY <1>1, <1>2 DEF GroupFine, Single, Named
<1> QED
  BY <1>3 DEF A, B, Api

\* Groups whose paths have no name in common are fine together.
LEMMA Joined ==
  ASSUME NEW these, NEW those, NEW N, NEW M, GroupFine(these, N), GroupFine(those, M),
         N \cap M = {}
  PROVE  GroupFine(these \cup those, N \cup M)
<1>1. \A r \in these, s \in those : r.path # s.path
  BY DEF GroupFine, Named
<1>2. Single(these \cup those)
  BY <1>1 DEF GroupFine, Single
<1> QED
  BY <1>2 DEF GroupFine, Named

\* The names of the paths of each part of the table; "/health" has two prefixes.
BrowserNames == {"/", "/docs-browser", "/docs-browser/", "/docs-browser/{*path}",
                 "/okf-docs/{mount}/{*path}", "/okf-root/{index}/{*path}"}
ReadNames == {"/documents", "/document", "/graph"}
AccessNames == {"/access/session", "/access/login", "/access/pair", "/access/session/refresh",
                "/access/logout", "/access/password", "/access/sessions/revoke",
                "/access/users", "/access/sessions/revoke-user"}
ConfigNames == {"/config/roots", "/config/roots/{index}"}
RootNames == {"/roots/configuration", "/roots/monitoring", "/roots/{id}/monitoring/check",
              "/roots/{id}/monitoring/pending", "/roots/proposals", "/roots/proposals/{id}",
              "/roots/{id}/monitoring/accept", "/roots/{id}/monitoring/dismiss",
              "/roots/proposals/{id}/registration", "/roots/{id}",
              "/roots/proposals/{id}/initialization/plan",
              "/roots/proposals/{id}/initialization"}
VoyageNames == {"/voyage/status", "/voyage/plan", "/voyage/check", "/voyage/search",
                "/voyage/index", "/voyage/rebuild"}
ReviewNames == {"/suggestions", "/suggestions/generate", "/suggestions/import",
                "/suggestions/{id}/accept", "/suggestions/{id}/deny",
                "/review-sets/{id}/accept-all", "/review-sets/{id}/deny-all", "/edges/apply"}
CompatNames == {"/docs/{*path}", "/crates/scql/docs/knowledge/{*path}",
                "/crates/okf/docs/knowledge/{*path}", "/repo-files/{*path}"}

\* The routes that answer with the browser, in every mode.
LEMMA OpenFine ==
  /\ GroupFine(BrowserRoutes, BrowserNames)
  /\ GroupFine(CompatRoutes, CompatNames)
  /\ GroupFine(Open("/api/v1", {"/health"}) \cup Open("", {"/health"}), {"/health"})
<1>1. Fits("AnonymousRead", Modes, {"content.read"})
  BY DEF Fits, Modes, EditModes, Tls, KnownCapabilities, RootManagement,
         PersistentSecurity, PairedCapabilities, CapabilitiesForRoles, UserRoles
<1>2. ASSUME NEW prefix, NEW names PROVE GroupFine(Open(prefix, names), names)
  <2>1. EntriesFine({<<"GET", p>> : p \in names}, names)
    BY DEF EntriesFine, Methods
  <2> QED
    BY <1>1, <2>1, ContractGroup DEF Open
<1>3. ASSUME NEW prefix, NEW names, NEW r \in Open(prefix, names) PROVE r.path[1] = prefix
  <2> DEFINE E == {<<"GET", p>> : p \in names}
  <2>1. r \in Contract(prefix, E, "AnonymousRead", Modes, {"content.read"})
    BY DEF Open
  <2> HIDE DEF E
  <2> QED
    BY <2>1, ContractIs
<1>4. GroupFine(Open("/api/v1", {"/health"}) \cup Open("", {"/health"}), {"/health"})
  <2> DEFINE A == Open("/api/v1", {"/health"})
             B == Open("", {"/health"})
             N == {"/health"}
  <2>1. GroupFine(A, N) /\ GroupFine(B, N)
    BY <1>2
  <2>2. ASSUME NEW r \in A, NEW s \in B PROVE r.path # s.path
    <3>1. r.path[1] = "/api/v1" /\ s.path[1] = ""
      BY <1>3
    <3> QED
      BY <3>1
  <2> HIDE DEF A, B, N
  <2>3. GroupFine(A \cup B, N)
    BY <2>1, <2>2 DEF GroupFine, Single, Named
  <2> QED
    BY <2>3 DEF A, B, N
<1>5. GroupFine(BrowserRoutes, BrowserNames)
  BY <1>2 DEF BrowserRoutes, BrowserNames
<1>6. GroupFine(CompatRoutes, CompatNames)
  BY <1>2 DEF CompatRoutes, CompatNames
<1> QED
  BY <1>4, <1>5, <1>6

\* The routes that read documents.
LEMMA ReadFine == GroupFine(ReadRoutes, ReadNames)
<1> DEFINE E == {<<"GET", "/documents">>, <<"GET", "/document">>, <<"GET", "/graph">>}
<1>1. EntriesFine(E, ReadNames)
  BY DEF EntriesFine, Methods, ReadNames
<1>2. Fits("AnonymousRead", Modes, {"content.read"})
  BY DEF Fits, Modes, EditModes, Tls, KnownCapabilities, RootManagement,
         PersistentSecurity, PairedCapabilities, CapabilitiesForRoles, UserRoles
<1>3. ReadRoutes = Api(E, "AnonymousRead", Modes, {"content.read"})
  BY DEF ReadRoutes
<1> QED
  BY <1>1, <1>2, <1>3, ApiGroup

\* The routes of sessions and users: a group for each, with one prefix.
LEMMA AccessFine == GroupFine(AccessRoutes, AccessNames)
<1>1. Single(AccessRoutes)
  BY DEF Single, AccessRoutes, Open, V1, Contract
<1>2. Named(AccessRoutes, AccessNames)
  BY DEF Named, AccessRoutes, AccessNames, Open, V1, Contract
<1>3. ASSUME NEW r \in AccessRoutes PROVE ContractFine(r)
  BY DEF ContractFine, Methods, Fits, AccessRoutes, Open, V1, Contract,
         Modes, EditModes, Tls, KnownCapabilities, RootManagement,
         PersistentSecurity, PairedCapabilities, CapabilitiesForRoles, UserRoles
<1> QED
  BY <1>1, <1>2, <1>3 DEF GroupFine

\* The routes of the configuration file: two groups with one name in common, for other methods.
LEMMA ConfigFine == GroupFine(ConfigRoutes, ConfigNames)
<1> DEFINE E == {<<"GET", "/config/roots">>}
           F == {<<"POST", "/config/roots">>, <<"PUT", "/config/roots/{index}">>,
                 <<"DELETE", "/config/roots/{index}">>}
           A == Api(E, "AuthenticatedSensitiveRead", EditModes, {"roots.propose"})
           B == Api(F, "LocalEditorMutation", EditModes, {"roots.configure"})
<1>1. EntriesFine(E, ConfigNames) /\ EntriesFine(F, ConfigNames)
  BY DEF EntriesFine, Methods, ConfigNames
<1>2. /\ Fits("AuthenticatedSensitiveRead", EditModes, {"roots.propose"})
      /\ Fits("LocalEditorMutation", EditModes, {"roots.configure"})
  BY DEF Fits, Modes, EditModes, Tls, KnownCapabilities, RootManagement,
         PersistentSecurity, PairedCapabilities, CapabilitiesForRoles, UserRoles
<1>3. (\A e \in E : e[1] = "GET") /\ \A f \in F : f[1] # "GET"
  OBVIOUS
<1>4. ConfigRoutes = A \cup B
  BY DEF ConfigRoutes
<1> HIDE DEF E, F
<1>5. GroupFine(A, ConfigNames) /\ GroupFine(B, ConfigNames)
  BY <1>1, <1>2, ApiGroup
<1>6. ASSUME NEW r \in A PROVE r.method = "GET"
  BY <1>3, ContractIs DEF Api
<1>7. ASSUME NEW r \in B PROVE r.method # "GET"
  BY <1>3, ContractIs DEF Api
<1> HIDE DEF A, B
<1> QED
  BY <1>4, <1>5, <1>6, <1>7 DEF GroupFine, Single, Named

\* The four groups of the routes for roots.
LEMMA RootFine == GroupFine(RootRoutes, RootNames)
<1> DEFINE EA == {<<"GET", "/roots/configuration">>, <<"GET", "/roots/monitoring">>,
                  <<"POST", "/roots/{id}/monitoring/check">>,
                  <<"GET", "/roots/{id}/monitoring/pending">>, <<"POST", "/roots/proposals">>,
                  <<"GET", "/roots/proposals/{id}">>}
           EB == {<<"POST", "/roots/{id}/monitoring/accept">>,
                  <<"POST", "/roots/{id}/monitoring/dismiss">>,
                  <<"POST", "/roots/proposals/{id}/registration">>, <<"PUT", "/roots/{id}">>,
                  <<"DELETE", "/roots/{id}">>}
           EC == {<<"POST", "/roots/proposals/{id}/initialization/plan">>}
           ED == {<<"POST", "/roots/proposals/{id}/initialization">>}
           NA == {"/roots/configuration", "/roots/monitoring", "/roots/{id}/monitoring/check",
                  "/roots/{id}/monitoring/pending", "/roots/proposals", "/roots/proposals/{id}"}
           NB == {"/roots/{id}/monitoring/accept", "/roots/{id}/monitoring/dismiss",
                  "/roots/proposals/{id}/registration", "/roots/{id}"}
           NC == {"/roots/proposals/{id}/initialization/plan"}
           ND == {"/roots/proposals/{id}/initialization"}
           A == Contract("/api/v1", EA, "AuthenticatedSensitiveRead", EditModes,
                         {"roots.propose"})
           B == Contract("/api/v1", EB, "LocalEditorMutation", EditModes, {"roots.configure"})
           C == Contract("/api/v1", EC, "AuthenticatedSensitiveRead", EditModes,
                         {"content.initialize"})
           D == Contract("/api/v1", ED, "LocalEditorMutation", EditModes, {"content.initialize"})
<1>1. /\ EntriesFine(EA, NA)
      /\ EntriesFine(EB, NB)
      /\ EntriesFine(EC, NC)
      /\ EntriesFine(ED, ND)
  BY DEF EntriesFine, Methods
<1>2. /\ Fits("AuthenticatedSensitiveRead", EditModes, {"roots.propose"})
      /\ Fits("LocalEditorMutation", EditModes, {"roots.configure"})
      /\ Fits("AuthenticatedSensitiveRead", EditModes, {"content.initialize"})
      /\ Fits("LocalEditorMutation", EditModes, {"content.initialize"})
  BY DEF Fits, Modes, EditModes, Tls, KnownCapabilities, RootManagement, PersistentSecurity,
         PairedCapabilities, CapabilitiesForRoles, UserRoles
<1>3. /\ NA \cap NB = {}
      /\ (NA \cup NB) \cap NC = {}
      /\ (NA \cup NB \cup NC) \cap ND = {}
  OBVIOUS
<1>4. RootRoutes = A \cup B \cup C \cup D /\ RootNames = NA \cup NB \cup NC \cup ND
  BY DEF RootRoutes, RootNames, V1
<1> HIDE DEF EA, EB, EC, ED, NA, NB, NC, ND
<1>5. /\ GroupFine(A, NA)
      /\ GroupFine(B, NB)
      /\ GroupFine(C, NC)
      /\ GroupFine(D, ND)
  BY <1>1, <1>2, ApiGroup, ContractGroup
<1> HIDE DEF A, B, C, D
<1>6. GroupFine(A \cup B, NA \cup NB)
  BY <1>3, <1>5, Joined
<1>7. GroupFine(A \cup B \cup C, NA \cup NB \cup NC)
  BY <1>3, <1>5, <1>6, Joined
<1>8. GroupFine(A \cup B \cup C \cup D, NA \cup NB \cup NC \cup ND)
  BY <1>3, <1>5, <1>7, Joined
<1> QED
  BY <1>4, <1>8

\* The four groups of the routes of the working index.
LEMMA VoyageFine == GroupFine(VoyageRoutes, VoyageNames)
<1> DEFINE EA == {<<"GET", "/voyage/status">>, <<"POST", "/voyage/plan">>}
           EB == {<<"POST", "/voyage/check">>, <<"POST", "/voyage/search">>}
           EC == {<<"POST", "/voyage/index">>}
           ED == {<<"POST", "/voyage/rebuild">>}
           NA == {"/voyage/status", "/voyage/plan"}
           NB == {"/voyage/check", "/voyage/search"}
           NC == {"/voyage/index"}
           ND == {"/voyage/rebuild"}
           A == Api(EA, "AnonymousRead", Modes, {"content.read"})
           B == Api(EB, "TokenSpending", EditModes, {"voyage.spend"})
           C == Api(EC, "TokenSpending", EditModes, {"voyage.spend", "derived.rebuild"})
           D == Api(ED, "DerivedStateMutation", EditModes, {"derived.rebuild"})
<1>1. /\ EntriesFine(EA, NA)
      /\ EntriesFine(EB, NB)
      /\ EntriesFine(EC, NC)
      /\ EntriesFine(ED, ND)
  BY DEF EntriesFine, Methods
<1>2. /\ Fits("AnonymousRead", Modes, {"content.read"})
      /\ Fits("TokenSpending", EditModes, {"voyage.spend"})
      /\ Fits("TokenSpending", EditModes, {"voyage.spend", "derived.rebuild"})
      /\ Fits("DerivedStateMutation", EditModes, {"derived.rebuild"})
  BY DEF Fits, Modes, EditModes, Tls, KnownCapabilities, RootManagement, PersistentSecurity,
         PairedCapabilities, CapabilitiesForRoles, UserRoles
<1>3. /\ NA \cap NB = {}
      /\ (NA \cup NB) \cap NC = {}
      /\ (NA \cup NB \cup NC) \cap ND = {}
  OBVIOUS
<1>4. VoyageRoutes = A \cup B \cup C \cup D /\ VoyageNames = NA \cup NB \cup NC \cup ND
  BY DEF VoyageRoutes, VoyageNames
<1> HIDE DEF EA, EB, EC, ED, NA, NB, NC, ND
<1>5. /\ GroupFine(A, NA)
      /\ GroupFine(B, NB)
      /\ GroupFine(C, NC)
      /\ GroupFine(D, ND)
  BY <1>1, <1>2, ApiGroup, ContractGroup
<1> HIDE DEF A, B, C, D
<1>6. GroupFine(A \cup B, NA \cup NB)
  BY <1>3, <1>5, Joined
<1>7. GroupFine(A \cup B \cup C, NA \cup NB \cup NC)
  BY <1>3, <1>5, <1>6, Joined
<1>8. GroupFine(A \cup B \cup C \cup D, NA \cup NB \cup NC \cup ND)
  BY <1>3, <1>5, <1>7, Joined
<1> QED
  BY <1>4, <1>8

\* The three groups of the routes for suggestions.
LEMMA ReviewFine == GroupFine(ReviewRoutes, ReviewNames)
<1> DEFINE EA == {<<"GET", "/suggestions">>}
           EB == {<<"POST", "/suggestions/generate">>, <<"POST", "/suggestions/import">>,
                  <<"POST", "/suggestions/{id}/accept">>, <<"POST", "/suggestions/{id}/deny">>,
                  <<"POST", "/review-sets/{id}/accept-all">>,
                  <<"POST", "/review-sets/{id}/deny-all">>}
           EC == {<<"POST", "/edges/apply">>}
           NA == {"/suggestions"}
           NB == {"/suggestions/generate", "/suggestions/import", "/suggestions/{id}/accept",
                  "/suggestions/{id}/deny", "/review-sets/{id}/accept-all",
                  "/review-sets/{id}/deny-all"}
           NC == {"/edges/apply"}
           A == Api(EA, "AuthenticatedSensitiveRead", EditModes, {"review.decide"})
           B == Api(EB, "DerivedStateMutation", EditModes, {"review.decide"})
           C == Api(EC, "CanonicalWrite", EditModes, {"content.write"})
<1>1. /\ EntriesFine(EA, NA)
      /\ EntriesFine(EB, NB)
      /\ EntriesFine(EC, NC)
  BY DEF EntriesFine, Methods
<1>2. /\ Fits("AuthenticatedSensitiveRead", EditModes, {"review.decide"})
      /\ Fits("DerivedStateMutation", EditModes, {"review.decide"})
      /\ Fits("CanonicalWrite", EditModes, {"content.write"})
  BY DEF Fits, Modes, EditModes, Tls, KnownCapabilities, RootManagement, PersistentSecurity,
         PairedCapabilities, CapabilitiesForRoles, UserRoles
<1>3. /\ NA \cap NB = {}
      /\ (NA \cup NB) \cap NC = {}
  OBVIOUS
<1>4. ReviewRoutes = A \cup B \cup C /\ ReviewNames = NA \cup NB \cup NC
  BY DEF ReviewRoutes, ReviewNames
<1> HIDE DEF EA, EB, EC, NA, NB, NC
<1>5. /\ GroupFine(A, NA)
      /\ GroupFine(B, NB)
      /\ GroupFine(C, NC)
  BY <1>1, <1>2, ApiGroup, ContractGroup
<1> HIDE DEF A, B, C
<1>6. GroupFine(A \cup B, NA \cup NB)
  BY <1>3, <1>5, Joined
<1>7. GroupFine(A \cup B \cup C, NA \cup NB \cup NC)
  BY <1>3, <1>5, <1>6, Joined
<1> QED
  BY <1>4, <1>7

\* The whole table is fine, with and without the routes for compatibility.
LEMMA TableFine == \A compat \in BOOLEAN : \E names : GroupFine(Contracts(compat), names)
<1> DEFINE Health == Open("/api/v1", {"/health"}) \cup Open("", {"/health"})
           N1 == BrowserNames \cup {"/health"}
           N2 == N1 \cup ReadNames
           N3 == N2 \cup AccessNames
           N4 == N3 \cup ConfigNames
           N5 == N4 \cup RootNames
           N6 == N5 \cup VoyageNames
           N7 == N6 \cup ReviewNames
           R1 == BrowserRoutes \cup Health
           R2 == R1 \cup ReadRoutes
           R3 == R2 \cup AccessRoutes
           R4 == R3 \cup ConfigRoutes
           R5 == R4 \cup RootRoutes
           R6 == R5 \cup VoyageRoutes
           R7 == R6 \cup ReviewRoutes
<1>1. /\ BrowserNames \cap {"/health"} = {} /\ N1 \cap ReadNames = {} /\ N2 \cap AccessNames = {}
      /\ N3 \cap ConfigNames = {} /\ N4 \cap RootNames = {} /\ N5 \cap VoyageNames = {}
      /\ N6 \cap ReviewNames = {} /\ N7 \cap CompatNames = {}
  BY DEF BrowserNames, ReadNames, AccessNames, ConfigNames, RootNames, VoyageNames, ReviewNames,
         CompatNames
<1>2. GroupFine(R1, N1)
  BY <1>1, OpenFine, Joined
<1>3. GroupFine(R2, N2)
  BY <1>1, <1>2, ReadFine, Joined
<1>4. GroupFine(R3, N3)
  BY <1>1, <1>3, AccessFine, Joined
<1>5. GroupFine(R4, N4)
  BY <1>1, <1>4, ConfigFine, Joined
<1>6. GroupFine(R5, N5)
  BY <1>1, <1>5, RootFine, Joined
<1>7. GroupFine(R6, N6)
  BY <1>1, <1>6, VoyageFine, Joined
<1>8. GroupFine(R7, N7)
  BY <1>1, <1>7, ReviewFine, Joined
<1>9. GroupFine(R7 \cup CompatRoutes, N7 \cup CompatNames)
  BY <1>1, <1>8, OpenFine, Joined
<1>10. Contracts(TRUE) = R7 \cup CompatRoutes /\ Contracts(FALSE) = R7
  BY DEF Contracts
<1> QED
  BY <1>8, <1>9, <1>10

\* Whatever the command line says, the table is valid: the server has a router.
LEMMA RouterStarts ==
  ASSUME NEW compat \in BOOLEAN
  PROVE  /\ Table[compat] = Contracts(compat) /\ compat \in Startable
         /\ \A r \in Contracts(compat) : ContractFine(r)
<1>1. Table[compat] = Contracts(compat)
  BY DEF Table
<1>2. Single(Contracts(compat)) /\ \A r \in Contracts(compat) : ContractFine(r)
  BY TableFine DEF GroupFine
<1>3. ValidContracts(Contracts(compat))
  BY <1>2 DEF ValidContracts, Single, ContractFine, Methods, Fits
<1> QED
  BY <1>1, <1>2, <1>3 DEF Startable
-----------------------------------------------------------------------------
(* Requests.  A server, a route of it and a request, and what decides.     *)
DeploymentOf(d) ==
  /\ d.mode \in Modes /\ d.proxy \in BOOLEAN /\ d.compat \in BOOLEAN
  /\ d.proxy => d.mode = "AuthenticatedTls"

\* A route of the table that a server has is fine, and the router has it.
LEMMA RoutesAre ==
  ASSUME NEW d, DeploymentOf(d), NEW r \in Table[d.compat], d.mode \in r.modes
  PROVE  r \in Routes(d) /\ Fits(r.access, r.modes, r.caps)
  BY RouterStarts DEF DeploymentOf, Routes, ContractFine

\* The browser of a session passes every check of its headers.
LEMMA BrowserPasses ==
  ASSUME NEW d, DeploymentOf(d)
  PROVE  LET h == BrowserHeaders(d)
         IN  /\ StrictSameOrigin(d, h) /\ h.csrf = "right"
             /\ d.proxy => FromProxy(h, {"own", "none"}) /\ FromProxy(h, {"own"})
  BY DEF DeploymentOf, BrowserHeaders, StrictSameOrigin, FromProxy

\* What is left of the decision for the browser of a session.
LEMMA SessionRuns ==
  ASSUME NEW d, DeploymentOf(d), NEW r, NEW who \in SessionsOf(d),
         r.access \notin {"AnonymousRead", "AuthenticationBootstrap"}
  PROVE  Runs(d, r, who, BrowserHeaders(d)) <=>
           r.caps \subseteq HeldCapabilities(who) /\ r.caps \cap Withdrawn(d) = {}
<1>1. who.kind \in {"paired", "user"} /\ who # Automation
  BY DEF SessionsOf, Paired, User, Automation, DeploymentOf, Modes
<1>2. Authorized(d, r.caps, who, BrowserHeaders(d)) <=>
        r.caps \subseteq HeldCapabilities(who) /\ r.caps \cap Withdrawn(d) = {}
  <2> HIDE DEF BrowserHeaders
  <2> QED
    BY <1>1, BrowserPasses DEF Authorized, Withdrawn, DeploymentOf
<1> QED
  BY <1>2, BrowserPasses DEF Runs

\* The greatest session of an editing mode satisfies every contract that fits.
LEMMA GreatestSession ==
  ASSUME NEW d, DeploymentOf(d), NEW r, Fits(r.access, r.modes, r.caps), d.mode \in r.modes,
         r.access \notin {"AnonymousRead", "AuthenticationBootstrap"}
  PROVE  \E who \in SessionsOf(d) : r.caps \subseteq HeldCapabilities(who)
<1>1. d.mode \in EditModes
  BY DEF Fits
<1>2. CASE d.mode = "LocalEditor"
  <2>1. Paired \in SessionsOf(d) /\ HeldCapabilities(Paired) = PairedCapabilities
    BY <1>2 DEF SessionsOf, Paired, HeldCapabilities
  <2> QED
    BY <1>2, <2>1 DEF Fits
<1>3. CASE d.mode = "AuthenticatedTls"
  <2>1. User(UserRoles) \in SessionsOf(d)
    BY <1>3 DEF SessionsOf
  <2>2. HeldCapabilities(User(UserRoles)) = CapabilitiesForRoles(UserRoles)
    BY DEF User, HeldCapabilities
  <2> QED
    BY <2>1, <2>2 DEF Fits
<1> QED
  BY <1>1, <1>2, <1>3 DEF EditModes

\* What an anonymous read and the start of a session need is in every browser.
LEMMA OpenToBrowsers ==
  ASSUME NEW d, DeploymentOf(d), NEW r, r.access \in {"AnonymousRead", "AuthenticationBootstrap"}
  PROVE  \E who \in SessionsOf(d) \cup {Nobody} : Runs(d, r, who, BrowserHeaders(d))
<1>1. CASE r.access = "AuthenticationBootstrap" \/ ~d.proxy
  <2>1. Runs(d, r, Nobody, BrowserHeaders(d))
    BY <1>1, BrowserPasses DEF Runs, DeploymentOf
  <2> QED
    BY <2>1
<1>2. CASE r.access = "AnonymousRead" /\ d.proxy
  <2> DEFINE who == User(UserRoles)
  <2>1. who \in SessionsOf(d)
    BY <1>2 DEF SessionsOf, DeploymentOf
  <2>2. RemoteRead(who)
    BY DEF User, RemoteRead, HeldCapabilities, CapabilitiesForRoles
  <2> HIDE DEF who
  <2>3. Runs(d, r, who, BrowserHeaders(d))
    BY <1>2, <2>2, BrowserPasses DEF Runs
  <2> QED
    BY <2>1, <2>3
<1> QED
  BY <1>1, <1>2 DEF DeploymentOf

\* What the token can do, an editor who also has the voyage role can do.
LEMMA TokenHeldBack ==
  ASSUME NEW d, DeploymentOf(d), NEW r, Fits(r.access, r.modes, r.caps), d.mode \in r.modes,
         NEW h, Runs(d, r, Automation, h)
  PROVE  \/ Runs(d, r, Nobody, h)
         \/ \E who \in SessionsOf(d) :
              "admin" \notin who.roles /\ Runs(d, r, who, BrowserHeaders(d))
<1>1. CASE r.access \in {"AnonymousRead", "AuthenticationBootstrap"}
  <2>1. ~RemoteRead(Automation)
    BY DEF RemoteRead, Automation
  <2> QED
    BY <1>1, <2>1 DEF Runs
<1>2. CASE r.access \notin {"AnonymousRead", "AuthenticationBootstrap"}
  <2>1. r.caps \cap TokenExcluded = {}
    BY <1>2 DEF Runs, Authorized, Automation
  <2>2. r.caps \cap Withdrawn(d) = {}
    BY <2>1 DEF Withdrawn, TokenExcluded
  <2>3. CASE d.mode = "LocalEditor"
    <3>1. Paired \in SessionsOf(d) /\ "admin" \notin Paired.roles
      BY <2>3 DEF SessionsOf, Paired
    <3>2. r.caps \subseteq HeldCapabilities(Paired)
      BY <1>2, <2>3 DEF Fits, Paired, HeldCapabilities
    <3> QED
      BY <1>2, <2>2, <3>1, <3>2, SessionRuns
  <2>4. CASE d.mode = "AuthenticatedTls"
    <3> DEFINE who == User({"editor", "voyage"})
    <3>1. who \in SessionsOf(d)
      BY <2>4 DEF SessionsOf, UserRoles
    <3>2. "admin" \notin who.roles
      BY DEF User
    <3>3. HeldCapabilities(who) = CapabilitiesForRoles({"editor", "voyage"})
      BY DEF User, HeldCapabilities
    <3>4. CapabilitiesForRoles(UserRoles) \ TokenExcluded
            \subseteq CapabilitiesForRoles({"editor", "voyage"})
      BY DEF CapabilitiesForRoles, UserRoles, TokenExcluded, PersistentSecurity
    <3>5. r.caps \subseteq HeldCapabilities(who)
      BY <1>2, <2>1, <3>3, <3>4 DEF Fits
    <3> QED
      BY <1>2, <2>2, <3>1, <3>2, <3>5, SessionRuns
  <2> QED
    BY <1>2, <2>3, <2>4 DEF Fits, EditModes
<1> QED
  BY <1>1, <1>2

(* What is decided in every state: a request to a server of this mode, for *)
(* a route that it has.                                                    *)
AskedFine ==
  asked # None =>
    /\ DeploymentOf(asked.to) /\ asked.to.mode = mode
    /\ asked.route \in Table[asked.to.compat] /\ asked.to.mode \in asked.route.modes
    /\ asked.who = Automation \/ asked.headers = BrowserHeaders(asked.to)

\* A request is chosen once, and neither it nor the mode changes.
LEMMA AskedStays == AuthSpec => []AskedFine
<1>1. AuthInit => AskedFine
  <2> SUFFICES ASSUME AuthInit, asked # None PROVE AskedFine
    BY DEF AskedFine
  <2>1. /\ asked \in Asked(mode) /\ mode \in asked.route.modes
        /\ asked.route \in Table[asked.to.compat]
    BY DEF AuthInit
  <2>2. /\ asked.to \in Deployments /\ asked.to.mode = mode
        /\ asked.who = Automation \/ asked.headers = BrowserHeaders(asked.to)
    <3> DEFINE D == {e \in Deployments : e.mode = mode}
               T == Table[TRUE]
               W == SessionsOf([mode |-> mode]) \cup {Nobody}
               Browsers == {[to |-> d, route |-> r, who |-> w, headers |-> BrowserHeaders(d)] :
                             d \in D, r \in T, w \in W}
               Tokens == {[to |-> d, route |-> r, who |-> Automation, headers |-> h] :
                           d \in D, r \in T, h \in Headers}
    <3>1. Asked(mode) = Browsers \cup Tokens
      BY DEF Asked
    <3> HIDE DEF D, T, W
    <3>2. CASE asked \in Browsers
      <4>1. PICK d \in D, r \in T, w \in W :
              asked = [to |-> d, route |-> r, who |-> w, headers |-> BrowserHeaders(d)]
        BY <3>2
      <4> QED
        BY <4>1 DEF D
    <3>3. CASE asked \in Tokens
      <4>1. PICK d \in D, r \in T, h \in Headers :
              asked = [to |-> d, route |-> r, who |-> Automation, headers |-> h]
        BY <3>3
      <4> QED
        BY <4>1 DEF D
    <3> HIDE DEF Browsers, Tokens
    <3>4. asked \in Browsers \/ asked \in Tokens
      BY <2>1, <3>1
    <3> QED
      BY <3>2, <3>3, <3>4
  <2>3. DeploymentOf(asked.to)
    BY <2>2 DEF Deployments, DeploymentOf, Tls
  <2> QED
    BY <2>1, <2>2, <2>3 DEF AskedFine
<1>2. AskedFine /\ [AuthNext]_vars => AskedFine'
  <2> SUFFICES ASSUME AskedFine, [AuthNext]_vars PROVE AskedFine'
    OBVIOUS
  <2>1. mode' = mode /\ asked' = asked
    BY DEF AuthNext, vars
  <2> QED
    BY <2>1 DEF AskedFine
<1> QED
  BY <1>1, <1>2, PTL DEF AuthSpec

(* Every route a server is started with can be used from its browser, but  *)
(* for the management of roots behind a proxy: the table of contracts and  *)
(* the capabilities of sessions agree.                                     *)
THEOREM EveryRouteReachable == AuthSpec => []RoutesReachable
<1>1. AskedFine => RoutesReachable
  <2> SUFFICES ASSUME AskedFine, asked # None,
                      asked.route.caps \cap Withdrawn(asked.to) = {}
               PROVE  /\ asked.route \in Routes(asked.to)
                      /\ \E who \in SessionsOf(asked.to) \cup {Nobody} :
                           Runs(asked.to, asked.route, who, BrowserHeaders(asked.to))
    BY DEF RoutesReachable
  <2> DEFINE d == asked.to
             r == asked.route
  <2>1. DeploymentOf(d) /\ r \in Table[d.compat] /\ d.mode \in r.modes
    BY DEF AskedFine
  <2>2. r.caps \cap Withdrawn(d) = {}
    OBVIOUS
  <2> HIDE DEF d, r
  <2>3. r \in Routes(d) /\ Fits(r.access, r.modes, r.caps)
    BY <2>1, RoutesAre
  <2>4. \E who \in SessionsOf(d) \cup {Nobody} : Runs(d, r, who, BrowserHeaders(d))
    BY <2>1, <2>2, <2>3, OpenToBrowsers, GreatestSession, SessionRuns
  <2> QED
    BY <2>3, <2>4 DEF d, r
<1> QED
  BY <1>1, AskedStays, PTL

(* What a server tells a session that it may do is what it lets it do: the *)
(* list shown to a paired browser is the list that is enforced.            *)
THEOREM AdvertisedEnforced == AuthSpec => []AdvertisedIsEnforced
<1>1. AskedFine => AdvertisedIsEnforced
  <2> SUFFICES ASSUME AskedFine, asked # None, asked.who \in SessionsOf(asked.to),
                      asked.route.access \notin {"AnonymousRead", "AuthenticationBootstrap"}
               PROVE  RunsAsked = (/\ asked.route.caps \subseteq Advertised(asked.who)
                                   /\ asked.route.caps \cap Withdrawn(asked.to) = {})
    BY DEF AdvertisedIsEnforced
  <2> DEFINE d == asked.to
             r == asked.route
             w == asked.who
  <2>1. DeploymentOf(d) /\ r \in Table[d.compat] /\ d.mode \in r.modes
    BY DEF AskedFine
  <2>2. w \in SessionsOf(d) /\ r.access \notin {"AnonymousRead", "AuthenticationBootstrap"}
    OBVIOUS
  <2>3. w # Automation
    BY <2>1, <2>2 DEF SessionsOf, Paired, User, Automation, DeploymentOf, Modes
  <2>4. asked.headers = BrowserHeaders(d)
    BY <2>3 DEF AskedFine
  <2>5. Advertised(w) = HeldCapabilities(w)
    BY DEF Advertised, HeldCapabilities, PairedCapabilities, PairedBrowserCapabilities
  <2>6. RunsAsked <=> r \in Routes(d) /\ Runs(d, r, w, BrowserHeaders(d))
    BY <2>4 DEF RunsAsked
  <2>7. RunsAsked \in BOOLEAN
    BY DEF RunsAsked, Runs, Routes
  <2> HIDE DEF d, r, w
  <2>8. RunsAsked <=> r.caps \subseteq Advertised(w) /\ r.caps \cap Withdrawn(d) = {}
    BY <2>1, <2>2, <2>5, <2>6, RoutesAre, SessionRuns
  <2> QED
    BY <2>7, <2>8 DEF d, r, w
<1> QED
  BY <1>1, AskedStays, PTL

(* The token of an automation, held back by exclusion only, runs nothing,  *)
(* with any headers, that nobody or a session without the role of an       *)
(* administrator could not run.                                            *)
THEOREM TokenNoStronger == AuthSpec => []TokenIsNoStronger
<1>1. AskedFine => TokenIsNoStronger
  <2> SUFFICES ASSUME AskedFine, asked # None, asked.who = Automation, RunsAsked
               PROVE  TokenIsNoStronger
    BY DEF TokenIsNoStronger
  <2> DEFINE d == asked.to
             r == asked.route
             h == asked.headers
  <2>1. DeploymentOf(d) /\ r \in Table[d.compat] /\ d.mode \in r.modes
    BY DEF AskedFine
  <2>2. Runs(d, r, Automation, h)
    BY DEF RunsAsked
  <2> HIDE DEF d, r, h
  <2>3. \/ Runs(d, r, Nobody, h)
        \/ \E who \in SessionsOf(d) :
             "admin" \notin who.roles /\ Runs(d, r, who, BrowserHeaders(d))
    BY <2>1, <2>2, RoutesAre, TokenHeldBack
  <2> QED
    BY <2>3 DEF d, r, h, TokenIsNoStronger
<1> QED
  BY <1>1, AskedStays, PTL
=============================================================================

------------------------------ MODULE Sessions -------------------------------
(***************************************************************************)
(* Users and their sessions in an authenticated server: the user database  *)
(* (crates/okf-http/src/users.rs), the sessions in memory (auth.rs) and    *)
(* the handlers that sign in and out and change passwords (lib.rs).        *)
(*                                                                         *)
(* A statement of the database and a critical section of the sessions is a *)
(* step; between two steps of a request, other requests and the command    *)
(* line ("okf-http user ...", a process of its own) take theirs.           *)
(***************************************************************************)
EXTENDS Naturals, Authorization

CONSTANTS
  Users, Passwords,
  Grantable,    \* the roles the command line grants
  Needs,        \* what the routes that are asked for require
  Tasks,        \* the requests in progress
  Ids,          \* the identifiers of sessions, each drawn once
  MaxChanges,   \* the bound of the command line's changes
  None

ASSUME SessionConstants ==
  /\ Grantable \subseteq UserRoles /\ Needs \subseteq SUBSET KnownCapabilities
  /\ MaxChanges \in Nat
  /\ None \notin [hash : Passwords, weak : BOOLEAN, enabled : BOOLEAN, epoch : Nat]
  /\ None \notin Users

VARIABLES
  row,       \* the table users
  roles,     \* the table user_roles
  sessions,  \* the sessions of the server
  drawn,     \* the identifiers in use so far
  task,      \* the requests
  \* history
  changes,   \* per user: changes of its password, its roles or enabled
  life,      \* per user: how often it was added
  given,     \* per user: the last password that was set
  crossed,   \* per user: what logins were to write again when that was set
  edits      \* changes of the command line so far

tables == <<row, roles>>
history == <<changes, life, given, crossed, edits>>
sessVars == <<tables, sessions, drawn, task, history>>

Rows == [hash : Passwords, weak : BOOLEAN, enabled : BOOLEAN, epoch : Nat]
SessionRecords == [user : Users, epoch : Nat, saw : Nat, life : Nat]

Places == {"verify", "upgrade", "enter", "lookup", "row", "roles", "drop", "granted",
           "change", "sweep", "target"}
Operations == {"login", "serve", "refresh", "logout", "password", "revoke", "revoke_user"}

(* A request: where it is; what it asks for; whether the handler will look *)
(* at the session again; the session it found, what it knows of the user,  *)
(* and the changes of that user when it came in (history).                 *)
Requests ==
  [pc : Places, op : Operations, id : Ids \cup {None},
   need : SUBSET KnownCapabilities, again : BOOLEAN,
   user : Users \cup {None}, pw : Passwords \cup {None},
   cred : SessionRecords \cup {None}, epoch : Nat, saw : Nat, life : Nat]

Blank == [pc |-> "lookup", op |-> "refresh", id |-> None, need |-> {}, again |-> FALSE,
          user |-> None, pw |-> None,
          cred |-> None, epoch |-> 0, saw |-> 0, life |-> 0]

SessInit ==
  /\ row \in [Users -> {[hash |-> p, weak |-> w, enabled |-> TRUE, epoch |-> 1] :
                           p \in Passwords, w \in BOOLEAN}]
  /\ roles = [u \in Users |-> {}]
  /\ sessions = [s \in Ids |-> None] /\ drawn = {}
  /\ task = [t \in Tasks |-> None]
  /\ changes = [u \in Users |-> 0] /\ life = [u \in Users |-> 1]
  /\ given = [u \in Users |-> row[u].hash]
  /\ crossed = [u \in Users |-> {}]
  /\ edits = 0
-----------------------------------------------------------------------------
(* The statements that change the user database, each one transaction.     *)
Present(u) == row[u] # None

(* The last password of u is p.  The logins that have found an older one   *)
(* right, and will write a new hash of it, do not know.                    *)
At(t, l) == task[t] # None /\ task[t].pc = l
Upgrading(u) == {t \in Tasks : At(t, "upgrade") /\ task[t].user = u}
Give(u, p) ==
  /\ given' = [given EXCEPT ![u] = p]
  /\ crossed' = [crossed EXCEPT ![u] = {task[t].pw : t \in Upgrading(u)}]

Strong(p) == [hash |-> p, weak |-> FALSE, enabled |-> TRUE, epoch |-> 1]

Changed(u) == changes' = [changes EXCEPT ![u] = @ + 1]

AddUser(u, p) ==
  /\ ~Present(u)
  /\ row' = [row EXCEPT ![u] = Strong(p)]
  /\ life' = [life EXCEPT ![u] = @ + 1]
  /\ Give(u, p)
  /\ UNCHANGED <<roles, changes>>

SetPassword(u, p) ==
  /\ Present(u)
  /\ row' = [row EXCEPT ![u] =
             [hash |-> p, weak |-> FALSE, enabled |-> @.enabled, epoch |-> @.epoch + 1]]
  /\ Changed(u)
  /\ Give(u, p)
  /\ UNCHANGED <<roles, life>>

DisableUser(u) ==
  /\ Present(u)
  /\ row' = [row EXCEPT ![u] =
             [hash |-> @.hash, weak |-> @.weak, enabled |-> FALSE, epoch |-> @.epoch + 1]]
  /\ Changed(u)
  /\ UNCHANGED <<roles, life, given, crossed>>

\* The roles of a user go with the row (ON DELETE CASCADE).
RemoveUser(u) ==
  /\ Present(u)
  /\ row' = [row EXCEPT ![u] = None]
  /\ roles' = [roles EXCEPT ![u] = {}]
  /\ UNCHANGED <<changes, life, given, crossed>>

\* A mutant: a change of roles leaves the authorization epoch.
ChangeRoleQuietly(u, R) ==
  /\ Present(u)
  /\ roles' = [roles EXCEPT ![u] = R]
  /\ Changed(u)
  /\ UNCHANGED <<row, life, given, crossed>>

ChangeRole(u, R) ==
  /\ Present(u)
  /\ roles' = [roles EXCEPT ![u] = R]
  /\ row' = [row EXCEPT ![u].epoch = @ + 1]
  /\ Changed(u)
  /\ UNCHANGED <<life, given, crossed>>

CommandLine ==
  /\ edits < MaxChanges /\ edits' = edits + 1
  /\ \E u \in Users :
       \/ \E p \in Passwords : AddUser(u, p) \/ SetPassword(u, p)
       \/ DisableUser(u) \/ RemoveUser(u)
       \/ \E r \in Grantable : ChangeRole(u, roles[u] \cup {r}) \/ ChangeRole(u, roles[u] \ {r})
  /\ UNCHANGED <<sessions, drawn, task>>
-----------------------------------------------------------------------------
(* Requests.                                                               *)
Become(t, r) == task' = [task EXCEPT ![t] = r]
Answer(t) == Become(t, None)
Reject(t) == Become(t, [Blank EXCEPT !.pc = "drop", !.id = task[t].id])

Receive(t, r) == task[t] = None /\ Become(t, r)

\* A request with a session; what else it sends is chosen where it is used.
Asks(t, op, need, again) ==
  \E s \in drawn :
    Receive(t, [Blank EXCEPT !.op = op, !.id = s, !.need = need, !.again = again])

Begin(t) ==
  /\ \/ \E u \in Users :
          Receive(t, [Blank EXCEPT !.op = "login", !.pc = "verify", !.user = u])
     \/ \E n \in Needs : Asks(t, "serve", n, FALSE)
     \/ Asks(t, "refresh", {}, FALSE)
     \/ Asks(t, "logout", {"session.logout"}, TRUE)
     \/ Asks(t, "password", {"password.change"}, TRUE)
     \/ Asks(t, "revoke", {"session.logout"}, TRUE)
     \/ Asks(t, "revoke_user", {"security.manage"}, FALSE)
  /\ UNCHANGED <<tables, sessions, drawn, history>>

\* PersistentAuthState::status, under the lock of the sessions ...
Lookup(t) ==
  /\ At(t, "lookup")
  /\ LET found == sessions[task[t].id] IN
     IF found = None THEN Answer(t)
     ELSE Become(t, [task[t] EXCEPT !.pc = "row", !.cred = found, !.saw = changes[found.user]])
  /\ UNCHANGED <<tables, sessions, drawn, history>>

\* ... current_authorization: one statement for the row and one for the roles ...
ReadRow(t) ==
  /\ At(t, "row")
  /\ LET r == row[task[t].cred.user] IN
     IF r # None /\ r.enabled
     THEN Become(t, [task[t] EXCEPT !.pc = "roles", !.epoch = r.epoch])
     ELSE Reject(t)
  /\ UNCHANGED <<tables, sessions, drawn, history>>

ReadRoles(t) ==
  /\ At(t, "roles")
  /\ IF task[t].epoch # task[t].cred.epoch THEN Reject(t)
     ELSE IF task[t].need \subseteq CapabilitiesForRoles(roles[task[t].cred.user])
     THEN Become(t, [task[t] EXCEPT !.pc = "granted"]) ELSE Answer(t)
  /\ UNCHANGED <<tables, sessions, drawn, history>>

\* ... and the session of an authorization that is gone, stale or unreadable ends.
Drop(t) ==
  /\ At(t, "drop")
  /\ sessions' = [sessions EXCEPT ![task[t].id] = None]
  /\ Answer(t)
  /\ UNCHANGED <<tables, drawn, history>>

(* The handler runs.  Some look the session up again before they act.      *)
Continue(t, pc, u) ==
  /\ Become(t, [Blank EXCEPT !.pc = pc, !.op = task[t].op, !.user = u])
  /\ UNCHANGED sessions

Handle(t) ==
  /\ At(t, "granted")
  /\ LET op == task[t].op  u == task[t].cred.user IN
     \/ /\ task[t].again
        /\ Become(t, [Blank EXCEPT !.op = op, !.id = task[t].id])
        /\ UNCHANGED sessions
     \/ /\ ~task[t].again
        /\ \/ op \in {"serve", "refresh"} /\ Answer(t) /\ UNCHANGED sessions
           \/ /\ op = "logout" /\ Answer(t)
              /\ sessions' = [sessions EXCEPT ![task[t].id] = None]
           \/ op = "password" /\ Continue(t, "verify", u)
           \/ op = "revoke" /\ Continue(t, "sweep", u)
           \/ op = "revoke_user" /\ Continue(t, "target", None)
  /\ UNCHANGED <<tables, drawn, history>>

\* authenticate_authorization; what was read of the row is what a login enters.
Verified(t, r) ==
  Become(t, IF r.op = "login" THEN [r EXCEPT !.pc = "enter", !.pw = None]
            ELSE [Blank EXCEPT !.pc = "change", !.op = r.op, !.user = r.user])

NeedsUpgrade(r) == r.weak

\* A mutant: a hash of older parameters is replaced before it is compared.
VerifyLate(t) ==
  /\ At(t, "verify")
  /\ LET u == task[t].user  r == row[u] IN
     \E p \in Passwords :
       IF r # None /\ (r.hash = p \/ NeedsUpgrade(r)) /\ r.enabled
       THEN LET read == [task[t] EXCEPT !.epoch = r.epoch, !.saw = changes[u], !.life = life[u]]
            IN IF NeedsUpgrade(r)
               THEN Become(t, [read EXCEPT !.pc = "upgrade", !.pw = p])
               ELSE Verified(t, read)
       ELSE Answer(t)
  /\ UNCHANGED <<tables, sessions, drawn, history>>

Verify(t) ==
  /\ At(t, "verify")
  /\ LET u == task[t].user  r == row[u] IN
     \E p \in Passwords :
       IF r # None /\ r.hash = p /\ r.enabled
       THEN LET read == [task[t] EXCEPT !.epoch = r.epoch, !.saw = changes[u], !.life = life[u]]
            IN IF NeedsUpgrade(r)
               THEN Become(t, [read EXCEPT !.pc = "upgrade", !.pw = p])
               ELSE Verified(t, read)
       ELSE Answer(t)
  /\ UNCHANGED <<tables, sessions, drawn, history>>

\* The hash of the password that was right is written, whatever is there by now.
Upgrade(t) ==
  /\ At(t, "upgrade")
  /\ row' = IF Present(task[t].user)
            THEN [row EXCEPT ![task[t].user] = [@ EXCEPT !.hash = task[t].pw, !.weak = FALSE]]
            ELSE row
  /\ Verified(t, task[t])
  /\ UNCHANGED <<roles, sessions, drawn, history>>

Entered(t) == [user |-> task[t].user, epoch |-> task[t].epoch,
               saw |-> task[t].saw, life |-> task[t].life]

Enter(t) ==
  /\ At(t, "enter")
  /\ \E s \in Ids \ drawn :
       sessions' = [sessions EXCEPT ![s] = Entered(t)] /\ drawn' = drawn \cup {s}
  /\ Answer(t)
  /\ UNCHANGED <<tables, history>>

ChangePassword(t) ==
  /\ At(t, "change")
  /\ IF Present(task[t].user)
     THEN /\ edits < MaxChanges /\ edits' = edits + 1
          /\ \E p \in Passwords : SetPassword(task[t].user, p)
          /\ Continue(t, "sweep", task[t].user)
     ELSE Answer(t) /\ UNCHANGED <<tables, sessions, history>>
  /\ UNCHANGED drawn

\* api_sessions_revoke_user answers when the user it names is gone or disabled.
Target(t) ==
  /\ At(t, "target")
  /\ \E u \in Users :
       IF Present(u) /\ row[u].enabled THEN Continue(t, "sweep", u)
       ELSE Answer(t) /\ UNCHANGED sessions
  /\ UNCHANGED <<tables, drawn, history>>

\* revoke_user.
Sweep(t) ==
  /\ At(t, "sweep")
  /\ sessions' = [s \in Ids |-> IF sessions[s] # None /\ sessions[s].user = task[t].user
                                THEN None ELSE sessions[s]]
  /\ Answer(t)
  /\ UNCHANGED <<tables, drawn, history>>

(* A statement of the database fails, or there is no randomness.           *)
Fail(t) ==
  /\ \/ (At(t, "row") \/ At(t, "roles")) /\ Reject(t)
     \/ \E l \in {"verify", "upgrade", "enter", "change", "target"} : At(t, l) /\ Answer(t)
  /\ UNCHANGED <<tables, sessions, drawn, history>>

Expire(s) ==
  /\ sessions[s] # None /\ sessions' = [sessions EXCEPT ![s] = None]
  /\ UNCHANGED <<tables, drawn, task, history>>

\* Sessions and requests live in memory, users in a file.
Restart ==
  /\ sessions' = [s \in Ids |-> None] /\ task' = [t \in Tasks |-> None]
  /\ UNCHANGED <<tables, drawn, history>>

Step(t) ==
  \/ Begin(t) \/ Lookup(t) \/ ReadRow(t) \/ ReadRoles(t) \/ Drop(t) \/ Handle(t)
  \/ Verify(t) \/ Upgrade(t) \/ Enter(t) \/ ChangePassword(t) \/ Target(t) \/ Sweep(t)
  \/ Fail(t)

SessNext ==
  \/ \E t \in Tasks : Step(t)
  \/ CommandLine \/ (\E s \in Ids : Expire(s)) \/ Restart

SessSpec == SessInit /\ [][SessNext]_sessVars
-----------------------------------------------------------------------------
(* A change of a user's password, roles or enabled state ends its          *)
(* sessions: a request that comes in after the change, with a session that *)
(* signed in before, is never granted - however the login, the change and  *)
(* the checks of the request interleave, and though nobody but the process *)
(* that made the change knows of it - unless the user was removed and      *)
(* added again, which starts the epochs at 1 once more.                    *)
ChangeEndsSessions ==
  \A t \in Tasks :
    At(t, "granted") /\ task[t].cred.life = life[task[t].cred.user] =>
      task[t].cred.saw = task[t].saw

(* The password that was set last is the password.  Only a login that had  *)
(* found an older one right, and was about to write a new hash of it, at   *)
(* the moment of the change can bring that one back: no request that comes *)
(* in later, no restart and no removal of the user in between.             *)
PasswordSticks ==
  \A u \in Users : Present(u) => row[u].hash \in {given[u]} \cup crossed[u]
=============================================================================

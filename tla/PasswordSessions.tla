-------------------------- MODULE PasswordSessions --------------------------
(***************************************************************************)
(* The password and the refresh sessions of one verified account, under    *)
(* concurrent requests: login, refresh, logout, reset_password and         *)
(* change_password (app/auth/service.py) and delete_account                *)
(* (app/users/service.py).                                                 *)
(*                                                                         *)
(* Each request is one transaction of PostgreSQL at READ COMMITTED.  An    *)
(* action is one statement of it, or the commit: a statement sees what is  *)
(* committed when it starts, takes its row locks (waiting while another    *)
(* request holds a conflicting one, then looking at the row again), and    *)
(* what it writes appears at the commit.  Reads without FOR UPDATE take no *)
(* lock.  The locks on the user row have PostgreSQL's strengths: inserting *)
(* a session shares the key, updating the password does not conflict with  *)
(* that, deleting the user conflicts with everything.                      *)
(*                                                                         *)
(* hash_password and the tokens are abstract values.  Expiry of a token is *)
(* a rejection that may always happen.  Issuing reset tokens and           *)
(* confirming an email are not part of this module.                        *)
(***************************************************************************)
EXTENDS Naturals, FiniteSets

CONSTANTS
    Request,    \* requests; each is served once
    Password,
    First,      \* the session that exists at the start
    NULL

ASSUME RequestAssumption == First \notin Request

Session == Request \union {First}   \* a login's session is named for the login

UserRow == [password : Password, setBy : Session]
SessionRow == [version : Nat, revoked : BOOLEAN, auth : Session]

ASSUME NullAssumption ==
    /\ NULL \notin Session \union UserRow \union SessionRow
    /\ NULL \notin [owner : Session, exchanges : Nat, open : BOOLEAN]

VARIABLES
    user,        \* the row: [password, setBy], or NULL once deleted
    resetToken,  \* whether the account's password_reset_tokens row exists
    sessions,    \* [Session -> row [version, revoked, auth] or NULL]
    userLock,    \* [Request -> lock strength held on the user row]
    tokenLock,   \* the request that holds the reset token's row lock
    sessionLock, \* [Session -> request that holds the row lock]
    op,          \* [Request -> operation or NULL]
    pc,
    given,       \* the password or refresh token the request came with
    wanted,      \* the new password it asks for
    seen,        \* setBy of the password it was authenticated against
    scan,        \* sessions its UPDATE or cascade has still to lock
    found,       \* history: the sessions its UPDATE or cascade found
    issued       \* refresh tokens answered to clients

rows == <<user, resetToken, sessions>>
locks == <<userLock, tokenLock, sessionLock>>
inputs == <<op, given, wanted>>
vars == <<rows, locks, inputs, pc, seen, scan, found, issued>>

-----------------------------------------------------------------------------
Active(s) == sessions[s] # NULL /\ ~sessions[s].revoked

\* A raw refresh token stands for the session and how often it was rotated.
Matches(token) ==
    sessions[token[1]] # NULL /\ sessions[token[1]].version = token[2]

Unlocked(s) == sessionLock[s] = NULL

UserHeldBy(r, strengths) == {q \in Request \ {r} : userLock[q] \in strengths}

TokenHeldBy(r) ==
    IF resetToken /\ tokenLock \notin {r, NULL} THEN {tokenLock} ELSE {}

\* Ends the transaction of r: its row locks go.
Release(r) ==
    /\ userLock' = [userLock EXCEPT ![r] = "none"]
    /\ tokenLock' = IF tokenLock = r THEN NULL ELSE tokenLock
    /\ sessionLock' = [s \in Session |->
                         IF sessionLock[s] = r THEN NULL ELSE sessionLock[s]]

Goto(r, label) == pc' = [pc EXCEPT ![r] = label]

\* Faulty variant: the transaction stays open, with its locks.
AnswerWithoutRollback(r, label) ==
    Goto(r, label) /\ UNCHANGED locks /\ scan' = [scan EXCEPT ![r] = {}]

\* r answers and leaves nothing behind.
Answer(r, label) ==
    /\ Goto(r, label)
    /\ Release(r)
    /\ scan' = [scan EXCEPT ![r] = {}]

Arrive(r, operation, credential, password) ==
    /\ pc[r] = "new"
    /\ op' = [op EXCEPT ![r] = operation]
    /\ given' = [given EXCEPT ![r] = credential]
    /\ wanted' = [wanted EXCEPT ![r] = password]

\* A read of the user row for a password check: any committed row will do.
Verify(r, ok, label) ==
    /\ IF ok
       THEN Goto(r, label) /\ seen' = [seen EXCEPT ![r] = user.setBy]
       ELSE Goto(r, "rejected") /\ UNCHANGED seen
    /\ UNCHANGED <<rows, locks, scan, found, issued>>

Init ==
    /\ user \in {[password |-> p, setBy |-> First] : p \in Password}
    /\ resetToken = TRUE
    /\ sessions = [s \in Session |->
                     IF s = First THEN [version |-> 0, revoked |-> FALSE, auth |-> First]
                     ELSE NULL]
    /\ userLock = [r \in Request |-> "none"]
    /\ tokenLock = NULL
    /\ sessionLock = [s \in Session |-> NULL]
    /\ op = [r \in Request |-> NULL]
    /\ pc = [r \in Request |-> "new"]
    /\ given = [r \in Request |-> NULL]
    /\ wanted = [r \in Request |-> NULL]
    /\ seen = [r \in Request |-> NULL]
    /\ scan = [r \in Request |-> {}]
    /\ found = [r \in Request |-> {}]
    /\ issued = {<<First, 0>>}

-----------------------------------------------------------------------------
(* login                                                                   *)

LoginAuthenticate(r, p) ==
    /\ Arrive(r, "login", p, NULL)
    /\ Verify(r, user # NULL /\ user.password = p, "authenticated")

\* Faulty variant: no foreign key.
LoginInsertUnchecked(r) ==
    /\ pc[r] = "authenticated"
    /\ Goto(r, "inserted")
    /\ UNCHANGED <<rows, locks, inputs, seen, scan, found, issued>>

\* The INSERT of the session checks the foreign key, which shares the key of
\* the user row: it waits for a delete, not for an update.
LoginInsert(r) ==
    /\ pc[r] = "authenticated"
    /\ UserHeldBy(r, {"exclusive"}) = {}
    /\ IF user = NULL
       THEN Answer(r, "error") /\ UNCHANGED <<rows, inputs, seen, found, issued>>
       ELSE /\ userLock' = [userLock EXCEPT ![r] = "share"]
            /\ Goto(r, "inserted")
            /\ UNCHANGED <<rows, tokenLock, sessionLock, inputs, seen, scan, found, issued>>

LoginCommit(r) ==
    /\ pc[r] = "inserted"
    /\ sessions' = [sessions EXCEPT ![r] = [version |-> 0, revoked |-> FALSE,
                                            auth |-> seen[r]]]
    /\ issued' = issued \union {<<r, 0>>}
    /\ Answer(r, "ok")
    /\ UNCHANGED <<user, resetToken, inputs, seen, found>>

-----------------------------------------------------------------------------
(* refresh and logout                                                      *)

\* Faulty variants: no FOR UPDATE; revoked_at is not looked at.
ReadSession(r, operation, token, miss) ==
    /\ Arrive(r, operation, token, NULL)
    /\ IF Matches(token) /\ Active(token[1]) THEN Goto(r, "holding") ELSE Goto(r, miss)
    /\ UNCHANGED <<rows, locks, seen, scan, found, issued>>

LockSessionEvenRevoked(r, operation, token, miss) ==
    /\ Arrive(r, operation, token, NULL)
    /\ Matches(token) /\ Unlocked(token[1])
    /\ sessionLock' = [sessionLock EXCEPT ![token[1]] = r]
    /\ Goto(r, "holding")
    /\ UNCHANGED <<rows, userLock, tokenLock, seen, scan, found, issued>>

\* SELECT ... WHERE token_hash = ... FOR UPDATE, and the checks that follow.
\* A token that matches no row is answered at once; a matching row is waited
\* for and looked at again.
LockSession(r, operation, token, miss) ==
    /\ Arrive(r, operation, token, NULL)
    /\ Matches(token) => Unlocked(token[1])
    /\ IF Matches(token) /\ Active(token[1])
       THEN /\ sessionLock' = [sessionLock EXCEPT ![token[1]] = r]
            /\ Goto(r, "holding")
            /\ UNCHANGED <<userLock, tokenLock>>
       ELSE Goto(r, miss) /\ UNCHANGED locks
    /\ UNCHANGED <<rows, seen, scan, found, issued>>

RefreshLock(r, token) == LockSession(r, "refresh", token, "rejected")

\* The session's inactivity window has run out.
Lapse(r, token) ==
    /\ Arrive(r, "refresh", token, NULL)
    /\ Goto(r, "rejected")
    /\ UNCHANGED <<rows, locks, seen, scan, found, issued>>

\* The user exists while its session's row is locked: rotate, commit, answer.
RefreshCommit(r) ==
    /\ pc[r] = "holding" /\ op[r] = "refresh"
    /\ LET s == given[r][1]
       IN  /\ sessions' = [sessions EXCEPT ![s].version = @ + 1]
           /\ issued' = issued \union {<<s, given[r][2] + 1>>}
    /\ Answer(r, "ok")
    /\ UNCHANGED <<user, resetToken, inputs, seen, found>>

LogoutLock(r, token) == LockSession(r, "logout", token, "ok")

LogoutCommit(r) ==
    /\ pc[r] = "holding" /\ op[r] = "logout"
    /\ sessions' = [sessions EXCEPT ![given[r][1]].revoked = TRUE]
    /\ Answer(r, "ok")
    /\ UNCHANGED <<user, resetToken, inputs, seen, found, issued>>

-----------------------------------------------------------------------------
(* reset_password and change_password                                      *)

\* Faulty variant: no FOR UPDATE.
ResetRead(r, new) ==
    /\ Arrive(r, "reset", NULL, new)
    /\ IF resetToken THEN Goto(r, "verified") ELSE Goto(r, "rejected")
    /\ UNCHANGED <<rows, locks, seen, scan, found, issued>>

\* The reset token's row FOR UPDATE; an expired or used token is refused.
ResetLock(r, new) ==
    /\ Arrive(r, "reset", NULL, new)
    /\ TokenHeldBy(r) = {}
    /\ \/ /\ resetToken
          /\ tokenLock' = r
          /\ Goto(r, "verified")
          /\ UNCHANGED <<userLock, sessionLock>>
       \/ Goto(r, "rejected") /\ UNCHANGED locks
    /\ UNCHANGED <<rows, seen, scan, found, issued>>

\* get_current_user has loaded the row; the checks are made on what it read.
ChangeVerify(r, current, new) ==
    /\ Arrive(r, "change", current, new)
    /\ Verify(r, user # NULL /\ user.password = current /\ new # current, "verified")

\* The flush that autoflush puts before the DELETE: UPDATE users.  A row that
\* was deleted meanwhile is a StaleDataError.
UpdatePassword(r) ==
    /\ pc[r] = "verified" /\ op[r] \in {"reset", "change"}
    /\ UserHeldBy(r, {"write", "exclusive"}) = {}
    /\ IF user = NULL
       THEN Answer(r, "error") /\ UNCHANGED <<rows, inputs, seen, found, issued>>
       ELSE /\ userLock' = [userLock EXCEPT ![r] = "write"]
            /\ Goto(r, "updated")
            /\ UNCHANGED <<rows, tokenLock, sessionLock, inputs, seen, scan, found, issued>>

\* DELETE FROM password_reset_tokens WHERE user_id = ...
ClearResetToken(r) ==
    /\ pc[r] = "updated"
    /\ TokenHeldBy(r) = {}
    /\ tokenLock' = IF resetToken THEN r ELSE tokenLock
    /\ Goto(r, "cleared")
    /\ UNCHANGED <<rows, userLock, sessionLock, inputs, seen, scan, found, issued>>

\* UPDATE refresh_token_sessions ... WHERE revoked_at IS NULL: the statement
\* finds the sessions that are committed and active now ...
RevokeScan(r) ==
    /\ pc[r] = "cleared"
    /\ scan' = [scan EXCEPT ![r] = {s \in Session : Active(s)}]
    /\ found' = [found EXCEPT ![r] = {s \in Session : Active(s)}]
    /\ Goto(r, "locking")
    /\ UNCHANGED <<rows, locks, inputs, seen, issued>>

\* Faulty variant: SKIP LOCKED.
LockRowOrSkip(r, s) ==
    /\ pc[r] = "locking"
    /\ s \in scan[r]
    /\ scan' = [scan EXCEPT ![r] = @ \ {s}]
    /\ sessionLock' = IF sessions[s] # NULL /\ Unlocked(s)
                      THEN [sessionLock EXCEPT ![s] = r] ELSE sessionLock
    /\ UNCHANGED <<rows, userLock, tokenLock, inputs, pc, seen, found, issued>>

\* ... and locks them one by one, each if it still qualifies.
LockRow(r, s) ==
    /\ pc[r] = "locking"
    /\ s \in scan[r]
    /\ Unlocked(s)
    /\ scan' = [scan EXCEPT ![r] = @ \ {s}]
    /\ sessionLock' = IF Active(s) \/ (op[r] = "delete" /\ sessions[s] # NULL)
                      THEN [sessionLock EXCEPT ![s] = r] ELSE sessionLock
    /\ UNCHANGED <<rows, userLock, tokenLock, inputs, pc, seen, found, issued>>

PasswordCommit(r) ==
    /\ pc[r] = "locking" /\ op[r] \in {"reset", "change"}
    /\ scan[r] = {}
    /\ user' = [password |-> wanted[r], setBy |-> r]
    /\ resetToken' = (resetToken /\ tokenLock # r)
    /\ sessions' = [s \in Session |->
                      IF sessionLock[s] = r THEN [sessions[s] EXCEPT !.revoked = TRUE]
                      ELSE sessions[s]]
    /\ Answer(r, "ok")
    /\ UNCHANGED <<inputs, seen, found, issued>>

-----------------------------------------------------------------------------
(* delete_account                                                          *)

DeleteVerify(r, p) ==
    /\ Arrive(r, "delete", p, NULL)
    /\ Verify(r, user # NULL /\ user.password = p, "verified")

\* DELETE FROM users; deleting a row that is gone deletes nothing.
DeleteUser(r) ==
    /\ pc[r] = "verified" /\ op[r] = "delete"
    /\ UserHeldBy(r, {"share", "write", "exclusive"}) = {}
    /\ IF user = NULL
       THEN Answer(r, "ok") /\ UNCHANGED <<rows, inputs, seen, found, issued>>
       ELSE /\ userLock' = [userLock EXCEPT ![r] = "exclusive"]
            /\ Goto(r, "deleting")
            /\ UNCHANGED <<rows, tokenLock, sessionLock, inputs, seen, scan, found, issued>>

\* ON DELETE CASCADE: every session, locked in turn, then the reset token.
CascadeScan(r) ==
    /\ pc[r] = "deleting"
    /\ scan' = [scan EXCEPT ![r] = {s \in Session : sessions[s] # NULL}]
    /\ found' = [found EXCEPT ![r] = {s \in Session : sessions[s] # NULL}]
    /\ Goto(r, "locking")
    /\ UNCHANGED <<rows, locks, inputs, seen, issued>>

CascadeToken(r) ==
    /\ pc[r] = "locking" /\ op[r] = "delete"
    /\ scan[r] = {}
    /\ TokenHeldBy(r) = {}
    /\ tokenLock' = IF resetToken THEN r ELSE tokenLock
    /\ Goto(r, "cascaded")
    /\ UNCHANGED <<rows, userLock, sessionLock, inputs, seen, scan, found, issued>>

DeleteCommit(r) ==
    /\ pc[r] = "cascaded"
    /\ user' = NULL
    /\ resetToken' = (resetToken /\ tokenLock # r)
    /\ sessions' = [s \in Session |-> IF sessionLock[s] = r THEN NULL ELSE sessions[s]]
    /\ Answer(r, "ok")
    /\ UNCHANGED <<inputs, seen, found, issued>>

-----------------------------------------------------------------------------
(* Waiting, deadlock and failure                                           *)

Running(r) == pc[r] \notin {"new", "ok", "rejected", "error"}

\* The requests whose locks r waits for at its next statement.
WaitsFor(r) ==
    CASE pc[r] = "authenticated" -> UserHeldBy(r, {"exclusive"})
      [] pc[r] = "verified" /\ op[r] # "delete" -> UserHeldBy(r, {"write", "exclusive"})
      [] pc[r] = "verified" /\ op[r] = "delete" ->
            UserHeldBy(r, {"share", "write", "exclusive"})
      [] pc[r] = "updated" -> TokenHeldBy(r)
      [] pc[r] = "locking" /\ scan[r] # {} ->
            IF \E s \in scan[r] : Unlocked(s) THEN {}
            ELSE {sessionLock[s] : s \in scan[r]}
      [] pc[r] = "locking" /\ op[r] = "delete" /\ scan[r] = {} -> TokenHeldBy(r)
      [] OTHER -> {}

\* r is on a cycle of requests that wait for each other.
Deadlocked(r) ==
    \E S \in SUBSET Request :
        /\ r \in S
        /\ \A x \in S : \E y, z \in S : y \in WaitsFor(x) /\ x \in WaitsFor(z)

\* PostgreSQL aborts one transaction of a deadlock: that request answers 500.
DeadlockVictim(r) ==
    /\ Deadlocked(r)
    /\ Answer(r, "error")
    /\ UNCHANGED <<rows, inputs, seen, found, issued>>

\* The connection or the process of r is lost before its commit.
Abort(r) ==
    /\ Running(r)
    /\ Answer(r, "error")
    /\ UNCHANGED <<rows, inputs, seen, found, issued>>

\* The steps of r once it has arrived.
Proceed(r) ==
    \/ LoginInsert(r) \/ LoginCommit(r)
    \/ RefreshCommit(r) \/ LogoutCommit(r)
    \/ UpdatePassword(r) \/ ClearResetToken(r) \/ RevokeScan(r) \/ PasswordCommit(r)
    \/ DeleteUser(r) \/ CascadeScan(r) \/ CascadeToken(r) \/ DeleteCommit(r)
    \/ \E s \in Session : LockRow(r, s)

Serve(r) ==
    \/ \E p \in Password : LoginAuthenticate(r, p) \/ DeleteVerify(r, p) \/ ResetLock(r, p)
    \/ \E p, q \in Password : ChangeVerify(r, p, q)
    \/ \E token \in issued :
          RefreshLock(r, token) \/ Lapse(r, token) \/ LogoutLock(r, token)

Next == \E r \in Request : Serve(r) \/ Proceed(r) \/ DeadlockVictim(r) \/ Abort(r)

Spec == Init /\ [][Next]_vars

\* While some request can go on, or PostgreSQL can resolve a deadlock, one does.
FairSpec == Spec /\ WF_vars(\E r \in Request : Proceed(r) \/ DeadlockVictim(r))

-----------------------------------------------------------------------------
(* Correctness.                                                            *)

Label == {"new", "authenticated", "inserted", "holding", "verified", "updated",
          "cleared", "deleting", "locking", "cascaded", "ok", "rejected", "error"}

Token == Session \X Nat

TypeOK ==
    /\ user \in UserRow \union {NULL}
    /\ resetToken \in BOOLEAN
    /\ sessions \in [Session -> SessionRow \union {NULL}]
    /\ userLock \in [Request -> {"none", "share", "write", "exclusive"}]
    /\ tokenLock \in Request \union {NULL}
    /\ sessionLock \in [Session -> Request \union {NULL}]
    /\ op \in [Request -> {"login", "refresh", "logout", "reset", "change", "delete", NULL}]
    /\ pc \in [Request -> Label]
    /\ given \in [Request -> Password \union Token \union {NULL}]
    /\ wanted \in [Request -> Password \union {NULL}]
    /\ seen \in [Request -> Session \union {NULL}]
    /\ scan \in [Request -> SUBSET Session]
    /\ found \in [Request -> SUBSET Session]
    /\ issued \subseteq Token

Succeeded(operation) == {r \in Request : op[r] = operation /\ pc[r] = "ok"}

\* A reset link changes the password once, however many requests carry it at
\* the same time, and not after a change of the password has removed it.
SingleUseReset ==
    /\ Cardinality(Succeeded("reset")) <= 1
    /\ user # NULL /\ user.setBy # First => ~resetToken

\* A refresh token is exchanged once: of the requests that present the same
\* token at the same time, or again later, one gets fresh credentials.
SingleRotation ==
    \A q, r \in Succeeded("refresh") : given[q] = given[r] => q = r

\* A row as SessionPromise sees it.
SessionOf(s) ==
    IF sessions[s] = NULL THEN NULL
    ELSE [owner |-> First, exchanges |-> sessions[s].version, open |-> ~sessions[s].revoked]

\* Sessions are what SessionPromise says, whatever statements cross: opened
\* for the account, exchanged only while open, one exchange at a time, closed
\* for good, and gone with the account.
Promise == INSTANCE SessionPromise WITH
    Id <- Session,
    account <- IF user = NULL THEN NULL ELSE First,
    session <- [s \in Session |-> SessionOf(s)]

KeepsSessionPromise == Promise!Spec

\* When a new password is committed, no session that was there when the
\* statement that revokes them started is active, though refreshes and logouts
\* of them were under way.
RevokesEverySessionFound ==
    [][\A r \in Request :
          user' # NULL /\ user'.setBy = r /\ user # user'
          => \A s \in found[r] : sessions'[s] = NULL \/ sessions'[s].revoked]_vars

\* Deleting the account leaves no session and no reset token, whatever logins
\* were under way, and nothing brings one back.
NothingOutlivesTheAccount ==
    user = NULL => ~resetToken /\ \A s \in Session : sessions[s] = NULL

\* The tables hold rows of their types, and none of a deleted account.
Consistent == TypeOK /\ NothingOutlivesTheAccount

\* Every request is answered, however many wait for each other's row locks:
\* again and again none is under way.
EveryRequestAnswered == []<>(\A r \in Request : ~Running(r))

\* README.md:78: changing a password "revokes all of that user's refresh
\* sessions": the sessions still active were opened with the new password.
ActiveSessionsPostdatePassword ==
    \A s \in Session : user # NULL /\ Active(s) => sessions[s].auth = user.setBy

\* users/service.py:44: the account is deleted "after confirming its current
\* password".
DeletesWithCurrentPassword ==
    [][\A r \in Request : op[r] = "delete" /\ user # NULL /\ user' = NULL /\ pc[r] # "ok"
          /\ pc'[r] = "ok" => given[r] = user.password]_vars

=============================================================================

------------------------------ MODULE Accounts ------------------------------
(***************************************************************************)
(* The accounts that one email address has over time, and who may act for  *)
(* them: registration under the published Terms (register and              *)
(* app/legal/repository.py), login sessions and access tokens with their   *)
(* lifetimes (app/auth/service.py, app/core/security.py), the requests an  *)
(* access token authenticates (get_current_user, app/core/dependencies.py) *)
(* and the account's deletion, after which the address may register again. *)
(*                                                                         *)
(* Here time counts and statements do not: PasswordSessions and TokenIssue *)
(* show what row locks make of statements that cross, and a transaction is *)
(* split only where it reads something, or the clock, that it uses later.  *)
(* An exchange is answered some time after its commit takes effect, and    *)
(* the access token is made then: others may act in between.  Passwords    *)
(* and links are taken to be right.                                        *)
(***************************************************************************)
EXTENDS Naturals

CONSTANTS
    Request,      \* each is served once
    First,        \* names the account and the session there are at the start
    Locale,       \* SUPPORTED_LOCALES
    AccessLife,   \* jwt_expires_in
    RefreshLife,  \* refresh_token_expires_in
    MaxVersion,   \* bound of the versions of the Terms
    MaxTime,      \* bound of the clock
    NULL

ASSUME LifetimeAssumption ==
    /\ AccessLife \in Nat /\ RefreshLife \in Nat
    /\ MaxVersion \in Nat \ {0} /\ MaxTime \in Nat
    /\ First \notin Request /\ NULL \notin Request \union {First}

\* An account and a session are named for the request that made them.
Id == Request \union {First}

Time == 0..MaxTime
Version == 1..MaxVersion

UserRow == [id : Id, locale : Locale, terms : Version, verified : BOOLEAN]
SessionRow == [user : Id, version : Nat, expires : Nat, revoked : BOOLEAN]

ASSUME NullAssumption ==
    /\ NULL \notin Nat \union UserRow \union SessionRow
    /\ NULL \notin [owner : Id, exchanges : Nat, open : BOOLEAN]

VARIABLES
    terms,      \* legal_pages: [Locale -> version, 0 if there is no row]
    user,       \* the row of the address: [id, locale, terms, verified], or NULL
    sessions,   \* [Id -> row [user, version, expires, revoked] or NULL]
    issued,     \* refresh tokens: a session and how often it was rotated
    access,     \* access tokens: [sub, exp], and the session they came with
    pc,         \* [Request -> control state]
    work,       \* [Request -> its input and local variables]
    now,
    used,       \* history: [Id -> whose login opened the session, its last exchange,
                \* and whether it had not ended when that committed]
    ended       \* history: [Id -> when it was revoked or deleted, or NULL]

tables == <<terms, user, sessions>>
credentials == <<issued, access>>
requests == <<pc, work>>
history == <<used, ended>>
vars == <<tables, credentials, requests, now, history>>

-----------------------------------------------------------------------------
\* op, input: the operation, and the locale or token it came with; owner: the
\* account as read; clock: the handler's now; version: the Terms as read;
\* since: history, the Terms in force when the request came.  Once an exchange
\* has committed, input is its new token.
NoWork ==
    [op |-> NULL, input |-> NULL, owner |-> NULL, clock |-> 0, version |-> 0, since |-> 0]

Goto(r, label) == pc' = [pc EXCEPT ![r] = label]

Local(r, update) == work' = [work EXCEPT ![r] = update]

\* r answers, and its local variables are gone.
Answer(r, label) == Goto(r, label) /\ Local(r, NoWork)

Authorized(operation, token) ==
    [NoWork EXCEPT !.op = operation, !.input = token, !.clock = now]

Matches(token) ==
    sessions[token[1]] # NULL /\ sessions[token[1]].version = token[2]

\* An open refresh holds the lock of its session's row.
Held(s) == \E q \in Request : pc[q] = "holding" /\ work[q].input[1] = s

\* create_access_token
AccessToken(id, s) == [sub |-> id, exp |-> now + AccessLife, session |-> s]

\* The sessions in S have ended, unless they had before.
End(S) == ended' = [s \in Id |-> IF s \in S /\ ended[s] = NULL THEN now ELSE ended[s]]

Init ==
    /\ terms \in [Locale -> 0..1]
    /\ \E l \in Locale :
          terms[l] = 1 /\ user = [id |-> First, locale |-> l, terms |-> 1, verified |-> TRUE]
    /\ sessions = [s \in Id |->
                     IF s = First THEN [user |-> First, version |-> 0,
                                        expires |-> RefreshLife, revoked |-> FALSE]
                     ELSE NULL]
    /\ issued = {<<First, 0>>}
    /\ access = {[sub |-> First, exp |-> AccessLife, session |-> First]}
    /\ pc = [r \in Request |-> "new"]
    /\ work = [r \in Request |-> NoWork]
    /\ now = 0
    /\ used = [s \in Id |-> [owner |-> IF s = First THEN First ELSE NULL,
                             at |-> 0, open |-> TRUE]]
    /\ ended = [s \in Id |-> NULL]

-----------------------------------------------------------------------------
(* Registration                                                            *)

\* The localized rows are updated one after the other, outside the API.
Publish(l) ==
    /\ terms[l] < MaxVersion
    /\ terms' = [terms EXCEPT ![l] = @ + 1]
    /\ UNCHANGED <<user, sessions, credentials, requests, now, history>>

RegisterFind(r, l) ==
    /\ pc[r] = "new"
    /\ IF user # NULL
       THEN Answer(r, "refused")
       ELSE Goto(r, "free") /\ Local(r, [NoWork EXCEPT !.input = l, !.since = terms[l]])
    /\ UNCHANGED <<tables, credentials, now, history>>

\* Faulty variant: the version of any locale, as LIMIT 1 finds it.
RegisterTermsOfAnyLocale(r) ==
    /\ pc[r] = "free"
    /\ \E l \in Locale :
          /\ terms[l] # 0
          /\ Goto(r, "agreed") /\ Local(r, [work[r] EXCEPT !.version = terms[l]])
    /\ UNCHANGED <<tables, credentials, now, history>>

\* get_terms_version, a statement of its own.
TermsVersion(l) == IF terms[l] = 0 THEN NULL ELSE terms[l]

\* Without a version the answer is 503.
RegisterTerms(r) ==
    /\ pc[r] = "free"
    /\ LET version == TermsVersion(work[r].input)
       IN  IF version = NULL
           THEN Answer(r, "refused")
           ELSE Goto(r, "agreed") /\ Local(r, [work[r] EXCEPT !.version = version])
    /\ UNCHANGED <<tables, credentials, now, history>>

RegisterCommit(r) ==
    /\ pc[r] = "agreed"
    /\ IF user # NULL
       THEN Answer(r, "refused") /\ UNCHANGED user
       ELSE /\ Answer(r, "ok")
            /\ user' = [id |-> r, locale |-> work[r].input, terms |-> work[r].version,
                        verified |-> FALSE]
    /\ UNCHANGED <<terms, sessions, credentials, now, history>>

\* confirm_email, at its commit (TokenIssue has its statements).
EmailConfirmed ==
    /\ user # NULL
    /\ user' = [user EXCEPT !.verified = TRUE]
    /\ UNCHANGED <<terms, sessions, credentials, requests, now, history>>

-----------------------------------------------------------------------------
(* Sessions                                                                *)

\* authenticate, and the clock that the session's expiry is computed from.
LoginAuthenticate(r) ==
    /\ pc[r] = "new"
    /\ IF user # NULL /\ user.verified
       THEN Goto(r, "authenticated") /\ Local(r, [NoWork EXCEPT !.owner = user.id,
                                                                !.clock = now])
       ELSE Answer(r, "refused")
    /\ UNCHANGED <<tables, credentials, now, history>>

\* The commit of an exchange of session s takes effect: its row, its locks, and
\* that it was used.  The client has no token yet.
Exchanged(r, s, row) ==
    /\ sessions' = [sessions EXCEPT ![s] = row]
    /\ used' = [used EXCEPT ![s] = [owner |-> row.user, at |-> work[r].clock,
                                  open |-> ended[s] = NULL]]
    /\ Goto(r, "committed")
    /\ Local(r, [NoWork EXCEPT !.owner = row.user, !.input = <<s, row.version>>])
    /\ UNCHANGED <<terms, user, credentials, now, ended>>

\* The commit has returned: _auth_response makes the access token by the clock
\* it reads now.  An exchange that is never answered has lost its answer.
AnswerExchange(r) ==
    /\ pc[r] = "committed"
    /\ issued' = issued \union {work[r].input}
    /\ access' = access \union {AccessToken(work[r].owner, work[r].input[1])}
    /\ Answer(r, "ok")
    /\ UNCHANGED <<tables, now, history>>

NewSession(r) ==
    [user |-> work[r].owner, version |-> 0,
     expires |-> work[r].clock + RefreshLife, revoked |-> FALSE]

\* Faulty variant: no foreign key.
LoginCommitUnchecked(r) ==
    /\ pc[r] = "authenticated"
    /\ Exchanged(r, r, NewSession(r))

\* The foreign key refuses the session of an account that is gone.
LoginCommit(r) ==
    /\ pc[r] = "authenticated"
    /\ IF user # NULL /\ user.id = work[r].owner
       THEN Exchanged(r, r, NewSession(r))
       ELSE Answer(r, "refused") /\ UNCHANGED <<tables, credentials, now, history>>

\* get_for_update, the clock read once it returns, and the checks.
RefreshLock(r, token) ==
    /\ pc[r] = "new"
    /\ Matches(token) => ~Held(token[1])
    /\ IF /\ Matches(token)
          /\ ~sessions[token[1]].revoked /\ sessions[token[1]].expires > now
          /\ user # NULL /\ user.id = sessions[token[1]].user /\ user.verified
       THEN Goto(r, "holding") /\ Local(r, [NoWork EXCEPT !.input = token, !.clock = now])
       ELSE Answer(r, "refused")
    /\ UNCHANGED <<tables, credentials, now, history>>

\* Faulty variant: the token is new, the window is not.
RotatedOnly(r, row) == [row EXCEPT !.version = @ + 1]

\* rotate
Rotated(r, row) ==
    [row EXCEPT !.version = @ + 1, !.expires = work[r].clock + RefreshLife]

RefreshCommit(r) ==
    /\ pc[r] = "holding"
    /\ LET s == work[r].input[1] IN Exchanged(r, s, Rotated(r, sessions[s]))

\* Faulty variant: an exchange under way is not waited for.
LogoutAtOnce(r, token) ==
    /\ pc[r] = "new" /\ Matches(token)
    /\ sessions' = [sessions EXCEPT ![token[1]].revoked = TRUE]
    /\ End({token[1]})
    /\ Answer(r, "ok")
    /\ UNCHANGED <<terms, user, credentials, now, used>>

Logout(r, token) ==
    /\ pc[r] = "new"
    /\ Matches(token) => ~Held(token[1])
    /\ sessions' = IF Matches(token) THEN [sessions EXCEPT ![token[1]].revoked = TRUE]
                   ELSE sessions
    /\ End(IF Matches(token) THEN {token[1]} ELSE {})
    /\ Answer(r, "ok")
    /\ UNCHANGED <<terms, user, credentials, now, used>>

-----------------------------------------------------------------------------
(* What an access token authenticates                                      *)

\* decode_access_token
Decode(r, operation, token) ==
    /\ pc[r] = "new"
    /\ IF token.exp > now
       THEN Goto(r, "decoded") /\ Local(r, Authorized(operation, token))
       ELSE Answer(r, "refused")
    /\ UNCHANGED <<tables, credentials, now, history>>

\* Faulty variant: the account is looked up by the token's email.
LoadUserByEmail(r) ==
    /\ pc[r] = "decoded"
    /\ IF user # NULL /\ user.verified
       THEN Goto(r, "acting") /\ Local(r, [work[r] EXCEPT !.owner = user.id])
       ELSE Answer(r, "refused")
    /\ UNCHANGED <<tables, credentials, now, history>>

\* get_current_user reads the row of sub; get_profile answers with it.
LoadUser(r) ==
    /\ pc[r] = "decoded"
    /\ IF user # NULL /\ user.id = work[r].input.sub /\ user.verified
       THEN Goto(r, "acting") /\ Local(r, [work[r] EXCEPT !.owner = user.id])
       ELSE Answer(r, "refused")
    /\ UNCHANGED <<tables, credentials, now, history>>

SessionsOf(id) == {s \in Id : sessions[s] # NULL /\ sessions[s].user = id}

\* revoke_for_user, once no refresh holds a session it finds.
RevokeSessions(id) ==
    /\ \A s \in SessionsOf(id) : ~Held(s)
    /\ sessions' = [s \in Id |-> IF s \in SessionsOf(id)
                                 THEN [sessions[s] EXCEPT !.revoked = TRUE] ELSE sessions[s]]
    /\ End(SessionsOf(id))

\* The row was loaded by get_current_user: if it is gone, its UPDATE fails.
ChangePassword(r) ==
    /\ pc[r] = "acting" /\ work[r].op = "change"
    /\ IF user # NULL /\ user.id = work[r].owner
       THEN RevokeSessions(user.id) /\ Answer(r, "ok")
       ELSE Answer(r, "refused") /\ UNCHANGED <<sessions, ended>>
    /\ UNCHANGED <<terms, user, credentials, now, used>>

\* reset_password, at its commit.
PasswordReset ==
    /\ user # NULL
    /\ RevokeSessions(user.id)
    /\ UNCHANGED <<terms, user, credentials, requests, now, used>>

\* Deleting a row that is gone deletes nothing; the sessions go by cascade.
DeleteAccount(r) ==
    /\ pc[r] = "acting" /\ work[r].op = "delete"
    /\ LET gone == SessionsOf(work[r].owner)
       IN  /\ \A s \in gone : ~Held(s)
           /\ user' = IF user # NULL /\ user.id = work[r].owner THEN NULL ELSE user
           /\ sessions' = [s \in Id |-> IF s \in gone THEN NULL ELSE sessions[s]]
           /\ End(gone)
    /\ Answer(r, "ok")
    /\ UNCHANGED <<terms, credentials, now, used>>

-----------------------------------------------------------------------------
\* The connection or the process is lost before the commit.
Abort(r) ==
    /\ pc[r] \in {"free", "agreed", "authenticated", "holding", "decoded", "acting"}
    /\ Answer(r, "refused")
    /\ UNCHANGED <<tables, credentials, now, history>>

Tick ==
    /\ now < MaxTime
    /\ now' = now + 1
    /\ UNCHANGED <<tables, credentials, requests, history>>

Arrival(r) ==
    \/ \E l \in Locale : RegisterFind(r, l)
    \/ LoginAuthenticate(r)
    \/ \E token \in issued : RefreshLock(r, token) \/ Logout(r, token)
    \/ \E operation \in {"profile", "change", "delete"}, token \in access :
          Decode(r, operation, token)

Proceed(r) ==
    \/ RegisterTerms(r) \/ RegisterCommit(r)
    \/ LoginCommit(r) \/ RefreshCommit(r) \/ AnswerExchange(r)
    \/ LoadUser(r) \/ ChangePassword(r) \/ DeleteAccount(r)

Next ==
    \/ \E r \in Request : Arrival(r) \/ Proceed(r) \/ Abort(r)
    \/ \E l \in Locale : Publish(l)
    \/ EmailConfirmed \/ PasswordReset \/ Tick

Spec == Init /\ [][Next]_vars

-----------------------------------------------------------------------------
(* Properties                                                              *)

TypeOK ==
    /\ terms \in [Locale -> 0..MaxVersion]
    /\ user \in UserRow \union {NULL}
    /\ sessions \in [Id -> SessionRow \union {NULL}]
    /\ issued \subseteq Id \X Nat
    /\ access \subseteq [sub : Id, exp : Nat, session : Id]
    /\ pc \in [Request -> {"new", "free", "agreed", "authenticated", "holding", "committed",
                           "decoded", "acting", "ok", "refused"}]
    /\ \A r \in Request :
          /\ work[r].op \in {"profile", "change", "delete", NULL}
          /\ work[r].owner \in Id \union {NULL} /\ work[r].clock \in Time
          /\ work[r].version \in 0..MaxVersion /\ work[r].since \in 0..MaxVersion
    /\ now \in Time
    /\ used \in [Id -> [owner : Id \union {NULL}, at : Time, open : BOOLEAN]]
    /\ ended \in [Id -> Time \union {NULL}]

\* An access token acts for the account whose login it came from, also when
\* that account was deleted and its address has another one.
ActsForItsOwnAccount ==
    \A r \in Request :
        pc[r] = "acting" => work[r].owner = used[work[r].input.session].owner

\* The token was made after the session's end, for an exchange that had committed
\* before it.
Crossed(token) ==
    used[token.session].open /\ ended[token.session] + AccessLife < token.exp

\* "a short-lived access token": once a session has been logged out, revoked
\* by a new password, or deleted, its access tokens are refused from
\* jwt_expires_in later on.  Only an exchange that had committed and was still to
\* be answered brings one that lasts longer, by the time its answer took.
AccessEndsWithTheSession ==
    \A r \in Request :
        LET token == work[r].input
        IN  pc[r] = "acting" /\ ended[token.session] # NULL
            => \/ work[r].clock < ended[token.session] + AccessLife
               \/ Crossed(token) /\ work[r].clock < token.exp

\* Sessions belong to the account that has the address, never to a deleted one
\* or to one that is not confirmed, whatever logins were under way.
SessionsOfTheAccount ==
    \A s \in Id : sessions[s] # NULL =>
        user # NULL /\ user.verified /\ sessions[s].user = user.id

\* The tables hold rows of their types, and sessions of their account only.
Consistent == TypeOK /\ SessionsOfTheAccount

\* A row as SessionPromise sees it.
SessionOf(s) ==
    IF sessions[s] = NULL THEN NULL
    ELSE [owner |-> sessions[s].user, exchanges |-> sessions[s].version,
          open |-> ~sessions[s].revoked]

\* Sessions are what SessionPromise says, from one account of the address to
\* the next.
Promise == INSTANCE SessionPromise WITH
    account <- IF user = NULL THEN NULL ELSE user.id,
    session <- [s \in Id |-> SessionOf(s)]

KeepsSessionPromise == Promise!Spec

\* "Refresh sessions expire after 180 days of inactivity": a device that
\* presents its session's newest token is let in exactly if it exchanged one
\* less than refresh_token_expires_in ago, however old the session is.
SlidingWindow ==
    [][\A r \in Request, token \in issued :
          RefreshLock(r, token) /\ Matches(token) /\ ended[token[1]] = NULL
          => (pc'[r] = "holding" <=> now < used[token[1]].at + RefreshLife)]_vars

\* "each value records the version that user actually accepted": the version
\* recorded was in force in the locale of the registration at some time of
\* the request, and stays, whatever is published later.
TermsInForceAreRecorded ==
    [][user' # NULL =>
          \/ user # NULL /\ user.id = user'.id /\ user.terms = user'.terms
          \/ \E r \in Request :
                /\ user'.id = r /\ user'.locale = work[r].input
                /\ user'.terms >= work[r].since /\ user'.terms <= terms[work[r].input]]_vars

=============================================================================

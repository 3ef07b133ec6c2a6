----------------------------- MODULE TokenIssue -----------------------------
(***************************************************************************)
(* The links of one email address: register, confirm_email,                *)
(* resend_confirmation and forgot_password (app/auth/service.py), how      *)
(* reset_password uses up its link, and the account's deletion, running    *)
(* concurrently.  The emails that carry the links go through the outbox,   *)
(* which is here what OutboxPromise says of it; a client knows a link only *)
(* from a delivered email.                                                 *)
(*                                                                         *)
(* As in PasswordSessions a request is a transaction at READ COMMITTED and *)
(* an action is a statement or the commit, which makes its writes visible. *)
(* A statement that would wait for another transaction is not enabled.     *)
(* Statements on rows that only their own transaction can see are part of  *)
(* the next visible step.                                                  *)
(***************************************************************************)
EXTENDS Naturals, FiniteSets

CONSTANTS
    Request,    \* each is served once
    First,      \* names the account and link that exist at the start
    Worker,     \* delivery workers of the outbox
    Cooldown,   \* email_resend_cooldown and password_reset_cooldown
    Lifetime,   \* email_confirmation_expires_in and password_reset_expires_in
    MaxTime,    \* bound of the clock
    NULL

ASSUME DurationAssumption ==
    /\ Cooldown \in Nat /\ Lifetime \in Nat /\ MaxTime \in Nat
    /\ First \notin Request

\* An account, a link and its email are named for the request that made them.
Id == Request \union {First}

Kind == {"confirmation", "reset"}

Time == 0..MaxTime

UserRow == [id : Id, verified : BOOLEAN]
TokenRow == [id : Id, user : Id, created : Time, expires : 0..(MaxTime + Lifetime)]

ASSUME NullAssumption == NULL \notin Id \union UserRow \union TokenRow

VARIABLES
    user,       \* the row of the email address: [id, verified], or NULL
    tokens,     \* [Kind -> row [id, user, created, expires] or NULL]
    status, attempt, delivered,   \* the outbox (OutboxPromise)
    userLock,   \* [Request -> lock strength held on the user row]
    tokenLock,  \* [Kind -> request that locked the token row]
    inserting,  \* [Kind -> request with an uncommitted token]
    creating,   \* the request with an uncommitted user, or NULL
    op, pc,     \* [Request -> operation, control state]
    given,      \* [Request -> link presented]
    work,       \* [Request -> its local variables]
    now

outbox == <<status, attempt, delivered>>
rows == <<user, tokens, outbox>>
locks == <<userLock, tokenLock, inserting, creating>>
vars == <<rows, locks, op, pc, given, work, now>>

Outbox == INSTANCE OutboxPromise WITH Job <- Id, Standalone <- {}

-----------------------------------------------------------------------------
\* owner: user.id as read; started: the transaction's now(), which becomes
\* created_at; clock: the handler's now; target: the row a DELETE found; had:
\* history, the link of its kind that there was when the request came.
NoWork == [owner |-> NULL, started |-> 0, clock |-> 0, target |-> NULL, had |-> NULL]

KindFor(operation) == IF operation \in {"forgot", "reset"} THEN "reset" ELSE "confirmation"

KindOf(r) == KindFor(op[r])

\* The committed token of kind k that belongs to account u.
IsOf(k, u) == tokens[k] # NULL /\ tokens[k].user = u

NewToken(r) ==
    [id |-> r, user |-> work[r].owner, created |-> work[r].started,
     expires |-> work[r].clock + Lifetime]

\* Deleting a link's row deletes its email by cascade, unless it has left.
Withdrawn(old) ==
    [j \in Id |-> IF j \in old /\ status[j] \in {"queued", "dead"}
                  THEN "withdrawn" ELSE status[j]]

HeldByOthers(r, strengths) == \E q \in Request \ {r} : userLock[q] \in strengths

Goto(r, label) == pc' = [pc EXCEPT ![r] = label]

Local(r, update) == work' = [work EXCEPT ![r] = update]

\* r commits or rolls back: its locks go.
Answer(r, label) ==
    /\ Goto(r, label)
    /\ userLock' = [userLock EXCEPT ![r] = "none"]
    /\ tokenLock' = [k \in Kind |-> IF tokenLock[k] = r THEN NULL ELSE tokenLock[k]]
    /\ inserting' = [k \in Kind |-> IF inserting[k] = r THEN NULL ELSE inserting[k]]
    /\ creating' = IF creating = r THEN NULL ELSE creating
    /\ Local(r, NoWork)
    /\ UNCHANGED now

Arrive(r, operation, link) ==
    /\ pc[r] = "new"
    /\ op' = [op EXCEPT ![r] = operation]
    /\ given' = [given EXCEPT ![r] = link]
    /\ UNCHANGED rows

Init ==
    /\ \/ user = NULL
       \/ \E v \in BOOLEAN : user = [id |-> First, verified |-> v]
    /\ tokens = [k \in Kind |->
                   IF k = "confirmation" /\ user # NULL /\ ~user.verified
                   THEN [id |-> First, user |-> First, created |-> 0, expires |-> Lifetime]
                   ELSE NULL]
    /\ status = [j \in Id |-> IF j = First /\ user # NULL
                              THEN IF user.verified THEN "done" ELSE "queued"
                              ELSE "absent"]
    /\ attempt = [w \in Worker |-> NULL]
    /\ delivered = {j \in Id : status[j] = "done"}
    /\ userLock = [r \in Request |-> "none"]
    /\ tokenLock = [k \in Kind |-> NULL]
    /\ inserting = [k \in Kind |-> NULL]
    /\ creating = NULL
    /\ op = [r \in Request |-> NULL]
    /\ pc = [r \in Request |-> "new"]
    /\ given = [r \in Request |-> NULL]
    /\ work = [r \in Request |-> NoWork]
    /\ now = 0

-----------------------------------------------------------------------------
(* register                                                                *)

RegisterFind(r) ==
    /\ Arrive(r, "register", NULL)
    /\ IF user # NULL
       THEN Answer(r, "conflict")
       ELSE /\ Goto(r, "free")
            /\ Local(r, [NoWork EXCEPT !.owner = r, !.started = now])
            /\ UNCHANGED <<locks, now>>

\* legal_pages has no Terms in the locale.
TermsMissing(r) == Arrive(r, "register", NULL) /\ user = NULL /\ Answer(r, "unavailable")

\* The INSERT of the user: a duplicate waits for the open insert or delete of
\* the other; the IntegrityError becomes a conflict.  Its token and its email
\* are inserted with nobody to wait for.
RegisterInsert(r) ==
    /\ pc[r] = "free"
    /\ creating = NULL /\ ~HeldByOthers(r, {"exclusive"})
    /\ IF user # NULL
       THEN Answer(r, "conflict")
       ELSE /\ creating' = r
            /\ Goto(r, "inserted")
            /\ Local(r, [work[r] EXCEPT !.clock = now])
            /\ UNCHANGED <<userLock, tokenLock, inserting, now>>
    /\ UNCHANGED <<rows, op, given>>

RegisterCommit(r) ==
    /\ pc[r] = "inserted" /\ op[r] = "register"
    /\ user' = [id |-> r, verified |-> FALSE]
    /\ tokens' = [tokens EXCEPT !["confirmation"] = NewToken(r)]
    /\ status' = [status EXCEPT ![r] = "queued"]
    /\ Answer(r, "ok")
    /\ UNCHANGED <<attempt, delivered, op, given>>

-----------------------------------------------------------------------------
(* resend_confirmation and forgot_password                                 *)

\* get_by_email; an address with no account, or one in the wrong state, gets
\* the same answer as any other.
IssueFind(r, operation) ==
    /\ Arrive(r, operation, NULL)
    /\ IF user # NULL /\ user.verified = (operation = "forgot")
       THEN /\ Goto(r, "found")
            /\ LET k == KindFor(operation)
               IN  Local(r, [NoWork EXCEPT !.owner = user.id, !.started = now,
                             !.had = IF IsOf(k, user.id) THEN tokens[k].id ELSE NULL])
            /\ UNCHANGED <<locks, now>>
       ELSE Answer(r, "ok")

\* now = _utc_now()
IssueClock(r) ==
    /\ pc[r] = "found"
    /\ Goto(r, "timed")
    /\ Local(r, [work[r] EXCEPT !.clock = now])
    /\ UNCHANGED <<rows, locks, op, given, now>>

\* Faulty variant: the age is read from the table of the other links.
IssueCooldownOfOther(r) ==
    /\ pc[r] = "timed"
    /\ \E k \in Kind \ {KindOf(r)} :
          IF IsOf(k, work[r].owner) /\ tokens[k].created + Cooldown > work[r].clock
          THEN Answer(r, "ok")
          ELSE Goto(r, "due") /\ UNCHANGED <<locks, work, now>>
    /\ UNCHANGED <<rows, op, given>>

\* get_for_user, a read that locks nothing.
IssueCooldown(r) ==
    /\ pc[r] = "timed"
    /\ LET k == KindOf(r)
       IN  IF IsOf(k, work[r].owner) /\ tokens[k].created + Cooldown > work[r].clock
           THEN Answer(r, "ok")
           ELSE Goto(r, "due") /\ UNCHANGED <<locks, work, now>>
    /\ UNCHANGED <<rows, op, given>>

\* replace begins with DELETE ... WHERE user_id: the row its snapshot finds,
DeleteScan(r) ==
    /\ pc[r] = "due"
    /\ LET k == KindOf(r)
       IN  Local(r, [work[r] EXCEPT !.target = IF IsOf(k, work[r].owner)
                                               THEN tokens[k].id ELSE NULL])
    /\ Goto(r, "scanned")
    /\ UNCHANGED <<rows, locks, op, given, now>>

\* Faulty variant: the row is deleted at once, in a transaction of its own.
DeleteAndCommit(r) ==
    /\ pc[r] = "scanned"
    /\ LET k == KindOf(r)
           found == tokens[k] # NULL /\ tokens[k].id = work[r].target
       IN  /\ found => tokenLock[k] = NULL
           /\ tokens' = IF found THEN [tokens EXCEPT ![k] = NULL] ELSE tokens
           /\ status' = IF found THEN Withdrawn({work[r].target}) ELSE status
    /\ Goto(r, "deleted")
    /\ UNCHANGED <<user, attempt, delivered, locks, op, given, work, now>>

\* which it then locks if it is still there.
DeleteLock(r) ==
    /\ pc[r] = "scanned"
    /\ LET k == KindOf(r)
           found == tokens[k] # NULL /\ tokens[k].id = work[r].target
       IN  /\ found => tokenLock[k] = NULL
           /\ tokenLock' = IF found THEN [tokenLock EXCEPT ![k] = r] ELSE tokenLock
    /\ Goto(r, "deleted")
    /\ UNCHANGED <<rows, userLock, inserting, creating, op, given, work, now>>

\* Another transaction decides whether r's INSERT is a duplicate: it has
\* inserted a token of this kind or deleted the one that is there.
UniqueUndecided(r, k) ==
    \/ inserting[k] # NULL
    \/ tokens[k] # NULL /\ tokenLock[k] \notin {NULL, r} /\ pc[tokenLock[k]] # "locked"

\* The INSERT, its unique user_id and its foreign key.  The handler catches no
\* IntegrityError: it is answered 500.
IssueInsert(r) ==
    /\ pc[r] = "deleted"
    /\ LET k == KindOf(r)
           duplicate == IsOf(k, work[r].owner) /\ tokenLock[k] # r
           orphan == user = NULL \/ user.id # work[r].owner
       IN  /\ ~UniqueUndecided(r, k) /\ ~HeldByOthers(r, {"exclusive"})
           /\ IF duplicate \/ orphan
              THEN Answer(r, "error")
              ELSE /\ inserting' = [inserting EXCEPT ![k] = r]
                   /\ userLock' = [userLock EXCEPT ![r] = "share"]
                   /\ Goto(r, "inserted")
                   /\ UNCHANGED <<tokenLock, creating, work, now>>
    /\ UNCHANGED <<rows, op, given>>

\* Faulty variant: the email is left to a transaction of its own.
CommitWithoutEmail(r) ==
    /\ pc[r] = "inserted" /\ op[r] \in {"resend", "forgot"}
    /\ tokens' = [tokens EXCEPT ![KindOf(r)] = NewToken(r)]
    /\ status' = Withdrawn({work[r].target})
    /\ Answer(r, "ok")
    /\ UNCHANGED <<user, attempt, delivered, op, given>>

\* One commit takes away the old link with its email and brings the new ones.
IssueCommit(r) ==
    /\ pc[r] = "inserted" /\ op[r] \in {"resend", "forgot"}
    /\ LET k == KindOf(r)
           old == IF tokenLock[k] = r THEN {tokens[k].id} ELSE {}
       IN  /\ tokens' = [tokens EXCEPT ![k] = NewToken(r)]
           /\ status' = [Withdrawn(old) EXCEPT ![r] = "queued"]
    /\ Answer(r, "ok")
    /\ UNCHANGED <<user, attempt, delivered, op, given>>

-----------------------------------------------------------------------------
(* confirm_email, and the link's part of reset_password                    *)

\* Faulty variant: no FOR UPDATE.
ConsumeRead(r, operation, link) ==
    /\ Arrive(r, operation, link)
    /\ LET k == KindFor(operation)
       IN  tokens[k] # NULL /\ tokens[k].id = link /\ tokens[k].expires > now
    /\ Goto(r, "locked")
    /\ UNCHANGED <<locks, work, now>>

\* get_for_update by hash, the look at expires_at and the read of the user.
ConsumeLock(r, operation, link) ==
    /\ Arrive(r, operation, link)
    /\ LET k == KindFor(operation)
           found == tokens[k] # NULL /\ tokens[k].id = link
       IN  /\ found => tokenLock[k] = NULL
           /\ IF found /\ tokens[k].expires > now
              THEN /\ tokenLock' = [tokenLock EXCEPT ![k] = r]
                   /\ Goto(r, "locked")
                   /\ UNCHANGED <<userLock, inserting, creating, work, now>>
              ELSE Answer(r, "rejected")

\* The UPDATE of the user and the DELETE of the token.
ConsumeDelete(r) ==
    /\ pc[r] = "locked"
    /\ ~HeldByOthers(r, {"write", "exclusive"})
    /\ userLock' = [userLock EXCEPT ![r] = "write"]
    /\ Goto(r, "used")
    /\ UNCHANGED <<rows, tokenLock, inserting, creating, op, given, work, now>>

ConsumeCommit(r) ==
    /\ pc[r] = "used"
    /\ user' = IF op[r] = "confirm" THEN [user EXCEPT !.verified = TRUE] ELSE user
    /\ tokens' = [tokens EXCEPT ![KindOf(r)] = NULL]
    /\ status' = Withdrawn({given[r]})
    /\ Answer(r, "ok")
    /\ UNCHANGED <<attempt, delivered, op, given>>

-----------------------------------------------------------------------------
(* delete_account, after its password check                                *)

DeleteFind(r) ==
    /\ Arrive(r, "delete", NULL)
    /\ user # NULL /\ user.verified
    /\ Goto(r, "verified")
    /\ Local(r, [NoWork EXCEPT !.owner = user.id])
    /\ UNCHANGED <<locks, now>>

DeleteUser(r) ==
    /\ pc[r] = "verified"
    /\ ~HeldByOthers(r, {"share", "write", "exclusive"})
    /\ IF user = NULL \/ user.id # work[r].owner
       THEN Answer(r, "ok")
       ELSE /\ userLock' = [userLock EXCEPT ![r] = "exclusive"]
            /\ Goto(r, "deleting")
            /\ UNCHANGED <<tokenLock, inserting, creating, work, now>>
    /\ UNCHANGED <<rows, op, given>>

\* The cascade waits for the token rows, then everything goes at the commit.
DeleteCommit(r) ==
    /\ pc[r] = "deleting"
    /\ \A k \in Kind : tokens[k] # NULL => tokenLock[k] = NULL
    /\ user' = NULL
    /\ tokens' = [k \in Kind |-> NULL]
    /\ status' = Withdrawn({tokens[k].id : k \in {k \in Kind : tokens[k] # NULL}})
    /\ Answer(r, "ok")
    /\ UNCHANGED <<attempt, delivered, op, given>>

-----------------------------------------------------------------------------
Running(r) ==
    pc[r] \in {"free", "found", "timed", "due", "scanned", "deleted", "inserted", "locked",
               "used", "verified", "deleting"}

\* A lost connection, a stopped process, or the victim of a deadlock.
Abort(r) == Running(r) /\ Answer(r, "aborted") /\ UNCHANGED <<rows, op, given>>

\* Clients register, ask for links, and use the links they were sent.
Arrival(r) ==
    \/ RegisterFind(r) \/ TermsMissing(r) \/ DeleteFind(r)
    \/ \E operation \in {"resend", "forgot"} : IssueFind(r, operation)
    \/ \E operation \in {"confirm", "reset"}, link \in delivered :
          ConsumeLock(r, operation, link)

Proceed(r) ==
    \/ RegisterInsert(r) \/ RegisterCommit(r)
    \/ IssueClock(r) \/ IssueCooldown(r)
    \/ DeleteScan(r) \/ DeleteLock(r) \/ IssueInsert(r) \/ IssueCommit(r)
    \/ ConsumeDelete(r) \/ ConsumeCommit(r)
    \/ DeleteUser(r) \/ DeleteCommit(r)

\* What the outbox's workers may do at any time.
Deliver(w) ==
    /\ \/ \E j \in Id : Outbox!Begin(w, j)
       \/ Outbox!Accept(w) \/ Outbox!LetGo(w) \/ Outbox!Finish(w) \/ Outbox!GiveUp(w)
    /\ UNCHANGED <<user, tokens, locks, op, pc, given, work, now>>

Tick ==
    /\ now < MaxTime
    /\ now' = now + 1
    /\ UNCHANGED <<rows, locks, op, pc, given, work>>

Next ==
    \/ \E r \in Request : Arrival(r) \/ Proceed(r) \/ Abort(r)
    \/ \E w \in Worker : Deliver(w)
    \/ Tick

Spec == Init /\ [][Next]_vars

-----------------------------------------------------------------------------
(* Properties                                                              *)

TypeOK ==
    /\ user \in UserRow \union {NULL}
    /\ tokens \in [Kind -> TokenRow \union {NULL}]
    /\ status \in [Id -> Outbox!Status]
    /\ attempt \in [Worker -> Id \union {NULL}]
    /\ delivered \subseteq Id
    /\ userLock \in [Request -> {"none", "share", "write", "exclusive"}]
    /\ tokenLock \in [Kind -> Request \union {NULL}]
    /\ inserting \in [Kind -> Request \union {NULL}]
    /\ creating \in Request \union {NULL}
    /\ op \in [Request -> {"register", "resend", "forgot", "confirm", "reset", "delete", NULL}]
    /\ pc \in [Request -> {"new", "free", "found", "timed", "due", "scanned", "deleted", "inserted",
                           "locked", "used", "verified", "deleting", "ok", "conflict",
                           "unavailable", "rejected", "error", "aborted"}]
    /\ given \in [Request -> Id \union {NULL}]
    /\ work \in [Request -> [owner : Id \union {NULL}, started : Time, clock : Time,
                             target : Id \union {NULL}, had : Id \union {NULL}]]
    /\ now \in Time

Live(link) == \E k \in Kind : tokens[k] # NULL /\ tokens[k].id = link

\* A link and its email come together and go together: every link in the
\* tables has an email that was sent or still can be, unless it is a dead
\* letter, and no email waits in the queue for a link that no longer works.
LinkAndEmailTogether ==
    \A link \in Id :
        /\ Live(link) => status[link] \in {"queued", "done", "dead"}
        /\ status[link] = "queued" => Live(link)

\* An account that is not confirmed always has a confirmation token, however
\* resends, confirmations and failures cross: it is never left without a row
\* to confirm or to replace.
UnverifiedCanConfirm ==
    user # NULL /\ ~user.verified => IsOf("confirmation", user.id)

\* Tokens belong to the account that now has the address, never to a deleted
\* one whose owner registered again.
TokensOfTheAccount ==
    \A k \in Kind : tokens[k] # NULL => user # NULL /\ user.id = tokens[k].user

\* forgot_password is for confirmed accounts: no unconfirmed account ever has
\* a reset link, even if it took the address of a confirmed one meanwhile.
ResetLinksOnlyForVerified ==
    tokens["reset"] # NULL => user # NULL /\ user.verified

\* The tables hold rows of their types, and an account and its tokens agree,
\* which no constraint of the schema but the foreign keys says.
Consistent ==
    TypeOK /\ TokensOfTheAccount /\ ResetLinksOnlyForVerified /\ UnverifiedCanConfirm

\* Every confirmation and reset that succeeds uses up the link it came with,
\* which is the current one: a link works once, and never after its
\* replacement.
OnlyTheCurrentLinkWorks ==
    [][\A r \in Request :
          pc[r] = "used" /\ pc'[r] = "ok" =>
             /\ tokens[KindOf(r)] # NULL /\ tokens[KindOf(r)].id = given[r]
             /\ ~Live(given[r])']_vars

\* A link that was there when another was asked for is replaced only after its
\* cooldown, whatever happens meanwhile.  (Of requests that cross, each may
\* replace a link that the other made a moment ago.)
LinkKeptForItsCooldown ==
    [][\A r \in Request :
          LET old == tokens[KindOf(r)]
          IN  /\ op[r] \in {"resend", "forgot"}
              /\ pc[r] = "inserted" /\ pc'[r] = "ok"
              /\ old # NULL /\ old.id = work[r].had
              => old.created + Cooldown <= now]_vars

\* "Queue reset instructions without revealing whether an account exists":
\* every forgot_password and every resend_confirmation that is answered gets
\* the same message.  A request that crosses another one is answered 500.
SameAnswerForAll ==
    \A r \in Request : op[r] \in {"resend", "forgot"} => pc[r] # "error"

=============================================================================

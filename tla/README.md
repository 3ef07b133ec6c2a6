# Events API: TLA+ models and proofs

These modules model the stateful core of the Events API (`src/app`, FastAPI with async
SQLAlchemy on PostgreSQL at READ COMMITTED): what concurrent requests and background
workers do to the rows they share.

## 1. The system

| component | state | operations | interacts with |
|---|---|---|---|
| Email outbox (`mailer/repository.py`, `mailer/outbox.py`, `mailer/models.py`, started by `main.py`) | table `email_outbox_jobs`; each worker's claim | enqueue, claim_next, complete, retry_later, fail; one worker loop per API process | requests enqueue in their own transaction; jobs go with their token by cascade; the sender |
| Email provider adapter (`mailer/resend.py`) | none between calls | send with retries and an idempotency key | called by the worker, raises `EmailDeliveryError` |
| Sessions and passwords (`auth/service.py`, `auth/session_repository.py`, `users/service.py`) | `users.password_hash`, `refresh_token_sessions`, `password_reset_tokens` | login, refresh, logout, reset_password, change_password, delete_account | row locks, foreign keys, cascades |
| Access tokens (`core/security.py`, `core/dependencies.py`) | none on the server: a token names an account and an expiry | create, decode, get_current_user | made by login and refresh, presented to every authenticated request |
| Legal pages (`legal/`) | `legal_pages`, published outside the API | get_terms_version | registration records the version |
| Token issuing (`auth/service.py`, `auth/repository.py`, `auth/password_repository.py`) | `email_confirmation_tokens`, `password_reset_tokens` | register, confirm_email, resend_confirmation, forgot_password | enqueues into the outbox; deleting a token cascades to its job |
| Profile (`users/repository.py`, `users/router.py`) | favorites, marketing consents | add, remove, update | events (favorites are ids without a foreign key) |
| Event catalogue (`events/`) | `events`, popularity | list with filters, get (increments popularity) | favorites |
| Issue reports (`reports/`) | none | submit_report | outbox, a job no token owns |
| Configuration, hashing, schemas, error handlers | none that requests change | pure functions | all |

Hard behaviours: leases that expire under a live worker; crashes between a committed
claim and its settling; answers lost after the provider accepted; cascades under a
worker; requests that verify on an unlocked read and write later; locks taken in
different orders; revocation that races logins and refreshes; credentials that outlive
the account or session they were made for; clocks and versions read in one statement
and used in another. `PROJECT.json` lists each at its line with the properties for it.

## 2. The modules

| module | models |
|---|---|
| `OutboxPromise` | what the outbox promises: an at-least-once queue, without rows, leases or time |
| `EmailOutbox` | the table, its statements and the workers; its properties; the refinement to `OutboxPromise` |
| `QueuedEmails` | the requests that queue emails over `EmailOutbox`, and how long an email can stay queued |
| `SessionPromise` | what the API promises about login sessions, without locks, tokens or clocks |
| `PasswordSessions` | one account's password, reset token and sessions under concurrent requests |
| `Accounts` | the accounts an address has over time: Terms, sessions and access tokens with their lifetimes |
| `TokenIssue` | confirmation and reset links of one address and their emails, over `OutboxPromise` |
| `ResendSender` | the adapter's calls, posts, retries and delays against the provider |
| `ProfileUpdates` | concurrent updates of one user's row and of the popularity of events |
| `EventQuery` | filters, order and pages of the event list |
| `EmailOutboxProofs`, `QueuedEmailsProofs`, `PasswordSessionsProofs`, `AccountsProofs`, `TokenIssueProofs`, `ResendSenderProofs`, `ProfileUpdatesProofs`, `EventQueryProofs` | the theorems about the module they extend, with its inductive invariant and the refinements |
| `MCEmailOutbox`, `MCQueuedEmails`, `MCPasswordSessions`, `MCAccounts`, `MCTokenIssue`, `MCResendSender`, `MCProfileUpdates`, `MCEventQuery` | symmetry and constants for TLC |

`EmailOutbox` and `TokenIssue` meet in `OutboxPromise`: the one implements it, the
other uses its actions for the workers and does with its transactions only what it
allows (both proved). `EmailOutbox` and `ResendSender` meet in the length of a call:
the times of `QueuedEmails` assume that a call fits into a lease, which
`SendFitsLease` says and is proved for any numbers that add up, and the verdicts of a
call are the outcomes `Deliver` and `Refuse` choose from. `PasswordSessions` and
`Accounts` meet in `SessionPromise`: both are proved to implement it, the one
statement by statement for one account, the other from one account of an address to
the next.

A definition called a *faulty variant* is not part of a specification. Each stands
next to the definition it distorts and shows that a property is broken by the mistake
it names; no other definition uses it.

`Consistent` is in each module that has it the type invariant together with what the
rows of its tables must agree on at every commit: nothing of a deleted account
(`NothingOutlivesTheAccount`), sessions and tokens of the account that has the address
only (`SessionsOfTheAccount`, `TokensOfTheAccount`), reset links for confirmed
accounts and a confirmation token for others (`ResetLinksOnlyForVerified`,
`UnverifiedCanConfirm`), no favorite twice (`NoDuplicateFavorites`). The types of
`EmailOutbox` are in its `TypeOK`, a theorem and no property of a run.

### EmailOutbox

`jobs[j]` is the row of job `j` with the columns that decide anything (lease,
attempts, schedule, failure, and whether the bodies are still there). A worker goes
`idle -> polling -> claiming -> sending -> settling -> idle`; the arrows are
`ReadNow`, `SelectDue`, `CommitClaim`, `Deliver`/`Refuse` and
`Complete`/`RetryLater`/`Fail`, as in `process_next_email`. `now[w]` is what the
worker last read from `now()`, so a stale `claimed_at` is a behaviour. `lockedBy` is
the row lock of an open claim transaction. `Fault` is a crash, a cancelled worker, or
an exception that is not `EmailDeliveryError`, at any place, between two iterations
too. `Cancel` is the cascade from the token. The `uuid4` token of a claim is the pair
of worker and attempt number, which is fresh for the row because the counter grows
with every committed claim. `last_error_code` keeps only whether the error could be
retried.

Abstractions: SELECT ... FOR UPDATE SKIP LOCKED is one step; a settling statement and
its commit are one step (its effect is all or nothing, and a row lock held in between
only makes a claim skip the row); a request's enqueue is its commit; the poll sleep is
the worker's freedom to stay idle (`QueuedEmails` gives it a length). The history
variables `enqueued`, `cancelled` and `delivered` are read by no guard except that an
id is inserted once.

### QueuedEmails

`QueueLink` is the end of a request that commits a token with its email,
`SubmitReport` a report's, which nothing can cancel: once accepted it is delivered or
kept as a dead letter (`NeverSilentlyDropped`, `EventuallySettled`). Both are
`Enqueue`, and the workers' steps are those of `EmailOutbox` with the pace of
`run_email_worker`: a worker has one email in hand until it is settled, polls again at
once (`Poll`), sleeps `PollInterval` when nothing is due (`Sleep`), and after an
exception or a crash sleeps or is down for at most `Downtime` (`Interrupted`). `wake`
is the end of its sleep. Time passes only while every worker sleeps or waits for the
provider (`Timely`), so statements take less than a tick and a send less than a lease;
a row that is due waits like any other, behind whatever the workers are doing.

`born` and `ahead` are history: when an email was queued, and how many others each
worker took while it was due. Another email counts as ahead unless this one's turn had
come: it was free and had waited longer (`Overtaken`). claim_next takes the row that
is due first, so an email that comes later never goes ahead of one that waits, except
while that one is leased. `SettledInTime` says that an email is gone or a dead letter
within `LongestStay` of its request, and less than a lease for each email ahead of it.
`LongestStay` is what the code's constants say of the rest: every retry delay once
(`Delays` adds them up); for every attempt, the time until the worker comes to it
(`Wait`: it sleeps, or sends another email) and its lease; for every fault, a lease
and another wait or the downtime. The bound is tight in the run: one tick less is
violated.

With the code's numbers, in seconds, the delays are 26 010, and each of eight attempts
waits at most 118 for the worker and less than 120 for its lease: seven and three
quarter hours, without faults. Each email ahead adds less than two minutes, so that
the 24 hours of a confirmation link are not over before its email has left unless
nearly five hundred emails are ahead of it, all of them as slow as the adapter can be.
A backlog longer than that, or a worker that is down for long, can let it arrive
expired. The one hour of a reset link is less than the later retries take; the code
promises nothing else. A poll interval of `0s`, which the settings admit, polls
without a pause and is not modelled (`PollAssumption`).

### PasswordSessions

Each request is a transaction; an action is one SQL statement or the commit.
Uncommitted writes are invisible, so they are applied by the commit action; in between
a request's locks say what it will write. `userLock` has PostgreSQL's row lock
strengths (`share` = KEY SHARE of the foreign key check, `write` = NO KEY UPDATE of an
update, `exclusive` = UPDATE of a delete). `RevokeScan` and `LockRow` split `UPDATE
... WHERE revoked_at IS NULL` into the snapshot it scans and the rows it then locks
and looks at again. `Abort` rolls a request back at any point; `DeadlockVictim` is
PostgreSQL's deadlock detector. A refresh token is the pair of its session and the
number of rotations; `issued` holds what clients may present, again and late. `auth`
records under which password a session was opened and is read by properties only.

### Accounts

A transaction is split where it reads something, or the clock, that it uses later:
`RegisterFind`, `RegisterTerms` and `RegisterCommit`; `LoginAuthenticate` and
`LoginCommit`; `RefreshLock` and `RefreshCommit`; and after the commit of a login or
refresh, whose effect others see before the handler goes on: `AnswerExchange` makes
the access token by the clock it reads then. A logout, a new password or a deletion
may commit in between, and the token made afterwards outlives the session's end by
more than its own lifetime. `AccessEndsWithTheSession` allows that to such a token
alone (`Crossed`), and only up to its own expiry: a refresh that locks its session
after the end is refused. An authenticated request is `Decode`, `LoadUser` and the
operation. `access` holds every access token ever made, as clients keep them, with the
session they came with as history (the token itself does not carry it, so revocation
cannot reach it). An account is named for the request that registered it, so an
address that registers again has another one. `Publish` updates one localized row of
the Terms, as their editors do. `ended` and `used` are history. Passwords and links
are right here: what a wrong or old one does is in the two modules with statements.

`TermsInForceAreRecorded` says that the version was in force in the registration's
locale at some time of the request. The version that the client displayed before is
not sent to the API, so nothing more can be said of it.

### TokenIssue

Statements and commits as in `PasswordSessions`, for the two token tables. The path of
`resend_confirmation` and that of `forgot_password` differ in the table, the state of
the user they ask for and the durations, so they are one set of actions over `Kind`;
`replace` is `DeleteScan` (the snapshot), `DeleteLock` (the row lock and second look)
and `IssueInsert` (unique `user_id`, foreign key). `created` is the transaction's
`now()`, which PostgreSQL fixes at its first statement, while `expires` and the
cooldown are computed from the handler's later clock (`IssueClock`). `had` remembers
the link there was when a request began: two requests that cross may both replace a
link, but none replaces within the cooldown a link that it could have seen
(`LinkKeptForItsCooldown`). One commit takes away the old link with its email
(`Withdrawn`, the cascade) and enqueues the new one. Clients present only links of
delivered emails, late or again. The password's part of a reset is in
`PasswordSessions`, and the password check of a deletion too. Both durations are the
same constants for both kinds: no property compares the two.

### ResendSender

A step is one post with its answer and the delay after it. The provider knows for each
key whether it is new, in progress or accepted, which is what the adapter's
idempotency key relies on; it may refuse a post at any time, and a post whose answer
is lost may have been processed, or still be in progress. An answer is its class of
status, the code in its body, and the two headers that give advice. The jitter is its
two ends and its middle. Time counts only within a call. With one key for a message,
every call of the outbox for a job uses it; without one (`keyed` false) every call
makes its own.

### ProfileUpdates

Each request loads its row, runs one UPDATE, commits, and reads the row again.
`Applies` and the `With` operators are the statement's WHERE and SET as PostgreSQL
evaluates them after it has the row's lock; the faulty variants evaluate them on the
row that was loaded. `updated` names the request that wrote a channel instead of its
time. A consent that equals the loaded value is answered without a statement
(`ConsentUnchanged`). `met` remembers what of a request's wish the row has had since
it came, which is what its answer may claim (`AnsweredAsAsked`). The deletion of the
account is one step here, and the commit of a view (`IncrementCommit`) is one with its
answer, which reads nothing.

### EventQuery

A pure model: `Clauses` and `Keys` are the WHERE and ORDER BY clauses with SQL's three
truth values (`Selected` is a row for which all clauses are true) and PostgreSQL's
places for NULL. The catalogue is fixed, as the API never writes it except for
popularity; time passes and a client reads page after page. A request is two
statements, `Count` and `ReadRows`, with the clauses of one instant, as
`_build_filters` binds `now` once for both. `Local` maps instants to wall-clock times,
so an hour can repeat; `Instant`, its inverse, rounds down to the last instant there
is, which no property depends on. Texts are the sets of words they contain: matching
without case or accents is not modelled, nor are cents and fractions of a second (a
day ends one tick before the next begins).

## 3. What the runs show

| run | instance | shows |
|---|---|---|
| `outbox_safety` | 2 jobs (one a report), 2 workers, 1 retry delay, lease 2, clock to 3, 1 fault | leases exclude, dead letters are justified and final, nothing is dropped, erased content is never sent; the outbox is an at-least-once queue |
| `outbox_live` | 2 jobs (one a report), 1 worker, 1 retry delay, lease 2, poll interval 1, downtime 1, 1 fault, clock to 12 | every email is settled in the end, within `LongestStay` and less than a lease for each email ahead of it; attempts pass the maximum only by faults |
| `password_safety` | 3 requests, 2 passwords | single use of reset links and refresh tokens, sessions as in `SessionPromise`, nothing outlives the account, every request is answered, through deadlocks |
| `password_login_race` (violation) | 2 requests | a login in flight survives a password change (finding) |
| `password_stale_delete` (violation) | 2 requests | a deletion confirmed by an old password (finding) |
| `account_safety` | 3 requests, 2 locales, 2 versions of the Terms, access life 1, refresh life 2, clock to 2 | access tokens act for their own account and end within their life of their session's end, unless their exchange was committed before it and answered after it, sessions slide and keep `SessionPromise`, the Terms recorded were in force |
| `token_safety` | 3 requests, cooldown 1, lifetime 2, clock to 2 | links and emails come and go together, belong to the account of the address, work once, are kept for their cooldown; an unconfirmed account can always be confirmed |
| `token_answers` (violation) | 2 requests | crossing requests are answered 500 (finding) |
| `sender` | 2 callers, 2 calls of 3 attempts, the code's delays, posts of 30 s, lease 120 s, in quarters of a second | success means acceptance, one mail per key, no fatal verdict on meeting one's own post, a call ends before the lease |
| `profile_safety` | 3 requests, 2 events and an unknown one | no lost or double favorite, independent consents, answers that were true, every view counted |
| `event_lists` | every row over 8 wall-clock ticks with 80 queries; catalogues of 3 of 6 rows with 27 queries; 5 instants with a repeated hour | status partitions, past is for good, a window is an overlap, pages show each match once and agree with their total |
| `event_free` (violation) | 243 rows | the two definitions of free differ (finding) |

Bounds. In `outbox_safety` the clock reaches one tick past a lease, enough for a
worker to outlive its lease, for another to claim, and for both to settle in either
order; two workers make every race on a row and `Job` of two makes the order of the
queue matter. In `outbox_live` there is one worker, which is how the application is
documented to run (README.md:38, "The API process also runs a durable email-outbox
worker"), so that one email waits while the other is sent, retried or left leased by a
fault. A lease of two ticks lets a send take time. The clock's bound is never reached,
as time waits while nothing is queued. Several workers are in `outbox_safety` and,
with any number of jobs, in the theorems. Three requests in `password_safety` allow a
change or reset to meet a refresh and a login; each request may be of any kind, and
two suffice for the cycles the locks admit, as only the user row and the reset token
are locked in both orders. Three requests in `account_safety` let an address be
deleted and registered again while a login or a token of the first account is under
way; the clock passes both lifetimes, and two versions in two locales let the rows be
out of step. In `token_safety` three requests let two cross while a third deletes the
account or uses the link, which is the longest chain a property speaks of, and the
clock passes the cooldown and the lifetime. Two calls in `sender` overlap or are
repeated. The date properties look at one row, so `event_lists` gives them every row;
what is about order gets three. `CHECK_DEADLOCK FALSE` in every run: a system whose
jobs are settled, whose clock is at its bound or whose requests are all answered
stops.

Fairness. `outbox_live` uses `QueueSpec`: each worker takes its steps
(`run_email_worker` loops for ever and swallows exceptions; a process that stopped is
started again within `Downtime`) and time passes. What `Timely` asks, that a send ends
within its lease and that statements are fast, the code's numbers justify: the adapter
posts at most three times with a 10 s timeout and waits at most 5 s in between, the
lease is 120 s, and a statement is short against both. It asks nothing of the queue:
rows that are due may wait for any time while the workers are busy, asleep or down.
Safety runs do not assume it. `password_safety` assumes no more than that the system
does not stop altogether: while some request can run its next statement, or is a
member of a deadlock that PostgreSQL can abort, one of these happens in the end. As
every request has finitely many statements, that is enough for each to be answered.
`SendFitsLease` takes a post for at most 30 s: httpx bounds connecting, writing and
each read by 10 s, which is what it allows to a provider that answers in one read; one
that sends its answer in pieces is not bounded by the client, and is left out.

## 4. What is proved

Every safety property of the passing runs, the refinements of the two promises
included, is the statement of a theorem, for any sets of requests, workers, jobs,
events, locales and any durations; the bounds on clocks, counters and calls are
arbitrary naturals. The assumptions are the named ones of the modules, which TLC
evaluates in every run: markers such as `NULL` and `First` are values of their own,
durations and delays are natural numbers, the poll interval is positive and no
longer than the downtime, and what is said below.

A property is seldom inductive. Each proof module starts with an `Inv` of named parts
that is, has one lemma per action that it is kept, and ends with the theorems. The
invariants differ in what the code relies on without looking again:

**`EmailOutboxProofs`: a lease is recorded three times**, in the row, in the worker's
`ClaimedEmailJob`, and implicitly in the `claimed_at` the worker read. `Inv` says that
they agree as long as the lease runs and the row exists (`LeaseIsRecorded`); that a
locked row is still due at the claimer's time (`LocksAreClaims`), so that committing a
claim cannot overlap a running lease; that tokens name their worker and attempt
(`ClaimsAreOwn`, `RowsAreKnown`), so that a row owned by one worker is owned by no
other and its attempts are those the worker decides on; and that an outcome of
acceptance means delivery (`OutcomesAreReal`). The settling actions share `SettleInv`.
`WhoChangesARow` lists the ways a row can change, from which the action properties
follow. `Implementation` maps every step to a step of `OutboxPromise` or a stutter;
`Inv` is needed for the settling steps, whose worker must be the one the promise
knows.

**`QueuedEmailsProofs`: one row and one worker at a time** (`Kept`). A worker that
still owns a row has a running lease (`LeaseHolds`), and each attempt beyond the
maximum is paid by a fault (`Paid`). The row has a `Deadline`, by which it falls due
or its lease ends: the time of its attempts and delays (`Stay`), of the faults, and of
the emails that each worker took before it. The deadline moves only with one of these,
and no worker is ever far from it (`PacedBy`): asleep, or busy with another email, it
is back within `Wait`. A fault that hits the row's lease costs it an attempt and any
other only a wait, so the invariant keeps how many were of which sort.
`AttemptsBounded` and `SettlesInTime` follow for any list of delays, any number of
jobs, and any number of workers: more workers cannot delay an email, as the bound
holds of the emails that each of them took alone. `QueueIsOutbox` carries the theorems
of `EmailOutbox` over. A sum of delays is a recursive function; that it exists, and
that `Stay` grows, is proved from the least natural number of a set (`LeastNatural`),
because the library's induction rules are out of reach here.

**`PasswordSessionsProofs`: what a transaction saw stays true because of the locks it
holds.** For each place in a transaction (`InPlace`), the user row is locked from the
statement that writes it to the commit (`HoldsTheUser`), a reset has its link
(`HoldsTheLink`), a refresh or logout its session (`HoldsItsSession`), and a session
that a revocation's scan found is still to be locked, is locked, or no longer counts
(`SweepsSessions`). Single use of a link is then that a successful reset has deleted
it (`OneResetSucceeds`, `ResetLinkGoesWithTheChange`); single rotation, that an
exchanged token is behind its session for good (`SpentItsToken`). Theorems:
`Consistent`, `SingleUseReset`, `SingleRotation`, `RevokesEverySessionFound`, and that
the statements implement `SessionPromise`.

**`AccountsProofs`: an access token is beyond the server's reach**, so what is proved
of it rests on when it was made. `Inv` keeps for every token whose session it came
with and that it expires within its lifetime of now (`AccessFollowsTheSession`); that
an exchange still to be answered knows its session (`KnowsItsExchange`) and that none
committed after its session's end (`ExchangesAreInTime`), which its row lock and
second look ensure; that a row tells what happened to its session
(`RowsTellTheHistory`); that accounts and sessions have names no other ever had
(`NamesAreUsedOnce`); and what each request has read still means (`ReadsTheTerms`,
`KnowsItsAccount`, `HoldsItsSession`, `CameWithAToken`). Theorems: `Consistent`,
`ActsForItsOwnAccount`, `AccessEndsWithTheSession`, `SlidingWindow`,
`TermsInForceAreRecorded`, and that it implements `SessionPromise`.

**`TokenIssueProofs`: a link that is replaced or used is locked, and it is still the
one that was looked at.** `HoldsItsInsert` and `HoldsItsLink` say so for each place,
`KnowsTheLink` that the link there was at the beginning is, if it is still there, past
its cooldown. Theorems: `Consistent`, `LinkAndEmailTogether`,
`OnlyTheCurrentLinkWorks`, `LinkKeptForItsCooldown`, and `OutboxUsedAsPromised`: a
transaction withdraws only emails that have not left and queues at most one, new to
the outbox (`NoEmailYet`), so the module uses the outbox as `OutboxPromise` allows.
That one is no property of a run, as a transaction can be a withdrawal and an
enqueueing in one commit.

**`ResendSenderProofs`: the provider's ledger.** Only keys that a call has posted with
are known to the provider, and the mails are as many as the accepted keys (`Ledger`);
a call has not overdrawn the time of its attempts (`InPlace`). Theorems:
`SentMeansAccepted`, `OneMailPerKey`, `OverlapIsNotFatal`, and `SendFitsLease` for all
numbers for which `Budget` (all posts, and the longest delay between any two) is below
the lease. The code's are 3 posts of at most 30 s and 2 delays of at most 5 s, 100 s
in 120 s.

**`ProfileUpdatesProofs`: from its UPDATE to its commit a request has the row's lock,
and the row is as its WHERE clause found it** (`HoldsItsRow`); what a request will not
write it has met (`HasMet`). `array_remove` is treated by ranks: the positions that
are kept are finitely many, and of each rank up to their number there is one; so
exactly the element goes and no other comes twice (`WithoutFacts`), removing again
changes nothing (`WithoutTwice`), and undoing an append is a removal (`AppendFacts`).
Theorems: `Consistent`, `EveryViewCounted`, `FavoritesDoNotOverwrite`,
`ChannelsIndependent`, `AnsweredAsAsked`. Requests and known events are finitely many
(`FinitenessAssumption`).

**`EventQueryProofs`: a total order.** The properties of single rows follow from what
each clause is worth in three-valued logic (`SelectedWhen`). The keys of a row end in
its id, so the lexicographic order is total (`Lexicographic`, `BeforeOrder`), the
matches have exactly one sorted enumeration (`OneOrdering`), and the pages read so far
are its beginning as long as the instant of the clauses stays the same (`Reading`,
`PagesSoFar`). Theorems: `StatusPartitions`, `WindowIsOverlap`, `PastForGood`,
`PagesShowEachOnce`, `TotalAndRowsAgree`. `PastForGood` needs `ClockAssumption`: the
clock is set back, but not across midnight, as in Vilnius.

Only model-checked: that every email is settled (`EventuallySettled`) and every
request answered (`EveryRequestAnswered`), which with their fairness are beyond the
prover, and the violations of section 5, which are counterexamples. TLC's runs still
matter where a theorem exists: they show that the interesting behaviours are there,
and that each property can be broken by a mistake in the code.

## 5. Findings

Four runs show a disagreement between the code and what its documents or tests say.
`PROJECT.json` quotes the lines.

- `ActiveSessionsPostdatePassword`: a login that has checked the old password
  inserts its session after a password change has revoked the others.
- `DeletesWithCurrentPassword`: an account can be deleted by a password that has
  been changed since the request read it.
- `SameAnswerForAll`: a crossing request for a link is answered 500, which happens
  only if there is an account.
- `FreeHasOneDefinition`: empty text counts as absent in Python and not in SQL.

## 6. Plan

The modules above are complete for the code they name, and their safety is proved.
What is left:

1. An abstract set of favorites, with additions and removals that commute for
   different events, which the array of `ProfileUpdates` implements.
2. The order of `DateKeys` (long and unknown events last) as a property of the
   pages and a theorem.
3. One composition of `QueuedEmails` and `TokenIssue` with time, to say of one link
   by when its email arrives.

## 7. Not modelled

Hashing, the encoding of tokens, settings, most input validation and error handlers,
which are pure functions of library calls; the text of emails and reports; migrations,
whose constraints appear in the modules that depend on them; the ingest process that
writes events, which is not in the repository; clock skew between processes; that
ascending dates put long and unknown events last, which `DateKeys` says as the code
does and no property repeats. A resend that crosses a confirmation leaves a confirmed
user with a confirmation token; that is in the model, and nothing says that it must
not be.

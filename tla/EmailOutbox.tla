---------------------------- MODULE EmailOutbox ----------------------------
(***************************************************************************)
(* The durable email outbox: the email_outbox_jobs table                   *)
(* (app/mailer/models.py), the statements that change it                   *)
(* (app/mailer/repository.py) and the delivery workers that run them       *)
(* (app/mailer/outbox.py), one worker per API process.                     *)
(*                                                                         *)
(* One action is one database statement or one await of a worker, so that  *)
(* everything another process can do between two awaits can happen here.   *)
(* The claim is a transaction of several steps and holds the row lock that *)
(* FOR UPDATE takes (lockedBy); the settling transactions are one fenced   *)
(* statement and a commit, and are one step.                               *)
(*                                                                         *)
(* Times are natural numbers.  clock is real time; now[w] is the last      *)
(* value worker w got from now(), which the clock may have left behind.    *)
(***************************************************************************)
EXTENDS Naturals, Sequences

CONSTANTS
    Job,           \* ids of the emails that may be queued; ids order the queue
    Report,        \* the issue reports among them: jobs that no token owns
    Worker,        \* delivery workers, one per API process
    RetryDelays,   \* RETRY_DELAYS, in ticks of the clock
    LeaseDuration, \* DEFAULT_LEASE_DURATION, in ticks
    Horizon,       \* bound: the clock stops here
    MaxFaults,     \* bound: crashes, cancellations and unexpected exceptions
    NULL           \* SQL NULL and Python None

ASSUME JobAssumption == Job \subseteq Nat /\ Report \subseteq Job
ASSUME TimingAssumption ==
    /\ RetryDelays \in Seq(Nat \ {0})
    /\ LeaseDuration \in Nat \ {0}
    /\ Horizon \in Nat
    /\ MaxFaults \in Nat
VARIABLES
    jobs,       \* the table: [Job -> Row \union {NULL}], NULL when there is no row
    lockedBy,   \* the worker whose open claim transaction holds the row lock
    pc,         \* where each worker is in process_next_email
    now,        \* each worker's last reading of now()
    claim,      \* each worker's ClaimedEmailJob
    outcome,    \* how the provider call ended
    clock,
    faults,     \* how many faults there were
    enqueued,   \* history: the ids ever inserted
    cancelled,  \* history: the ids deleted with the token that owned them
    delivered   \* history: the ids the provider has accepted at least once

worker == <<pc, now, claim, outcome>>
history == <<enqueued, cancelled, delivered>>
vars == <<jobs, lockedBy, worker, clock, faults, history>>

-----------------------------------------------------------------------------
MaxAttempts == Len(RetryDelays) + 1

\* uuid4() of a claim: no two claims of one row draw the same value.  A row's
\* attempts counter grows with each committed claim, so the pair is as fresh.
Token == Worker \X Nat

Row == [attempts : Nat,
        next_attempt_at : Nat,
        locked_until : Nat \union {NULL},
        lock_token : Token \union {NULL},
        last_error_code : {"none", "retryable", "fatal"},
        failed_at : Nat \union {NULL},
        body : {"full", "erased"}]

ClaimedEmailJob == [id : Job, attempts : Nat \ {0}, lock_token : Token,
                    body : {"full", "erased"}]

\* NULL is a value of its own.
ASSUME NullAssumption ==
    /\ NULL \notin Nat /\ NULL \notin Worker /\ NULL \notin Token
    /\ NULL \notin Row /\ NULL \notin ClaimedEmailJob
    /\ NULL \notin {"accepted", "retryable", "fatal"}

NewRow == [attempts |-> 0, next_attempt_at |-> clock, locked_until |-> NULL,
           lock_token |-> NULL, last_error_code |-> "none",
           failed_at |-> NULL, body |-> "full"]

Exists(j) == jobs[j] # NULL

\* Faulty variants of the next definition: the lease is not looked at; dead
\* letters are claimed again; an expired lease is never taken over.
DueIgnoringLease(j, t) ==
    Exists(j) /\ jobs[j].failed_at = NULL /\ jobs[j].next_attempt_at <= t

DueThoughDead(j, t) ==
    /\ Exists(j)
    /\ jobs[j].next_attempt_at <= t
    /\ jobs[j].locked_until # NULL => jobs[j].locked_until <= t

DueIfNeverLeased(j, t) == DueIgnoringLease(j, t) /\ jobs[j].locked_until = NULL

\* The WHERE clause of claim_next, evaluated at time t.
Due(j, t) ==
    /\ Exists(j)
    /\ jobs[j].failed_at = NULL
    /\ jobs[j].next_attempt_at <= t
    /\ jobs[j].locked_until # NULL => jobs[j].locked_until <= t

\* Faulty variant: the newest row comes first.
BeforeIfNewer(j, k) ==
    \/ jobs[j].next_attempt_at > jobs[k].next_attempt_at
    \/ jobs[j].next_attempt_at = jobs[k].next_attempt_at /\ j <= k

\* The ORDER BY of claim_next.
Before(j, k) ==
    \/ jobs[j].next_attempt_at < jobs[k].next_attempt_at
    \/ jobs[j].next_attempt_at = jobs[k].next_attempt_at /\ j <= k

\* Faulty variant: settling by id alone.
OwnsById(w) == Exists(claim[w].id)

\* The WHERE clause of complete, retry_later and fail.
Owns(w) ==
    /\ Exists(claim[w].id)
    /\ jobs[claim[w].id].lock_token = claim[w].lock_token

Unlocked(j) == lockedBy[j] = NULL

\* The worker's iteration ends; its local variables are gone.
BackToIdle(w) ==
    /\ pc' = [pc EXCEPT ![w] = "idle"]
    /\ now' = [now EXCEPT ![w] = 0]
    /\ claim' = [claim EXCEPT ![w] = NULL]
    /\ outcome' = [outcome EXCEPT ![w] = NULL]

-----------------------------------------------------------------------------
Init ==
    /\ jobs = [j \in Job |-> NULL]
    /\ lockedBy = [j \in Job |-> NULL]
    /\ pc = [w \in Worker |-> "idle"]
    /\ now = [w \in Worker |-> 0]
    /\ claim = [w \in Worker |-> NULL]
    /\ outcome = [w \in Worker |-> NULL]
    /\ clock = 0
    /\ faults = 0
    /\ enqueued = {}
    /\ cancelled = {}
    /\ delivered = {}

\* A request commits: its token row and this job become visible together.
Enqueue(j) ==
    /\ j \notin enqueued
    /\ jobs' = [jobs EXCEPT ![j] = NewRow]
    /\ enqueued' = enqueued \union {j}
    /\ UNCHANGED <<lockedBy, worker, clock, faults, cancelled, delivered>>

\* The owning token is used, replaced or deleted with its user: ON DELETE
\* CASCADE removes the job with it, leased, failed or neither.  The delete
\* waits for the row lock of an open claim.
Cancel(j) ==
    /\ j \notin Report
    /\ Exists(j)
    /\ Unlocked(j)
    /\ jobs' = [jobs EXCEPT ![j] = NULL]
    /\ cancelled' = cancelled \union {j}
    /\ UNCHANGED <<lockedBy, worker, clock, faults, enqueued, delivered>>

-----------------------------------------------------------------------------
\* claimed_at = now(), before the worker has a connection or a transaction.
ReadNow(w) ==
    /\ pc[w] = "idle"
    /\ pc' = [pc EXCEPT ![w] = "polling"]
    /\ now' = [now EXCEPT ![w] = clock]
    /\ UNCHANGED <<jobs, lockedBy, claim, outcome, clock, faults, history>>

\* SELECT ... FOR UPDATE SKIP LOCKED LIMIT 1: the first due row that no other
\* claim has locked.
SelectDue(w, j) ==
    /\ pc[w] = "polling"
    /\ Due(j, now[w]) /\ Unlocked(j)
    /\ \A k \in Job : Due(k, now[w]) /\ Unlocked(k) => Before(j, k)
    /\ lockedBy' = [lockedBy EXCEPT ![j] = w]
    /\ pc' = [pc EXCEPT ![w] = "claiming"]
    /\ UNCHANGED <<jobs, now, claim, outcome, clock, faults, history>>

NothingDue(w) ==
    /\ pc[w] = "polling"
    /\ \A k \in Job : ~(Due(k, now[w]) /\ Unlocked(k))
    /\ BackToIdle(w)
    /\ UNCHANGED <<jobs, lockedBy, clock, faults, history>>

\* The row with one more attempt, leased by w.
Leased(w, row) ==
    [row EXCEPT !.attempts = @ + 1,
                !.lock_token = <<w, row.attempts + 1>>,
                !.locked_until = now[w] + LeaseDuration]

\* The rest of claim_next and the commit that publishes the lease.
CommitClaim(w, j) ==
    /\ pc[w] = "claiming"
    /\ lockedBy[j] = w
    /\ jobs' = [jobs EXCEPT ![j] = Leased(w, jobs[j])]
    /\ claim' = [claim EXCEPT ![w] = [id |-> j,
                                      attempts |-> jobs'[j].attempts,
                                      lock_token |-> jobs'[j].lock_token,
                                      body |-> jobs'[j].body]]
    /\ lockedBy' = [lockedBy EXCEPT ![j] = NULL]
    /\ pc' = [pc EXCEPT ![w] = "sending"]
    /\ UNCHANGED <<now, outcome, clock, faults, history>>

-----------------------------------------------------------------------------
\* sender.send returns.
Deliver(w) ==
    /\ pc[w] = "sending"
    /\ delivered' = delivered \union {claim[w].id}
    /\ outcome' = [outcome EXCEPT ![w] = "accepted"]
    /\ pc' = [pc EXCEPT ![w] = "settling"]
    /\ UNCHANGED <<jobs, lockedBy, now, claim, clock, faults, enqueued, cancelled>>

\* sender.send raises EmailDeliveryError and failed_at = now() is read.  The
\* error may hide an acceptance whose answer was lost: the sender posts up to
\* three times and reports the last answer.
Refuse(w, error) ==
    /\ pc[w] = "sending"
    /\ delivered' \in {delivered, delivered \union {claim[w].id}}
    /\ outcome' = [outcome EXCEPT ![w] = error]
    /\ now' = [now EXCEPT ![w] = clock]
    /\ pc' = [pc EXCEPT ![w] = "settling"]
    /\ UNCHANGED <<jobs, lockedBy, claim, clock, faults, enqueued, cancelled>>

-----------------------------------------------------------------------------
\* What every settling transaction does: it applies its statement to the row
\* its token still owns, once no open claim locks that row, or to no row.
Settle(w, row) ==
    /\ Owns(w) => Unlocked(claim[w].id)
    /\ jobs' = IF Owns(w) THEN [jobs EXCEPT ![claim[w].id] = row] ELSE jobs
    /\ BackToIdle(w)
    /\ UNCHANGED <<lockedBy, clock, faults, history>>

\* Faulty variant: a retryable error passes for an acceptance.
CompleteUnlessFatal(w) ==
    /\ pc[w] = "settling"
    /\ outcome[w] # "fatal"
    /\ Settle(w, NULL)

Complete(w) ==
    /\ pc[w] = "settling"
    /\ outcome[w] = "accepted"
    /\ Settle(w, NULL)

\* Faulty variant: the last retry is not made.
ShouldRetryOnceLess(w) == outcome[w] = "retryable" /\ claim[w].attempts + 1 < MaxAttempts

ShouldRetry(w) == outcome[w] = "retryable" /\ claim[w].attempts < MaxAttempts

Retried(w, row) ==
    [row EXCEPT !.next_attempt_at = now[w] + RetryDelays[claim[w].attempts],
                !.locked_until = NULL,
                !.lock_token = NULL,
                !.last_error_code = outcome[w]]

RetryLater(w) ==
    /\ pc[w] = "settling"
    /\ ShouldRetry(w)
    /\ Settle(w, Retried(w, jobs[claim[w].id]))

\* Faulty variant: failed_at is not set.
FailedUnmarked(w, row) ==
    [row EXCEPT !.locked_until = NULL, !.lock_token = NULL,
                !.last_error_code = outcome[w], !.body = "erased"]

Failed(w, row) ==
    [row EXCEPT !.locked_until = NULL,
                !.lock_token = NULL,
                !.last_error_code = outcome[w],
                !.failed_at = now[w],
                !.body = "erased"]

Fail(w) ==
    /\ pc[w] = "settling"
    /\ outcome[w] # "accepted" /\ ~ShouldRetry(w)
    /\ Settle(w, Failed(w, jobs[claim[w].id]))

-----------------------------------------------------------------------------
\* The process dies, the lifespan cancels the worker, or an exception other
\* than EmailDeliveryError ends the iteration: the open transaction rolls
\* back and a new iteration (of the restarted process) starts from nothing.
Fault(w) ==
    /\ faults < MaxFaults
    /\ faults' = faults + 1
    /\ lockedBy' = [j \in Job |-> IF lockedBy[j] = w THEN NULL ELSE lockedBy[j]]
    /\ BackToIdle(w)
    /\ UNCHANGED <<jobs, clock, history>>

Tick ==
    /\ clock < Horizon
    /\ clock' = clock + 1
    /\ UNCHANGED <<jobs, lockedBy, worker, faults, history>>

\* An iteration of process_next_email that finds a job.
ProcessJob(w) ==
    \/ \E j \in Job : SelectDue(w, j) \/ CommitClaim(w, j)
    \/ Deliver(w)
    \/ \E error \in {"retryable", "fatal"} : Refuse(w, error)
    \/ Complete(w) \/ RetryLater(w) \/ Fail(w)

\* One iteration, one step at a time.
WorkerStep(w) == ReadNow(w) \/ NothingDue(w) \/ ProcessJob(w)

Next ==
    \/ \E j \in Job : Enqueue(j) \/ Cancel(j)
    \/ \E w \in Worker : WorkerStep(w) \/ Fault(w)
    \/ Tick

Spec == Init /\ [][Next]_vars

-----------------------------------------------------------------------------
(* Correctness.                                                            *)

TypeOK ==
    /\ jobs \in [Job -> Row \union {NULL}]
    /\ lockedBy \in [Job -> Worker \union {NULL}]
    /\ pc \in [Worker -> {"idle", "polling", "claiming", "sending", "settling"}]
    /\ now \in [Worker -> Nat]
    /\ claim \in [Worker -> ClaimedEmailJob \union {NULL}]
    /\ outcome \in [Worker -> {"accepted", "retryable", "fatal", NULL}]
    /\ clock \in Nat
    /\ faults \in Nat
    /\ enqueued \subseteq Job
    /\ cancelled \subseteq Job
    /\ delivered \subseteq Job

Sending(w, j) == pc[w] = "sending" /\ claim[w].id = j

\* While a worker sends, its lease runs from the claimed_at it read.
LeaseRuns(w) == clock < now[w] + LeaseDuration

\* Two workers may send one email at the same time only after a lease ran out:
\* of the workers sending it, at most one holds a lease that still runs.
OneLiveSender ==
    \A j \in Job, v, w \in Worker :
        Sending(v, j) /\ LeaseRuns(v) /\ Sending(w, j) /\ LeaseRuns(w) => v = w

\* fail() erases the bodies; no worker ever hands an erased email to the
\* provider, however late its claim.
NeverSendsErasedContent ==
    \A w \in Worker : pc[w] = "sending" => claim[w].body = "full"

\* A job is a dead letter for a reason: its last error could not be retried or
\* its attempts are used up.  It is not leased, and only dead letters lose
\* their content.
DeadLettersJustified ==
    \A j \in Job : Exists(j) =>
        IF jobs[j].failed_at = NULL THEN jobs[j].body = "full"
        ELSE /\ jobs[j].last_error_code = "fatal" \/ jobs[j].attempts >= MaxAttempts
             /\ jobs[j].lock_token = NULL /\ jobs[j].locked_until = NULL

\* A row leaves the table only when the provider has accepted the email or
\* when the token that owned it went: nothing queued is silently dropped.
NeverSilentlyDropped ==
    \A j \in enqueued : Exists(j) \/ j \in delivered \/ j \in cancelled

\* While a lease runs, the row changes only by the settling of the worker that
\* holds its token, or by going with the token that owns the job: no other
\* worker claims it and no worker with an older token touches it.
LeaseProtects(j) ==
    /\ Exists(j)
    /\ jobs[j].lock_token # NULL
    /\ clock < jobs[j].locked_until
    /\ jobs'[j] # jobs[j]
    => \/ j \in cancelled'
       \/ \E w \in Worker : /\ pc[w] = "settling" /\ pc'[w] = "idle"
                            /\ claim[w].id = j
                            /\ claim[w].lock_token = jobs[j].lock_token

LeaseProtectsRow ==
    [][\A j \in Job : LeaseProtects(j)]_vars

\* Once failed_at is set, the row is never claimed, retried or rewritten; it
\* stays as it is until its token goes.
StaysDead(j) ==
    Exists(j) /\ jobs[j].failed_at # NULL
    => jobs'[j] = jobs[j] \/ j \in cancelled'

DeadLettersFinal ==
    [][\A j \in Job : StaysDead(j)]_vars

\* The outbox is an at-least-once queue: every behaviour of it is one of
\* OutboxPromise, a row's status being read off the row and the history.
StatusOf(j) ==
    IF Exists(j) THEN IF jobs[j].failed_at = NULL THEN "queued" ELSE "dead"
    ELSE IF j \in cancelled THEN "withdrawn"
    ELSE IF j \in enqueued THEN "done"
    ELSE "absent"

Attempting(w) == IF pc[w] \in {"sending", "settling"} THEN claim[w].id ELSE NULL

Promise == INSTANCE OutboxPromise WITH
    Standalone <- Report,
    status <- [j \in Job |-> StatusOf(j)],
    attempt <- [w \in Worker |-> Attempting(w)]

KeepsPromise == Promise!Spec

=============================================================================

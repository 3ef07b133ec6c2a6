---------------------------- MODULE QueuedEmails ----------------------------
(***************************************************************************)
(* From a request to its email's fate: the requests that queue an email    *)
(* (_enqueue_confirmation_email and _enqueue_password_reset_email of       *)
(* app/auth/service.py, submit_report of app/reports/service.py) over      *)
(* EmailOutbox, with the pace of the workers: run_email_worker has one     *)
(* email in hand at a time, and sleeps when it finds none.  How long an    *)
(* email can stay in the queue is what decides whether the link in it      *)
(* still works, and a client that was told "Report submitted" will not     *)
(* send its report again.                                                  *)
(***************************************************************************)
EXTENDS EmailOutbox

CONSTANTS
    PollInterval,  \* email_outbox_poll_interval, in ticks
    Downtime       \* how long a process that stopped may take to be back

\* A worker that has caught an exception sleeps like one that found nothing.
ASSUME PollAssumption ==
    PollInterval \in Nat \ {0} /\ Downtime \in Nat /\ PollInterval <= Downtime

VARIABLES
    wake,   \* when each worker's sleep is over; 0 while it does not sleep
    born,   \* history: [Job -> when the request of a waiting email was accepted]
    ahead   \* history: [Job -> [Worker -> emails it took while this one was due]]

allVars == <<vars, wake, born, ahead>>

Settled(j) == ~Exists(j) \/ jobs[j].failed_at # NULL

-----------------------------------------------------------------------------
\* A link's token and its email, in one commit.
QueueLink(j) == j \notin Report /\ Enqueue(j)

\* Without report_to_email the request is refused and nothing changes.
SubmitReport(j) == j \in Report /\ Enqueue(j)

WakeAt(w, time) == wake' = [wake EXCEPT ![w] = time]

\* The loop begins an iteration when nothing keeps it asleep.
Poll(w) == wake[w] <= clock /\ ReadNow(w) /\ WakeAt(w, 0)

Sleep(w) == NothingDue(w) /\ WakeAt(w, clock + PollInterval)

\* A worker that was interrupted sleeps, or is down.
Interrupted(w) == Fault(w) /\ \E pause \in 0..Downtime : WakeAt(w, clock + pause)

\* Time passes while every worker sleeps or waits for the provider: the
\* adapter gives up within its HTTP timeouts and its capped retry delays, well
\* within the lease, and the statements of a worker take less than a tick.
\* Time also waits while no email does, so that the clock's bound is never
\* reached.
Timely ==
    /\ \E j \in Job : ~Settled(j)
    /\ \A w \in Worker :
          \/ pc[w] = "idle" /\ clock < wake[w]
          \/ pc[w] = "sending" /\ clock + 1 < now[w] + LeaseDuration

\* j was free to be taken, and had waited for longer than k.
Overtaken(j, k) == Unlocked(j) /\ jobs[j].next_attempt_at < jobs[k].next_attempt_at

\* Worker w turns to another email while j is due, and not past j's turn.
GoesAhead(w, j) ==
    \E k \in Job \ {j} :
        /\ Unlocked(k) /\ lockedBy'[k] = w
        /\ Due(j, now[w]) /\ ~Overtaken(j, k)

Remember ==
    /\ born' = [j \in Job |-> IF Settled(j)' THEN NULL
                              ELSE IF j \in enqueued THEN born[j] ELSE clock]
    /\ ahead' = [j \in Job |->
                   [w \in Worker |-> IF Settled(j)' THEN 0
                                     ELSE IF GoesAhead(w, j) THEN ahead[j][w] + 1
                                     ELSE ahead[j][w]]]

RunWorker(w) == Poll(w) \/ Sleep(w) \/ (ProcessJob(w) /\ UNCHANGED wake)

PassTime == Tick /\ Timely /\ UNCHANGED wake

QueueInit ==
    /\ Init
    /\ wake = [w \in Worker |-> 0]
    /\ born = [j \in Job |-> NULL]
    /\ ahead = [j \in Job |-> [w \in Worker |-> 0]]

QueueNext ==
    /\ \/ \E j \in Job : (QueueLink(j) \/ SubmitReport(j) \/ Cancel(j)) /\ UNCHANGED wake
       \/ \E w \in Worker : RunWorker(w) \/ Interrupted(w)
       \/ PassTime
    /\ Remember

\* run_email_worker never stops by itself, and time goes on.
Fairness ==
    /\ \A w \in Worker : WF_allVars(RunWorker(w) /\ Remember)
    /\ WF_allVars(PassTime /\ Remember)

QueueSpec == QueueInit /\ [][QueueNext]_allVars /\ Fairness

-----------------------------------------------------------------------------
(* Properties                                                              *)

\* Every queued email is delivered, cancelled or a dead letter in the end,
\* though workers crash with jobs leased.
EventuallySettled == \A j \in Job : Exists(j) ~> Settled(j)

\* MAX_ATTEMPTS bounds the attempts of a job, except for those that ended
\* without a verdict: claim_next does not look at the counter.
AttemptsWithinBudget ==
    \A j \in Job : Exists(j) => jobs[j].attempts <= MaxAttempts + faults

\* What the first n of RETRY_DELAYS add up to.
Delays[n \in 0..Len(RetryDelays)] ==
    IF n = 0 THEN 0 ELSE Delays[n - 1] + RetryDelays[n]

Longer(m, n) == IF m < n THEN n ELSE m

\* How long a worker leaves an email that falls due: it sleeps or sends another,
\* and began to before that.
Wait == Longer(PollInterval, LeaseDuration - 1) - 1

\* The longest an email can stay queued when no other goes ahead of it: it waits
\* out RETRY_DELAYS once; each attempt waits for the worker and ends within its
\* lease; each fault costs a lease, and another wait or the downtime.  An
\* email that is new may have come when the worker had just begun to sleep.
LongestStay ==
    1 + Delays[Len(RetryDelays)]
    + MaxAttempts * (Wait + LeaseDuration - 1)
    + MaxFaults * (LeaseDuration + Longer(Wait, Downtime - 1))

\* An email is sent, given up or withdrawn within LongestStay of its request,
\* and less than a lease for each email that was due before it or while it was
\* being claimed: a link that lives longer never arrives dead.  This holds of
\* the time of each worker, so of the one that is ahead least.
SettledInTime ==
    \A j \in Job, w \in Worker : ~Settled(j) =>
        clock <= born[j] + LongestStay + ahead[j][w] * (LeaseDuration - 1)

=============================================================================

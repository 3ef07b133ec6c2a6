--------------------------- MODULE OutboxPromise ---------------------------
(***************************************************************************)
(* What the durable email outbox promises, with no rows, leases, clocks or *)
(* retry delays: an at-least-once queue.  A job is queued once; workers    *)
(* begin attempts at it while it is queued; it leaves the queue for one    *)
(* reason only, and for good: somebody delivered it, a worker gave it up,  *)
(* or the token it was written for was withdrawn.  EmailOutbox implements  *)
(* this module (EmailOutbox!Promise).                                      *)
(***************************************************************************)

CONSTANTS
    Job,        \* every email that can ever be queued
    Standalone, \* the jobs tied to no token: nothing can withdraw them
    Worker,     \* the delivery workers, one per API process
    NULL

VARIABLES
    status,     \* [Job -> Status]
    attempt,    \* [Worker -> Job \union {NULL}]: the job a worker is attempting
    delivered   \* the jobs the provider has accepted at least once

vars == <<status, attempt, delivered>>

Status == {"absent", "queued", "done", "dead", "withdrawn"}

Init ==
    /\ status = [j \in Job |-> "absent"]
    /\ attempt = [w \in Worker |-> NULL]
    /\ delivered = {}

Enqueue(j) ==
    /\ status[j] = "absent"
    /\ status' = [status EXCEPT ![j] = "queued"]
    /\ UNCHANGED <<attempt, delivered>>

\* Attempts start only on queued jobs; several workers may attempt one job.
Begin(w, j) ==
    /\ attempt[w] = NULL
    /\ status[j] = "queued"
    /\ attempt' = [attempt EXCEPT ![w] = j]
    /\ UNCHANGED <<status, delivered>>

Accept(w) ==
    /\ attempt[w] # NULL
    /\ delivered' = delivered \union {attempt[w]}
    /\ UNCHANGED <<status, attempt>>

\* The worker lets the attempt go without a verdict: the job stays as it is.
LetGo(w) ==
    /\ attempt[w] # NULL
    /\ attempt' = [attempt EXCEPT ![w] = NULL]
    /\ UNCHANGED <<status, delivered>>

\* A job is done only once the provider has it.
Finish(w) ==
    /\ attempt[w] # NULL
    /\ attempt[w] \in delivered
    /\ status[attempt[w]] = "queued"
    /\ status' = [status EXCEPT ![attempt[w]] = "done"]
    /\ attempt' = [attempt EXCEPT ![w] = NULL]
    /\ UNCHANGED delivered

GiveUp(w) ==
    /\ attempt[w] # NULL
    /\ status[attempt[w]] = "queued"
    /\ status' = [status EXCEPT ![attempt[w]] = "dead"]
    /\ attempt' = [attempt EXCEPT ![w] = NULL]
    /\ UNCHANGED delivered

Withdraw(j) ==
    /\ j \notin Standalone
    /\ status[j] \in {"queued", "dead"}
    /\ status' = [status EXCEPT ![j] = "withdrawn"]
    /\ UNCHANGED <<attempt, delivered>>

Next ==
    \/ \E j \in Job : Enqueue(j) \/ Withdraw(j)
    \/ \E w \in Worker, j \in Job : Begin(w, j)
    \/ \E w \in Worker : Accept(w) \/ LetGo(w) \/ Finish(w) \/ GiveUp(w)

Spec == Init /\ [][Next]_vars

=============================================================================

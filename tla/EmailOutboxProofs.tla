------------------------- MODULE EmailOutboxProofs -------------------------
(***************************************************************************)
(* Theorems about EmailOutbox for every set of jobs and workers, every     *)
(* list of retry delays and every lease duration.                          *)
(*                                                                         *)
(* The inductive invariant ties the three places a lease is recorded: the  *)
(* row's columns, the worker's ClaimedEmailJob and the worker's claimed_at.*)
(* The last section maps every step to one of OutboxPromise, or none.      *)
(***************************************************************************)
EXTENDS EmailOutbox, TLAPS

\* A row lock belongs to an open claim, of one row still due at its claimed_at.
LocksAreClaims ==
    \A j \in Job, w \in Worker : lockedBy[j] = w =>
        /\ pc[w] = "claiming"
        /\ Due(j, now[w])
        /\ \A k \in Job : lockedBy[k] = w => k = j

NowIsPast == \A w \in Worker : now[w] <= clock

\* A worker past its claim has a ClaimedEmailJob with a token of its own.
ClaimsAreOwn ==
    \A w \in Worker : pc[w] \in {"sending", "settling"} =>
        /\ claim[w] # NULL
        /\ claim[w].id \in enqueued
        /\ claim[w].lock_token = <<w, claim[w].attempts>>

\* Outcomes exist when there is something to settle.
OutcomesAreReal ==
    \A w \in Worker : pc[w] = "settling" =>
        /\ outcome[w] # NULL
        /\ outcome[w] = "accepted" => claim[w].id \in delivered

RowsAreKnown ==
    \A j \in Job : Exists(j) =>
        /\ j \in enqueued
        /\ j \notin cancelled
        /\ jobs[j].lock_token # NULL => /\ jobs[j].locked_until # NULL
                                       /\ jobs[j].lock_token[2] = jobs[j].attempts

CancelledWasQueued == cancelled \subseteq enqueued

\* While a sender's lease runs, its row (if still there) records that lease.
LeaseIsRecorded ==
    \A w \in Worker :
        pc[w] = "sending" /\ LeaseRuns(w) /\ Exists(claim[w].id)
        => /\ jobs[claim[w].id].lock_token = claim[w].lock_token
           /\ jobs[claim[w].id].locked_until = now[w] + LeaseDuration

Inv ==
    /\ TypeOK
    /\ LocksAreClaims
    /\ NowIsPast
    /\ ClaimsAreOwn
    /\ OutcomesAreReal
    /\ RowsAreKnown
    /\ CancelledWasQueued
    /\ LeaseIsRecorded
    /\ OneLiveSender
    /\ NeverSendsErasedContent
    /\ DeadLettersJustified
    /\ NeverSilentlyDropped

-----------------------------------------------------------------------------
USE DEF worker, history

LEMMA InitInv == Init => Inv
  <1> SUFFICES ASSUME Init PROVE Inv
    OBVIOUS
  <1>1. TypeOK
    BY TimingAssumption DEF Init, TypeOK
  <1> QED
    BY <1>1, NullAssumption
    DEF Init, Inv, LocksAreClaims, NowIsPast, ClaimsAreOwn, OutcomesAreReal,
        RowsAreKnown, CancelledWasQueued, LeaseIsRecorded, OneLiveSender,
        Sending, NeverSendsErasedContent, DeadLettersJustified,
        NeverSilentlyDropped, Exists

LEMMA EnqueueInv ==
  ASSUME Inv, NEW j \in Job, Enqueue(j)
  PROVE  Inv'
  <1> USE JobAssumption, NullAssumption DEF Inv
  <1>1. NewRow \in Row /\ ~Exists(j)
    BY DEF NewRow, Row, TypeOK, RowsAreKnown, Enqueue
  <1>2. TypeOK'
    BY <1>1 DEF Enqueue, TypeOK
  <1>3. jobs'[j] = NewRow /\ \A k \in Job \ {j} : jobs'[k] = jobs[k]
    BY DEF Enqueue, TypeOK
  <1>4. \A w \in Worker : pc[w] \in {"sending", "settling"} => claim[w].id # j
    BY DEF Enqueue, ClaimsAreOwn
  <1>5. LocksAreClaims'
    BY <1>1, <1>3 DEF Enqueue, LocksAreClaims, Due, Exists, TypeOK
  <1>6. NowIsPast' /\ ClaimsAreOwn' /\ OutcomesAreReal' /\ CancelledWasQueued'
    BY DEF Enqueue, NowIsPast, ClaimsAreOwn, OutcomesAreReal, CancelledWasQueued
  <1>7. RowsAreKnown' /\ DeadLettersJustified' /\ NeverSilentlyDropped'
    BY <1>1, <1>3 DEF Enqueue, RowsAreKnown, DeadLettersJustified,
                NeverSilentlyDropped, NewRow, Exists, CancelledWasQueued
  <1>8. LeaseIsRecorded'
    BY <1>3, <1>4 DEF Enqueue, LeaseIsRecorded, LeaseRuns, Exists
  <1>9. OneLiveSender' /\ NeverSendsErasedContent'
    BY DEF Enqueue, OneLiveSender, Sending, LeaseRuns, NeverSendsErasedContent
  <1> QED
    BY <1>2, <1>5, <1>6, <1>7, <1>8, <1>9

LEMMA CancelInv ==
  ASSUME Inv, NEW j \in Job, Cancel(j)
  PROVE  Inv'
  <1> USE JobAssumption, NullAssumption DEF Inv
  <1>1. TypeOK'
    BY DEF Cancel, TypeOK
  <1>2. /\ jobs'[j] = NULL
        /\ \A k \in Job \ {j} : jobs'[k] = jobs[k]
        /\ \A w \in Worker : lockedBy[j] # w
    BY DEF Cancel, TypeOK, Unlocked
  <1>3. LocksAreClaims'
    BY <1>2 DEF Cancel, LocksAreClaims, Due, Exists
  <1>4. NowIsPast' /\ ClaimsAreOwn' /\ OutcomesAreReal'
    BY DEF Cancel, NowIsPast, ClaimsAreOwn, OutcomesAreReal
  <1>5. CancelledWasQueued' /\ NeverSilentlyDropped'
    BY <1>2 DEF Cancel, CancelledWasQueued, RowsAreKnown, NeverSilentlyDropped,
                Exists, TypeOK
  <1>6. RowsAreKnown' /\ DeadLettersJustified' /\ LeaseIsRecorded'
    BY <1>2 DEF Cancel, RowsAreKnown, DeadLettersJustified, LeaseIsRecorded,
                LeaseRuns, Exists, ClaimsAreOwn, TypeOK
  <1>7. OneLiveSender' /\ NeverSendsErasedContent'
    BY DEF Cancel, OneLiveSender, Sending, LeaseRuns, NeverSendsErasedContent
  <1> QED
    BY <1>1, <1>3, <1>4, <1>5, <1>6, <1>7

\* A worker that reads a clock, selects a row or goes idle changes no row.
LEMMA ReadNowInv ==
  ASSUME Inv, NEW w \in Worker, ReadNow(w)
  PROVE  Inv'
  <1> USE NullAssumption DEF Inv, ReadNow
  <1>1. TypeOK'
    BY DEF TypeOK
  <1>2. LocksAreClaims' /\ NowIsPast'
    BY DEF LocksAreClaims, NowIsPast, Due, Exists, TypeOK
  <1>3. ClaimsAreOwn' /\ OutcomesAreReal' /\ RowsAreKnown' /\ CancelledWasQueued'
    BY DEF ClaimsAreOwn, OutcomesAreReal, RowsAreKnown, CancelledWasQueued,
           Exists, TypeOK
  <1>4. LeaseIsRecorded' /\ OneLiveSender' /\ NeverSendsErasedContent'
    BY DEF LeaseIsRecorded, OneLiveSender, Sending, LeaseRuns,
           NeverSendsErasedContent, Exists, TypeOK
  <1>5. DeadLettersJustified' /\ NeverSilentlyDropped'
    BY DEF DeadLettersJustified, NeverSilentlyDropped, Exists
  <1> QED
    BY <1>1, <1>2, <1>3, <1>4, <1>5

LEMMA SelectDueInv ==
  ASSUME Inv, NEW w \in Worker, NEW j \in Job, SelectDue(w, j)
  PROVE  Inv'
  <1> USE NullAssumption DEF Inv, SelectDue
  <1>1. TypeOK'
    BY DEF TypeOK
  <1>2. LocksAreClaims' /\ NowIsPast'
    BY DEF LocksAreClaims, NowIsPast, Due, Exists, TypeOK
  <1>3. ClaimsAreOwn' /\ OutcomesAreReal' /\ RowsAreKnown' /\ CancelledWasQueued'
    BY DEF ClaimsAreOwn, OutcomesAreReal, RowsAreKnown, CancelledWasQueued,
           Exists, TypeOK
  <1>4. LeaseIsRecorded' /\ OneLiveSender' /\ NeverSendsErasedContent'
    BY DEF LeaseIsRecorded, OneLiveSender, Sending, LeaseRuns,
           NeverSendsErasedContent, Exists, TypeOK
  <1>5. DeadLettersJustified' /\ NeverSilentlyDropped'
    BY DEF DeadLettersJustified, NeverSilentlyDropped, Exists
  <1> QED
    BY <1>1, <1>2, <1>3, <1>4, <1>5

LEMMA IdleInv ==
  ASSUME Inv, NEW w \in Worker, NothingDue(w) \/ Fault(w)
  PROVE  Inv'
  <1> USE NullAssumption DEF Inv, NothingDue, Fault, BackToIdle
  <1>1. TypeOK'
    BY DEF TypeOK
  <1>2. LocksAreClaims' /\ NowIsPast'
    BY DEF LocksAreClaims, NowIsPast, Due, Exists, TypeOK
  <1>3. ClaimsAreOwn' /\ OutcomesAreReal' /\ RowsAreKnown' /\ CancelledWasQueued'
    BY DEF ClaimsAreOwn, OutcomesAreReal, RowsAreKnown, CancelledWasQueued,
           Exists, TypeOK
  <1>4. LeaseIsRecorded' /\ OneLiveSender' /\ NeverSendsErasedContent'
    <2>1. UNCHANGED <<jobs, clock>> /\ pc'[w] = "idle"
      BY DEF TypeOK
    <2>2. \A v \in Worker \ {w} : pc'[v] = pc[v] /\ now'[v] = now[v] /\ claim'[v] = claim[v]
      BY DEF TypeOK
    <2> QED
      BY ONLY <2>1, <2>2, Inv
      DEF Inv, LeaseIsRecorded, OneLiveSender, Sending, LeaseRuns,
          NeverSendsErasedContent, Exists
  <1>5. DeadLettersJustified' /\ NeverSilentlyDropped'
    BY DEF DeadLettersJustified, NeverSilentlyDropped, Exists
  <1> QED
    BY <1>1, <1>2, <1>3, <1>4, <1>5

LEMMA SentInv ==
  ASSUME Inv, NEW w \in Worker,
         Deliver(w) \/ \E error \in {"retryable", "fatal"} : Refuse(w, error)
  PROVE  Inv'
  <1> USE NullAssumption DEF Inv, Deliver, Refuse
  <1>0. claim[w].id \in Job
    BY DEF ClaimsAreOwn, TypeOK
  <1>1. TypeOK'
    BY <1>0 DEF TypeOK
  <1>2. LocksAreClaims' /\ NowIsPast'
    BY DEF LocksAreClaims, NowIsPast, Due, Exists, TypeOK
  <1>3. ClaimsAreOwn' /\ OutcomesAreReal' /\ RowsAreKnown' /\ CancelledWasQueued'
    BY DEF ClaimsAreOwn, OutcomesAreReal, RowsAreKnown, CancelledWasQueued,
           Exists, TypeOK
  <1>4. LeaseIsRecorded' /\ OneLiveSender' /\ NeverSendsErasedContent'
    BY DEF LeaseIsRecorded, OneLiveSender, Sending, LeaseRuns,
           NeverSendsErasedContent, Exists, TypeOK
  <1>5. DeadLettersJustified' /\ NeverSilentlyDropped'
    BY DEF DeadLettersJustified, NeverSilentlyDropped, Exists
  <1> QED
    BY <1>1, <1>2, <1>3, <1>4, <1>5

LEMMA TickInv ==
  ASSUME Inv, Tick
  PROVE  Inv'
  <1> USE NullAssumption DEF Inv, Tick
  <1>1. TypeOK'
    BY DEF TypeOK
  <1>2. LocksAreClaims' /\ NowIsPast'
    BY DEF LocksAreClaims, NowIsPast, Due, Exists, TypeOK
  <1>3. ClaimsAreOwn' /\ OutcomesAreReal' /\ RowsAreKnown' /\ CancelledWasQueued'
    BY DEF ClaimsAreOwn, OutcomesAreReal, RowsAreKnown, CancelledWasQueued,
           Exists, TypeOK
  <1>4. \A w \in Worker : LeaseRuns(w)' => LeaseRuns(w)
    BY TimingAssumption DEF LeaseRuns, TypeOK
  <1>5. LeaseIsRecorded' /\ OneLiveSender' /\ NeverSendsErasedContent'
    BY <1>4 DEF LeaseIsRecorded, OneLiveSender, Sending,
           NeverSendsErasedContent, Exists, TypeOK
  <1>6. DeadLettersJustified' /\ NeverSilentlyDropped'
    BY DEF DeadLettersJustified, NeverSilentlyDropped, Exists
  <1> QED
    BY <1>1, <1>2, <1>3, <1>5, <1>6

-----------------------------------------------------------------------------
\* Claiming changes the three lease columns of a row and nothing else.
LEMMA LeasedRow ==
  ASSUME NEW w \in Worker, NEW r \in Row, now[w] \in Nat
  PROVE  LET row == Leased(w, r)
         IN  /\ row \in Row
             /\ row.attempts = r.attempts + 1
             /\ row.lock_token = <<w, row.attempts>>
             /\ row.locked_until = now[w] + LeaseDuration
             /\ row.next_attempt_at = r.next_attempt_at
             /\ row.failed_at = r.failed_at
             /\ row.body = r.body
             /\ row.last_error_code = r.last_error_code
  <1> DEFINE n == r.attempts + 1
             token == <<w, n>>
             until == now[w] + LeaseDuration
             counted == [r EXCEPT !.attempts = n]
             owned == [counted EXCEPT !.lock_token = token]
             row == [owned EXCEPT !.locked_until = until]
  <1>1. n \in Nat /\ token \in Token /\ until \in Nat
    BY TimingAssumption DEF Row, Token
  <1>2. Leased(w, r) = row
    BY DEF Leased
  <1> HIDE DEF n, token, until
  <1>3. /\ counted \in Row /\ counted.attempts = n
        /\ counted.next_attempt_at = r.next_attempt_at
        /\ counted.failed_at = r.failed_at
        /\ counted.body = r.body
        /\ counted.last_error_code = r.last_error_code
    BY <1>1 DEF Row
  <1> HIDE DEF counted
  <1>4. /\ owned \in Row /\ owned.attempts = n /\ owned.lock_token = token
        /\ owned.next_attempt_at = counted.next_attempt_at
        /\ owned.failed_at = counted.failed_at
        /\ owned.body = counted.body
        /\ owned.last_error_code = counted.last_error_code
    BY <1>1, <1>3 DEF Row
  <1> HIDE DEF owned
  <1>5. /\ row \in Row /\ row.attempts = n /\ row.lock_token = token
        /\ row.locked_until = until
        /\ row.next_attempt_at = owned.next_attempt_at
        /\ row.failed_at = owned.failed_at
        /\ row.body = owned.body
        /\ row.last_error_code = owned.last_error_code
    BY <1>1, <1>4 DEF Row
  <1> HIDE DEF row
  <1> QED
    BY <1>2, <1>3, <1>4, <1>5 DEF n, token, until

\* The claim: the row was due when it was locked, so no lease on it runs.
LEMMA CommitClaimInv ==
  ASSUME Inv, NEW w \in Worker, NEW j \in Job, CommitClaim(w, j)
  PROVE  Inv'
  <1> USE JobAssumption, TimingAssumption, NullAssumption DEF Inv
  <1> DEFINE row == Leased(w, jobs[j])
  <1>1. Exists(j) /\ Due(j, now[w]) /\ jobs[j] \in Row /\ now[w] \in Nat
    BY DEF CommitClaim, LocksAreClaims, Due, Exists, TypeOK
  <1>2. /\ row \in Row
        /\ row.attempts = jobs[j].attempts + 1
        /\ row.lock_token = <<w, row.attempts>>
        /\ row.locked_until = now[w] + LeaseDuration
        /\ row.failed_at = jobs[j].failed_at
        /\ row.body = jobs[j].body
        /\ row.last_error_code = jobs[j].last_error_code
    BY <1>1, LeasedRow
  <1> HIDE DEF row
  <1>3. jobs'[j] = row /\ \A k \in Job \ {j} : jobs'[k] = jobs[k]
    BY DEF CommitClaim, TypeOK, row
  <1>4. /\ claim'[w] = [id |-> j, attempts |-> row.attempts,
                        lock_token |-> row.lock_token, body |-> row.body]
        /\ \A v \in Worker \ {w} : claim'[v] = claim[v]
    BY <1>3 DEF CommitClaim, TypeOK
  <1>5. claim'[w] \in ClaimedEmailJob
    BY <1>1, <1>2, <1>4 DEF ClaimedEmailJob, Row, Token
  <1>6. TypeOK'
    BY <1>2, <1>5 DEF CommitClaim, TypeOK, row
  <1>7. \A v \in Worker : lockedBy[j] = v => v = w
    BY DEF CommitClaim
  <1>8. LocksAreClaims'
    BY <1>3, <1>7 DEF CommitClaim, LocksAreClaims, Due, Exists, TypeOK
  <1>9. j \in enqueued /\ j \notin cancelled
    BY <1>1 DEF RowsAreKnown
  <1>10. NowIsPast' /\ CancelledWasQueued'
    BY DEF CommitClaim, NowIsPast, CancelledWasQueued
  <1>11. ClaimsAreOwn' /\ OutcomesAreReal'
    BY <1>2, <1>4, <1>5, <1>9 DEF CommitClaim, ClaimsAreOwn, OutcomesAreReal, TypeOK
  <1>12. RowsAreKnown' /\ NeverSilentlyDropped'
    BY <1>1, <1>2, <1>3, <1>9
    DEF CommitClaim, RowsAreKnown, NeverSilentlyDropped, Exists, TypeOK
  <1>13. jobs[j].failed_at = NULL /\ row.failed_at = NULL /\ row.body = "full"
    BY <1>1, <1>2 DEF Due, DeadLettersJustified
  <1>14. DeadLettersJustified'
    BY <1>3, <1>13 DEF CommitClaim, DeadLettersJustified, Exists
  <1>15. \A v \in Worker \ {w} : ~(Sending(v, j) /\ LeaseRuns(v))
    <2> SUFFICES ASSUME NEW v \in Worker \ {w}, Sending(v, j), LeaseRuns(v)
                 PROVE FALSE
      OBVIOUS
    <2>1. jobs[j].locked_until = now[v] + LeaseDuration
      BY <1>1 DEF LeaseIsRecorded, Sending
    <2>2. now[v] + LeaseDuration <= now[w]
      BY <1>1, <2>1 DEF Due, TypeOK
    <2> QED
      BY <2>2 DEF LeaseRuns, NowIsPast, TypeOK
  <1>16. LeaseIsRecorded'
    BY <1>2, <1>3, <1>4, <1>15
    DEF CommitClaim, LeaseIsRecorded, LeaseRuns, Sending, Exists, TypeOK
  <1>17. OneLiveSender'
    BY <1>4, <1>15 DEF CommitClaim, OneLiveSender, LeaseRuns, Sending, TypeOK
  <1>18. NeverSendsErasedContent'
    BY <1>4, <1>13 DEF CommitClaim, NeverSendsErasedContent, TypeOK
  <1> QED
    BY <1>6, <1>8, <1>10, <1>11, <1>12, <1>14, <1>16, <1>17, <1>18

\* Settling: the row a worker owns is nobody else's, so replacing it breaks no
\* lease; what replaces it must be sound by itself.
Sound(w, row) ==
    IF row = NULL
    THEN claim[w].id \in delivered
    ELSE /\ row \in Row
         /\ row.lock_token = NULL /\ row.locked_until = NULL
         /\ IF row.failed_at = NULL THEN row.body = "full"
            ELSE row.last_error_code = "fatal" \/ row.attempts >= MaxAttempts

LEMMA SettleInv ==
  ASSUME Inv, NEW w \in Worker, NEW row, pc[w] = "settling", Settle(w, row),
         Owns(w) => Sound(w, row)
  PROVE  Inv'
  <1> USE JobAssumption, NullAssumption DEF Inv
  <1> DEFINE j == claim[w].id
  <1>1. j \in Job /\ j \in enqueued
    BY DEF ClaimsAreOwn, TypeOK
  <1>2. /\ pc' = [pc EXCEPT ![w] = "idle"]
        /\ now' = [now EXCEPT ![w] = 0]
        /\ claim' = [claim EXCEPT ![w] = NULL]
        /\ outcome' = [outcome EXCEPT ![w] = NULL]
        /\ UNCHANGED <<lockedBy, clock, faults, enqueued, cancelled, delivered>>
    BY DEF Settle, BackToIdle
  <1>3. \A k \in Job \ {j} : jobs'[k] = jobs[k]
    BY DEF Settle, TypeOK
  <1>4. jobs'[j] = jobs[j] \/ (Owns(w) /\ Unlocked(j) /\ jobs'[j] = row)
    BY <1>1 DEF Settle, TypeOK
  <1>5. jobs'[j] = NULL => j \in delivered \/ jobs[j] = NULL
    BY <1>4 DEF Sound
  <1>6. TypeOK'
    BY <1>1, <1>2 DEF Settle, Sound, TypeOK
  <1>7. LocksAreClaims'
    <2> SUFFICES ASSUME NEW k \in Job, NEW v \in Worker, lockedBy[k] = v
                 PROVE  /\ pc'[v] = "claiming"
                        /\ Due(k, now[v])'
                        /\ \A i \in Job : lockedBy[i] = v => i = k
      BY <1>2 DEF LocksAreClaims
    <2>1. /\ pc[v] = "claiming" /\ Due(k, now[v]) /\ v # w
          /\ \A i \in Job : lockedBy[i] = v => i = k
      BY DEF LocksAreClaims
    <2>2. jobs'[k] = jobs[k]
      BY <1>3, <1>4 DEF Unlocked
    <2>3. pc'[v] = pc[v] /\ now'[v] = now[v]
      BY <1>2, <2>1 DEF TypeOK
    <2> QED
      BY <2>1, <2>2, <2>3 DEF Due, Exists
  <1>8. NowIsPast' /\ ClaimsAreOwn' /\ OutcomesAreReal' /\ CancelledWasQueued'
    BY <1>2 DEF NowIsPast, ClaimsAreOwn, OutcomesAreReal, CancelledWasQueued, TypeOK
  <1>9. RowsAreKnown' /\ DeadLettersJustified'
    <2> SUFFICES ASSUME NEW k \in Job, Exists(k)'
                 PROVE  RowsAreKnown!(k)!2' /\ DeadLettersJustified!(k)!2'
      BY DEF RowsAreKnown, DeadLettersJustified
    <2>1. CASE jobs'[k] = jobs[k]
      BY <1>2, <2>1 DEF RowsAreKnown, DeadLettersJustified, Exists
    <2>2. CASE k = j /\ Owns(w) /\ jobs'[j] = row
      <3>1. row # NULL /\ Exists(j) /\ k \in enqueued /\ k \notin cancelled
        BY <1>1, <2>2 DEF RowsAreKnown, Exists, Owns
      <3>2. /\ row.lock_token = NULL /\ row.locked_until = NULL
            /\ IF row.failed_at = NULL THEN row.body = "full"
               ELSE row.last_error_code = "fatal" \/ row.attempts >= MaxAttempts
        BY <2>2, <3>1 DEF Sound
      <3> QED
        BY <1>2, <2>2, <3>1, <3>2
    <2> QED
      BY <1>3, <1>4, <2>1, <2>2
  <1>10. NeverSilentlyDropped'
    BY <1>2, <1>3, <1>5 DEF NeverSilentlyDropped, Exists, TypeOK
  <1>11. ASSUME NEW v \in Worker, pc[v] = "sending", LeaseRuns(v), Exists(j),
                claim[v].id = j, Owns(w)
         PROVE  FALSE
    BY <1>1, <1>11 DEF LeaseIsRecorded, ClaimsAreOwn, Owns
  <1>12. LeaseIsRecorded'
    <2> SUFFICES ASSUME NEW v \in Worker, pc'[v] = "sending", LeaseRuns(v)',
                        jobs'[claim[v].id] # NULL, v # w
                 PROVE  /\ jobs'[claim[v].id].lock_token = claim[v].lock_token
                        /\ jobs'[claim[v].id].locked_until = now[v] + LeaseDuration
      BY <1>2 DEF LeaseIsRecorded, Exists, TypeOK
    <2>1. pc[v] = "sending" /\ LeaseRuns(v) /\ claim[v].id \in Job
      BY <1>2 DEF LeaseRuns, ClaimsAreOwn, TypeOK
    <2>2. jobs'[claim[v].id] = jobs[claim[v].id]
      BY <1>3, <1>4, <1>11, <2>1 DEF Owns
    <2> QED
      BY <2>1, <2>2 DEF LeaseIsRecorded, Exists
  <1>13. OneLiveSender' /\ NeverSendsErasedContent'
    BY <1>2 DEF OneLiveSender, NeverSendsErasedContent, LeaseRuns, Sending, TypeOK
  <1> QED
    BY <1>6, <1>7, <1>8, <1>9, <1>10, <1>12, <1>13

\* A row that a settling worker owns is not a dead letter.
LEMMA OwnedRow ==
  ASSUME Inv, NEW w \in Worker, pc[w] = "settling", Owns(w)
  PROVE  /\ jobs[claim[w].id] \in Row
         /\ claim[w] \in ClaimedEmailJob
         /\ claim[w].id \in Job
         /\ jobs[claim[w].id].lock_token # NULL
         /\ jobs[claim[w].id].failed_at = NULL
         /\ jobs[claim[w].id].body = "full"
         /\ jobs[claim[w].id].attempts = claim[w].attempts
  <1> USE NullAssumption DEF Inv
  <1>1. claim[w] \in ClaimedEmailJob /\ claim[w].id \in Job
    BY DEF ClaimsAreOwn, TypeOK, ClaimedEmailJob
  <1>2. jobs[claim[w].id] \in Row /\ claim[w].lock_token # NULL
    BY <1>1 DEF Owns, Exists, TypeOK, ClaimedEmailJob
  <1> QED
    BY <1>1, <1>2 DEF DeadLettersJustified, Owns, RowsAreKnown, ClaimsAreOwn

LEMMA CompleteInv ==
  ASSUME Inv, NEW w \in Worker, Complete(w)
  PROVE  Inv'
  <1>1. Sound(w, NULL)
    BY DEF Inv, Complete, OutcomesAreReal, Sound
  <1> QED
    BY <1>1, SettleInv DEF Complete

\* Retrying and failing give the lease up and keep the count of attempts.
LEMMA RetriedRow ==
  ASSUME NEW w \in Worker, NEW r \in Row, outcome[w] = "retryable",
         now[w] + RetryDelays[claim[w].attempts] \in Nat
  PROVE  LET row == Retried(w, r)
         IN  /\ row \in Row
             /\ row.next_attempt_at = now[w] + RetryDelays[claim[w].attempts]
             /\ row.lock_token = NULL /\ row.locked_until = NULL
             /\ row.failed_at = r.failed_at /\ row.body = r.body
             /\ row.attempts = r.attempts
  <1> DEFINE due == now[w] + RetryDelays[claim[w].attempts]
             error == outcome[w]
             delayed == [r EXCEPT !.next_attempt_at = due]
             unleased == [delayed EXCEPT !.locked_until = NULL]
             disowned == [unleased EXCEPT !.lock_token = NULL]
             row == [disowned EXCEPT !.last_error_code = error]
  <1>1. Retried(w, r) = row
    BY DEF Retried
  <1> HIDE DEF due
  <1>2. /\ delayed \in Row /\ delayed.next_attempt_at = due
        /\ delayed.failed_at = r.failed_at /\ delayed.body = r.body
        /\ delayed.attempts = r.attempts
    BY DEF Row, due
  <1> HIDE DEF delayed
  <1>3. /\ unleased \in Row /\ unleased.locked_until = NULL
        /\ unleased.failed_at = r.failed_at /\ unleased.body = r.body
        /\ unleased.attempts = r.attempts /\ unleased.next_attempt_at = due
    BY <1>2 DEF Row
  <1> HIDE DEF unleased
  <1>4. /\ disowned \in Row /\ disowned.locked_until = NULL
        /\ disowned.lock_token = NULL
        /\ disowned.failed_at = r.failed_at /\ disowned.body = r.body
        /\ disowned.attempts = r.attempts /\ disowned.next_attempt_at = due
    BY <1>3 DEF Row
  <1> HIDE DEF disowned
  <1>5. /\ row \in Row /\ row.locked_until = NULL /\ row.lock_token = NULL
        /\ row.failed_at = r.failed_at /\ row.body = r.body
        /\ row.attempts = r.attempts /\ row.next_attempt_at = due
    BY <1>4 DEF Row
  <1> HIDE DEF row
  <1> QED
    BY <1>1, <1>5 DEF due

LEMMA FailedRow ==
  ASSUME NEW w \in Worker, NEW r \in Row, outcome[w] \in {"retryable", "fatal"},
         now[w] \in Nat
  PROVE  LET row == Failed(w, r)
         IN  /\ row \in Row
             /\ row.lock_token = NULL /\ row.locked_until = NULL
             /\ row.failed_at = now[w]
             /\ row.last_error_code = outcome[w]
             /\ row.attempts = r.attempts
  <1> DEFINE at == now[w]
             error == outcome[w]
             unleased == [r EXCEPT !.locked_until = NULL]
             disowned == [unleased EXCEPT !.lock_token = NULL]
             marked == [disowned EXCEPT !.last_error_code = error]
             failed == [marked EXCEPT !.failed_at = at]
             row == [failed EXCEPT !.body = "erased"]
  <1>1. Failed(w, r) = row
    BY DEF Failed
  <1>2. at \in Nat /\ error \in {"retryable", "fatal"}
    OBVIOUS
  <1> HIDE DEF at, error
  <1>3. /\ unleased \in Row /\ unleased.locked_until = NULL
        /\ unleased.attempts = r.attempts
    BY DEF Row
  <1> HIDE DEF unleased
  <1>4. /\ disowned \in Row /\ disowned.locked_until = NULL
        /\ disowned.lock_token = NULL /\ disowned.attempts = r.attempts
    BY <1>3 DEF Row
  <1> HIDE DEF disowned
  <1>5. /\ marked \in Row /\ marked.locked_until = NULL /\ marked.lock_token = NULL
        /\ marked.last_error_code = error /\ marked.attempts = r.attempts
    BY <1>2, <1>4 DEF Row
  <1> HIDE DEF marked
  <1>6. /\ failed \in Row /\ failed.locked_until = NULL /\ failed.lock_token = NULL
        /\ failed.failed_at = at
        /\ failed.last_error_code = error /\ failed.attempts = r.attempts
    BY <1>2, <1>5 DEF Row
  <1> HIDE DEF failed
  <1>7. /\ row \in Row /\ row.locked_until = NULL /\ row.lock_token = NULL
        /\ row.failed_at = at
        /\ row.last_error_code = error /\ row.attempts = r.attempts
    BY <1>6 DEF Row
  <1> HIDE DEF row
  <1> QED
    BY <1>1, <1>7 DEF at, error

LEMMA RetryLaterInv ==
  ASSUME Inv, NEW w \in Worker, RetryLater(w)
  PROVE  Inv'
  <1> DEFINE r == jobs[claim[w].id]
  <1>1. ASSUME Owns(w) PROVE Sound(w, Retried(w, r))
    <2>1. /\ r \in Row /\ r.failed_at = NULL /\ r.body = "full"
          /\ claim[w] \in ClaimedEmailJob
      BY <1>1, OwnedRow DEF RetryLater
    <2>2. claim[w].attempts \in 1 .. Len(RetryDelays)
      BY <2>1, TimingAssumption
      DEF RetryLater, ShouldRetry, MaxAttempts, ClaimedEmailJob
    <2>3. now[w] + RetryDelays[claim[w].attempts] \in Nat
      BY <2>2, TimingAssumption DEF Inv, TypeOK
    <2>4. outcome[w] = "retryable"
      BY DEF RetryLater, ShouldRetry
    <2> QED
      BY <2>1, <2>3, <2>4, RetriedRow, NullAssumption DEF Sound
  <1> QED
    BY <1>1, SettleInv DEF RetryLater

LEMMA FailInv ==
  ASSUME Inv, NEW w \in Worker, Fail(w)
  PROVE  Inv'
  <1> DEFINE r == jobs[claim[w].id]
  <1>1. ASSUME Owns(w) PROVE Sound(w, Failed(w, r))
    <2>1. r \in Row /\ claim[w] \in ClaimedEmailJob /\ r.attempts = claim[w].attempts
      BY <1>1, OwnedRow DEF Fail
    <2>2. now[w] \in Nat /\ outcome[w] \in {"retryable", "fatal"}
      BY DEF Inv, TypeOK, OutcomesAreReal, Fail
    <2>3. outcome[w] = "fatal" \/ claim[w].attempts >= MaxAttempts
      BY <2>1, <2>2, TimingAssumption
      DEF Fail, ShouldRetry, ClaimedEmailJob, MaxAttempts
    <2> QED
      BY <2>1, <2>2, <2>3, FailedRow, NullAssumption DEF Sound
  <1> QED
    BY <1>1, SettleInv DEF Fail

-----------------------------------------------------------------------------
LEMMA StepInv == Inv /\ [Next]_vars => Inv'
  <1> SUFFICES ASSUME Inv, [Next]_vars PROVE Inv'
    OBVIOUS
  <1>1. CASE \E j \in Job : Enqueue(j) \/ Cancel(j)
    BY <1>1, EnqueueInv, CancelInv
  <1>2. CASE \E w \in Worker : WorkerStep(w) \/ Fault(w)
    BY <1>2, ReadNowInv, SelectDueInv, IdleInv, CommitClaimInv, SentInv,
       CompleteInv, RetryLaterInv, FailInv
    DEF WorkerStep, ProcessJob
  <1>3. CASE Tick
    BY <1>3, TickInv
  <1>4. CASE UNCHANGED vars
    BY <1>4 DEF vars, Inv, TypeOK, LocksAreClaims, NowIsPast, ClaimsAreOwn,
                OutcomesAreReal, RowsAreKnown, CancelledWasQueued,
                LeaseIsRecorded, OneLiveSender, NeverSendsErasedContent,
                DeadLettersJustified, NeverSilentlyDropped, Due, Exists,
                LeaseRuns, Sending
  <1> QED
    BY <1>1, <1>2, <1>3, <1>4 DEF Next

\* The inductive invariant holds of every reachable state.
THEOREM Invariance == Spec => []Inv
  BY InitInv, StepInv, PTL DEF Spec

\* Every variable of the outbox has its type.
THEOREM TypeCorrect == Spec => []TypeOK
  <1>1. Inv => TypeOK
    BY DEF Inv
  <1> QED
    BY <1>1, Invariance, PTL

\* A lease keeps other workers from sending, whatever the number of workers
\* and however the clock runs.
THEOREM SingleLiveSender == Spec => []OneLiveSender
  <1>1. Inv => OneLiveSender
    BY DEF Inv
  <1> QED
    BY <1>1, Invariance, PTL

\* The provider is only ever handed an email that still has its content.
THEOREM ContentIsSent == Spec => []NeverSendsErasedContent
  <1>1. Inv => NeverSendsErasedContent
    BY DEF Inv
  <1> QED
    BY <1>1, Invariance, PTL

\* Dead letters are justified by their last error or their attempts.
THEOREM DeadForAReason == Spec => []DeadLettersJustified
  <1>1. Inv => DeadLettersJustified
    BY DEF Inv
  <1> QED
    BY <1>1, Invariance, PTL

\* Nothing queued disappears undelivered and uncancelled.
THEOREM NothingDropped == Spec => []NeverSilentlyDropped
  <1>1. Inv => NeverSilentlyDropped
    BY DEF Inv
  <1> QED
    BY <1>1, Invariance, PTL

\* A row that exists changes by its cascade, a claim or its owner's settling.
LEMMA WhoChangesARow ==
  ASSUME Inv, Next, NEW j \in Job, Exists(j), jobs'[j] # jobs[j]
  PROVE  \/ j \in cancelled'
         \/ \E w \in Worker : CommitClaim(w, j)
         \/ \E w \in Worker : /\ pc[w] = "settling" /\ pc'[w] = "idle"
                              /\ claim[w].id = j /\ Owns(w)
  <1>1. CASE \E k \in Job : Enqueue(k) \/ Cancel(k)
    BY <1>1 DEF Enqueue, Cancel, Inv, TypeOK, RowsAreKnown
  <1>2. CASE \E w \in Worker, k \in Job : CommitClaim(w, k)
    <2> PICK w \in Worker, k \in Job : CommitClaim(w, k)
      BY <1>2
    <2>1. k = j
      BY DEF CommitClaim, Inv, TypeOK
    <2> QED
      BY <2>1
  <1>3. CASE \E w \in Worker : Complete(w) \/ RetryLater(w) \/ Fail(w)
    <2> PICK w \in Worker : Complete(w) \/ RetryLater(w) \/ Fail(w)
      BY <1>3
    <2>1. /\ pc[w] = "settling" /\ pc'[w] = "idle"
          /\ \E row : jobs' = IF Owns(w) THEN [jobs EXCEPT ![claim[w].id] = row]
                                        ELSE jobs
      BY DEF Complete, RetryLater, Fail, Settle, BackToIdle, Inv, TypeOK
    <2> QED
      BY <2>1 DEF Inv, TypeOK
  <1>4. ASSUME NEW w \in Worker, WorkerStep(w) \/ Fault(w)
        PROVE  \/ jobs' = jobs
               \/ \E k \in Job : CommitClaim(w, k)
               \/ Complete(w) \/ RetryLater(w) \/ Fail(w)
    BY <1>4
    DEF WorkerStep, ProcessJob, ReadNow, NothingDue, SelectDue, Deliver, Refuse, Fault
  <1>5. Tick => jobs' = jobs
    BY DEF Tick
  <1> QED
    BY <1>1, <1>2, <1>3, <1>4, <1>5 DEF Next

\* A running lease fences off every other worker's claim and every late settling.
THEOREM LeasesProtect == Spec => LeaseProtectsRow
  <1>1. Inv /\ [Next]_vars => [\A j \in Job : LeaseProtects(j)]_vars
    <2> SUFFICES ASSUME Inv, Next, NEW j \in Job, Exists(j),
                        jobs[j].lock_token # NULL,
                        clock < jobs[j].locked_until, jobs'[j] # jobs[j]
                 PROVE  LeaseProtects(j)
      BY DEF LeaseProtects
    <2>1. ASSUME NEW w \in Worker, CommitClaim(w, j) PROVE FALSE
      <3>1. Due(j, now[w]) /\ now[w] <= clock /\ jobs[j].locked_until # NULL
        BY <2>1 DEF CommitClaim, Inv, LocksAreClaims, NowIsPast, RowsAreKnown
      <3>2. jobs[j].locked_until \in Nat /\ now[w] \in Nat /\ clock \in Nat
        BY <3>1 DEF Inv, TypeOK, Row, Exists
      <3> QED
        BY <3>1, <3>2 DEF Due
    <2> QED
      BY <2>1, WhoChangesARow DEF LeaseProtects, Owns
  <1> QED
    BY <1>1, Invariance, PTL DEF Spec, LeaseProtectsRow

\* A dead letter is never revived, even by a worker whose claim is older.
THEOREM DeadLettersStay == Spec => DeadLettersFinal
  <1>1. Inv /\ [Next]_vars => [\A j \in Job : StaysDead(j)]_vars
    <2> SUFFICES ASSUME Inv, Next, NEW j \in Job, Exists(j),
                        jobs[j].failed_at # NULL, jobs'[j] # jobs[j]
                 PROVE  j \in cancelled'
      BY DEF StaysDead
    <2>1. ASSUME NEW w \in Worker, CommitClaim(w, j) PROVE FALSE
      BY <2>1 DEF CommitClaim, Inv, LocksAreClaims, Due
    <2>2. ASSUME NEW w \in Worker, pc[w] = "settling", claim[w].id = j, Owns(w)
          PROVE  FALSE
      BY <2>2, OwnedRow
    <2> QED
      BY <2>1, <2>2, WhoChangesARow
  <1> QED
    BY <1>1, Invariance, PTL DEF Spec, DeadLettersFinal

-----------------------------------------------------------------------------
(* EmailOutbox implements OutboxPromise: each step of the rows and workers *)
(* is one step of the at-least-once queue, or none.                        *)

status == [j \in Job |-> StatusOf(j)]
attempt == [w \in Worker |-> Attempting(w)]

LEMMA InitPromise == Init => Promise!Init
  <1> SUFFICES ASSUME Init PROVE Promise!Init
    OBVIOUS
  <1>1. \A j \in Job : StatusOf(j) = "absent"
    BY DEF Init, StatusOf, Exists
  <1>2. \A w \in Worker : Attempting(w) = NULL
    BY DEF Init, Attempting
  <1> QED
    BY <1>1, <1>2 DEF Promise!Init, Init

\* What leaves the rows and the history of ids alone leaves every status alone.
LEMMA SameStatus ==
  ASSUME jobs' = jobs, enqueued' = enqueued, cancelled' = cancelled
  PROVE  status' = status
  BY DEF status, StatusOf, Exists

LEMMA EnqueueImplements ==
  ASSUME Inv, NEW j \in Job, Enqueue(j)
  PROVE  Promise!Enqueue(j)
  <1>1. ~Exists(j) /\ j \notin enqueued /\ j \notin cancelled
    BY DEF Inv, RowsAreKnown, CancelledWasQueued, Enqueue
  <1>2. jobs'[j] # NULL /\ jobs'[j].failed_at = NULL
    BY NullAssumption DEF Enqueue, NewRow, Row, Inv, TypeOK
  <1>3. \A k \in Job \ {j} : jobs'[k] = jobs[k]
    BY DEF Enqueue, Inv, TypeOK
  <1>4. StatusOf(j) = "absent" /\ StatusOf(j)' = "queued"
    BY <1>1, <1>2 DEF StatusOf, Exists
  <1>5. \A k \in Job \ {j} : StatusOf(k)' = StatusOf(k)
    BY <1>3 DEF StatusOf, Exists, Enqueue
  <1>6. attempt' = attempt
    BY DEF attempt, Attempting, Enqueue
  <1> QED
    BY <1>4, <1>5, <1>6 DEF Promise!Enqueue, attempt, Enqueue

LEMMA CancelImplements ==
  ASSUME Inv, NEW j \in Job, Cancel(j)
  PROVE  Promise!Withdraw(j)
  <1>1. jobs'[j] = NULL /\ \A k \in Job \ {j} : jobs'[k] = jobs[k]
    BY DEF Cancel, Inv, TypeOK
  <1>2. StatusOf(j) \in {"queued", "dead"} /\ StatusOf(j)' = "withdrawn"
    BY <1>1 DEF StatusOf, Exists, Cancel
  <1>3. \A k \in Job \ {j} : StatusOf(k)' = StatusOf(k)
    BY <1>1 DEF StatusOf, Exists, Cancel
  <1>4. attempt' = attempt
    BY DEF attempt, Attempting, Cancel
  <1> QED
    BY <1>2, <1>3, <1>4 DEF Promise!Withdraw, attempt, Cancel

LEMMA CommitClaimImplements ==
  ASSUME Inv, NEW w \in Worker, NEW j \in Job, CommitClaim(w, j)
  PROVE  Promise!Begin(w, j)
  <1> DEFINE row == Leased(w, jobs[j])
  <1>1. Exists(j) /\ jobs[j].failed_at = NULL /\ jobs[j] \in Row /\ now[w] \in Nat
    BY DEF Inv, CommitClaim, LocksAreClaims, Due, Exists, TypeOK
  <1>2. row \in Row /\ row.failed_at = NULL
    BY <1>1, LeasedRow
  <1> HIDE DEF row
  <1>3. jobs'[j] = row /\ \A k \in Job \ {j} : jobs'[k] = jobs[k]
    BY DEF CommitClaim, Inv, TypeOK, row
  <1>4. StatusOf(j) = "queued" /\ StatusOf(j)' = "queued"
    BY <1>1, <1>2, <1>3, NullAssumption DEF StatusOf, Exists
  <1>5. \A k \in Job \ {j} : StatusOf(k)' = StatusOf(k)
    BY <1>3 DEF StatusOf, Exists, CommitClaim
  <1>6. status' = status
    BY <1>4, <1>5 DEF status
  <1>7. Attempting(w) = NULL /\ Attempting(w)' = j
    BY DEF Attempting, CommitClaim, Inv, TypeOK
  <1>8. \A v \in Worker \ {w} : Attempting(v)' = Attempting(v)
    BY DEF Attempting, CommitClaim, Inv, TypeOK
  <1>9. attempt' = [attempt EXCEPT ![w] = j]
    BY <1>7, <1>8 DEF attempt
  <1> QED
    BY <1>4, <1>6, <1>7, <1>9 DEF Promise!Begin, attempt, status, CommitClaim

LEMMA SentImplements ==
  ASSUME Inv, NEW w \in Worker,
         Deliver(w) \/ \E error \in {"retryable", "fatal"} : Refuse(w, error)
  PROVE  Promise!Accept(w) \/ UNCHANGED Promise!vars
  <1>1. status' = status
    BY SameStatus DEF Deliver, Refuse
  <1>2. attempt' = attempt
    BY DEF attempt, Attempting, Deliver, Refuse, Inv, TypeOK
  <1>3. Attempting(w) = claim[w].id /\ claim[w].id \in Job /\ Job \subseteq Nat
    BY JobAssumption DEF Attempting, Deliver, Refuse, Inv, ClaimsAreOwn, TypeOK
  <1>4. \/ delivered' = delivered
        \/ delivered' = delivered \union {Attempting(w)}
    BY <1>3 DEF Deliver, Refuse
  <1> QED
    BY <1>1, <1>2, <1>3, <1>4, NullAssumption
    DEF Promise!Accept, Promise!vars, attempt, status

\* Whatever ends an iteration lets go of the attempt, if there was one.
LEMMA IdleImplements ==
  ASSUME Inv, NEW w \in Worker, BackToIdle(w), UNCHANGED <<jobs, history>>
  PROVE  Promise!LetGo(w) \/ UNCHANGED Promise!vars
  <1>1. status' = status
    BY SameStatus
  <1>2. attempt' = [attempt EXCEPT ![w] = NULL]
    BY DEF attempt, Attempting, BackToIdle, Inv, TypeOK
  <1>3. attempt' = attempt \/ attempt[w] # NULL
    BY <1>2 DEF attempt
  <1> QED
    BY <1>1, <1>2, <1>3 DEF Promise!LetGo, Promise!vars, attempt, status

\* A worker that settles a row it owns turns it into what it writes.
LEMMA SettleImplements ==
  ASSUME Inv, NEW w \in Worker, NEW row, pc[w] = "settling", Settle(w, row), Owns(w)
  PROVE  LET j == claim[w].id
             s == IF row = NULL THEN "done"
                  ELSE IF row.failed_at = NULL THEN "queued" ELSE "dead"
         IN  /\ j \in Job /\ Attempting(w) = j /\ StatusOf(j) = "queued"
             /\ status' = [status EXCEPT ![j] = s]
             /\ attempt' = [attempt EXCEPT ![w] = NULL]
             /\ delivered' = delivered
  <1> DEFINE j == claim[w].id
             s == IF row = NULL THEN "done"
                  ELSE IF row.failed_at = NULL THEN "queued" ELSE "dead"
  <1>1. j \in Job /\ Attempting(w) = j /\ StatusOf(j) = "queued"
    BY OwnedRow DEF Attempting, StatusOf, Owns
  <1>2. j \in enqueued /\ j \notin cancelled
    BY DEF Inv, ClaimsAreOwn, RowsAreKnown, Owns, TypeOK
  <1>3. jobs'[j] = row /\ \A k \in Job \ {j} : jobs'[k] = jobs[k]
    BY <1>1 DEF Settle, Inv, TypeOK
  <1>4. \A k \in Job : k = j => StatusOf(k)' = s
    BY <1>2, <1>3 DEF StatusOf, Exists, Settle
  <1>5. \A k \in Job \ {j} : StatusOf(k)' = StatusOf(k)
    BY <1>3 DEF StatusOf, Exists, Settle
  <1>6. status' = [status EXCEPT ![j] = s]
    BY <1>1, <1>4, <1>5 DEF status
  <1>7. attempt' = [attempt EXCEPT ![w] = NULL]
    BY DEF attempt, Attempting, Settle, BackToIdle, Inv, TypeOK
  <1> QED
    BY <1>1, <1>6, <1>7 DEF Settle

LEMMA SettlingImplements ==
  ASSUME Inv, NEW w \in Worker, Complete(w) \/ RetryLater(w) \/ Fail(w)
  PROVE  \/ Promise!Finish(w) \/ Promise!GiveUp(w) \/ Promise!LetGo(w)
         \/ UNCHANGED Promise!vars
  <1> DEFINE r == jobs[claim[w].id]
  <1> USE NullAssumption
  <1>1. CASE ~Owns(w)
    BY <1>1, IdleImplements DEF Complete, RetryLater, Fail, Settle
  <1>2. CASE Owns(w) /\ Complete(w)
    <2>1. claim[w].id \in delivered
      BY <1>2 DEF Complete, Inv, OutcomesAreReal
    <2>2. claim[w].id # NULL
      BY <1>2, OwnedRow, JobAssumption DEF Complete
    <2> QED
      BY <1>2, <2>1, <2>2, SettleImplements
      DEF Complete, Promise!Finish, attempt, status
  <1>3. CASE Owns(w) /\ RetryLater(w)
    <2>1. r \in Row /\ r.failed_at = NULL /\ claim[w] \in ClaimedEmailJob
      BY <1>3, OwnedRow DEF RetryLater
    <2>2. claim[w].attempts \in 1 .. Len(RetryDelays) /\ outcome[w] = "retryable"
      BY <1>3, <2>1, TimingAssumption
      DEF RetryLater, ShouldRetry, MaxAttempts, ClaimedEmailJob
    <2>3. now[w] + RetryDelays[claim[w].attempts] \in Nat
      BY <2>2, TimingAssumption DEF Inv, TypeOK
    <2>4. Retried(w, r) \in Row /\ Retried(w, r).failed_at = NULL
      BY <2>1, <2>2, <2>3, RetriedRow
    <2>5. claim[w].id # NULL
      BY <1>3, OwnedRow, JobAssumption DEF RetryLater
    <2> QED
      BY <1>3, <2>4, <2>5, SettleImplements
      DEF RetryLater, Promise!LetGo, attempt, status
  <1>4. CASE Owns(w) /\ Fail(w)
    <2>1. r \in Row
      BY <1>4, OwnedRow DEF Fail
    <2>2. now[w] \in Nat /\ outcome[w] \in {"retryable", "fatal"}
      BY <1>4 DEF Inv, TypeOK, OutcomesAreReal, Fail
    <2>3. Failed(w, r) \in Row /\ Failed(w, r).failed_at # NULL
      BY <2>1, <2>2, FailedRow
    <2>4. claim[w].id # NULL
      BY <1>4, OwnedRow, JobAssumption DEF Fail
    <2> QED
      BY <1>4, <2>3, <2>4, SettleImplements
      DEF Fail, Promise!GiveUp, attempt, status
  <1> QED
    BY <1>1, <1>2, <1>3, <1>4

LEMMA StepPromise == Inv /\ [Next]_vars => [Promise!Next]_(Promise!vars)
  <1> SUFFICES ASSUME Inv, [Next]_vars PROVE [Promise!Next]_(Promise!vars)
    OBVIOUS
  <1>1. ASSUME NEW j \in Job, Enqueue(j) \/ Cancel(j) PROVE Promise!Next
    BY <1>1, EnqueueImplements, CancelImplements DEF Promise!Next
  <1>2. ASSUME NEW w \in Worker, NEW j \in Job, CommitClaim(w, j) PROVE Promise!Next
    BY <1>2, CommitClaimImplements DEF Promise!Next
  <1>3. ASSUME NEW w \in Worker,
               \/ Deliver(w) \/ \E error \in {"retryable", "fatal"} : Refuse(w, error)
               \/ Complete(w) \/ RetryLater(w) \/ Fail(w)
               \/ NothingDue(w) \/ Fault(w)
        PROVE  Promise!Next \/ UNCHANGED Promise!vars
    <2>1. NothingDue(w) \/ Fault(w) => BackToIdle(w) /\ UNCHANGED <<jobs, history>>
      BY DEF NothingDue, Fault
    <2> QED
      BY <1>3, <2>1, SentImplements, SettlingImplements, IdleImplements
      DEF Promise!Next
  <1>4. ASSUME NEW w \in Worker, ReadNow(w) \/ \E j \in Job : SelectDue(w, j)
        PROVE  UNCHANGED Promise!vars
    <2>1. status' = status
      BY <1>4, SameStatus DEF ReadNow, SelectDue
    <2>2. attempt' = attempt
      BY <1>4 DEF attempt, Attempting, ReadNow, SelectDue, Inv, TypeOK
    <2> QED
      BY <1>4, <2>1, <2>2 DEF ReadNow, SelectDue, Promise!vars, status, attempt
  <1>5. ASSUME Tick \/ UNCHANGED vars PROVE UNCHANGED Promise!vars
    <2>1. status' = status
      BY <1>5, SameStatus DEF Tick, vars
    <2>2. attempt' = attempt
      BY <1>5 DEF attempt, Attempting, Tick, vars
    <2> QED
      BY <1>5, <2>1, <2>2 DEF Tick, vars, Promise!vars, status, attempt
  <1> QED
    BY <1>1, <1>2, <1>3, <1>4, <1>5 DEF Next, WorkerStep, ProcessJob

\* The outbox keeps its promise: it implements the at-least-once queue.
THEOREM Implementation == Spec => KeepsPromise
  BY InitPromise, StepPromise, Invariance, PTL
  DEF Spec, KeepsPromise, Promise!Spec

=============================================================================

---------------------------- MODULE ResendSender ----------------------------
(***************************************************************************)
(* ResendEmailSender (app/mailer/resend.py) sending one message: every     *)
(* call of send, its posts, the answers it retries and how long it waits,  *)
(* against a provider that may process a post whose answer is lost.  The   *)
(* outbox calls send again after a retryable failure or a crash, and when  *)
(* a lease has run out two workers may be sending the message at once.     *)
(*                                                                         *)
(* The provider is external, modelled from what the adapter relies on: a   *)
(* key it has accepted is answered with success and mailed no second time, *)
(* a key in progress is a conflict, and a post may fail in any other way.  *)
(* Time is counted in quarters of a second, and only as how long a call    *)
(* has taken; at Lease and beyond it is all the same.                      *)
(***************************************************************************)
EXTENDS Integers

CONSTANTS
    Caller,        \* workers that may call send at the same time
    MAX_ATTEMPTS,
    BASE_RETRY_DELAY,
    MAX_RETRY_DELAY,
    Hint,          \* numbers a rate limit header may hold
    PostTime,      \* what a post takes at most, and is taken to last: the client's
                   \* timeout bounds connecting, writing and reading separately
    Lease,         \* DEFAULT_LEASE_DURATION of the outbox
    MaxSends,      \* bound on the calls of send
    Absent, Unreadable,  \* headers that hold no number
    NULL

ASSUME SenderAssumption ==
    /\ MAX_ATTEMPTS \in Nat \ {0} /\ MaxSends \in Nat /\ Hint \subseteq Int
    /\ {BASE_RETRY_DELAY, MAX_RETRY_DELAY, PostTime, Lease} \subseteq Nat

VARIABLES
    configured, \* whether there is an API key
    keyed,      \* whether the message brings an idempotency key
    phase,      \* [Caller -> "idle", "posting", or the verdict of its last call]
    attempt,    \* [Caller -> posts done in this call]
    key,        \* [Caller -> Idempotency-Key of this call]
    last,       \* [Caller -> last answer of this call without its headers, or NULL]
    elapsed,    \* [Caller -> time this call has taken]
    sends,      \* calls of send so far
    provider,   \* [Key -> "new", "busy" or "accepted"]
    mails       \* mails the provider has sent out

settings == <<configured, keyed>>
world == <<provider, mails>>
calls == <<phase, attempt, key, last, elapsed, sends>>
vars == <<settings, calls, world>>

-----------------------------------------------------------------------------
(* Answers                                                                 *)

Key == 0..MaxSends    \* 0 is the message's own key

Header == Hint \union {Absent, Unreadable}

Reply(status, code) ==
    [status |-> status, code |-> code, after |-> Absent, reset |-> Absent]

Success == Reply("success", "none")
Conflict == Reply("conflict", "concurrent")

\* "server" is 500, 502, 503 and 504, "conflict" 409, "limit" 429.
Refusals ==
    {Reply("server", "none"), Reply("other", "none"),
     Reply("conflict", "locked"), Reply("conflict", "none"), Reply("limit", "quota")}
    \union [status : {"limit"}, code : {"rate"}, after : Header, reset : Header]

\* What remains of an answer without its headers.
Seen == {Reply(a.status, a.code) : a \in Refusals} \union {Success, Conflict, NULL}

ASSUME NullAssumption == NULL # Conflict

Least(a, b) == IF a < b THEN a ELSE b
Greatest(a, b) == IF a > b THEN a ELSE b

\* Faulty variant: a conflict is never worth a retry.
RetryableUnlessConflict(a) ==
    a.status = "server" \/ (a.status = "limit" /\ a.code = "rate")

Retryable(a) ==
    \/ a.status = "server"
    \/ a.status = "conflict" /\ a.code \in {"concurrent", "locked"}
    \/ a.status = "limit" /\ a.code = "rate"

\* The first header that holds a number.
Advice(a) ==
    IF a = NULL \/ a.status # "limit" THEN NULL
    ELSE CASE a.after \in Hint -> a.after
           [] a.after \notin Hint /\ a.reset \in Hint -> a.reset
           [] OTHER -> NULL

Backoff(n) ==
    LET base == BASE_RETRY_DELAY * 2^n IN {base, base + base \div 2, base + base}

\* Faulty variant: the provider's advice is not capped.
RetryDelayAsAdvised(n, a) ==
    IF Advice(a) # NULL THEN {Greatest(0, Advice(a))}
    ELSE {Least(MAX_RETRY_DELAY, d) : d \in Backoff(n)}

\* The delays that may follow attempt n, over the jitter's range.
RetryDelay(n, a) ==
    IF Advice(a) # NULL THEN {Least(MAX_RETRY_DELAY, Greatest(0, Advice(a)))}
    ELSE {Least(MAX_RETRY_DELAY, d) : d \in Backoff(n)}

-----------------------------------------------------------------------------
(* The adapter                                                             *)

\* Faulty variant: the message's key is not used.
KeyPerCall(call) == call

\* The key of all posts of a call; uuid4 when the message has none.
KeyOf(call) == IF keyed THEN 0 ELSE call

\* Faulty variant: off by one.
LastAttemptTooLate(c) == attempt[c] = MAX_ATTEMPTS

LastAttempt(c) == attempt[c] = MAX_ATTEMPTS - 1

Spend(c, time) == elapsed' = [elapsed EXCEPT ![c] = Least(Lease, @ + time)]

Init ==
    /\ configured \in BOOLEAN /\ keyed \in BOOLEAN
    /\ phase = [c \in Caller |-> "idle"]
    /\ attempt = [c \in Caller |-> 0]
    /\ key = [c \in Caller |-> 0]
    /\ last = [c \in Caller |-> NULL]
    /\ elapsed = [c \in Caller |-> 0]
    /\ sends = 0
    /\ provider = [k \in Key |-> "new"]
    /\ mails = 0

\* The outbox calls while no call has settled the message.
Send(c) ==
    /\ sends < MaxSends
    /\ phase[c] \in {"idle", "retryable"}
    /\ \A d \in Caller : phase[d] \notin {"sent", "fatal"}
    /\ sends' = sends + 1
    /\ attempt' = [attempt EXCEPT ![c] = 0]
    /\ last' = [last EXCEPT ![c] = NULL]
    /\ elapsed' = [elapsed EXCEPT ![c] = 0]
    /\ phase' = [phase EXCEPT ![c] = IF configured THEN "posting" ELSE "fatal"]
    /\ key' = [key EXCEPT ![c] = KeyOf(sends + 1)]
    /\ UNCHANGED <<settings, world>>

Conclude(c, verdict) ==
    /\ phase' = [phase EXCEPT ![c] = verdict]
    /\ Spend(c, PostTime)
    /\ UNCHANGED <<settings, attempt, key, sends>>

\* Sleep and go round the loop; after the last round it would end in success.
Again(c, a) ==
    /\ attempt' = [attempt EXCEPT ![c] = @ + 1]
    /\ phase' = [phase EXCEPT ![c] = IF attempt[c] + 1 < MAX_ATTEMPTS THEN "posting" ELSE "sent"]
    /\ \E delay \in RetryDelay(attempt[c], a) : Spend(c, PostTime + delay)
    /\ UNCHANGED <<settings, key, sends>>

\* A post is answered with a.
Receive(c, a) ==
    /\ last' = [last EXCEPT ![c] = Reply(a.status, a.code)]
    /\ CASE a.status = "success" -> Conclude(c, "sent")
         [] a.status # "success" /\ ~Retryable(a) -> Conclude(c, "fatal")
         [] a.status # "success" /\ Retryable(a) ->
               IF LastAttempt(c) THEN Conclude(c, "retryable") ELSE Again(c, a)

\* No answer: a TransportError.
Lose(c) ==
    /\ last' = [last EXCEPT ![c] = NULL]
    /\ IF LastAttempt(c) THEN Conclude(c, "retryable") ELSE Again(c, NULL)

-----------------------------------------------------------------------------
(* The provider, and the posts between the two                             *)

Posting(c) == phase[c] = "posting"

Accepts(k) == provider' = [provider EXCEPT ![k] = "accepted"] /\ mails' = mails + 1

\* What a post may do at the provider: be lost, found accepted already or in
\* progress, be left in progress, or be accepted.
Processed(k) ==
    \/ UNCHANGED world
    \/ provider[k] = "new" /\ provider' = [provider EXCEPT ![k] = "busy"] /\ UNCHANGED mails
    \/ provider[k] = "new" /\ Accepts(k)

PostSucceeds(c) ==
    /\ Posting(c)
    /\ \/ provider[key[c]] = "new" /\ Accepts(key[c])
       \/ provider[key[c]] = "accepted" /\ UNCHANGED world
    /\ Receive(c, Success)

PostConflicts(c) ==
    /\ Posting(c) /\ provider[key[c]] = "busy"
    /\ Receive(c, Conflict)
    /\ UNCHANGED world

PostRefused(c, a) == Posting(c) /\ Receive(c, a) /\ UNCHANGED world

PostUnanswered(c) == Posting(c) /\ Processed(key[c]) /\ Lose(c)

\* Any other httpx.HTTPError, such as an answer that cannot be decoded, ends
\* the call at once.
PostBroken(c) ==
    /\ Posting(c) /\ Processed(key[c])
    /\ Conclude(c, "retryable")
    /\ UNCHANGED last

\* A post left in progress ends, with nobody to hear of it.
ProviderFinishes(k) ==
    /\ provider[k] = "busy"
    /\ \/ Accepts(k)
       \/ provider' = [provider EXCEPT ![k] = "new"] /\ UNCHANGED mails
    /\ UNCHANGED <<settings, calls>>

\* The process stops during a call; another will make the next one.
Crash(c) ==
    /\ Posting(c)
    /\ phase' = [phase EXCEPT ![c] = "idle"]
    /\ UNCHANGED <<settings, attempt, key, last, elapsed, sends, world>>

Post(c) ==
    \/ PostSucceeds(c) \/ PostConflicts(c)
    \/ PostUnanswered(c) \/ PostBroken(c)
    \/ \E a \in Refusals : PostRefused(c, a)

Next ==
    \/ \E c \in Caller : Send(c) \/ Post(c) \/ Crash(c)
    \/ \E k \in Key : ProviderFinishes(k)

Spec == Init /\ [][Next]_vars

-----------------------------------------------------------------------------
(* Properties                                                              *)

\* send returns without an exception only if the provider has the message:
\* the outbox deletes the job on the strength of it.
SentMeansAccepted == \A c \in Caller : phase[c] = "sent" => mails > 0

\* Retries after lost answers, repeated calls and calls that overlap mail a
\* message with a key once, and one without a key at most once a call.
OneMailPerKey == mails <= IF keyed THEN 1 ELSE sends

\* Meeting one's own earlier post, or another worker's, is no reason to give
\* the message up for good.
OverlapIsNotFatal == \A c \in Caller : phase[c] = "fatal" => last[c] # Conflict

\* A call is over before the lease its worker holds, whatever the provider
\* advises: what the outbox's liveness assumes.
SendFitsLease == \A c \in Caller : elapsed[c] < Lease

=============================================================================

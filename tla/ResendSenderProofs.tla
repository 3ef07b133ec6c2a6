------------------------- MODULE ResendSenderProofs -------------------------
(***************************************************************************)
(* Theorems about ResendSender for any callers, attempts, delays and       *)
(* headers, and any number of calls.                                       *)
(***************************************************************************)
EXTENDS ResendSender, FiniteSetTheorems, TLAPS

Accepted == {k \in Key : provider[k] = "accepted"}

\* The keys that calls have posted with so far.
Used == IF keyed THEN {0} ELSE 1..sends

\* How long n attempts take at most, with the delays after them; and a call.
Spent(n) == n * (PostTime + MAX_RETRY_DELAY)
Budget == Spent(MAX_ATTEMPTS - 1) + PostTime

Types ==
    /\ configured \in BOOLEAN /\ keyed \in BOOLEAN
    /\ phase \in [Caller -> {"idle", "posting", "sent", "retryable", "fatal"}]
    /\ attempt \in [Caller -> Nat]
    /\ key \in [Caller -> Key]
    /\ last \in [Caller -> Seen]
    /\ elapsed \in [Caller -> Nat]
    /\ sends \in 0..MaxSends
    /\ provider \in [Key -> {"new", "busy", "accepted"}]

\* The provider has heard of used keys only, and mails once for each.
Ledger ==
    /\ \A k \in Key : provider[k] # "new" => k \in Used
    /\ mails = Cardinality(Accepted)

\* A call that posts has attempts left and has not overdrawn its time; what a
\* call concludes is so.
InPlace(c) ==
    /\ phase[c] = "posting" =>
          /\ attempt[c] < MAX_ATTEMPTS
          /\ key[c] \in Used
          /\ elapsed[c] <= Spent(attempt[c])
    /\ phase[c] = "sent" => Accepted # {}
    /\ phase[c] = "fatal" => last[c] # Conflict
    /\ elapsed[c] <= Budget

Inv == Types /\ Ledger /\ \A c \in Caller : InPlace(c)

-----------------------------------------------------------------------------
(* Time.                                                                   *)

USE SenderAssumption

LEMMA Spending ==
  ASSUME NEW n \in Nat
  PROVE  /\ Spent(n) \in Nat
         /\ Spent(n + 1) = Spent(n) + PostTime + MAX_RETRY_DELAY
         /\ n < MAX_ATTEMPTS => Spent(n) + PostTime <= Budget
  <1> DEFINE d == PostTime + MAX_RETRY_DELAY
  <1>1. d \in Nat
    OBVIOUS
  <1>2. \A a, b \in Nat : a <= b => a * d \in Nat /\ a * d <= b * d /\ (a + 1) * d = a * d + d
    <2> HIDE DEF d
    <2> QED
      BY <1>1
  <1>3. n * d \in Nat /\ (n + 1) * d = n * d + d
    <2> HIDE DEF d
    <2> QED
      BY <1>2
  <1>4. n < MAX_ATTEMPTS => n * d <= (MAX_ATTEMPTS - 1) * d /\ (MAX_ATTEMPTS - 1) * d \in Nat
    <2> HIDE DEF d
    <2> SUFFICES ASSUME n < MAX_ATTEMPTS
                 PROVE n * d <= (MAX_ATTEMPTS - 1) * d /\ (MAX_ATTEMPTS - 1) * d \in Nat
      OBVIOUS
    <2>1. MAX_ATTEMPTS - 1 \in Nat /\ n <= MAX_ATTEMPTS - 1
      OBVIOUS
    <2> QED
      BY <1>2, <2>1
  <1> QED
    BY <1>3, <1>4 DEF Spent, Budget

LEMMA BudgetType == Budget \in Nat /\ Spent(0) = 0 /\ PostTime <= Budget
  <1>1. MAX_ATTEMPTS - 1 \in Nat /\ PostTime + MAX_RETRY_DELAY \in Nat
    OBVIOUS
  <1>2. Spent(MAX_ATTEMPTS - 1) \in Nat
    BY <1>1, Spending
  <1>3. Spent(0) = 0
    BY <1>1 DEF Spent
  <1> QED
    BY <1>2, <1>3 DEF Budget

\* The provider's advice and the backoff are both capped.
LEMMA Delays ==
  ASSUME NEW n \in Nat, NEW a, NEW delay \in RetryDelay(n, a)
  PROVE  delay \in 0..MAX_RETRY_DELAY
  <1>1. CASE Advice(a) # NULL
    <2>1. Advice(a) \in Int
      BY <1>1 DEF Advice
    <2> QED
      BY <1>1, <2>1 DEF RetryDelay, Least, Greatest
  <1>2. CASE Advice(a) = NULL
    <2>1. 2^n \in Nat
      <3>1. IsFiniteSet(1..n) /\ Cardinality(1..n) = n
        BY FS_Interval
      <3>2. IsFiniteSet(SUBSET (1..n)) /\ Cardinality(SUBSET (1..n)) = 2^Cardinality(1..n)
        BY <3>1, FS_SUBSET, Zenon
      <3>3. Cardinality(SUBSET (1..n)) \in Nat
        BY <3>2, FS_CardinalityType, Zenon
      <3> QED
        BY <3>1, <3>2, <3>3, Zenon
    <2>2. BASE_RETRY_DELAY * 2^n \in Nat
      BY <2>1
    <2>3. \A d \in Backoff(n) : d \in Nat
      BY <2>2 DEF Backoff
    <2> QED
      BY <1>2, <2>3 DEF RetryDelay, Least
  <1> QED
    BY <1>1, <1>2

-----------------------------------------------------------------------------
(* The provider.                                                           *)

LEMMA KeysFinite == IsFiniteSet(Accepted) /\ Cardinality(Accepted) \in Nat
  <1>1. IsFiniteSet(Key)
    BY FS_Interval DEF Key
  <1>2. Accepted \subseteq Key
    BY DEF Accepted
  <1> QED
    BY <1>1, <1>2, FS_Subset, FS_CardinalityType

\* Whatever becomes of a key that a call has posted with, the provider mails
\* once for each key it accepts, and forgets none.
WorldStep(k) ==
    \/ UNCHANGED world
    \/ /\ provider[k] # "accepted" /\ UNCHANGED mails
       /\ \E state \in {"new", "busy"} : provider' = [provider EXCEPT ![k] = state]
    \/ provider[k] # "accepted" /\ Accepts(k)

WorldGoesOn ==
    /\ provider' \in [Key -> {"new", "busy", "accepted"}]
    /\ Ledger'
    /\ Accepted \subseteq Accepted'

LEMMA WorldStepInv ==
  ASSUME Inv, NEW k \in Key, k \in Used, UNCHANGED <<keyed, sends>>, WorldStep(k)
  PROVE  WorldGoesOn
  <1> USE DEF Inv, Types, Ledger
  <1>1. CASE UNCHANGED world
    BY <1>1 DEF WorldGoesOn, Used, Accepted, world
  <1>2. CASE /\ provider[k] # "accepted" /\ UNCHANGED mails
             /\ \E state \in {"new", "busy"} : provider' = [provider EXCEPT ![k] = state]
    <2>1. Accepted' = Accepted
      BY <1>2 DEF Accepted
    <2> QED
      BY <1>2, <2>1 DEF WorldGoesOn, Used
  <1>3. CASE provider[k] # "accepted" /\ Accepts(k)
    <2>1. Accepted' = Accepted \union {k} /\ k \notin Accepted
      BY <1>3 DEF Accepted, Accepts
    <2>2. Cardinality(Accepted') = Cardinality(Accepted) + 1
      BY <2>1, KeysFinite, FS_AddElement
    <2> QED
      BY <1>3, <2>1, <2>2 DEF WorldGoesOn, Used, Accepts
  <1> QED
    BY <1>1, <1>2, <1>3 DEF WorldStep

-----------------------------------------------------------------------------
(* Calls.                                                                  *)

\* A step of c leaves the other calls what they were.
LEMMA OthersInPlace ==
  ASSUME Inv, NEW c \in Caller, NEW d \in Caller \ {c},
         WorldGoesOn, UNCHANGED keyed, sends' \in {sends, sends + 1},
         phase'[d] = phase[d], attempt'[d] = attempt[d], key'[d] = key[d],
         last'[d] = last[d], elapsed'[d] = elapsed[d]
  PROVE  InPlace(d)'
  BY DEF Inv, Types, InPlace, WorldGoesOn, Used, Spent, Budget

LEMMA ConcludeInv ==
  ASSUME Inv, NEW c \in Caller, Posting(c), NEW verdict \in {"sent", "retryable", "fatal"},
         NEW l \in Seen, last' = [last EXCEPT ![c] = l], Conclude(c, verdict), WorldGoesOn,
         verdict = "sent" => Accepted' # {}, verdict = "fatal" => l # Conflict
  PROVE  Inv'
  <1> USE DEF Inv, Conclude, Spend, Posting, settings
  <1>1. attempt[c] \in Nat /\ attempt[c] < MAX_ATTEMPTS /\ elapsed[c] <= Spent(attempt[c])
    BY DEF Types, InPlace
  <1>2. elapsed'[c] \in Nat /\ elapsed'[c] <= Budget
    <2>1. elapsed[c] \in Nat /\ Spent(attempt[c]) \in Nat /\ Spent(attempt[c]) + PostTime <= Budget
      BY <1>1, Spending DEF Types
    <2>2. elapsed'[c] = Least(Lease, elapsed[c] + PostTime)
      BY DEF Types
    <2> QED
      BY <1>1, <2>1, <2>2, BudgetType DEF Least
  <1>3. Types'
    BY <1>2 DEF Types, WorldGoesOn
  <1>4. InPlace(c)'
    BY <1>2 DEF InPlace, Types, Budget, Spent
  <1>5. \A d \in Caller \ {c} : InPlace(d)'
    BY OthersInPlace DEF Types
  <1> QED
    BY <1>3, <1>4, <1>5 DEF WorldGoesOn

LEMMA AgainInv ==
  ASSUME Inv, NEW c \in Caller, Posting(c), ~LastAttempt(c), NEW a,
         NEW l \in Seen, last' = [last EXCEPT ![c] = l], Again(c, a), WorldGoesOn
  PROVE  Inv'
  <1> USE DEF Inv, Posting, settings
  <1>1. /\ attempt[c] \in Nat /\ attempt[c] + 1 < MAX_ATTEMPTS /\ elapsed[c] \in Nat
        /\ key[c] \in Used /\ elapsed[c] <= Spent(attempt[c])
    BY DEF Types, InPlace, LastAttempt
  <1>2. /\ attempt' = [attempt EXCEPT ![c] = attempt[c] + 1]
        /\ phase' = [phase EXCEPT ![c] = "posting"]
        /\ UNCHANGED <<configured, keyed, key, sends>>
    BY <1>1 DEF Again
  <1>3. PICK delay \in RetryDelay(attempt[c], a) :
            elapsed' = [elapsed EXCEPT ![c] = Least(Lease, elapsed[c] + (PostTime + delay))]
    BY DEF Again, Spend
  <1>4. delay \in 0..MAX_RETRY_DELAY
    BY <1>1, Delays
  <1>5. elapsed'[c] \in Nat /\ elapsed'[c] <= Spent(attempt[c] + 1)
    BY <1>1, <1>3, <1>4, Spending DEF Types, Least
  <1>6. Spent(attempt[c] + 1) <= Budget /\ Spent(attempt[c] + 1) \in Nat /\ Budget \in Nat
    BY <1>1, Spending, BudgetType
  <1>7. Types'
    BY <1>2, <1>3, <1>5 DEF Types, WorldGoesOn
  <1>8. InPlace(c)'
    <2>1. /\ phase'[c] = "posting" /\ attempt'[c] = attempt[c] + 1 /\ key'[c] \in Used'
      BY <1>1, <1>2 DEF Types, Used
    <2>2. elapsed'[c] <= Budget
      BY <1>5, <1>6
    <2> QED
      BY <1>1, <1>5, <2>1, <2>2 DEF InPlace, Spent, Budget
  <1>9. \A d \in Caller \ {c} : InPlace(d)'
    BY <1>2, <1>3, OthersInPlace DEF Types
  <1> QED
    BY <1>7, <1>8, <1>9 DEF WorldGoesOn

\* An answer is a reason to stop, and then a good one, or to go on.
LEMMA ReceiveInv ==
  ASSUME Inv, NEW c \in Caller, Posting(c), NEW a \in Refusals \union {Success, Conflict},
         Receive(c, a), WorldGoesOn, a = Success => Accepted' # {}
  PROVE  Inv'
  <1> DEFINE l == Reply(a.status, a.code)
  <1>1. /\ l \in Seen
        /\ a.status = "success" => a = Success
        /\ l = Conflict => Retryable(a)
    BY DEF Seen, Refusals, Reply, Success, Conflict, Retryable
  <1>2. last' = [last EXCEPT ![c] = l]
    BY DEF Receive
  <1> HIDE DEF l
  <1>3. CASE a.status = "success"
    <2>1. Conclude(c, "sent")
      BY <1>3 DEF Receive
    <2> QED
      BY <1>1, <1>2, <1>3, <2>1, ConcludeInv
  <1>4. CASE a.status # "success" /\ ~Retryable(a)
    <2>1. Conclude(c, "fatal")
      BY <1>4 DEF Receive
    <2> QED
      BY <1>1, <1>2, <1>4, <2>1, ConcludeInv
  <1>5. CASE a.status # "success" /\ Retryable(a)
    <2>1. IF LastAttempt(c) THEN Conclude(c, "retryable") ELSE Again(c, a)
      BY <1>5 DEF Receive
    <2> QED
      BY <1>1, <1>2, <2>1, ConcludeInv, AgainInv
  <1> QED
    BY <1>3, <1>4, <1>5

-----------------------------------------------------------------------------
LEMMA InitInv == Init => Inv
  <1> SUFFICES ASSUME Init PROVE Inv
    OBVIOUS
  <1> USE DEF Init
  <1>1. Types
    BY DEF Types, Key, Seen
  <1>2. Ledger
    <2>1. Accepted = {}
      BY DEF Accepted
    <2> QED
      BY <2>1, FS_EmptySet DEF Ledger
  <1>3. \A c \in Caller : InPlace(c)
    <2> TAKE c \in Caller
    <2>1. elapsed[c] = 0 /\ phase[c] = "idle"
      OBVIOUS
    <2> QED
      BY <2>1, BudgetType DEF InPlace
  <1> QED
    BY <1>1, <1>2, <1>3 DEF Inv

LEMMA SendInv ==
  ASSUME Inv, NEW c \in Caller, Send(c)
  PROVE  Inv'
  <1> USE DEF Inv, Send, settings, world
  <1>1. sends + 1 \in 1..MaxSends
    BY DEF Types
  <1>2. KeyOf(sends + 1) \in Key /\ KeyOf(sends + 1) \in Used'
    BY <1>1 DEF KeyOf, Key, Used, Types
  <1>3. Types'
    BY <1>1, <1>2 DEF Types, Seen
  <1>4. WorldGoesOn
    BY <1>1 DEF WorldGoesOn, Types, Ledger, Used, Accepted
  <1>5. InPlace(c)'
    <2>1. Spent(0) = 0 /\ Budget \in Nat
      BY BudgetType
    <2>2. last'[c] = NULL /\ attempt'[c] = 0 /\ elapsed'[c] = 0 /\ key'[c] \in Used'
          /\ phase'[c] \in {"posting", "fatal"}
      BY <1>2 DEF Types
    <2> QED
      BY <2>1, <2>2, NullAssumption DEF InPlace, Spent, Budget
  <1>6. \A d \in Caller \ {c} : InPlace(d)'
    BY <1>4, OthersInPlace DEF Types
  <1> QED
    BY <1>3, <1>4, <1>5, <1>6 DEF WorldGoesOn

LEMMA PostInv ==
  ASSUME Inv, NEW c \in Caller, Post(c)
  PROVE  Inv'
  <1>1. Posting(c) /\ key[c] \in Key /\ key[c] \in Used /\ last[c] \in Seen /\ last \in [Caller -> Seen]
    BY DEF Post, PostSucceeds, PostConflicts, PostUnanswered, PostBroken, PostRefused,
       Posting, Inv, Types, InPlace
  <1>2. UNCHANGED <<keyed, sends>>
    BY DEF Post, PostSucceeds, PostConflicts, PostUnanswered, PostBroken, PostRefused,
       Receive, Lose, Conclude, Again, settings
  <1>3. ASSUME WorldStep(key[c]) PROVE WorldGoesOn
    BY <1>1, <1>2, <1>3, WorldStepInv
  <1>4. ASSUME Processed(key[c]) PROVE WorldStep(key[c])
    BY <1>4 DEF Processed, WorldStep
  <1>5. CASE PostSucceeds(c)
    <2>1. WorldStep(key[c]) /\ Receive(c, Success)
      BY <1>5 DEF PostSucceeds, WorldStep
    <2>2. provider'[key[c]] = "accepted"
      BY <1>1, <1>5 DEF PostSucceeds, Accepts, world, Inv, Types
    <2>3. Accepted' # {}
      BY <1>1, <2>2 DEF Accepted
    <2> QED
      BY <1>1, <1>3, <2>1, <2>3, ReceiveInv
  <1>6. CASE PostConflicts(c)
    <2>1. WorldStep(key[c]) /\ Receive(c, Conflict) /\ Conflict # Success
      BY <1>6 DEF PostConflicts, WorldStep, Conflict, Success, Reply
    <2> QED
      BY <1>1, <1>3, <2>1, ReceiveInv
  <1>7. CASE \E a \in Refusals : PostRefused(c, a)
    <2>1. PICK a \in Refusals : PostRefused(c, a)
      BY <1>7
    <2>2. WorldStep(key[c]) /\ Receive(c, a) /\ a # Success
      BY <2>1 DEF PostRefused, WorldStep, Refusals, Success, Reply
    <2> QED
      BY <1>1, <1>3, <2>2, ReceiveInv
  <1>8. CASE PostUnanswered(c)
    <2>1. NULL \in Seen /\ last' = [last EXCEPT ![c] = NULL]
      BY <1>8 DEF PostUnanswered, Lose, Seen
    <2>2. IF LastAttempt(c) THEN Conclude(c, "retryable") ELSE Again(c, NULL)
      BY <1>8 DEF PostUnanswered, Lose
    <2> QED
      BY <1>1, <1>3, <1>4, <1>8, <2>1, <2>2, ConcludeInv, AgainInv DEF PostUnanswered
  <1>9. CASE PostBroken(c)
    <2>1. last' = [last EXCEPT ![c] = last[c]]
      BY <1>1, <1>9 DEF PostBroken
    <2> QED
      BY <1>1, <1>3, <1>4, <1>9, <2>1, ConcludeInv DEF PostBroken
  <1> QED
    BY <1>5, <1>6, <1>7, <1>8, <1>9 DEF Post

LEMMA CrashInv ==
  ASSUME Inv, NEW c \in Caller, Crash(c)
  PROVE  Inv'
  <1> USE DEF Inv, Crash, settings, world
  <1>1. Types'
    BY DEF Types
  <1>2. WorldGoesOn
    BY DEF WorldGoesOn, Types, Ledger, Used, Accepted
  <1>3. InPlace(c)'
    BY DEF InPlace, Types, Budget, Spent
  <1>4. \A d \in Caller \ {c} : InPlace(d)'
    BY <1>2, OthersInPlace DEF Types
  <1> QED
    BY <1>1, <1>2, <1>3, <1>4 DEF WorldGoesOn

LEMMA ProviderFinishesInv ==
  ASSUME Inv, NEW k \in Key, ProviderFinishes(k)
  PROVE  Inv'
  <1> USE DEF Inv, ProviderFinishes, settings, calls
  <1>1. WorldStep(k) /\ k \in Used
    BY DEF WorldStep, Ledger
  <1>2. WorldGoesOn
    BY <1>1, WorldStepInv
  <1>3. Types'
    BY <1>2 DEF Types, WorldGoesOn
  <1>4. \A c \in Caller : InPlace(c)'
    BY <1>2 DEF InPlace, WorldGoesOn, Used, Spent, Budget
  <1> QED
    BY <1>2, <1>3, <1>4 DEF WorldGoesOn

LEMMA StepInv == Inv /\ [Next]_vars => Inv'
  <1> SUFFICES ASSUME Inv, [Next]_vars PROVE Inv'
    OBVIOUS
  <1>1. CASE UNCHANGED vars
    BY <1>1 DEF Inv, Types, Ledger, InPlace, Used, Accepted, Spent, Budget,
                vars, settings, calls, world
  <1>2. CASE Next
    BY <1>2, SendInv, PostInv, CrashInv, ProviderFinishesInv DEF Next
  <1> QED
    BY <1>1, <1>2

THEOREM Invariance == Spec => []Inv
  BY InitInv, StepInv, PTL DEF Spec

-----------------------------------------------------------------------------
\* Whatever answers are lost, a call that returns means that the provider has
\* the message.
THEOREM SentIsAccepted == Spec => []SentMeansAccepted
  <1>1. Inv => SentMeansAccepted
    <2> SUFFICES ASSUME Inv, NEW c \in Caller, phase[c] = "sent" PROVE mails > 0
      BY DEF SentMeansAccepted
    <2>1. Cardinality(Accepted) # 0
      BY KeysFinite, FS_EmptySet DEF Inv, InPlace
    <2> QED
      BY <2>1, KeysFinite DEF Inv, Ledger
  <1> QED
    BY <1>1, Invariance, PTL

\* However many calls overlap or are repeated, a message with a key is mailed
\* once, and one without at most once a call.
THEOREM MailsOnce == Spec => []OneMailPerKey
  <1>1. Inv => OneMailPerKey
    <2> SUFFICES ASSUME Inv PROVE mails <= IF keyed THEN 1 ELSE sends
      BY DEF OneMailPerKey
    <2>1. Accepted \subseteq Used /\ mails = Cardinality(Accepted) /\ sends \in Nat
      BY DEF Accepted, Inv, Ledger, Types
    <2>2. IsFiniteSet(Used) /\ Cardinality(Used) = IF keyed THEN 1 ELSE sends
      <3>1. IsFiniteSet({0}) /\ Cardinality({0}) = 1
        BY FS_Singleton
      <3>2. IsFiniteSet(1..sends) /\ Cardinality(1..sends) = sends
        <4>1. /\ IsFiniteSet(1..sends)
              /\ Cardinality(1..sends) = IF 1 > sends THEN 0 ELSE sends - 1 + 1
          BY <2>1, FS_Interval, 1 \in Int, sends \in Int
        <4> QED
          BY <2>1, <4>1
      <3> QED
        BY <3>1, <3>2 DEF Used
    <2> QED
      BY <2>1, <2>2, FS_Subset
  <1> QED
    BY <1>1, Invariance, PTL

\* No call gives the message up because it met another's post.
THEOREM OverlapRetried == Spec => []OverlapIsNotFatal
  <1>1. Inv => OverlapIsNotFatal
    BY DEF Inv, InPlace, OverlapIsNotFatal
  <1> QED
    BY <1>1, Invariance, PTL

\* A call is over before its worker's lease if the attempts and the longest
\* delays between them add up to less than the lease.
THEOREM CallsFitTheirLease ==
  ASSUME Budget < Lease
  PROVE  Spec => []SendFitsLease
  <1>1. Inv => SendFitsLease
    <2> SUFFICES ASSUME Inv, NEW c \in Caller PROVE elapsed[c] < Lease
      BY DEF SendFitsLease
    <2>1. elapsed[c] \in Nat /\ elapsed[c] <= Budget /\ Budget \in Nat
      BY BudgetType DEF Inv, InPlace, Types
    <2> QED
      BY <2>1
  <1> QED
    BY <1>1, Invariance, PTL

=============================================================================

------------------------- MODULE QueuedEmailsProofs -------------------------
(***************************************************************************)
(* Theorems about QueuedEmails for every set of jobs and workers, every    *)
(* list of retry delays, any lease, poll interval and downtime and any     *)
(* number of faults: how often an email is attempted, and how long it can  *)
(* stay in the queue.                                                      *)
(*                                                                         *)
(* The argument is about one row and one worker at a time.  The row's      *)
(* Deadline, by which it falls due or its lease ends, moves only with what *)
(* LongestStay has a term for: an attempt and its delay, a fault, a fault  *)
(* that cost the row no attempt, an email that went ahead.  The worker is  *)
(* never far from that deadline (PacedBy): asleep or busy with another     *)
(* email, it is back within Wait of it.                                    *)
(***************************************************************************)
EXTENDS QueuedEmails, EmailOutboxProofs, FiniteSetTheorems, WellFoundedInduction

-----------------------------------------------------------------------------
(* Sums of delays                                                          *)

\* A non-empty set of natural numbers has a least one, which is what the
\* inductions below use.
LEMMA LeastNatural == \A S \in SUBSET Nat : S # {} => \E n \in S : \A m \in S : n <= m
  <1> SUFFICES ASSUME NEW S \in SUBSET Nat, S # {}
               PROVE  \E n \in S : \A m \in S : n <= m
    OBVIOUS
  <1>1. PICK k \in S : TRUE
    OBVIOUS
  <1> DEFINE T == {0..m : m \in {m \in S : m <= k}}
  <1>2. IsFiniteSet(0..k)
    BY <1>1, FS_Interval
  <1>3. T \subseteq FiniteSubsetsOf(0..k) /\ T # {}
    <2>1. \A m \in S : m <= k => 0..m \subseteq 0..k /\ IsFiniteSet(0..m)
      BY <1>1, FS_Interval
    <2> QED
      BY <1>1, <2>1 DEF FiniteSubsetsOf
  <1>4. PICK x \in T : \A y \in T : <<y, x>> \notin StrictSubsetOrdering(0..k)
    BY <1>2, <1>3, FS_StrictSubsetOrderingWellFounded, WFMin
  <1>5. PICK n \in S : x = 0..n /\ n <= k
    BY <1>4
  <1>6. ASSUME NEW m \in S, m < n
        PROVE  FALSE
    <2>1. 0..m \in T
      BY <1>1, <1>5, <1>6
    <2>2. 0..m \subseteq 0..n /\ 0..m # 0..n
      BY <1>5, <1>6
    <2>3. <<0..m, x>> \in StrictSubsetOrdering(0..k)
      BY <1>1, <1>3, <1>5, <2>1, <2>2 DEF StrictSubsetOrdering
    <2> QED
      BY <1>4, <2>1, <2>3
  <1> QED
    BY <1>6

Sums(g, m) ==
    /\ g \in [0..m -> Nat]
    /\ g[0] = 0
    /\ \A i \in 1..m : g[i] = g[i - 1] + RetryDelays[i]

LEMMA SumsExist ==
  \A m \in 0..Len(RetryDelays) : \E g : Sums(g, m)
  <1> DEFINE N == Len(RetryDelays)
             Bad == {m \in 0..N : ~\E g : Sums(g, m)}
  <1>1. N \in Nat /\ \A i \in 1..N : RetryDelays[i] \in Nat
    BY TimingAssumption
  <1> SUFFICES ASSUME Bad # {} PROVE FALSE
    OBVIOUS
  <1>2. PICK m \in Bad : \A k \in Bad : m <= k
    <2>1. Bad \in SUBSET Nat
      BY <1>1
    <2> QED
      BY <2>1, LeastNatural, Zenon
  <1>3. m # 0
    <2>1. Sums([i \in 0..0 |-> 0], 0)
      BY DEF Sums
    <2> QED
      BY <2>1
  <1> DEFINE l == m - 1
  <1>4. l \in 0..N /\ m = l + 1 /\ m \in 1..N /\ l \notin Bad
    BY <1>1, <1>2, <1>3
  <1>5. PICK g : Sums(g, l)
    BY <1>4
  <1> DEFINE h == [i \in 0..m |-> IF i = m THEN g[l] + RetryDelays[m] ELSE g[i]]
  <1>6. Sums(h, m)
    <2>1. g \in [0..l -> Nat] /\ g[0] = 0 /\ \A i \in 1..l : g[i] = g[i - 1] + RetryDelays[i]
      BY <1>5 DEF Sums
    <2>2. h \in [0..m -> Nat] /\ h[0] = 0
      BY <1>1, <1>4, <2>1
    <2>3. ASSUME NEW i \in 1..m
          PROVE  h[i] = h[i - 1] + RetryDelays[i]
      <3>1. i - 1 \in 0..l /\ i - 1 # m /\ i - 1 \in 0..m /\ i \in 0..m
        BY <1>4
      <3>2. h[i - 1] = g[i - 1]
        BY <3>1
      <3>3. CASE i = m
        BY <1>4, <3>1, <3>2, <3>3
      <3>4. CASE i # m
        BY <1>4, <2>1, <3>1, <3>2, <3>4
      <3> QED
        BY <3>3, <3>4
    <2> QED
      BY <2>2, <2>3 DEF Sums
  <1> QED
    BY <1>2, <1>6

\* The sums are what their recursive definition says.
LEMMA DelaysAreSums == Sums(Delays, Len(RetryDelays))
  <1> DEFINE N == Len(RetryDelays)
             F(f) == [n \in 0..N |-> IF n = 0 THEN 0 ELSE f[n - 1] + RetryDelays[n]]
  <1>1. N \in Nat /\ \A i \in 1..N : RetryDelays[i] \in Nat
    BY TimingAssumption
  <1>2. PICK g : Sums(g, N)
    BY <1>1, SumsExist
  <1>3. g = F(g)
    BY <1>1, <1>2 DEF Sums
  <1>4. Delays = F(Delays)
    BY <1>3 DEF Delays
  <1>5. PICK d : d = Delays
    OBVIOUS
  <1>6. d = F(d)
    BY <1>4, <1>5
  <1>7. d[0] = 0 /\ \A i \in 1..N : d[i] = d[i - 1] + RetryDelays[i]
    BY <1>1, <1>6
  <1>8. \A i \in 0..N : d[i] = g[i]
    <2> DEFINE Bad == {i \in 0..N : d[i] # g[i]}
    <2> SUFFICES ASSUME Bad # {} PROVE FALSE
      OBVIOUS
    <2>1. PICK m \in Bad : \A k \in Bad : m <= k
      <3>1. Bad \in SUBSET Nat
        BY <1>1
      <3> QED
        BY <3>1, LeastNatural, Zenon
    <2>2. m # 0
      BY <1>2, <1>7 DEF Sums
    <2>3. m - 1 \in 0..N /\ m \in 1..N /\ m - 1 \notin Bad
      BY <1>1, <2>1, <2>2
    <2>4. d[m] = d[m - 1] + RetryDelays[m] /\ g[m] = g[m - 1] + RetryDelays[m]
      BY <1>2, <1>7, <2>3 DEF Sums
    <2> QED
      BY <2>1, <2>3, <2>4
  <1>9. d = g
    <2>1. d = [i \in 0..N |-> d[i]]
      BY <1>6
    <2>2. g = [i \in 0..N |-> g[i]]
      BY <1>2 DEF Sums
    <2> QED
      BY <1>8, <2>1, <2>2
  <1> QED
    BY <1>2, <1>5, <1>9

-----------------------------------------------------------------------------
(* The time of a number of attempts                                        *)

\* A worker's longest turn: it comes to an email that is due, and its lease.
Turn == Wait + LeaseDuration

\* What a downtime may add to a wait.
Extra == Longer(Wait, Downtime - 1) - Wait

\* A sleep, a send and a downtime against the wait.
LEMMA Waits ==
  /\ Wait \in Nat /\ Turn \in Nat \ {0} /\ Extra \in Nat
  /\ PollInterval <= Wait + 1 /\ LeaseDuration <= Wait + 2
  /\ PollInterval <= Turn /\ Downtime <= Wait + Extra + 1
  /\ PollInterval \in Nat /\ Downtime \in Nat /\ PollInterval <= Downtime
  /\ LeaseDuration \in Nat \ {0}
  /\ Turn = Wait + LeaseDuration
  /\ Longer(Wait, Downtime - 1) = Wait + Extra
  BY TimingAssumption, PollAssumption DEF Wait, Turn, Extra, Longer

\* How long n attempts and what follows each can take: a turn but its last tick
\* and then a delay, or for those without a delay, which faults alone allow, the
\* whole turn.
Stay(n) ==
    LET N == Len(RetryDelays)
    IN  IF n <= N THEN Delays[n] + n * (Turn - 1)
        ELSE Delays[N] + N * (Turn - 1) + (n - N) * Turn

LEMMA NextMultiple == \A n, x \in Nat : (n + 1) * x = n * x + x /\ n * x \in Nat /\ 0 * x = 0
  OBVIOUS

LEMMA StayFacts ==
  \A n \in Nat :
    /\ Stay(n) \in Nat
    /\ n < Len(RetryDelays) =>
         Stay(n + 1) = Stay(n) + RetryDelays[n + 1] + (Turn - 1)
    /\ n >= Len(RetryDelays) => Stay(n + 1) = Stay(n) + Turn
  <1> SUFFICES ASSUME NEW n \in Nat
               PROVE  /\ Stay(n) \in Nat
                      /\ n < Len(RetryDelays) =>
                           Stay(n + 1) = Stay(n) + RetryDelays[n + 1] + (Turn - 1)
                      /\ n >= Len(RetryDelays) => Stay(n + 1) = Stay(n) + Turn
    OBVIOUS
  <1>1. PICK N \in Nat : N = Len(RetryDelays)
    BY TimingAssumption
  <1>2. PICK l \in Nat : l = Turn - 1 /\ Turn = l + 1
    BY Waits
  <1>3. /\ \A i \in 0..N : Delays[i] \in Nat
        /\ \A i \in 1..N : Delays[i] = Delays[i - 1] + RetryDelays[i]
        /\ \A i \in 1..N : RetryDelays[i] \in Nat
    <2>1. Delays \in [0..N -> Nat] /\ \A i \in 1..N : Delays[i] = Delays[i - 1] + RetryDelays[i]
      BY <1>1, DelaysAreSums DEF Sums
    <2>2. \A i \in 1..N : RetryDelays[i] \in Nat
      BY <1>1, TimingAssumption
    <2>3. \A i \in 0..N : Delays[i] \in Nat
      BY <2>1, Zenon
    <2> QED
      BY <2>1, <2>2, <2>3
  <1>4. \A k \in Nat : k <= N => Stay(k) = Delays[k] + k * l
    BY <1>1, <1>2 DEF Stay
  <1>5. \A k \in Nat : k > N => Stay(k) = Delays[N] + N * l + (k - N) * (l + 1)
    BY <1>1, <1>2 DEF Stay
  <1>6. CASE n < N
    <2>1. n + 1 \in 1..N /\ n \in 0..N /\ (n + 1) - 1 = n
      BY <1>6
    <2>2. Delays[n + 1] = Delays[n] + RetryDelays[n + 1] /\ Delays[n] \in Nat
      BY <1>3, <2>1
    <2>3. Stay(n) = Delays[n] + n * l /\ Stay(n + 1) = Delays[n + 1] + (n + 1) * l
      BY <1>4, <2>1
    <2>4. (n + 1) * l = n * l + l /\ n * l \in Nat
      BY NextMultiple
    <2>5. RetryDelays[n + 1] \in Nat
      BY <1>3, <2>1
    <2> QED
      BY <1>1, <1>2, <1>6, <2>2, <2>3, <2>4, <2>5
  <1>7. CASE n >= N
    <2>1. PICK m \in Nat : m = n - N /\ (n + 1) - N = m + 1
      BY <1>7
    <2>2. Delays[N] \in Nat /\ N * l \in Nat
      BY <1>3, NextMultiple
    <2>3. (m + 1) * (l + 1) = m * (l + 1) + (l + 1) /\ m * (l + 1) \in Nat /\ 0 * (l + 1) = 0
      BY NextMultiple
    <2>4. Stay(n + 1) = Delays[N] + N * l + (m + 1) * (l + 1)
      BY <1>5, <1>7, <2>1
    <2>5. Stay(n) = Delays[N] + N * l + m * (l + 1)
      <3>1. CASE n = N
        BY <1>4, <2>1, <2>2, <2>3, <3>1
      <3>2. CASE n # N
        BY <1>5, <1>7, <2>1, <3>2
      <3> QED
        BY <3>1, <3>2
    <2> QED
      BY <1>1, <1>2, <1>7, <2>2, <2>3, <2>4, <2>5
  <1> QED
    BY <1>1, <1>6, <1>7

\* One more attempt takes a turn at least: the delays are positive.
LEMMA StayGrows == \A n \in Nat : Stay(n) + Turn <= Stay(n + 1)
  <1> SUFFICES ASSUME NEW n \in Nat PROVE Stay(n) + Turn <= Stay(n + 1)
    OBVIOUS
  <1>1. Stay(n) \in Nat /\ Turn \in Nat \ {0}
    BY StayFacts, Waits
  <1>2. CASE n < Len(RetryDelays)
    <2>1. RetryDelays[n + 1] \in Nat \ {0}
      <3>1. n + 1 \in 1..Len(RetryDelays)
        BY <1>2, TimingAssumption
      <3> QED
        BY <3>1, TimingAssumption
    <2>2. Stay(n + 1) = Stay(n) + RetryDelays[n + 1] + (Turn - 1)
      BY <1>2, StayFacts
    <2> QED
      BY <1>1, <2>1, <2>2
  <1>3. CASE n >= Len(RetryDelays)
    BY <1>1, <1>3, StayFacts
  <1> QED
    BY <1>2, <1>3, TimingAssumption

LEMMA StayMonotone == \A m, n \in Nat : m <= n => Stay(m) <= Stay(n)
  <1> SUFFICES ASSUME NEW m \in Nat
               PROVE  \A n \in Nat : m <= n => Stay(m) <= Stay(n)
    OBVIOUS
  <1> DEFINE Bad == {n \in Nat : m <= n /\ ~(Stay(m) <= Stay(n))}
  <1> SUFFICES ASSUME Bad # {} PROVE FALSE
    OBVIOUS
  <1>1. PICK n \in Bad : \A k \in Bad : n <= k
    <2>1. Bad \in SUBSET Nat
      OBVIOUS
    <2> QED
      BY <2>1, LeastNatural, Zenon
  <1>2. n # m
    BY StayFacts
  <1>3. PICK k \in Nat : n = k + 1 /\ m <= k
    <2>1. n - 1 \in Nat /\ n = (n - 1) + 1 /\ m <= n - 1
      BY <1>2
    <2> QED
      BY <2>1
  <1>4. Stay(m) <= Stay(k)
    BY <1>1, <1>3
  <1>5. Stay(k) + Turn <= Stay(k + 1)
    BY StayGrows
  <1>6. Stay(m) \in Nat /\ Stay(k) \in Nat
    BY StayFacts
  <1>7. Stay(k + 1) \in Nat
    <2>1. k + 1 \in Nat
      OBVIOUS
    <2> QED
      BY <2>1, StayFacts
  <1>8. Turn \in Nat
    BY Waits
  <1> QED
    BY <1>1, <1>3, <1>4, <1>5, <1>6, <1>7, <1>8

\* LongestStay is the time of every delay, of an attempt for every fault, of
\* one more attempt, and of every downtime.
LEMMA StayBound ==
  /\ LongestStay \in Nat
  /\ \A n \in Nat : n <= Len(RetryDelays) + MaxFaults =>
                      1 + Stay(n) + (Turn - 1) + MaxFaults * Extra <= LongestStay
  <1>1. PICK N \in Nat : N = Len(RetryDelays)
    BY TimingAssumption
  <1>2. PICK l \in Nat : l = Turn - 1 /\ Turn = l + 1
    BY Waits
  <1>3. MaxFaults \in Nat
    BY TimingAssumption
  <1>4. Delays[N] \in Nat
    BY <1>1, DelaysAreSums DEF Sums
  <1>5. PICK x \in Nat : x = Extra
    BY Waits
  <1>6. (N + 1) * l = N * l + l /\ N * l \in Nat /\ MaxFaults * (l + 1) \in Nat
        /\ 0 * (l + 1) = 0 /\ MaxFaults * x \in Nat
    BY <1>3, NextMultiple
  <1>7. MaxFaults * ((l + 1) + x) = MaxFaults * (l + 1) + MaxFaults * x
    BY <1>3
  <1>8. LongestStay = 1 + Delays[N] + (N + 1) * l + MaxFaults * ((l + 1) + x)
    <2>1. Wait + LeaseDuration - 1 = l /\ LeaseDuration + Longer(Wait, Downtime - 1) = (l + 1) + x
      BY <1>2, <1>5, Waits
    <2> QED
      BY <1>1, <2>1 DEF LongestStay, MaxAttempts
  <1>9. Stay(N + MaxFaults) = Delays[N] + N * l + MaxFaults * (l + 1)
    <2>1. CASE MaxFaults = 0
      <3>1. Stay(N + MaxFaults) = Delays[N] + N * l
        BY <1>1, <1>2, <2>1 DEF Stay
      <3> QED
        BY <1>4, <1>6, <2>1, <3>1
    <2>2. CASE MaxFaults # 0
      <3>1. ~(N + MaxFaults <= N) /\ (N + MaxFaults) - N = MaxFaults
        BY <1>3, <2>2
      <3> QED
        BY <1>1, <1>2, <3>1 DEF Stay
    <2> QED
      BY <2>1, <2>2
  <1>10. 1 + Stay(N + MaxFaults) + l + MaxFaults * x = LongestStay /\ LongestStay \in Nat
    BY <1>4, <1>6, <1>7, <1>8, <1>9
  <1>11. ASSUME NEW n \in Nat, n <= N + MaxFaults
         PROVE  1 + Stay(n) + l + MaxFaults * x <= LongestStay
    <2>1. Stay(n) <= Stay(N + MaxFaults)
      BY <1>3, <1>11, StayMonotone
    <2>2. Stay(n) \in Nat /\ Stay(N + MaxFaults) \in Nat
      BY <1>3, StayFacts
    <2> QED
      BY <1>6, <1>10, <2>1, <2>2
  <1> QED
    BY <1>1, <1>2, <1>5, <1>10, <1>11

\* The turns of attempts that were not counted fit in the stay of counted ones.
LEMMA StaySpread == \A n, m \in Nat : Stay(n) + m * Turn <= Stay(n + m)
  <1> SUFFICES ASSUME NEW n \in Nat
               PROVE  \A m \in Nat : Stay(n) + m * Turn <= Stay(n + m)
    OBVIOUS
  <1> DEFINE Bad == {m \in Nat : ~(Stay(n) + m * Turn <= Stay(n + m))}
  <1> SUFFICES ASSUME Bad # {} PROVE FALSE
    OBVIOUS
  <1>1. PICK m \in Bad : \A k \in Bad : m <= k
    <2>1. Bad \in SUBSET Nat
      OBVIOUS
    <2> QED
      BY <2>1, LeastNatural, Zenon
  <1>2. PICK t \in Nat : t = Turn
    BY Waits
  <1>3. m # 0
    <2>1. Stay(n) \in Nat /\ 0 * t = 0
      BY StayFacts, NextMultiple
    <2> QED
      BY <1>1, <1>2, <2>1
  <1>4. PICK k \in Nat : m = k + 1
    <2>1. m - 1 \in Nat /\ m = (m - 1) + 1
      BY <1>3
    <2> QED
      BY <2>1
  <1>5. Stay(n) + k * t <= Stay(n + k)
    BY <1>1, <1>2, <1>4
  <1>6. Stay(n + k) + t <= Stay((n + k) + 1)
    <2>1. n + k \in Nat
      OBVIOUS
    <2> QED
      BY <1>2, <2>1, StayGrows
  <1>7. (n + k) + 1 = n + m /\ (k + 1) * t = k * t + t /\ k * t \in Nat
    BY <1>4, NextMultiple
  <1>8. Stay(n) \in Nat /\ Stay(n + k) \in Nat /\ Stay(n + m) \in Nat
    <2>1. n + k \in Nat /\ n + m \in Nat
      OBVIOUS
    <2> QED
      BY <2>1, StayFacts
  <1>9. Stay(n) + m * t <= Stay(n + m)
    BY <1>4, <1>5, <1>6, <1>7, <1>8
  <1> QED
    BY <1>1, <1>2, <1>9

-----------------------------------------------------------------------------
(* The deadline of a row                                                   *)

\* For a row of a request accepted at b, after f faults of which m cost it no
\* attempt, n emails that went ahead, and attempts that stayed for s.
Limit(b, f, n, m, s) == b + 1 + f * Extra + n * (LeaseDuration - 1) + m * Turn + s

LEMMA LimitGrows ==
  ASSUME NEW b \in Nat, NEW f \in Nat, NEW n \in Nat, NEW m \in Nat, NEW s \in Nat
  PROVE  /\ Limit(b, f, n, m, s) \in Nat
         /\ b + 1 <= Limit(b, f, n, m, s)
         /\ Limit(b, f + 1, n, m, s) = Limit(b, f, n, m, s) + Extra
         /\ Limit(b, f, n + 1, m, s) = Limit(b, f, n, m, s) + (LeaseDuration - 1)
         /\ Limit(b, f, n, m + 1, s) = Limit(b, f, n, m, s) + Turn
         /\ \A t \in Nat : Limit(b, f, n, m, t) = Limit(b, f, n, m, s) + t - s
  <1>1. PICK x \in Nat, l \in Nat, t \in Nat : x = Extra /\ l = LeaseDuration - 1 /\ t = Turn
    BY Waits, TimingAssumption
  <1>2. /\ (f + 1) * x = f * x + x /\ f * x \in Nat
        /\ (n + 1) * l = n * l + l /\ n * l \in Nat
        /\ (m + 1) * t = m * t + t /\ m * t \in Nat
    BY NextMultiple
  <1>3. Limit(b, f, n, m, s) = b + 1 + f * x + n * l + m * t + s
    BY <1>1 DEF Limit
  <1>4. Limit(b, f + 1, n, m, s) = b + 1 + (f + 1) * x + n * l + m * t + s
    BY <1>1 DEF Limit
  <1>5. Limit(b, f, n + 1, m, s) = b + 1 + f * x + (n + 1) * l + m * t + s
    BY <1>1 DEF Limit
  <1>6. Limit(b, f, n, m + 1, s) = b + 1 + f * x + n * l + (m + 1) * t + s
    BY <1>1 DEF Limit
  <1>7. ASSUME NEW r \in Nat
        PROVE  Limit(b, f, n, m, r) = b + 1 + f * x + n * l + m * t + r
    BY <1>1 DEF Limit
  <1>8. PICK u \in Nat, v \in Nat, y \in Nat : u = f * x /\ v = n * l /\ y = m * t
    BY <1>2
  <1>9. (f + 1) * x = u + x /\ (n + 1) * l = v + l /\ (m + 1) * t = y + t
    BY <1>2, <1>8
  <1>10. PICK R : R = Limit(b, f, n, m, s)
    OBVIOUS
  <1>11. R = b + 1 + u + v + y + s
    BY <1>3, <1>8, <1>10
  <1>12. /\ R \in Nat /\ b + 1 <= R
         /\ Limit(b, f + 1, n, m, s) = R + x
         /\ Limit(b, f, n + 1, m, s) = R + l
         /\ Limit(b, f, n, m + 1, s) = R + t
    BY <1>4, <1>5, <1>6, <1>8, <1>9, <1>11
  <1>13. \A r \in Nat : Limit(b, f, n, m, r) = R + r - s
    BY <1>7, <1>8, <1>11
  <1> QED
    BY <1>1, <1>10, <1>12, <1>13

\* A new row's limit, when every fault so far cost it no attempt.
LEMMA FirstLimit ==
  ASSUME NEW b \in Nat, NEW f \in Nat, NEW n \in Nat
  PROVE  f > 0 => b + 1 + Extra + Turn <= Limit(b, f, n, f, 0)
  <1> SUFFICES ASSUME f > 0 PROVE b + 1 + Extra + Turn <= Limit(b, f, n, f, 0)
    OBVIOUS
  <1>1. PICK x \in Nat, l \in Nat, t \in Nat : x = Extra /\ l = LeaseDuration - 1 /\ t = Turn
    BY Waits, TimingAssumption
  <1>2. PICK g \in Nat : f = g + 1
    <2>1. f - 1 \in Nat /\ f = (f - 1) + 1
      OBVIOUS
    <2> QED
      BY <2>1
  <1>3. /\ (g + 1) * x = g * x + x /\ g * x \in Nat
        /\ (g + 1) * t = g * t + t /\ g * t \in Nat /\ n * l \in Nat
    BY NextMultiple
  <1>4. Limit(b, f, n, f, 0) = b + 1 + (g + 1) * x + n * l + (g + 1) * t + 0
    BY <1>1, <1>2 DEF Limit
  <1>5. PICK u, v, y \in Nat : u = g * x /\ v = n * l /\ y = g * t
    BY <1>3
  <1> QED
    BY ONLY <1>1, <1>3, <1>4, <1>5, b \in Nat

-----------------------------------------------------------------------------
(* The invariant                                                           *)

\* The worker has the row's lease in hand.
Attends(w, j) == pc[w] \in {"sending", "settling"} /\ claim[w].id = j /\ Owns(w)

\* It settles the row before that lease ends.
LeaseHolds(j) == \A w \in Worker : Attends(w, j) => clock < jobs[j].locked_until

\* Attempts beyond MAX_ATTEMPTS replace others that ended in a fault.
WithinBudget(j) == Exists(j) => jobs[j].attempts <= MaxAttempts + faults

\* The worker has turned to another email.
Busy(w, j) ==
    \/ pc[w] = "claiming" /\ lockedBy[j] # w
    \/ pc[w] = "sending" /\ claim[w].id # j

\* When a waiting row falls due, or due again.
DueBy(row) == IF row.lock_token = NULL THEN row.next_attempt_at ELSE row.locked_until

\* No worker leaves the row for longer than Wait past R.  One that found it
\* locked by another's claim may sleep on.
PacedBy(j, w, R) ==
    /\ DueBy(jobs[j]) <= R
    /\ clock <= R + Wait
    /\ wake[w] <= R + Wait + (IF lockedBy[j] = NULL THEN 0 ELSE PollInterval)
    /\ Busy(w, j) => now[w] + LeaseDuration <= R + Wait + 1

Spent(row) ==
    IF row.lock_token = NULL THEN Stay(row.attempts) ELSE Stay(row.attempts - 1) + Turn

\* Of the faults, m cost the row no attempt.
Deadline(j, w, m) == Limit(born[j], faults, ahead[j][w], m, Spent(jobs[j]))

\* The other faults, and MAX_ATTEMPTS, pay for its attempts.
Paid(j, m) ==
    IF jobs[j].lock_token = NULL THEN jobs[j].attempts < MaxAttempts
    ELSE /\ jobs[j].attempts + m <= MaxAttempts + faults
         /\ \/ jobs[j].attempts + m < MaxAttempts + faults
            \/ \E w \in Worker : Attends(w, j)

WellFormed(row) ==
    IF row.lock_token = NULL THEN row.locked_until = NULL
    ELSE row.attempts > 0 /\ row.next_attempt_at <= row.locked_until

OnPace(j) ==
    ~Settled(j) =>
        /\ born[j] \in Nat
        /\ WellFormed(jobs[j])
        /\ \E m \in 0..faults :
              Paid(j, m) /\ \A w \in Worker : PacedBy(j, w, Deadline(j, w, m))

Kept(j) == LeaseHolds(j) /\ WithinBudget(j) /\ OnPace(j)

\* A worker's statements take less than a tick, its sends less than a lease,
\* its sleeps a poll interval, or a downtime once there was a fault.
Punctual(w) ==
    /\ wake[w] <= clock + (IF faults = 0 THEN PollInterval ELSE Downtime)
    /\ pc[w] \in {"polling", "claiming"} => now[w] = clock
    /\ pc[w] = "sending" => clock < now[w] + LeaseDuration

QueueTypes == wake \in [Worker -> Nat] /\ ahead \in [Job -> [Worker -> Nat]]

QueueInv ==
    /\ Inv
    /\ QueueTypes
    /\ faults <= MaxFaults
    /\ \A w \in Worker : Punctual(w)
    /\ \A j \in Job : Kept(j)

USE DEF worker, history

-----------------------------------------------------------------------------
(* Facts about one state                                                   *)

\* The columns of a row that exists.
LEMMA RowTypes ==
  ASSUME Inv, NEW j \in Job, Exists(j)
  PROVE  /\ jobs[j] \in Row /\ jobs[j].attempts \in Nat /\ jobs[j].next_attempt_at \in Nat
         /\ jobs[j].locked_until \in Nat \union {NULL}
         /\ jobs[j].lock_token # NULL => jobs[j].locked_until \in Nat
         /\ DueBy(jobs[j]) \in Nat
  BY NullAssumption DEF Inv, TypeOK, Exists, Row, RowsAreKnown, DueBy

LEMMA Clocks ==
  ASSUME Inv
  PROVE  /\ clock \in Nat /\ faults \in Nat /\ MaxAttempts \in Nat /\ MaxAttempts > 0
         /\ \A w \in Worker : now[w] \in Nat /\ now[w] <= clock
  BY TimingAssumption DEF Inv, TypeOK, NowIsPast, MaxAttempts

\* A waiting row falls due by DueBy, and no earlier.
LEMMA DueOrNot ==
  ASSUME Inv, NEW j \in Job, ~Settled(j), WellFormed(jobs[j]), NEW t \in Nat
  PROVE  Due(j, t) <=> DueBy(jobs[j]) <= t
  <1>1. Exists(j) /\ jobs[j].failed_at = NULL
    BY DEF Settled
  <1>2. PICK r : r = jobs[j]
    OBVIOUS
  <1>3. /\ r.next_attempt_at \in Nat /\ r.locked_until \in Nat \union {NULL}
        /\ r.lock_token # NULL => r.locked_until \in Nat
    BY <1>1, <1>2, RowTypes
  <1>4. CASE r.lock_token = NULL
    BY <1>1, <1>2, <1>3, <1>4 DEF Due, DueBy, WellFormed
  <1>5. CASE r.lock_token # NULL
    <2>1. r.next_attempt_at <= r.locked_until /\ r.locked_until # NULL
      BY <1>2, <1>3, <1>5, NullAssumption DEF WellFormed
    <2>2. Due(j, t) <=> r.next_attempt_at <= t /\ r.locked_until <= t
      BY <1>1, <1>2, <2>1 DEF Due
    <2> QED
      BY <1>2, <1>3, <1>5, <2>1, <2>2 DEF DueBy
  <1> QED
    BY <1>4, <1>5

LEMMA SpentIsTime ==
  ASSUME Inv, NEW j \in Job, Exists(j), WellFormed(jobs[j])
  PROVE  Spent(jobs[j]) \in Nat
  <1>1. PICK a \in Nat : a = jobs[j].attempts
    BY RowTypes
  <1>2. CASE jobs[j].lock_token = NULL
    BY <1>1, <1>2, StayFacts DEF Spent
  <1>3. CASE jobs[j].lock_token # NULL
    <2>1. a - 1 \in Nat
      BY <1>1, <1>3 DEF WellFormed
    <2>2. Stay(a - 1) \in Nat /\ Turn \in Nat
      BY <2>1, StayFacts, Waits
    <2>3. Spent(jobs[j]) = Stay(a - 1) + Turn
      BY <1>1, <1>3 DEF Spent
    <2> QED
      BY <2>2, <2>3
  <1> QED
    BY <1>2, <1>3

\* A worker that attends a row is the one its lease belongs to.
LEMMA AttendedRow ==
  ASSUME Inv, NEW j \in Job, NEW w \in Worker, Attends(w, j)
  PROVE  Exists(j) /\ jobs[j].lock_token # NULL /\ jobs[j].locked_until \in Nat
  <1>1. claim[w] \in ClaimedEmailJob /\ claim[w].lock_token # NULL
    BY NullAssumption DEF Attends, Inv, TypeOK, ClaimsAreOwn, ClaimedEmailJob
  <1>2. Exists(j) /\ jobs[j].lock_token # NULL
    BY <1>1 DEF Attends, Owns
  <1> QED
    BY <1>2, RowTypes

\* A deadline is a time, and each of its terms moves it by what it stands for.
LEMMA DeadlineFacts ==
  ASSUME Inv, QueueTypes, NEW j \in Job, NEW w \in Worker, NEW m \in Nat,
         ~Settled(j), born[j] \in Nat, WellFormed(jobs[j])
  PROVE  /\ Deadline(j, w, m) \in Nat
         /\ Deadline(j, w, m) = Limit(born[j], faults, ahead[j][w], m, Spent(jobs[j]))
         /\ faults \in Nat /\ ahead[j][w] \in Nat /\ Spent(jobs[j]) \in Nat
  <1>1. faults \in Nat /\ ahead[j][w] \in Nat /\ Spent(jobs[j]) \in Nat
    BY SpentIsTime, Clocks DEF QueueTypes, Settled
  <1>2. Limit(born[j], faults, ahead[j][w], m, Spent(jobs[j])) \in Nat
    BY <1>1, LimitGrows
  <1> QED
    BY <1>1, <1>2 DEF Deadline

-----------------------------------------------------------------------------
(* What a step does to one row                                             *)

\* A worker that only got nearer, or stopped being busy, keeps its pace.
LEMMA SamePace ==
  ASSUME NEW j \in Job, NEW w \in Worker, NEW R \in Nat, PacedBy(j, w, R),
         jobs'[j] = jobs[j], clock' = clock, clock \in Nat, wake[w] \in Nat,
         wake'[w] \in {wake[w], 0},
         lockedBy'[j] = lockedBy[j] \/ lockedBy'[j] # NULL,
         Busy(w, j)' => Busy(w, j) /\ now'[w] = now[w]
  PROVE  PacedBy(j, w, R)'
  <1>1. Wait \in Nat /\ PollInterval \in Nat
    BY Waits
  <1>2. DueBy(jobs[j])' <= R /\ clock' <= R + Wait
    BY DEF PacedBy, DueBy
  <1>3. wake'[w] <= R + Wait + (IF lockedBy'[j] = NULL THEN 0 ELSE PollInterval)
    <2>1. wake[w] <= R + Wait + (IF lockedBy[j] = NULL THEN 0 ELSE PollInterval)
      BY DEF PacedBy
    <2>2. CASE lockedBy'[j] = lockedBy[j]
      BY <1>1, <2>1, <2>2
    <2>3. CASE lockedBy'[j] # NULL
      BY <1>1, <2>1, <2>3
    <2> QED
      BY <2>2, <2>3
  <1>4. Busy(w, j)' => now'[w] + LeaseDuration <= R + Wait + 1
    BY DEF PacedBy
  <1> QED
    BY <1>2, <1>3, <1>4 DEF PacedBy

\* An email that goes ahead is counted; otherwise the count stays.
LEMMA AheadSteps ==
  ASSUME Remember, NEW j \in Job, ~Settled(j)', NEW w \in Worker
  PROVE  ahead'[j][w] = IF GoesAhead(w, j) THEN ahead[j][w] + 1 ELSE ahead[j][w]
  BY DEF Remember

LEMMA AheadSame ==
  ASSUME Remember, NEW j \in Job, ~Settled(j)', NEW w \in Worker,
         \A k \in Job : lockedBy'[k] \in {lockedBy[k], NULL}
  PROVE  ahead'[j][w] = ahead[j][w]
  <1>1. ~GoesAhead(w, j)
    BY NullAssumption DEF GoesAhead, Unlocked
  <1> QED
    BY <1>1, AheadSteps

\* The time of the request stays with a waiting email.
LEMMA BornOnce ==
  ASSUME Inv, Remember, NEW j \in Job, Exists(j), ~Settled(j)'
  PROVE  born'[j] = born[j]
  BY DEF Inv, RowsAreKnown, Remember

\* What changes neither the row nor the time keeps it, if no worker begins or
\* ends to attend it and each keeps its pace, or goes ahead and is counted.
LEMMA Undisturbed ==
  ASSUME Inv, QueueTypes, Remember, NEW j \in Job, Kept(j),
         jobs'[j] = jobs[j], UNCHANGED <<clock, faults>>,
         \A w \in Worker : Attends(w, j)' <=> Attends(w, j),
         ~Settled(j) => \A w \in Worker, R \in Nat : PacedBy(j, w, R) =>
            \/ ahead'[j][w] = ahead[j][w] /\ PacedBy(j, w, R)'
            \/ /\ ahead'[j][w] = ahead[j][w] + 1
               /\ PacedBy(j, w, R + (LeaseDuration - 1))'
  PROVE  Kept(j)'
  <1>1. Settled(j)' <=> Settled(j)
    BY DEF Settled, Exists
  <1>2. LeaseHolds(j)' /\ WithinBudget(j)'
    BY DEF Kept, LeaseHolds, WithinBudget, Exists
  <1>3. OnPace(j)'
    <2> SUFFICES ASSUME ~Settled(j) PROVE OnPace(j)!2'
      BY <1>1 DEF OnPace
    <2>1. Exists(j) /\ born[j] \in Nat /\ WellFormed(jobs[j])
      BY DEF Kept, OnPace, Settled
    <2>2. born'[j] = born[j]
      BY <1>1, <2>1, BornOnce
    <2>3. PICK m \in 0..faults : Paid(j, m) /\ \A w \in Worker : PacedBy(j, w, Deadline(j, w, m))
      BY DEF Kept, OnPace
    <2>4. m \in Nat /\ m \in 0..faults'
      BY Clocks
    <2>5. Paid(j, m)'
      BY <2>3 DEF Paid
    <2>6. ASSUME NEW w \in Worker
          PROVE  PacedBy(j, w, Deadline(j, w, m))'
      <3>1. PICK n \in Nat : n = ahead[j][w]
        BY DEF QueueTypes
      <3>2. PICK R \in Nat : R = Deadline(j, w, m)
        BY <2>1, <2>4, DeadlineFacts
      <3>3. R = Limit(born[j], faults, n, m, Spent(jobs[j])) /\ PacedBy(j, w, R)
        BY <2>3, <3>1, <3>2 DEF Deadline
      <3>4. Limit(born[j], faults, n + 1, m, Spent(jobs[j])) = R + (LeaseDuration - 1)
        <4>1. PICK b \in Nat, f \in Nat, s \in Nat :
                 b = born[j] /\ f = faults /\ s = Spent(jobs[j])
          BY <2>1, Clocks, SpentIsTime
        <4>2. Limit(b, f, n + 1, m, s) = Limit(b, f, n, m, s) + (LeaseDuration - 1)
          BY <2>4, LimitGrows
        <4> QED
          BY <3>3, <4>1, <4>2
      <3>5. \A i \in Nat : ahead'[j][w] = i =>
               Deadline(j, w, m)' = Limit(born[j], faults, i, m, Spent(jobs[j]))
        BY <2>2 DEF Deadline, Spent
      <3>6. \/ ahead'[j][w] = n /\ PacedBy(j, w, R)'
            \/ ahead'[j][w] = n + 1 /\ PacedBy(j, w, R + (LeaseDuration - 1))'
        BY <3>1, <3>3
      <3>7. CASE ahead'[j][w] = n /\ PacedBy(j, w, R)'
        <4>1. Deadline(j, w, m)' = R
          BY <3>3, <3>5, <3>7
        <4> QED
          BY <3>7, <4>1 DEF PacedBy
      <3>8. CASE ahead'[j][w] = n + 1 /\ PacedBy(j, w, R + (LeaseDuration - 1))'
        <4>1. Deadline(j, w, m)' = R + (LeaseDuration - 1)
          BY <3>1, <3>4, <3>5, <3>8
        <4> QED
          BY <3>8, <4>1 DEF PacedBy
      <3> QED
        BY <3>6, <3>7, <3>8
    <2> QED
      BY <2>1, <2>2, <2>4, <2>5, <2>6 DEF WellFormed
  <1> QED
    BY <1>2, <1>3 DEF Kept

\* A later deadline keeps the pace of a worker that does not turn away.
LEMMA NextPace ==
  ASSUME NEW j \in Job, NEW w \in Worker, NEW R \in Nat, NEW S \in Nat, R <= S,
         PacedBy(j, w, R), clock' = clock, clock \in Nat, wake'[w] = wake[w],
         wake[w] \in Nat, now[w] \in Nat, DueBy(jobs[j])' <= S,
         lockedBy'[j] = lockedBy[j] \/ R + PollInterval <= S,
         Busy(w, j)' => Busy(w, j) /\ now'[w] = now[w]
  PROVE  PacedBy(j, w, S)'
  <1>1. Wait \in Nat /\ PollInterval \in Nat /\ LeaseDuration \in Nat
    BY Waits
  <1>2. clock' <= S + Wait
    BY <1>1 DEF PacedBy
  <1>3. wake'[w] <= S + Wait + (IF lockedBy'[j] = NULL THEN 0 ELSE PollInterval)
    <2>1. wake[w] <= R + Wait + (IF lockedBy[j] = NULL THEN 0 ELSE PollInterval)
      BY DEF PacedBy
    <2>2. CASE lockedBy'[j] = lockedBy[j]
      BY <1>1, <2>1, <2>2
    <2>3. CASE R + PollInterval <= S
      BY <1>1, <2>1, <2>3
    <2> QED
      BY <2>2, <2>3
  <1>4. Busy(w, j)' => now'[w] + LeaseDuration <= S + Wait + 1
    BY <1>1 DEF PacedBy
  <1> QED
    BY <1>2, <1>3, <1>4 DEF PacedBy

\* Time passes only while every worker sleeps or sends: one that sends this
\* email is within its lease, and the others come to it within Wait.
LEMMA TickKept ==
  ASSUME QueueInv, NEW j \in Job, Tick, Timely, UNCHANGED wake, Remember
  PROVE  Kept(j)'
  <1> USE DEF QueueInv
  <1>1. /\ clock \in Nat /\ LeaseDuration \in Nat \ {0} /\ clock' = clock + 1 /\ Wait \in Nat
        /\ Kept(j)
    BY Clocks, Waits DEF Tick
  <1>2. UNCHANGED <<jobs, lockedBy, pc, now, claim, faults, wake>>
    BY DEF Tick
  <1>3. \A w \in Worker : Attends(w, j)' <=> Attends(w, j)
    BY <1>2 DEF Attends, Owns, Exists
  <1>4. ASSUME NEW w \in Worker, pc[w] = "sending", claim[w].id = j, Exists(j)
        PROVE  clock + 1 < jobs[j].locked_until /\ jobs[j].lock_token # NULL
    <2>1. clock + 1 < now[w] + LeaseDuration
      BY <1>4 DEF Timely
    <2>2. LeaseRuns(w)
      BY <1>1, <2>1, Clocks DEF LeaseRuns
    <2>3. /\ jobs[j].locked_until = now[w] + LeaseDuration
          /\ jobs[j].lock_token = claim[w].lock_token
      BY <1>4, <2>2 DEF Inv, LeaseIsRecorded
    <2>4. Attends(w, j)
      BY <1>4, <2>3 DEF Attends, Owns
    <2> QED
      BY <2>1, <2>3, <2>4, AttendedRow
  <1>5. LeaseHolds(j)'
    <2> SUFFICES ASSUME NEW w \in Worker, Attends(w, j)
                 PROVE  clock + 1 < jobs[j].locked_until
      BY <1>1, <1>2, <1>3 DEF LeaseHolds
    <2>1. pc[w] = "sending" /\ claim[w].id = j /\ Exists(j)
      BY AttendedRow DEF Timely, Attends
    <2> QED
      BY <1>4, <2>1
  <1>6. WithinBudget(j)'
    BY <1>1, <1>2 DEF Kept, WithinBudget, Exists
  <1>7. OnPace(j)'
    <2> SUFFICES ASSUME ~Settled(j) PROVE OnPace(j)!2'
      BY <1>2 DEF OnPace, Settled, Exists
    <2>1. Exists(j) /\ born[j] \in Nat /\ WellFormed(jobs[j]) /\ ~Settled(j)'
      BY <1>1, <1>2 DEF Kept, OnPace, Settled, Exists
    <2>2. born'[j] = born[j]
      BY <2>1, BornOnce
    <2>3. PICK m \in 0..faults : Paid(j, m) /\ \A w \in Worker : PacedBy(j, w, Deadline(j, w, m))
      BY <1>1 DEF Kept, OnPace
    <2>4. m \in Nat /\ m \in 0..faults'
      BY <1>2, Clocks
    <2>5. Paid(j, m)'
      BY <1>2, <1>3, <2>3 DEF Paid
    <2>6. ASSUME NEW w \in Worker
          PROVE  PacedBy(j, w, Deadline(j, w, m))'
      <3>1. ahead'[j][w] = ahead[j][w]
        BY <1>2, <2>1, AheadSame
      <3>2. PICK R \in Nat : R = Deadline(j, w, m)
        BY <2>1, <2>4, DeadlineFacts
      <3>3. Deadline(j, w, m)' = R
        BY <1>2, <2>2, <3>1, <3>2 DEF Deadline, Spent
      <3>4. PacedBy(j, w, R)
        BY <2>3, <3>2
      <3>5. lockedBy[j] = NULL
        <4>1. lockedBy[j] \in Worker => pc[lockedBy[j]] = "claiming"
          BY DEF Inv, LocksAreClaims
        <4>2. lockedBy[j] \notin Worker
          BY <4>1 DEF Timely
        <4> QED
          BY <4>2 DEF Inv, TypeOK
      <3>6. clock + 1 <= R + Wait
        <4>1. CASE pc[w] = "idle" /\ clock < wake[w]
          <5>1. wake[w] \in Nat /\ wake[w] <= R + Wait
            BY <1>1, <3>4, <3>5 DEF PacedBy, QueueTypes
          <5> QED
            BY <1>1, <4>1, <5>1
        <4>2. CASE pc[w] = "sending" /\ claim[w].id # j
          <5>1. now[w] + LeaseDuration <= R + Wait + 1
            BY <3>4, <4>2 DEF PacedBy, Busy
          <5>2. clock + 1 < now[w] + LeaseDuration /\ now[w] \in Nat
            BY <4>2, Clocks DEF Timely
          <5> QED
            BY <1>1, <5>1, <5>2
        <4>3. CASE pc[w] = "sending" /\ claim[w].id = j
          <5>1. clock + 1 < jobs[j].locked_until /\ jobs[j].locked_until <= R
                /\ jobs[j].locked_until \in Nat
            BY <1>4, <2>1, <3>4, <4>3, RowTypes DEF PacedBy, DueBy
          <5> QED
            BY <1>1, <5>1
        <4> QED
          BY <4>1, <4>2, <4>3 DEF Timely
      <3>7. PacedBy(j, w, R)'
        BY <1>1, <1>2, <3>4, <3>6 DEF PacedBy, DueBy, Busy
      <3> QED
        BY <3>3, <3>7 DEF PacedBy
    <2> QED
      BY <1>2, <2>1, <2>2, <2>4, <2>5, <2>6 DEF WellFormed
  <1> QED
    BY <1>5, <1>6, <1>7 DEF Kept

LEMMA TokensExist ==
  ASSUME Inv'
  PROVE  \A w \in Worker : pc'[w] \in {"sending", "settling"} => claim'[w].lock_token # NULL
  BY NullAssumption DEF Inv, TypeOK, ClaimsAreOwn, ClaimedEmailJob

\* A row that is gone, or a dead letter with attempts that were paid for.
LEMMA SettledKept ==
  ASSUME NEW j \in Job, Inv', Settled(j)',
         Exists(j)' => /\ jobs'[j].lock_token = NULL
                       /\ jobs'[j].attempts <= MaxAttempts + faults'
  PROVE  Kept(j)'
  <1>1. \A w \in Worker : ~Attends(w, j)'
    BY TokensExist DEF Attends, Owns
  <1> QED
    BY <1>1 DEF Kept, LeaseHolds, WithinBudget, OnPace

\* A new row is due now: a worker that sleeps, or has turned to another email,
\* began to within the tick.
LEMMA EnqueuedKept ==
  ASSUME QueueInv, Inv', QueueTypes', NEW j \in Job, Enqueue(j), UNCHANGED wake, Remember
  PROVE  Kept(j)'
  <1> USE DEF QueueInv
  <1>1. /\ clock \in Nat /\ faults \in Nat /\ MaxAttempts \in Nat /\ MaxAttempts > 0
    BY Clocks
  <1>2. /\ jobs'[j] = NewRow /\ clock' = clock /\ faults' = faults
        /\ UNCHANGED <<pc, claim, now, lockedBy, wake>>
    BY DEF Enqueue, Inv, TypeOK
  <1>3. PICK r : r = NewRow
    OBVIOUS
  <1>4. /\ r.attempts = 0 /\ r.next_attempt_at = clock /\ r.locked_until = NULL
        /\ r.lock_token = NULL /\ r.failed_at = NULL /\ r # NULL
    <2>1. NewRow \in Row
      BY <1>1 DEF NewRow, Row
    <2> QED
      BY <1>3, <2>1, NullAssumption DEF NewRow
  <1>5. ~Settled(j)' /\ born'[j] = clock
    <2>1. ~Settled(j)'
      BY <1>2, <1>3, <1>4 DEF Settled, Exists
    <2> QED
      BY <2>1 DEF Remember, Enqueue
  <1>6. LeaseHolds(j)'
    BY <1>2, <1>3, <1>4, TokensExist DEF LeaseHolds, Attends, Owns
  <1>7. WithinBudget(j)'
    BY <1>1, <1>2, <1>3, <1>4 DEF WithinBudget
  <1>8. OnPace(j)'
    <2>1. WellFormed(jobs[j])' /\ Paid(j, faults)' /\ DueBy(jobs[j])' = clock
      BY <1>1, <1>2, <1>3, <1>4 DEF WellFormed, Paid, DueBy
    <2>2. ASSUME NEW w \in Worker
          PROVE  PacedBy(j, w, Deadline(j, w, faults))'
      <3>1. PICK b \in Nat, f \in Nat, n \in Nat : b = clock /\ f = faults /\ n = ahead'[j][w]
        BY <1>1 DEF QueueTypes
      <3>2. Spent(jobs[j])' = 0
        <4>1. Stay(0) = 0
          <5>1. 0 <= Len(RetryDelays) /\ Delays[0] = 0 /\ 0 * (Turn - 1) = 0
            BY TimingAssumption, DelaysAreSums, Waits DEF Sums
          <5> QED
            BY <5>1 DEF Stay
        <4> QED
          BY <1>2, <1>3, <1>4, <4>1 DEF Spent
      <3>3. PICK R \in Nat : R = Limit(b, f, n, f, 0) /\ b + 1 <= R
        BY LimitGrows
      <3>4. Deadline(j, w, faults)' = R
        BY <1>2, <1>5, <3>1, <3>2, <3>3 DEF Deadline
      <3>5. f > 0 => b + 1 + Extra + Turn <= R
        BY <3>3, FirstLimit
      <3>6. clock' <= R + Wait
        BY <1>1, <1>2, <3>1, <3>3, Waits
      <3>7. wake'[w] <= R + Wait
        <4>1. wake[w] <= b + (IF f = 0 THEN PollInterval ELSE Downtime) /\ wake[w] \in Nat
          BY <3>1 DEF Punctual, QueueTypes
        <4>2. CASE f = 0
          BY <1>2, <3>3, <4>1, <4>2, Waits
        <4>3. CASE f # 0
          BY <1>2, <3>3, <3>5, <4>1, <4>3, Waits
        <4> QED
          BY <4>2, <4>3
      <3>8. now'[w] + LeaseDuration <= R + Wait + 1
        <4>1. now[w] \in Nat /\ now[w] <= b
          BY <3>1, Clocks
        <4> QED
          BY <1>2, <3>3, <4>1, Waits
      <3>9. PacedBy(j, w, R)'
        <4>1. wake'[w] \in Nat /\ PollInterval \in Nat /\ Wait \in Nat
          BY Waits DEF QueueTypes
        <4>2. DueBy(jobs[j])' <= R
          BY <2>1, <3>1, <3>3
        <4>3. wake'[w] <= R + Wait + (IF lockedBy'[j] = NULL THEN 0 ELSE PollInterval)
          BY <3>7, <4>1
        <4> QED
          BY <3>6, <3>8, <4>2, <4>3 DEF PacedBy
      <3> QED
        BY <3>4, <3>9 DEF PacedBy
    <2>3. faults \in 0..faults' /\ born'[j] \in Nat
      BY <1>1, <1>2, <1>5
    <2>4. Paid(j, faults)' /\ faults' = faults
      BY <1>2, <2>1
    <2> QED
      BY <2>1, <2>2, <2>3, <2>4 DEF OnPace
  <1> QED
    BY <1>6, <1>7, <1>8 DEF Kept

\* Claimed: the lease starts now, when the row was due.
LEMMA LeasedKept ==
  ASSUME QueueInv, NEW j \in Job, NEW w \in Worker, CommitClaim(w, j), UNCHANGED wake, Remember
  PROVE  Kept(j)'
  <1> USE DEF QueueInv
  <1>1. /\ clock \in Nat /\ faults \in Nat /\ MaxAttempts \in Nat /\ Kept(j)
        /\ clock' = clock /\ faults' = faults /\ now' = now /\ wake' = wake
    BY Clocks DEF CommitClaim
  <1>2. now[w] = clock
    BY DEF CommitClaim, Punctual
  <1>3. Due(j, clock) /\ Exists(j) /\ jobs[j].failed_at = NULL /\ ~Settled(j)
    BY <1>2 DEF CommitClaim, Inv, LocksAreClaims, Due, Settled
  <1>4. born[j] \in Nat /\ WellFormed(jobs[j])
    BY <1>1, <1>3 DEF Kept, OnPace
  <1>5. DueBy(jobs[j]) <= clock
    BY <1>1, <1>3, <1>4, DueOrNot
  <1>6. PICK r \in Row : r = jobs[j]
    BY <1>3, RowTypes
  <1>7. PICK row \in Row :
          /\ row = jobs'[j]
          /\ row.attempts = r.attempts + 1
          /\ row.lock_token = <<w, row.attempts>>
          /\ row.locked_until = clock + LeaseDuration
          /\ row.next_attempt_at = r.next_attempt_at
          /\ row.failed_at = NULL
    <2>1. jobs'[j] = Leased(w, r)
      BY <1>6 DEF CommitClaim, Inv, TypeOK
    <2> QED
      BY <1>1, <1>2, <1>3, <1>6, <2>1, LeasedRow
  <1>8. PICK a \in Nat : a = r.attempts /\ row.attempts = a + 1
    BY <1>3, <1>6, <1>7, RowTypes
  <1>9. row.lock_token # NULL /\ row # NULL
    BY <1>7, <1>8, NullAssumption DEF Token
  <1>10. claim'[w].id = j /\ claim'[w].lock_token = row.lock_token /\ pc'[w] = "sending"
    BY <1>7 DEF CommitClaim, Inv, TypeOK
  <1>11. Attends(w, j)'
    BY <1>7, <1>9, <1>10 DEF Attends, Owns, Exists
  <1>12. LeaseHolds(j)'
    <2>1. clock < clock + LeaseDuration
      BY <1>1, Waits
    <2> QED
      BY <1>1, <1>7, <2>1 DEF LeaseHolds
  <1>13. ASSUME NEW v \in Worker PROVE ~Attends(v, j)
    <2> SUFFICES ASSUME Attends(v, j) PROVE FALSE
      OBVIOUS
    <2>1. jobs[j].lock_token # NULL /\ jobs[j].locked_until \in Nat /\ clock < jobs[j].locked_until
      BY <1>1, AttendedRow DEF Kept, LeaseHolds
    <2> QED
      BY <1>1, <1>5, <2>1 DEF DueBy
  <1>14. PICK m \in 0..faults : Paid(j, m) /\ \A v \in Worker : PacedBy(j, v, Deadline(j, v, m))
    BY <1>1, <1>3 DEF Kept, OnPace
  <1>15. m \in Nat /\ m <= faults /\ m \in 0..faults'
    BY <1>1
  <1>16. (a + 1) + m <= MaxAttempts + faults
    <2>1. CASE r.lock_token = NULL
      BY <1>1, <1>6, <1>8, <1>14, <1>15, <2>1 DEF Paid
    <2>2. CASE r.lock_token # NULL
      BY <1>1, <1>6, <1>8, <1>13, <1>14, <1>15, <2>2 DEF Paid
    <2> QED
      BY <2>1, <2>2
  <1>17. WithinBudget(j)'
    BY <1>1, <1>7, <1>8, <1>15, <1>16 DEF WithinBudget
  <1>18. Paid(j, m)'
    BY <1>1, <1>7, <1>8, <1>9, <1>11, <1>16 DEF Paid
  <1>19. PICK s \in Nat, u \in Nat :
            s = Spent(jobs[j]) /\ u = Spent(jobs[j])' /\ s + Turn <= u
    <2>1. Spent(jobs[j])' = Stay(a) + Turn
      <3>1. row.attempts - 1 = a
        BY <1>8
      <3> QED
        BY <1>7, <1>9, <3>1 DEF Spent
    <2>2. Stay(a) \in Nat /\ Turn \in Nat
      BY StayFacts, Waits
    <2>3. CASE r.lock_token = NULL
      <3>1. Spent(jobs[j]) = Stay(a)
        BY <1>6, <1>8, <2>3 DEF Spent
      <3> QED
        BY <2>1, <2>2, <3>1
    <2>4. CASE r.lock_token # NULL
      <3>1. PICK c \in Nat : a = c + 1
        <4>1. a > 0
          BY <1>4, <1>6, <1>8, <2>4 DEF WellFormed
        <4>2. a - 1 \in Nat /\ a = (a - 1) + 1
          BY <4>1
        <4> QED
          BY <4>2
      <3>2. r.attempts - 1 = c
        BY <1>8, <3>1
      <3>3. Spent(jobs[j]) = Stay(c) + Turn
        BY <1>6, <2>4, <3>2 DEF Spent
      <3>4. Stay(c) + Turn <= Stay(a) /\ Stay(c) \in Nat
        BY <3>1, StayGrows, StayFacts
      <3> QED
        BY <2>1, <2>2, <3>3, <3>4
    <2> QED
      BY <2>3, <2>4
  <1>20. ~Settled(j)' /\ born'[j] = born[j]
    <2>1. ~Settled(j)'
      BY <1>7, <1>9 DEF Settled, Exists
    <2> QED
      BY <1>3, <2>1, BornOnce
  <1>21. ASSUME NEW v \in Worker
         PROVE  PacedBy(j, v, Deadline(j, v, m))'
    <2>1. PICK b \in Nat, f \in Nat, n \in Nat : b = born[j] /\ f = faults /\ n = ahead[j][v]
      BY <1>1, <1>4 DEF QueueTypes
    <2>2. ahead'[j][v] = n
      <3>1. \A k \in Job : lockedBy'[k] \in {lockedBy[k], NULL}
        BY DEF CommitClaim, Inv, TypeOK
      <3> QED
        BY <1>20, <2>1, <3>1, AheadSame
    <2>3. PICK R \in Nat : R = Limit(b, f, n, m, s)
      BY <1>15, LimitGrows
    <2>4. PICK S \in Nat : S = Limit(b, f, n, m, u) /\ S = R + u - s
      <3>1. Limit(b, f, n, m, u) \in Nat
        BY <1>15, LimitGrows
      <3>2. Limit(b, f, n, m, u) = Limit(b, f, n, m, s) + u - s
        BY <1>15, LimitGrows
      <3> QED
        BY <2>3, <3>1, <3>2
    <2>5. Deadline(j, v, m) = R /\ Deadline(j, v, m)' = S
      BY <1>1, <1>19, <1>20, <2>1, <2>2, <2>3, <2>4 DEF Deadline
    <2>6. PacedBy(j, v, R) /\ R + Turn <= S
      BY <1>14, <1>19, <2>4, <2>5, Waits
    <2>7. DueBy(jobs[j])' <= S
      <3>1. clock <= R + Wait
        BY <2>6 DEF PacedBy
      <3>2. DueBy(jobs[j])' = clock + LeaseDuration
        BY <1>7, <1>9 DEF DueBy
      <3> QED
        BY <1>1, <2>6, <3>1, <3>2, Waits
    <2>8. R <= S /\ R + PollInterval <= S
      BY <2>6, Waits
    <2>9. Busy(v, j)' => Busy(v, j) /\ now'[v] = now[v]
      <3>1. CASE v = w
        BY <1>10, <3>1 DEF Busy
      <3>2. CASE v # w
        BY <1>1, <3>2 DEF Busy, CommitClaim, Inv, TypeOK
      <3> QED
        BY <3>1, <3>2
    <2>10. wake'[v] = wake[v] /\ wake[v] \in Nat /\ now[v] \in Nat
      BY <1>1, Clocks DEF QueueTypes
    <2>11. PacedBy(j, v, S)'
      BY <1>1, <2>6, <2>7, <2>8, <2>9, <2>10, NextPace
    <2> QED
      BY <2>5, <2>11 DEF PacedBy
  <1>22. WellFormed(jobs[j])'
    <2>1. r.next_attempt_at <= clock /\ r.next_attempt_at \in Nat
      BY <1>3, <1>6, RowTypes DEF Due
    <2>2. row.next_attempt_at <= row.locked_until /\ row.attempts > 0
      BY <1>1, <1>7, <1>8, <2>1, Waits
    <2> QED
      BY <1>7, <1>9, <2>2 DEF WellFormed
  <1>23. OnPace(j)'
    BY <1>4, <1>15, <1>18, <1>20, <1>21, <1>22 DEF OnPace
  <1> QED
    BY <1>12, <1>17, <1>23 DEF Kept

\* Retried: the delay counts from a now() of the attempt's lease.
LEMMA RetriedKept ==
  ASSUME QueueInv, Inv', NEW j \in Job, NEW w \in Worker, RetryLater(w), Owns(w),
         claim[w].id = j, UNCHANGED wake, Remember
  PROVE  Kept(j)'
  <1> USE DEF QueueInv
  <1>1. j = claim[w].id /\ pc[w] = "settling"
    BY DEF RetryLater
  <1>2. /\ clock \in Nat /\ faults \in Nat /\ Kept(j)
        /\ clock' = clock /\ faults' = faults /\ wake' = wake /\ lockedBy' = lockedBy
    BY Clocks DEF RetryLater, Settle
  <1>3. PICK N \in Nat : N = Len(RetryDelays) /\ MaxAttempts = N + 1
    BY TimingAssumption DEF MaxAttempts
  <1>4. PICK r \in Row : r = jobs[j] /\ r.lock_token # NULL /\ r.failed_at = NULL
                          /\ r.attempts = claim[w].attempts
    BY <1>1, OwnedRow DEF RetryLater
  <1>5. PICK a \in 1..N : a = r.attempts /\ a = claim[w].attempts
    <2>1. claim[w].attempts \in Nat \ {0}
      BY OwnedRow DEF RetryLater, ClaimedEmailJob
    <2>2. claim[w].attempts < MaxAttempts
      BY DEF RetryLater, ShouldRetry
    <2> QED
      BY <1>3, <1>4, <2>1, <2>2
  <1>6. PICK d \in Nat \ {0} : d = RetryDelays[a]
    BY <1>3, <1>5, TimingAssumption
  <1>7. PICK t \in Nat : t = now[w] /\ t <= clock
    BY Clocks
  <1>8. PICK row \in Row :
          /\ row = jobs'[j]
          /\ row.attempts = a
          /\ row.lock_token = NULL /\ row.locked_until = NULL
          /\ row.next_attempt_at = t + d
          /\ row.failed_at = NULL
    <2>1. jobs'[j] = Retried(w, r)
      BY <1>1, <1>4 DEF RetryLater, Settle, Inv, TypeOK
    <2>2. outcome[w] = "retryable" /\ now[w] + RetryDelays[claim[w].attempts] \in Nat
      BY <1>5, <1>6, <1>7 DEF RetryLater, ShouldRetry
    <2> QED
      BY <1>4, <1>5, <1>6, <1>7, <2>1, <2>2, RetriedRow
  <1>9. Attends(w, j) /\ Exists(j) /\ ~Settled(j)
    BY <1>1, <1>4 DEF RetryLater, Attends, Owns, Settled
  <1>10. PICK l \in Nat : l = r.locked_until /\ clock < l
    BY <1>2, <1>4, <1>9, RowTypes DEF Kept, LeaseHolds
  <1>11. row # NULL /\ ~Settled(j)' /\ born'[j] = born[j]
    <2>1. row # NULL /\ ~Settled(j)'
      BY <1>8, NullAssumption DEF Settled, Exists
    <2> QED
      BY <1>9, <2>1, BornOnce
  <1>12. LeaseHolds(j)'
    BY <1>8, TokensExist DEF LeaseHolds, Attends, Owns
  <1>13. a < MaxAttempts /\ a <= MaxAttempts + faults
    BY <1>2, <1>3, <1>5
  <1>14. WithinBudget(j)'
    BY <1>2, <1>8, <1>13 DEF WithinBudget
  <1>15. born[j] \in Nat /\ WellFormed(jobs[j])
    BY <1>2, <1>9 DEF Kept, OnPace
  <1>16. PICK m \in 0..faults : Paid(j, m) /\ \A v \in Worker : PacedBy(j, v, Deadline(j, v, m))
    BY <1>2, <1>9 DEF Kept, OnPace
  <1>17. m \in Nat /\ m \in 0..faults'
    BY <1>2
  <1>18. PICK s \in Nat, u \in Nat : s = Spent(jobs[j]) /\ u = Spent(jobs[j])' /\ u = s + d - 1
    <2>1. PICK c \in Nat : a = c + 1 /\ c < N /\ r.attempts - 1 = c
      <3>1. a - 1 \in Nat /\ a = (a - 1) + 1 /\ a - 1 < N
        BY <1>5
      <3> QED
        BY <1>5, <3>1
    <2>2. Stay(c + 1) = Stay(c) + RetryDelays[c + 1] + (Turn - 1) /\ Stay(c) \in Nat
      BY <1>3, <2>1, StayFacts
    <2>3. Spent(jobs[j]) = Stay(c) + Turn
      BY <1>4, <2>1 DEF Spent
    <2>4. Spent(jobs[j])' = Stay(a)
      BY <1>8 DEF Spent
    <2> QED
      BY <1>6, <2>1, <2>2, <2>3, <2>4, Waits
  <1>19. ASSUME NEW v \in Worker
         PROVE  PacedBy(j, v, Deadline(j, v, m))'
    <2>1. PICK b \in Nat, f \in Nat, n \in Nat : b = born[j] /\ f = faults /\ n = ahead[j][v]
      BY <1>2, <1>15 DEF QueueTypes
    <2>2. ahead'[j][v] = n
      BY <1>2, <1>11, <2>1, AheadSame
    <2>3. PICK R \in Nat : R = Limit(b, f, n, m, s)
      BY <1>17, LimitGrows
    <2>4. PICK S \in Nat : S = Limit(b, f, n, m, u) /\ S = R + u - s
      <3>1. Limit(b, f, n, m, u) \in Nat
        BY <1>17, LimitGrows
      <3>2. Limit(b, f, n, m, u) = Limit(b, f, n, m, s) + u - s
        BY <1>17, LimitGrows
      <3> QED
        BY <2>3, <3>1, <3>2
    <2>5. Deadline(j, v, m) = R /\ Deadline(j, v, m)' = S
      BY <1>2, <1>11, <1>18, <2>1, <2>2, <2>3, <2>4 DEF Deadline
    <2>6. PacedBy(j, v, R) /\ S = R + d - 1
      BY <1>16, <1>18, <2>4, <2>5
    <2>7. l <= R
      BY <1>4, <1>10, <2>6 DEF PacedBy, DueBy
    <2>8. R <= S /\ DueBy(jobs[j])' <= S
      <3>1. DueBy(jobs[j])' = t + d
        BY <1>8 DEF DueBy
      <3> QED
        BY <1>2, <1>7, <1>10, <2>6, <2>7, <3>1
    <2>9. Busy(v, j)' => Busy(v, j) /\ now'[v] = now[v]
      BY <1>2 DEF Busy, RetryLater, Settle, BackToIdle, Inv, TypeOK
    <2>10. wake'[v] = wake[v] /\ wake[v] \in Nat /\ now[v] \in Nat /\ lockedBy'[j] = lockedBy[j]
      BY <1>2, Clocks DEF QueueTypes
    <2>11. PacedBy(j, v, S)'
      BY <1>2, <2>6, <2>8, <2>9, <2>10, NextPace
    <2> QED
      BY <2>5, <2>11 DEF PacedBy
  <1>20. WellFormed(jobs[j])' /\ Paid(j, m)'
    BY <1>8, <1>13 DEF WellFormed, Paid
  <1>21. OnPace(j)'
    BY <1>11, <1>15, <1>17, <1>19, <1>20 DEF OnPace
  <1> QED
    BY <1>12, <1>14, <1>21 DEF Kept

\* A fault costs the row whose lease it interrupts an attempt, and any other row
\* a worker's turn; the worker may then be down.
LEMMA InterruptedKeeps ==
  ASSUME QueueInv, QueueTypes', NEW w \in Worker, Interrupted(w), Remember, NEW j \in Job
  PROVE  Kept(j)'
  <1> USE DEF QueueInv
  <1>1. /\ clock \in Nat /\ faults \in Nat /\ MaxAttempts \in Nat /\ Kept(j)
        /\ jobs' = jobs /\ clock' = clock /\ faults' = faults + 1
    BY Clocks DEF Interrupted, Fault
  <1>2. /\ pc'[w] = "idle"
        /\ \A v \in Worker \ {w} : pc'[v] = pc[v] /\ now'[v] = now[v] /\ claim'[v] = claim[v]
        /\ \A k \in Job : lockedBy'[k] = IF lockedBy[k] = w THEN NULL ELSE lockedBy[k]
    BY DEF Interrupted, Fault, BackToIdle, Inv, TypeOK
  <1>3. PICK pause \in 0..Downtime : wake' = [wake EXCEPT ![w] = clock + pause]
    BY DEF Interrupted, WakeAt
  <1>4. pause \in Nat /\ pause <= Downtime /\ wake'[w] = clock + pause
        /\ \A v \in Worker \ {w} : wake'[v] = wake[v]
    BY <1>3, Waits DEF QueueTypes
  <1>5. \A v \in Worker : Attends(v, j)' <=> Attends(v, j) /\ v # w
    BY <1>1, <1>2 DEF Attends, Owns, Exists
  <1>6. LeaseHolds(j)' /\ WithinBudget(j)'
    <2>1. LeaseHolds(j)'
      BY <1>1, <1>5 DEF Kept, LeaseHolds
    <2>2. ASSUME Exists(j)
          PROVE  jobs[j].attempts <= MaxAttempts + faults'
      <3>1. jobs[j].attempts \in Nat /\ jobs[j].attempts <= MaxAttempts + faults
        BY <1>1, <2>2, RowTypes DEF Kept, WithinBudget
      <3> QED
        BY <1>1, <3>1
    <2> QED
      BY <1>1, <2>1, <2>2 DEF WithinBudget, Exists
  <1>7. OnPace(j)'
    <2> SUFFICES ASSUME ~Settled(j) PROVE OnPace(j)!2'
      BY <1>1 DEF OnPace, Settled, Exists
    <2>1. Exists(j) /\ born[j] \in Nat /\ WellFormed(jobs[j]) /\ ~Settled(j)'
      BY <1>1 DEF Kept, OnPace, Settled, Exists
    <2>2. born'[j] = born[j]
      BY <2>1, BornOnce
    <2>3. PICK m \in 0..faults : Paid(j, m) /\ \A v \in Worker : PacedBy(j, v, Deadline(j, v, m))
      BY <1>1 DEF Kept, OnPace
    <2>4. m \in Nat /\ m <= faults
      BY <1>1
    <2>5. PICK k \in Nat : \/ Attends(w, j) /\ k = m
                           \/ ~Attends(w, j) /\ k = m + 1
      BY <2>4
    <2>6. k \in 0..faults'
      BY <1>1, <2>4, <2>5
    <2>7. Paid(j, k)'
      <3>1. PICK a \in Nat : a = jobs[j].attempts
        BY <2>1, RowTypes
      <3>2. CASE jobs[j].lock_token = NULL
        BY <1>1, <2>3, <3>2 DEF Paid
      <3>3. CASE jobs[j].lock_token # NULL
        <4>1. /\ a + m <= MaxAttempts + faults
              /\ a + m < MaxAttempts + faults \/ \E v \in Worker : Attends(v, j)
          BY <2>3, <3>1, <3>3 DEF Paid
        <4>2. a + k <= MaxAttempts + (faults + 1)
          BY <1>1, <2>4, <2>5, <3>1, <4>1
        <4>3. \/ a + k < MaxAttempts + (faults + 1)
              \/ \E v \in Worker : Attends(v, j)'
          <5>1. CASE a + m < MaxAttempts + faults \/ Attends(w, j)
            BY <1>1, <2>4, <2>5, <3>1, <4>1, <5>1
          <5>2. CASE ~Attends(w, j) /\ \E v \in Worker : Attends(v, j)
            BY <1>5, <5>2
          <5> QED
            BY <4>1, <5>1, <5>2
        <4> QED
          BY <1>1, <3>1, <3>3, <4>2, <4>3 DEF Paid
      <3> QED
        BY <3>2, <3>3
    <2>8. PICK s \in Nat : s = Spent(jobs[j]) /\ s = Spent(jobs[j])'
      BY <1>1, <2>1, SpentIsTime DEF Spent
    <2>9. ASSUME NEW v \in Worker
          PROVE  PacedBy(j, v, Deadline(j, v, k))'
      <3>1. PICK b \in Nat, f \in Nat, n \in Nat : b = born[j] /\ f = faults /\ n = ahead[j][v]
        BY <1>1, <2>1 DEF QueueTypes
      <3>2. ahead'[j][v] = n
        BY <1>2, <2>1, <3>1, AheadSame
      <3>3. PICK R \in Nat : R = Limit(b, f, n, m, s)
        BY <2>4, LimitGrows
      <3>4. Limit(b, f + 1, n, m, s) = R + Extra
        <4>1. Limit(b, f + 1, n, m, s) = Limit(b, f, n, m, s) + Extra
          BY <2>4, LimitGrows
        <4> QED
          BY <3>3, <4>1
      <3>5. Limit(b, f + 1, n, m + 1, s) = R + Extra + Turn
        <4>1. f + 1 \in Nat
          OBVIOUS
        <4>2. Limit(b, f + 1, n, m + 1, s) = Limit(b, f + 1, n, m, s) + Turn
          BY <2>4, <4>1, LimitGrows
        <4> QED
          BY <3>4, <4>2
      <3>6. PICK S \in Nat :
              /\ S = Limit(b, f + 1, n, k, s)
              /\ R + Extra <= S
              /\ ~Attends(w, j) => R + Extra + Turn <= S
        <4>1. R + Extra \in Nat /\ R + Extra + Turn \in Nat /\ R + Extra <= R + Extra + Turn
          BY Waits
        <4>2. CASE Attends(w, j)
          BY <2>5, <3>4, <4>1, <4>2
        <4>3. CASE ~Attends(w, j)
          BY <2>5, <3>5, <4>1, <4>3
        <4> QED
          BY <4>2, <4>3
      <3>7. PacedBy(j, v, R)
        BY <2>3, <2>8, <3>1, <3>3 DEF Deadline
      <3>8. Deadline(j, v, k)' = S
        BY <1>1, <2>2, <2>8, <3>1, <3>2, <3>6 DEF Deadline
      <3>9. R <= S
        BY <3>6, Waits
      <3>10. DueBy(jobs[j]) \in Nat /\ DueBy(jobs[j]) <= R /\ clock <= R + Wait
        BY <2>1, <3>7, RowTypes DEF PacedBy
      <3>11. DueBy(jobs[j])' <= S /\ clock' <= S + Wait
        <4>1. DueBy(jobs[j])' = DueBy(jobs[j])
          BY <1>1 DEF DueBy
        <4> QED
          BY <1>1, <3>9, <3>10, <4>1, Waits
      <3>12. CASE v # w
        <4>1. lockedBy'[j] = lockedBy[j] \/ R + PollInterval <= S
          <5>1. CASE Attends(w, j)
            <6>1. lockedBy[j] # w
              BY <5>1 DEF Attends, Inv, LocksAreClaims
            <6> QED
              BY <1>2, <6>1
          <5>2. CASE ~Attends(w, j)
            BY <3>6, <5>2, Waits
          <5> QED
            BY <5>1, <5>2
        <4>2. Busy(v, j)' => Busy(v, j) /\ now'[v] = now[v]
          BY <1>2, <3>12 DEF Busy
        <4>3. wake'[v] = wake[v] /\ wake[v] \in Nat /\ now[v] \in Nat
          BY <1>4, <3>12, Clocks DEF QueueTypes
        <4>4. PacedBy(j, v, S)'
          BY <1>1, <3>7, <3>9, <3>11, <4>1, <4>2, <4>3, NextPace
        <4> QED
          BY <3>8, <4>4 DEF PacedBy
      <3>13. CASE v = w
        <4>1. clock + pause <= S + Wait
          <5>1. CASE Attends(w, j)
            <6>1. jobs[j].lock_token # NULL /\ clock < jobs[j].locked_until
              BY <1>1, <5>1, AttendedRow DEF Kept, LeaseHolds
            <6>2. clock < DueBy(jobs[j])
              BY <6>1 DEF DueBy
            <6> QED
              BY <1>1, <1>4, <3>6, <3>10, <6>2, Waits
          <5>2. CASE ~Attends(w, j)
            BY <1>1, <1>4, <3>6, <3>10, <5>2, Waits
          <5> QED
            BY <5>1, <5>2
        <4>2. ~Busy(v, j)'
          BY <1>2, <3>13 DEF Busy
        <4>3. wake'[v] <= S + Wait + (IF lockedBy'[j] = NULL THEN 0 ELSE PollInterval)
          BY <1>1, <1>4, <3>13, <4>1, Waits
        <4>4. PacedBy(j, v, S)'
          BY <3>11, <4>2, <4>3 DEF PacedBy
        <4> QED
          BY <3>8, <4>4 DEF PacedBy
      <3> QED
        BY <3>12, <3>13
    <2> QED
      BY <1>1, <2>1, <2>2, <2>6, <2>7, <2>9 DEF WellFormed
  <1> QED
    BY <1>6, <1>7 DEF Kept

-----------------------------------------------------------------------------
(* What a step does to every row                                           *)

\* What neither touches the row nor keeps a worker from it.
LEMMA LeftAlone ==
  ASSUME QueueInv, Remember, NEW j \in Job, jobs'[j] = jobs[j], UNCHANGED <<clock, faults>>,
         lockedBy'[j] = lockedBy[j],
         \A k \in Job : lockedBy'[k] \in {lockedBy[k], NULL},
         \A w \in Worker : Attends(w, j)' <=> Attends(w, j),
         \A w \in Worker : wake'[w] \in {wake[w], 0},
         \A w \in Worker : Busy(w, j)' => Busy(w, j) /\ now'[w] = now[w]
  PROVE  Kept(j)'
  <1> USE DEF QueueInv
  <1>1. ASSUME ~Settled(j), NEW w \in Worker, NEW R \in Nat, PacedBy(j, w, R)
        PROVE  ahead'[j][w] = ahead[j][w] /\ PacedBy(j, w, R)'
    <2>1. ~Settled(j)'
      BY <1>1 DEF Settled, Exists
    <2>2. clock \in Nat /\ wake[w] \in Nat
      BY Clocks DEF QueueTypes
    <2> QED
      BY <1>1, <2>1, <2>2, AheadSame, SamePace
  <1> QED
    BY <1>1, Undisturbed

LEMMA EnqueueKeeps ==
  ASSUME QueueInv, Inv', QueueTypes', NEW k \in Job, Enqueue(k), UNCHANGED wake, Remember,
         NEW j \in Job
  PROVE  Kept(j)'
  <1>1. CASE j = k
    BY <1>1, EnqueuedKept
  <1>2. CASE j # k
    <2>1. UNCHANGED <<pc, claim, now, clock, faults, lockedBy>> /\ jobs'[j] = jobs[j]
      BY <1>2 DEF Enqueue, QueueInv, Inv, TypeOK
    <2>2. \A w \in Worker : Attends(w, j)' <=> Attends(w, j)
      BY <2>1 DEF Attends, Owns, Exists
    <2>3. \A w \in Worker : Busy(w, j)' => Busy(w, j) /\ now'[w] = now[w]
      BY <2>1 DEF Busy
    <2> QED
      BY <2>1, <2>2, <2>3, LeftAlone
  <1> QED
    BY <1>1, <1>2

LEMMA CancelKeeps ==
  ASSUME QueueInv, Inv', NEW k \in Job, Cancel(k), UNCHANGED wake, Remember, NEW j \in Job
  PROVE  Kept(j)'
  <1>1. CASE j = k
    <2>1. ~Exists(j)' /\ Settled(j)'
      BY <1>1 DEF Cancel, QueueInv, Inv, TypeOK, Exists, Settled
    <2> QED
      BY <2>1, SettledKept
  <1>2. CASE j # k
    <2>1. UNCHANGED <<pc, claim, now, clock, faults, lockedBy>> /\ jobs'[j] = jobs[j]
      BY <1>2 DEF Cancel, QueueInv, Inv, TypeOK
    <2>2. \A w \in Worker : Attends(w, j)' <=> Attends(w, j)
      BY <2>1 DEF Attends, Owns, Exists
    <2>3. \A w \in Worker : Busy(w, j)' => Busy(w, j) /\ now'[w] = now[w]
      BY <2>1 DEF Busy
    <2> QED
      BY <2>1, <2>2, <2>3, LeftAlone
  <1> QED
    BY <1>1, <1>2

\* The steps of a worker that change no row and no lock.
LEMMA QuietKeeps ==
  ASSUME QueueInv, NEW w \in Worker, Remember, NEW j \in Job,
         \/ Poll(w)
         \/ /\ Deliver(w) \/ \E error \in {"retryable", "fatal"} : Refuse(w, error)
            /\ UNCHANGED wake
  PROVE  Kept(j)'
  <1> USE DEF QueueInv
  <1>1. UNCHANGED <<jobs, clock, faults, lockedBy>>
    BY DEF Poll, ReadNow, Deliver, Refuse
  <1>2. \A v \in Worker \ {w} : pc'[v] = pc[v] /\ claim'[v] = claim[v] /\ now'[v] = now[v]
    BY DEF Poll, ReadNow, Deliver, Refuse, Inv, TypeOK
  <1>3. \/ pc[w] = "sending" /\ pc'[w] = "settling" /\ claim'[w] = claim[w]
        \/ pc[w] = "idle" /\ pc'[w] = "polling"
    BY DEF Poll, ReadNow, Deliver, Refuse, Inv, TypeOK
  <1>4. \A v \in Worker : wake'[v] \in {wake[v], 0}
    BY DEF Poll, WakeAt, QueueTypes
  <1>5. \A v \in Worker : Attends(v, j)' <=> Attends(v, j)
    BY <1>1, <1>2, <1>3 DEF Attends, Owns, Exists
  <1>6. \A v \in Worker : Busy(v, j)' => Busy(v, j) /\ now'[v] = now[v]
    BY <1>1, <1>2, <1>3 DEF Busy
  <1> QED
    BY <1>1, <1>4, <1>5, <1>6, LeftAlone

\* A worker goes to sleep past a row that is not due, or that another has locked.
LEMMA SleepKeeps ==
  ASSUME QueueInv, QueueTypes', NEW w \in Worker, Sleep(w), Remember, NEW j \in Job
  PROVE  Kept(j)'
  <1> USE DEF QueueInv
  <1>1. /\ UNCHANGED <<jobs, clock, faults, lockedBy>> /\ clock \in Nat /\ Kept(j)
    BY Clocks DEF Sleep, NothingDue
  <1>2. /\ \A v \in Worker \ {w} : /\ pc'[v] = pc[v] /\ claim'[v] = claim[v]
                                   /\ now'[v] = now[v] /\ wake'[v] = wake[v]
        /\ pc[w] = "polling" /\ pc'[w] = "idle" /\ wake'[w] = clock + PollInterval
    BY DEF Sleep, NothingDue, BackToIdle, WakeAt, QueueTypes, Inv, TypeOK
  <1>3. \A v \in Worker : Attends(v, j)' <=> Attends(v, j)
    BY <1>1, <1>2 DEF Attends, Owns, Exists
  <1>4. \A v \in Worker : Busy(v, j)' => Busy(v, j) /\ now'[v] = now[v]
    BY <1>1, <1>2 DEF Busy
  <1>5. ASSUME ~Settled(j), NEW v \in Worker, NEW R \in Nat, PacedBy(j, v, R)
        PROVE  ahead'[j][v] = ahead[j][v] /\ PacedBy(j, v, R)'
    <2>1. ahead'[j][v] = ahead[j][v]
      <3>1. ~Settled(j)'
        BY <1>1, <1>5 DEF Settled, Exists
      <3> QED
        BY <1>1, <3>1, AheadSame
    <2>2. CASE v # w
      <3>1. wake[v] \in Nat /\ wake'[v] \in {wake[v], 0}
        BY <1>2, <2>2 DEF QueueTypes
      <3> QED
        BY <1>1, <1>4, <1>5, <2>1, <3>1, SamePace
    <2>3. CASE v = w
      <3>1. DueBy(jobs[j]) <= R /\ DueBy(jobs[j]) \in Nat /\ clock <= R + Wait
        BY <1>5, RowTypes DEF PacedBy, Settled
      <3>2. clock + PollInterval <= R + Wait + (IF lockedBy[j] = NULL THEN 0 ELSE PollInterval)
        <4>1. CASE lockedBy[j] # NULL
          BY <1>1, <3>1, <4>1, Waits
        <4>2. CASE lockedBy[j] = NULL
          <5>1. now[w] = clock
            BY <1>2 DEF Punctual
          <5>2. ~Due(j, clock)
            BY <4>2, <5>1 DEF Sleep, NothingDue, Unlocked
          <5>3. WellFormed(jobs[j])
            BY <1>1, <1>5 DEF Kept, OnPace
          <5>4. ~(DueBy(jobs[j]) <= clock)
            BY <1>1, <1>5, <5>2, <5>3, DueOrNot
          <5> QED
            BY <1>1, <3>1, <4>2, <5>4, Waits
        <4> QED
          BY <4>1, <4>2
      <3>3. ~Busy(v, j)'
        BY <1>2, <2>3 DEF Busy
      <3>4. DueBy(jobs[j])' <= R
        BY <1>1, <3>1 DEF DueBy
      <3> QED
        BY <1>1, <1>2, <2>1, <2>3, <3>1, <3>2, <3>3, <3>4 DEF PacedBy
    <2> QED
      BY <2>2, <2>3
  <1> QED
    BY <1>1, <1>3, <1>5, Undisturbed

\* A worker that takes another email takes one that was due as early, and is
\* counted, or this one was not due.
LEMMA SelectKeeps ==
  ASSUME QueueInv, NEW w \in Worker, NEW k \in Job, SelectDue(w, k), UNCHANGED wake,
         Remember, NEW j \in Job
  PROVE  Kept(j)'
  <1> USE DEF QueueInv
  <1>1. /\ UNCHANGED <<jobs, clock, faults, now, claim, wake>> /\ clock \in Nat /\ Kept(j)
    BY Clocks DEF SelectDue
  <1>2. /\ \A v \in Worker \ {w} : pc'[v] = pc[v]
        /\ pc[w] = "polling" /\ pc'[w] = "claiming"
        /\ lockedBy[k] = NULL /\ lockedBy'[k] = w
        /\ \A i \in Job \ {k} : lockedBy'[i] = lockedBy[i]
    BY DEF SelectDue, Unlocked, Inv, TypeOK
  <1>3. \A v \in Worker : v # NULL
    BY NullAssumption
  <1>4. \A v \in Worker : Attends(v, j)' <=> Attends(v, j)
    BY <1>1, <1>2 DEF Attends, Owns, Exists
  <1>5. lockedBy'[j] = lockedBy[j] \/ lockedBy'[j] # NULL
    BY <1>2, <1>3
  <1>6. ASSUME NEW v \in Worker, GoesAhead(v, j)
        PROVE  v = w /\ j # k
    BY <1>2, <1>3, <1>6 DEF GoesAhead, Unlocked
  <1>7. ASSUME ~Settled(j), NEW v \in Worker, NEW R \in Nat, PacedBy(j, v, R)
        PROVE  \/ ahead'[j][v] = ahead[j][v] /\ PacedBy(j, v, R)'
               \/ ahead'[j][v] = ahead[j][v] + 1 /\ PacedBy(j, v, R + (LeaseDuration - 1))'
    <2>1. ahead'[j][v] = IF GoesAhead(v, j) THEN ahead[j][v] + 1 ELSE ahead[j][v]
      <3>1. ~Settled(j)'
        BY <1>1, <1>7 DEF Settled, Exists
      <3> QED
        BY <3>1, AheadSteps
    <2>2. clock \in Nat /\ wake[v] \in Nat /\ now[v] \in Nat /\ wake'[v] \in {wake[v], 0}
      BY <1>1, Clocks DEF QueueTypes
    <2>3. CASE v # w \/ j = k
      <3>1. Busy(v, j)' => Busy(v, j) /\ now'[v] = now[v]
        BY <1>1, <1>2, <1>3, <2>3 DEF Busy
      <3>2. PacedBy(j, v, R)'
        BY <1>1, <1>5, <1>7, <2>2, <3>1, SamePace
      <3>3. ~GoesAhead(v, j)
        BY <1>6, <2>3
      <3> QED
        BY <2>1, <3>2, <3>3
    <2>4. CASE v = w /\ j # k
      <3>1. PICK l \in Nat : l = LeaseDuration - 1 /\ LeaseDuration = l + 1 /\ l <= Wait + 1
        BY Waits
      <3>2. /\ DueBy(jobs[j]) <= R /\ DueBy(jobs[j]) \in Nat /\ clock <= R + Wait
            /\ wake[w] <= R + Wait + (IF lockedBy[j] = NULL THEN 0 ELSE PollInterval)
        BY <1>7, <2>4, RowTypes DEF PacedBy, Settled
      <3>3. now'[w] = clock /\ now[w] = clock /\ lockedBy'[j] = lockedBy[j]
            /\ DueBy(jobs[j])' = DueBy(jobs[j])
        BY <1>1, <1>2, <2>4 DEF Punctual, DueBy
      <3>4. WellFormed(jobs[j])
        BY <1>1, <1>7 DEF Kept, OnPace
      <3>5. CASE GoesAhead(w, j)
        <4>1. /\ DueBy(jobs[j]) <= R + l /\ clock <= R + l + Wait
              /\ wake[w] <= R + l + Wait + (IF lockedBy[j] = NULL THEN 0 ELSE PollInterval)
              /\ clock + LeaseDuration <= R + l + Wait + 1
          BY <2>2, <2>4, <3>1, <3>2, Waits
        <4>2. PacedBy(j, w, R + l)'
          BY <1>1, <3>3, <4>1 DEF PacedBy
        <4> QED
          BY <2>1, <2>4, <3>1, <3>5, <4>2
      <3>6. CASE ~GoesAhead(w, j)
        <4>1. ~Due(j, clock)
          <5> SUFFICES ASSUME Due(j, clock) PROVE FALSE
            OBVIOUS
          <5>1. Unlocked(k) /\ lockedBy'[k] = w /\ k \in Job \ {j} /\ Due(k, clock)
            BY <1>2, <2>4, <3>3 DEF SelectDue
          <5>2. Overtaken(j, k)
            BY <3>3, <3>6, <5>1 DEF GoesAhead
          <5>3. Before(k, j)
            BY <3>3, <5>2 DEF SelectDue, Overtaken
          <5>4. jobs[j].next_attempt_at \in Nat /\ jobs[k].next_attempt_at \in Nat
            BY <5>1, <1>7, RowTypes DEF Settled, Due
          <5> QED
            BY <5>2, <5>3, <5>4 DEF Before, Overtaken
        <4>2. ~(DueBy(jobs[j]) <= clock)
          BY <1>1, <1>7, <3>4, <4>1, DueOrNot
        <4>3. clock + LeaseDuration <= R + Wait + 1
          BY <1>1, <3>1, <3>2, <4>2, Waits
        <4>4. PacedBy(j, w, R)'
          BY <1>1, <3>2, <3>3, <4>3 DEF PacedBy
        <4> QED
          BY <2>1, <2>4, <3>6, <4>4
      <3> QED
        BY <3>5, <3>6
    <2> QED
      BY <2>3, <2>4
  <1> QED
    BY <1>1, <1>4, <1>7, Undisturbed

LEMMA CommitClaimKeeps ==
  ASSUME QueueInv, NEW w \in Worker, NEW k \in Job, CommitClaim(w, k), UNCHANGED wake,
         Remember, NEW j \in Job
  PROVE  Kept(j)'
  <1> USE DEF QueueInv
  <1>1. CASE j = k
    BY <1>1, LeasedKept
  <1>2. CASE j # k
    <2>1. /\ UNCHANGED <<clock, faults, now, wake>> /\ jobs'[j] = jobs[j]
          /\ lockedBy[k] = w /\ lockedBy'[j] = lockedBy[j]
          /\ \A i \in Job : lockedBy'[i] \in {lockedBy[i], NULL}
          /\ pc[w] = "claiming" /\ pc'[w] = "sending" /\ claim'[w].id = k
          /\ \A v \in Worker \ {w} : pc'[v] = pc[v] /\ claim'[v] = claim[v]
      BY <1>2 DEF CommitClaim, Inv, TypeOK
    <2>2. lockedBy[j] # w
      BY <1>2, <2>1 DEF Inv, LocksAreClaims
    <2>3. \A v \in Worker : Attends(v, j)' <=> Attends(v, j)
      BY <1>2, <2>1 DEF Attends, Owns, Exists
    <2>4. \A v \in Worker : Busy(v, j)' => Busy(v, j) /\ now'[v] = now[v]
      BY <2>1, <2>2 DEF Busy
    <2> QED
      BY <2>1, <2>3, <2>4, LeftAlone
  <1> QED
    BY <1>1, <1>2

\* The three ways to settle: of a row that is still owned, or of none.
LEMMA SettlingKeeps ==
  ASSUME QueueInv, Inv', NEW w \in Worker, Complete(w) \/ RetryLater(w) \/ Fail(w),
         UNCHANGED wake, Remember, NEW j \in Job
  PROVE  Kept(j)'
  <1> USE DEF QueueInv
  <1>1. /\ UNCHANGED <<clock, faults, lockedBy, wake>> /\ faults \in Nat /\ Kept(j)
        /\ pc[w] = "settling" /\ pc'[w] = "idle"
        /\ \A v \in Worker \ {w} : pc'[v] = pc[v] /\ claim'[v] = claim[v] /\ now'[v] = now[v]
    BY Clocks DEF Complete, RetryLater, Fail, Settle, BackToIdle, Inv, TypeOK
  <1>2. CASE claim[w].id = j /\ Owns(w)
    <2>1. jobs[j] \in Row /\ jobs[j].failed_at = NULL /\ Exists(j)
      BY <1>1, <1>2, OwnedRow DEF Owns
    <2>2. jobs[j].attempts <= MaxAttempts + faults
      BY <1>1, <2>1 DEF Kept, WithinBudget
    <2>3. CASE Complete(w)
      <3>1. jobs'[j] = NULL
        BY <1>2, <2>3 DEF Complete, Settle, Inv, TypeOK
      <3>2. Settled(j)' /\ ~Exists(j)'
        BY <3>1 DEF Settled, Exists
      <3> QED
        BY <3>2, SettledKept
    <2>4. CASE Fail(w)
      <3>1. jobs'[j] = Failed(w, jobs[j])
        BY <1>2, <2>4 DEF Fail, Settle, Inv, TypeOK
      <3>2. now[w] \in Nat /\ outcome[w] \in {"retryable", "fatal"}
        BY <2>4 DEF Inv, TypeOK, OutcomesAreReal, Fail
      <3>3. /\ jobs'[j].lock_token = NULL /\ jobs'[j].failed_at = now[w]
            /\ jobs'[j].attempts = jobs[j].attempts
        BY <2>1, <3>1, <3>2, FailedRow
      <3>4. Settled(j)'
        BY <3>2, <3>3, NullAssumption DEF Settled
      <3>5. jobs'[j].attempts <= MaxAttempts + faults'
        BY <1>1, <2>2, <3>3
      <3> QED
        BY <3>3, <3>4, <3>5, SettledKept
    <2>5. CASE RetryLater(w)
      BY <1>1, <1>2, <2>5, RetriedKept
    <2> QED
      BY <2>3, <2>4, <2>5
  <1>3. CASE ~(claim[w].id = j /\ Owns(w))
    <2>1. jobs'[j] = jobs[j]
      BY <1>3 DEF Complete, RetryLater, Fail, Settle, Inv, TypeOK
    <2>2. \A v \in Worker : Attends(v, j)' <=> Attends(v, j)
      BY <1>1, <1>3, <2>1 DEF Attends, Owns, Exists
    <2>3. \A v \in Worker : Busy(v, j)' => Busy(v, j) /\ now'[v] = now[v]
      BY <1>1 DEF Busy
    <2> QED
      BY <1>1, <2>1, <2>2, <2>3, LeftAlone
  <1> QED
    BY <1>2, <1>3

\* The clocks, sleeps and counts that a step leaves behind.
LEMMA TypesStep ==
  ASSUME QueueInv, QueueNext
  PROVE  QueueTypes'
  <1> USE DEF QueueInv
  <1>1. clock \in Nat /\ PollInterval \in Nat /\ Downtime \in Nat
    BY Clocks, Waits
  <1>2. wake' \in [Worker -> Nat]
    <2>1. CASE UNCHANGED wake
      BY <2>1 DEF QueueTypes
    <2>2. ASSUME NEW w \in Worker, NEW t \in Nat, WakeAt(w, t)
          PROVE  wake' \in [Worker -> Nat]
      BY <2>2 DEF WakeAt, QueueTypes
    <2>3. ASSUME NEW w \in Worker, Poll(w) \/ Sleep(w) \/ Interrupted(w)
          PROVE  \E t \in Nat : WakeAt(w, t)
      <3>1. CASE Poll(w)
        BY <3>1 DEF Poll
      <3>2. CASE Sleep(w)
        <4>1. clock + PollInterval \in Nat
          BY <1>1
        <4> QED
          BY <3>2, <4>1 DEF Sleep
      <3>3. CASE Interrupted(w)
        <4>1. \A pause \in 0..Downtime : clock + pause \in Nat
          BY <1>1
        <4> QED
          BY <3>3, <4>1 DEF Interrupted
      <3> QED
        BY <2>3, <3>1, <3>2, <3>3
    <2> QED
      BY <2>1, <2>2, <2>3 DEF QueueNext, RunWorker, PassTime
  <1>3. ahead' \in [Job -> [Worker -> Nat]]
    <2>1. \A j \in Job, w \in Worker : ahead[j][w] \in Nat /\ ahead[j][w] + 1 \in Nat
      BY DEF QueueTypes
    <2> QED
      BY <2>1 DEF QueueNext, Remember
  <1> QED
    BY <1>2, <1>3 DEF QueueTypes

LEMMA PunctualStep ==
  ASSUME QueueInv, QueueNext, NEW v \in Worker
  PROVE  Punctual(v)'
  <1> USE DEF QueueInv
  <1>1. /\ clock \in Nat /\ faults \in Nat /\ wake[v] \in Nat /\ now[v] \in Nat /\ Punctual(v)
    BY Clocks DEF QueueTypes
  <1>2. wake[v] <= clock + Downtime
    BY <1>1, Waits DEF Punctual
  <1>3. CASE \E j \in Job : (QueueLink(j) \/ SubmitReport(j) \/ Cancel(j)) /\ UNCHANGED wake
    <2>1. UNCHANGED <<pc, now, clock, faults, wake>>
      BY <1>3 DEF QueueLink, SubmitReport, Enqueue, Cancel
    <2> QED
      BY <1>1, <2>1 DEF Punctual
  <1>4. ASSUME NEW w \in Worker, RunWorker(w)
        PROVE  Punctual(v)'
    <2>1. UNCHANGED <<clock, faults>>
      BY <1>4 DEF RunWorker, Poll, Sleep, ProcessJob, ReadNow, NothingDue, SelectDue,
         CommitClaim, Deliver, Refuse, Complete, RetryLater, Fail, Settle
    <2>2. \/ wake'[v] = wake[v] \/ wake'[v] = 0
          \/ wake'[v] = clock + PollInterval
      BY <1>4 DEF RunWorker, Poll, Sleep, WakeAt, QueueTypes
    <2>3. wake'[v] <= clock + (IF faults = 0 THEN PollInterval ELSE Downtime)
      BY <1>1, <2>2, Waits DEF Punctual
    <2>4. \/ pc'[v] = pc[v] /\ now'[v] = now[v]
          \/ pc'[v] = "polling" /\ now'[v] = clock
          \/ pc[v] = "polling" /\ pc'[v] = "claiming" /\ now'[v] = now[v]
          \/ pc[v] = "claiming" /\ pc'[v] = "sending" /\ now'[v] = now[v]
          \/ pc'[v] \in {"idle", "settling"}
      <3>1. CASE Poll(w) \/ Sleep(w)
        BY <3>1 DEF Poll, Sleep, ReadNow, NothingDue, BackToIdle, Inv, TypeOK
      <3>2. CASE \E j \in Job : SelectDue(w, j) \/ CommitClaim(w, j)
        BY <3>2 DEF SelectDue, CommitClaim, Inv, TypeOK
      <3>3. CASE Deliver(w) \/ \E error \in {"retryable", "fatal"} : Refuse(w, error)
        BY <3>3 DEF Deliver, Refuse, Inv, TypeOK
      <3>4. CASE Complete(w) \/ RetryLater(w) \/ Fail(w)
        BY <3>4 DEF Complete, RetryLater, Fail, Settle, BackToIdle, Inv, TypeOK
      <3> QED
        BY <1>4, <3>1, <3>2, <3>3, <3>4 DEF RunWorker, ProcessJob
    <2>5. pc'[v] \in {"polling", "claiming"} => now'[v] = clock
      BY <1>1, <2>4 DEF Punctual
    <2>6. pc'[v] = "sending" => clock < now'[v] + LeaseDuration
      <3>1. clock < clock + LeaseDuration
        BY <1>1, Waits
      <3> QED
        BY <1>1, <2>4, <3>1 DEF Punctual
    <2> QED
      BY <2>1, <2>3, <2>5, <2>6 DEF Punctual
  <1>5. ASSUME NEW w \in Worker, Interrupted(w)
        PROVE  Punctual(v)'
    <2>1. clock' = clock /\ faults' = faults + 1 /\ faults' # 0
      BY <1>1, <1>5 DEF Interrupted, Fault
    <2>2. PICK pause \in 0..Downtime : wake' = [wake EXCEPT ![w] = clock + pause]
      BY <1>5 DEF Interrupted, WakeAt
    <2>3. wake'[v] <= clock + Downtime
      <3>1. wake'[v] = wake[v] \/ wake'[v] = clock + pause
        BY <2>2 DEF QueueTypes
      <3>2. pause \in Nat /\ pause <= Downtime
        BY Waits
      <3> QED
        BY <1>1, <1>2, <3>1, <3>2, Waits
    <2>4. pc'[v] = "idle" \/ (pc'[v] = pc[v] /\ now'[v] = now[v])
      BY <1>5 DEF Interrupted, Fault, BackToIdle, Inv, TypeOK
    <2> QED
      BY <1>1, <2>1, <2>3, <2>4 DEF Punctual
  <1>6. CASE PassTime
    <2>1. /\ clock' = clock + 1 /\ UNCHANGED <<pc, now, faults, wake>>
      BY <1>6 DEF PassTime, Tick
    <2>2. pc[v] \notin {"polling", "claiming"} /\ (pc[v] = "sending" => clock + 1 < now[v] + LeaseDuration)
      BY <1>6 DEF PassTime, Timely
    <2>3. wake[v] <= (clock + 1) + (IF faults = 0 THEN PollInterval ELSE Downtime)
      BY <1>1, Waits DEF Punctual
    <2> QED
      BY <2>1, <2>2, <2>3 DEF Punctual
  <1> QED
    BY <1>3, <1>4, <1>5, <1>6 DEF QueueNext

-----------------------------------------------------------------------------
LEMMA QueueInitInv == QueueInit => QueueInv
  <1> SUFFICES ASSUME QueueInit PROVE QueueInv
    OBVIOUS
  <1>1. Inv
    BY InitInv DEF QueueInit
  <1>2. faults <= MaxFaults /\ QueueTypes
    BY TimingAssumption DEF QueueInit, Init, QueueTypes
  <1>3. ASSUME NEW w \in Worker PROVE Punctual(w)
    BY Waits DEF QueueInit, Init, Punctual
  <1>4. ASSUME NEW j \in Job PROVE Kept(j)
    <2>1. ~Exists(j) /\ \A w \in Worker : pc[w] = "idle"
      BY DEF QueueInit, Init, Exists
    <2> QED
      BY <2>1 DEF Kept, LeaseHolds, WithinBudget, OnPace, Attends, Settled
  <1> QED
    BY <1>1, <1>2, <1>3, <1>4 DEF QueueInv

\* The requests and workers of the queue are those of the outbox.
LEMMA QueueNextIsNext == QueueNext => Next
  <1>1. ASSUME NEW w \in Worker, RunWorker(w) PROVE WorkerStep(w)
    BY <1>1 DEF RunWorker, Poll, Sleep, WorkerStep
  <1> QED
    BY <1>1 DEF QueueNext, Next, QueueLink, SubmitReport, Interrupted, PassTime

LEMMA QueueStepInv == QueueInv /\ [QueueNext]_allVars => QueueInv'
  <1> SUFFICES ASSUME QueueInv, [QueueNext]_allVars PROVE QueueInv'
    OBVIOUS
  <1>1. CASE QueueNext
    <2>1. Inv' /\ Remember /\ QueueTypes'
      BY <1>1, QueueNextIsNext, StepInv, TypesStep DEF QueueInv, QueueNext
    <2>2. faults' <= MaxFaults
      <3>1. faults' = faults \/ (faults < MaxFaults /\ faults' = faults + 1)
        BY <1>1, QueueNextIsNext
        DEF Next, Enqueue, Cancel, WorkerStep, ProcessJob, ReadNow, NothingDue, SelectDue,
            CommitClaim, Deliver, Refuse, Complete, RetryLater, Fail, Settle, Fault, Tick
      <3>2. faults \in Nat /\ MaxFaults \in Nat /\ faults <= MaxFaults
        BY TimingAssumption, Clocks DEF QueueInv
      <3> QED
        BY <3>1, <3>2
    <2>3. \A w \in Worker : Punctual(w)'
      BY <1>1, PunctualStep
    <2>4. ASSUME NEW j \in Job PROVE Kept(j)'
      <3>1. CASE \E k \in Job : (Enqueue(k) \/ Cancel(k)) /\ UNCHANGED wake
        BY <2>1, <3>1, EnqueueKeeps, CancelKeeps
      <3>2. CASE \E w \in Worker : Poll(w)
        BY <2>1, <3>2, QuietKeeps
      <3>3. CASE \E w \in Worker : Sleep(w)
        BY <2>1, <3>3, SleepKeeps
      <3>4. CASE \E w \in Worker : Interrupted(w)
        BY <2>1, <3>4, InterruptedKeeps
      <3>5. CASE \E w \in Worker : ProcessJob(w) /\ UNCHANGED wake
        <4>1. PICK w \in Worker : ProcessJob(w) /\ UNCHANGED wake
          BY <3>5
        <4>2. CASE \E k \in Job : SelectDue(w, k)
          BY <2>1, <4>1, <4>2, SelectKeeps
        <4>3. CASE \E k \in Job : CommitClaim(w, k)
          BY <2>1, <4>1, <4>3, CommitClaimKeeps
        <4>4. CASE Deliver(w) \/ \E error \in {"retryable", "fatal"} : Refuse(w, error)
          BY <2>1, <4>1, <4>4, QuietKeeps
        <4>5. CASE Complete(w) \/ RetryLater(w) \/ Fail(w)
          BY <2>1, <4>1, <4>5, SettlingKeeps
        <4> QED
          BY <4>1, <4>2, <4>3, <4>4, <4>5 DEF ProcessJob
      <3>6. CASE PassTime
        BY <2>1, <3>6, TickKept DEF PassTime
      <3> QED
        BY <1>1, <3>1, <3>2, <3>3, <3>4, <3>5, <3>6
        DEF QueueNext, QueueLink, SubmitReport, RunWorker
    <2> QED
      BY <2>1, <2>2, <2>3, <2>4 DEF QueueInv
  <1>2. CASE UNCHANGED allVars
    <2>1. Inv'
      BY <1>2, StepInv DEF QueueInv, allVars
    <2>2. UNCHANGED <<jobs, lockedBy, pc, now, claim, clock, faults, wake, born, ahead>>
      BY <1>2 DEF allVars, vars
    <2>3. QueueTypes' /\ faults' <= MaxFaults /\ \A w \in Worker : Punctual(w)'
      BY <2>2 DEF QueueInv, QueueTypes, Punctual
    <2>4. ASSUME NEW j \in Job PROVE Kept(j)'
      <3>1. Kept(j)
        BY DEF QueueInv
      <3>2. \A w \in Worker : Attends(w, j)' <=> Attends(w, j)
        BY <2>2 DEF Attends, Owns, Exists
      <3>3. LeaseHolds(j)' /\ WithinBudget(j)'
        BY <2>2, <3>1, <3>2 DEF Kept, LeaseHolds, WithinBudget, Exists
      <3>4. \A m \in 0..faults : Paid(j, m)' <=> Paid(j, m)
        BY <2>2, <3>2 DEF Paid
      <3>5. ASSUME NEW w \in Worker, NEW m \in 0..faults, PacedBy(j, w, Deadline(j, w, m))
            PROVE  PacedBy(j, w, Deadline(j, w, m))'
        <4>1. Deadline(j, w, m)' = Deadline(j, w, m)
          BY <2>2 DEF Deadline, Spent
        <4>2. Busy(w, j)' <=> Busy(w, j)
          BY <2>2 DEF Busy
        <4> QED
          BY <2>2, <3>5, <4>1, <4>2 DEF PacedBy, DueBy
      <3>6. OnPace(j)'
        BY <2>2, <3>1, <3>4, <3>5 DEF Kept, OnPace, Settled, Exists, WellFormed
      <3> QED
        BY <3>3, <3>6 DEF Kept
    <2> QED
      BY <2>1, <2>3, <2>4 DEF QueueInv
  <1> QED
    BY <1>1, <1>2

-----------------------------------------------------------------------------
(* The theorems                                                            *)

\* The inductive invariant holds of every reachable state.
THEOREM QueueInvariance == QueueSpec => []QueueInv
  BY QueueInitInv, QueueStepInv, PTL DEF QueueSpec

\* With its requests and the pace of its workers the outbox is still an outbox
\* (app/auth/service.py and app/reports/service.py queue by enqueue only): what
\* is proved of Spec holds.
THEOREM QueueIsOutbox == QueueSpec => Spec
  <1>1. QueueInit => Init
    BY DEF QueueInit
  <1>2. [QueueNext]_allVars => [Next]_vars
    BY QueueNextIsNext DEF allVars
  <1> QED
    BY <1>1, <1>2, PTL DEF QueueSpec, Spec

\* MAX_ATTEMPTS bounds the attempts of a job but for those that faults cut
\* short (app/mailer/outbox.py, process_next_email; claim_next does not look at
\* the counter).
THEOREM AttemptsBounded == QueueSpec => []AttemptsWithinBudget
  <1>1. QueueInv => AttemptsWithinBudget
    BY DEF QueueInv, Kept, WithinBudget, AttemptsWithinBudget
  <1> QED
    BY <1>1, QueueInvariance, PTL

\* What the invariant says of the time an email has waited: that of some number
\* of attempts, of the faults, and of the emails that went ahead of it.
LEMMA WaitedFor ==
  ASSUME QueueInv, NEW j \in Job, NEW w \in Worker, ~Settled(j)
  PROVE  \E m, q \in Nat :
            /\ q + m <= Len(RetryDelays) + MaxFaults
            /\ clock <= born[j] + 1 + faults * Extra + ahead[j][w] * (LeaseDuration - 1)
                        + m * Turn + Stay(q) + (Turn - 1)
  <1> USE DEF QueueInv
  <1>1. PICK N \in Nat : N = Len(RetryDelays) /\ MaxAttempts = N + 1
    BY TimingAssumption DEF MaxAttempts
  <1>2. /\ clock \in Nat /\ faults \in Nat /\ MaxFaults \in Nat /\ faults <= MaxFaults
        /\ Exists(j) /\ Kept(j)
    BY TimingAssumption, Clocks DEF Settled
  <1>3. PICK r : r = jobs[j]
    OBVIOUS
  <1>4. PICK a \in Nat : a = r.attempts
    BY <1>2, <1>3, RowTypes
  <1>5. born[j] \in Nat /\ WellFormed(jobs[j])
    BY <1>2 DEF Kept, OnPace
  <1>6. PICK m \in 0..faults : Paid(j, m) /\ PacedBy(j, w, Deadline(j, w, m))
    BY <1>2 DEF Kept, OnPace
  <1>7. PICK R \in Nat : R = Deadline(j, w, m)
    BY <1>2, <1>5, <1>6, DeadlineFacts
  <1>8. PICK b \in Nat, f \in Nat, n \in Nat, s \in Nat :
           b = born[j] /\ f = faults /\ n = ahead[j][w] /\ s = Spent(jobs[j])
    BY <1>2, <1>5, SpentIsTime DEF QueueTypes
  <1>9. PICK z \in Nat : z = b + 1 + f * Extra + n * (LeaseDuration - 1) + m * Turn
    <2>1. f * Extra \in Nat /\ n * (LeaseDuration - 1) \in Nat /\ m * Turn \in Nat
      BY Waits, NextMultiple
    <2> QED
      BY <2>1
  <1>10. R = z + s
    BY <1>7, <1>8, <1>9 DEF Deadline, Limit
  <1>11. /\ DueBy(r) <= R /\ DueBy(r) \in Nat /\ clock <= R + Wait
    BY <1>2, <1>3, <1>6, <1>7, RowTypes DEF PacedBy
  <1>12. m \in Nat
            /\ z = born[j] + 1 + faults * Extra + ahead[j][w] * (LeaseDuration - 1) + m * Turn
    BY <1>2, <1>8, <1>9
  <1> SUFFICES \E q \in Nat : q + m <= N + MaxFaults /\ clock <= z + Stay(q) + (Turn - 1)
    <2>1. PICK q \in Nat : q + m <= N + MaxFaults /\ clock <= z + Stay(q) + (Turn - 1)
      OBVIOUS
    <2>2. clock <= born[j] + 1 + faults * Extra + ahead[j][w] * (LeaseDuration - 1)
                   + m * Turn + Stay(q) + (Turn - 1)
      BY <1>12, <2>1
    <2> QED
      BY <1>1, <1>12, <2>1, <2>2
  <1>13. CASE r.lock_token = NULL
    <2>1. a < MaxAttempts /\ s = Stay(a) /\ Stay(a) \in Nat
      BY <1>3, <1>4, <1>6, <1>8, <1>13, StayFacts DEF Paid, Spent
    <2>2. a + m <= N + MaxFaults
      BY <1>1, <1>2, <2>1
    <2>3. clock <= z + Stay(a) + (Turn - 1)
      BY <1>2, <1>10, <1>11, <2>1, Waits
    <2> QED
      BY <2>2, <2>3
  <1>14. CASE r.lock_token # NULL
    <2>1. PICK c \in Nat : a = c + 1 /\ r.attempts - 1 = c
      <3>1. a > 0
        BY <1>3, <1>4, <1>5, <1>14 DEF WellFormed
      <3>2. a - 1 \in Nat /\ a = (a - 1) + 1
        BY <3>1
      <3> QED
        BY <1>4, <3>2
    <2>2. s = Stay(c) + Turn /\ Stay(c) \in Nat /\ Stay(a) \in Nat /\ Stay(c) + Turn <= Stay(a)
      BY <1>3, <1>8, <1>14, <2>1, StayFacts, StayGrows DEF Spent
    <2>3. CASE \E v \in Worker : Attends(v, j)
      <3>1. clock < DueBy(r)
        BY <1>2, <1>3, <1>14, <2>3 DEF Kept, LeaseHolds, DueBy
      <3>2. a + m <= N + 1 + faults
        BY <1>1, <1>3, <1>4, <1>6, <1>14 DEF Paid
      <3>3. c + m <= N + MaxFaults
        BY <1>2, <2>1, <3>2
      <3>4. clock <= z + Stay(c) + (Turn - 1)
        BY <1>2, <1>10, <1>11, <2>2, <3>1, Waits
      <3> QED
        BY <3>3, <3>4
    <2>4. CASE ~\E v \in Worker : Attends(v, j)
      <3>1. a + m < N + 1 + faults
        BY <1>1, <1>3, <1>4, <1>6, <1>14, <2>4 DEF Paid
      <3>2. a + m <= N + MaxFaults
        BY <1>2, <3>1
      <3>3. clock <= z + Stay(a) + (Turn - 1)
        BY <1>2, <1>10, <1>11, <2>2, Waits
      <3> QED
        BY <3>2, <3>3
    <2> QED
      BY <2>3, <2>4
  <1> QED
    BY <1>13, <1>14

LEMMA SmallerMultiple == \A m, n, x \in Nat : m <= n => m * x <= n * x
  <1> SUFFICES ASSUME NEW m \in Nat, NEW n \in Nat, NEW x \in Nat, m <= n
               PROVE  m * x <= n * x
    OBVIOUS
  <1>1. PICK k \in Nat : n = m + k
    <2>1. n - m \in Nat /\ n = m + (n - m)
      OBVIOUS
    <2> QED
      BY <2>1
  <1>2. n * x = m * x + k * x /\ k * x \in Nat /\ m * x \in Nat
    BY <1>1, NextMultiple
  <1> QED
    BY <1>2

\* An email is sent, given up or withdrawn within LongestStay of its request
\* (RETRY_DELAYS, DEFAULT_LEASE_DURATION and the poll interval of app/mailer) and
\* less than a lease for each email that a worker took before it, for any number
\* of jobs and of workers, each of which does one thing at a time.
THEOREM SettlesInTime == QueueSpec => []SettledInTime
  <1>1. QueueInv => SettledInTime
    <2> SUFFICES ASSUME QueueInv, NEW j \in Job, NEW w \in Worker, ~Settled(j)
                 PROVE  clock <= born[j] + LongestStay + ahead[j][w] * (LeaseDuration - 1)
      BY DEF SettledInTime
    <2>1. PICK m, q \in Nat :
            /\ q + m <= Len(RetryDelays) + MaxFaults
            /\ clock <= born[j] + 1 + faults * Extra + ahead[j][w] * (LeaseDuration - 1)
                        + m * Turn + Stay(q) + (Turn - 1)
      BY WaitedFor
    <2>2. PICK b \in Nat, f \in Nat, F \in Nat, n \in Nat, c \in Nat, x \in Nat, t \in Nat, l \in Nat :
            /\ b = born[j] /\ f = faults /\ F = MaxFaults /\ f <= F
            /\ n = ahead[j][w] /\ c = clock
            /\ x = Extra /\ t = Turn /\ l = LeaseDuration - 1
      <3>1. born[j] \in Nat
        BY DEF QueueInv, Kept, OnPace
      <3>2. clock \in Nat /\ faults \in Nat /\ MaxFaults \in Nat /\ faults <= MaxFaults
        BY Clocks, TimingAssumption DEF QueueInv
      <3>3. ahead[j][w] \in Nat /\ LeaseDuration - 1 \in Nat
        BY TimingAssumption DEF QueueInv, QueueTypes
      <3> QED
        BY <3>1, <3>2, <3>3, Waits
    <2>3. Stay(q) + m * t <= Stay(q + m) /\ Stay(q) \in Nat /\ Stay(q + m) \in Nat
      <3>1. q + m \in Nat
        OBVIOUS
      <3> QED
        BY <2>2, <3>1, StaySpread, StayFacts
    <2>4. 1 + Stay(q + m) + (t - 1) + F * x <= LongestStay /\ LongestStay \in Nat
      <3>1. q + m \in Nat
        OBVIOUS
      <3> QED
        BY <2>1, <2>2, <3>1, StayBound
    <2>5. f * x <= F * x /\ f * x \in Nat /\ F * x \in Nat /\ n * l \in Nat /\ m * t \in Nat
      BY <2>2, SmallerMultiple, NextMultiple
    <2>6. c <= b + 1 + f * x + n * l + m * t + Stay(q) + (t - 1)
      BY <2>1, <2>2
    <2>7. c <= b + LongestStay + n * l
      <3>1. PICK u \in Nat, v \in Nat, y \in Nat, z \in Nat :
               u = f * x /\ v = F * x /\ y = n * l /\ z = m * t
        BY <2>5
      <3> QED
        BY <2>3, <2>4, <2>5, <2>6, <3>1
    <2> QED
      BY <2>2, <2>7
  <1> QED
    BY <1>1, QueueInvariance, PTL

=============================================================================

-------------------------- MODULE EventQueryProofs --------------------------
(***************************************************************************)
(* Theorems about EventQuery for every catalogue, every parameters and any *)
(* length of the day.                                                      *)
(*                                                                         *)
(* The first part is about truth values and clauses, and what each clause  *)
(* says of a row; the second about the order: a row's keys end in its id,  *)
(* so that their lexicographic order is total and the matches have one     *)
(* sorted enumeration; the third about the pages of that enumeration.      *)
(***************************************************************************)
EXTENDS EventQuery, FiniteSetTheorems, SequenceTheorems, WellFoundedInduction, TLAPS

-----------------------------------------------------------------------------
(* Truth values                                                            *)

Value == {False, Unknown, True}

USE DEF False, Unknown, True

LEMMA Ends ==
  ASSUME NEW S \in SUBSET Value, S # {}
  PROVE  /\ Least(S) \in S /\ \A y \in S : Least(S) <= y
         /\ Greatest(S) \in S /\ \A y \in S : Greatest(S) >= y
  <1>1. \E x \in S : \A y \in S : x <= y
    <2>1. CASE 0 \in S
      BY <2>1 DEF Value
    <2>2. CASE 0 \notin S /\ 1 \in S
      BY <2>2 DEF Value
    <2>3. CASE S = {2}
      BY <2>3
    <2> QED
      BY <2>1, <2>2, <2>3 DEF Value
  <1>2. \E x \in S : \A y \in S : x >= y
    <2>1. CASE 2 \in S
      BY <2>1 DEF Value
    <2>2. CASE 2 \notin S /\ 1 \in S
      BY <2>2 DEF Value
    <2>3. CASE S = {0}
      BY <2>3
    <2> QED
      BY <2>1, <2>2, <2>3 DEF Value
  <1> QED
    BY <1>1, <1>2 DEF Least, Greatest

\* A conjunction is true if every part is, and false if one is;
LEMMA AndValue ==
  ASSUME NEW S \in SUBSET Value
  PROVE  /\ And(S) \in Value
         /\ And(S) = True <=> \A x \in S : x = True
         /\ False \in S => And(S) = False
  <1>1. CASE S = {}
    BY <1>1 DEF And, Value
  <1>2. CASE S # {}
    <2>1. PICK a : a = And(S)
      OBVIOUS
    <2>2. a \in S /\ \A y \in S : a <= y
      BY <1>2, <2>1, Ends DEF And
    <2>3. \A x \in S : x \in Value /\ (x = 0 \/ x = 1 \/ x = 2)
      BY DEF Value
    <2>4. a \in Value /\ (a = 2 <=> \A x \in S : x = 2) /\ (0 \in S => a = 0)
      BY <2>2, <2>3
    <2> QED
      BY <2>1, <2>4
  <1> QED
    BY <1>1, <1>2

\* a disjunction is true if some part is.
LEMMA OrValue ==
  ASSUME NEW S \in SUBSET Value
  PROVE  /\ Or(S) \in Value
         /\ Or(S) = True <=> \E x \in S : x = True
  <1>1. CASE S = {}
    BY <1>1 DEF Or, Value
  <1>2. CASE S # {}
    <2>1. PICK a : a = Or(S)
      OBVIOUS
    <2>2. a \in S /\ \A y \in S : a >= y
      BY <1>2, <2>1, Ends DEF Or
    <2>3. \A x \in S : x \in Value /\ (x = 0 \/ x = 1 \/ x = 2)
      BY DEF Value
    <2>4. a \in Value /\ (a = 2 <=> \E x \in S : x = 2)
      BY <2>2, <2>3
    <2> QED
      BY <2>1, <2>4
  <1> QED
    BY <1>1, <1>2

LEMMA Comparisons ==
  /\ \A b \in BOOLEAN : Truth(b) \in Value /\ (Truth(b) = True <=> b)
  /\ \A a, b : AtMost(a, b) \in Value /\ Under(a, b) \in Value /\ Same(a, b) \in Value
               /\ Contains(a, b) \in Value
  /\ \A a : IsNull(a) \in {False, True} /\ (IsNull(a) = True <=> a = NULL)
  /\ \A a, b : a # NULL /\ b # NULL => /\ AtMost(a, b) = True <=> a <= b
                                       /\ Under(a, b) = True <=> a < b
                                       /\ Under(a, b) \in {False, True}
  /\ \A a, b : a = NULL \/ b = NULL => AtMost(a, b) # True /\ Under(a, b) # True
  /\ \A x \in Value : Not(x) \in Value /\ (Not(x) = True <=> x = False)
  BY DEF Truth, AtMost, Under, Same, Contains, IsNull, Not, Value

-----------------------------------------------------------------------------
(* The clauses                                                             *)

LEMMA Places == ASSUME NEW e, NEW names PROVE InPlace(e, names) \in Value
  <1> DEFINE S == UNION {{Contains(e.city, name), Contains(e.address, name)} : name \in names}
  <1>1. S \in SUBSET Value
    BY Comparisons
  <1>2. Or(S) \in Value
    BY <1>1, OrValue
  <1> QED
    BY <1>2 DEF InPlace

LEMMA FreeValue == ASSUME NEW e PROVE IsFree(e) \in Value
  <1>1. \A a, b : Or({a, b}) = Or({a, b})
    OBVIOUS
  <1>2. \A a, b \in Value : Or({a, b}) \in Value
    BY OrValue
  <1>3. /\ Or({IsNull(e.price_from), Same(e.price_from, 0)}) \in Value
        /\ Or({IsNull(e.price_to), Same(e.price_to, 0)}) \in Value
        /\ IsNull(e.ticket_url) \in Value /\ IsNull(e.ticket_purchase_note) \in Value
        /\ Or({IsNull(e.description), Not(Contains(e.description, "kaina"))}) \in Value
    BY <1>2, Comparisons DEF Value
  <1> QED
    BY <1>3, AndValue DEF IsFree

LEMMA MidnightType == \A i \in 0..MaxInstant : Midnight(Local[i]) \in Int
  BY QueryAssumption DEF Midnight

\* Whether an event is past is never unknown.
LEMMA PastValue ==
  ASSUME NEW e, NEW i \in 0..MaxInstant
  PROVE  IsPast(e, i) \in {False, True}
  <1>1. CASE e.end # NULL
    BY <1>1 DEF IsPast, Truth
  <1>2. CASE e.end = NULL
    <2> DEFINE S == {Not(IsNull(e.start)), Under(e.start, Midnight(Local[i]))}
    <2>1. IsPast(e, i) = And(S)
      BY <1>2 DEF IsPast
    <2>2. S \in SUBSET Value
      BY Comparisons DEF Value
    <2>3. CASE e.start = NULL
      <3>1. False \in S
        BY <2>3 DEF IsNull, Truth, Not
      <3> QED
        BY <2>1, <2>2, <3>1, AndValue
    <2>4. CASE e.start # NULL
      <3>1. Not(IsNull(e.start)) = True
        BY <2>4 DEF IsNull, Truth, Not
      <3>2. Under(e.start, Midnight(Local[i])) \in {False, True}
        BY <2>4, MidnightType, NullAssumption, Comparisons
      <3>3. And(S) \in S
        BY <2>2, Ends DEF And
      <3> QED
        BY <2>1, <3>1, <3>2, <3>3
    <2> QED
      BY <2>3, <2>4
  <1> QED
    BY <1>1, <1>2

\* A row is selected if each clause that there is holds: the one on the status,
\* those on the window, and the others.
StatusHolds(e, q, i) ==
    q.status # NULL \/ q.hide_expired =>
        IF q.status = "past" THEN IsPast(e, i) = True ELSE IsPast(e, i) = False

WindowHolds(e, q) ==
    /\ q.start_date # NULL => FromStart(e, q.start_date) = True
    /\ q.end_date # NULL => UntilEnd(e, q.end_date) = True

OthersHold(id, e, q) ==
    /\ q.restrict # NULL => id \in q.restrict
    /\ q.category # NULL => Same(e.category, q.category) = True
    /\ q.location # {} => InPlace(e, q.location) = True
    /\ q.search # NULL => Contains(e.title, q.search) = True
    /\ q.price_from # NULL => AtMost(q.price_from, Coalesce(e.price_from, 0)) = True
    /\ q.price_to # NULL => AtMost(Coalesce(e.price_from, 0), q.price_to) = True
    /\ q.free => IsFree(e) = True

LEMMA SelectedWhen ==
  ASSUME NEW id, NEW e, NEW q, NEW i \in 0..MaxInstant
  PROVE  Selected(id, e, q, i) <=>
            StatusHolds(e, q, i) /\ WindowHolds(e, q) /\ OthersHold(id, e, q)
  <1> DEFINE V(y) ==
           \/ q.restrict # NULL /\ y = Truth(id \in q.restrict)
           \/ q.category # NULL /\ y = Same(e.category, q.category)
           \/ q.location # {} /\ y = InPlace(e, q.location)
           \/ q.start_date # NULL /\ y = FromStart(e, q.start_date)
           \/ q.end_date # NULL /\ y = UntilEnd(e, q.end_date)
           \/ q.search # NULL /\ y = Contains(e.title, q.search)
           \/ (q.status # NULL \/ q.hide_expired)
              /\ y = IF q.status = "past" THEN IsPast(e, i) ELSE Not(IsPast(e, i))
           \/ q.price_from # NULL /\ y = AtMost(q.price_from, Coalesce(e.price_from, 0))
           \/ q.price_to # NULL /\ y = AtMost(Coalesce(e.price_from, 0), q.price_to)
           \/ q.free /\ y = IsFree(e)
  <1>1. \A y : y \in Clauses(id, e, q, i) <=> V(y)
    BY ZenonT(60) DEF Clauses
  <1>2. /\ Truth(id \in q.restrict) \in Value /\ (Truth(id \in q.restrict) = True <=> id \in q.restrict)
        /\ Same(e.category, q.category) \in Value
        /\ InPlace(e, q.location) \in Value
        /\ Contains(e.title, q.search) \in Value
        /\ AtMost(q.price_from, Coalesce(e.price_from, 0)) \in Value
        /\ AtMost(Coalesce(e.price_from, 0), q.price_to) \in Value
        /\ IsFree(e) \in Value
    <2>1. /\ Truth(id \in q.restrict) \in Value
          /\ Truth(id \in q.restrict) = True <=> id \in q.restrict
      BY DEF Truth, Value
    <2> QED
      BY <2>1, Comparisons, Places, FreeValue
  <1>3. FromStart(e, q.start_date) \in Value
    BY Comparisons, OrValue DEF FromStart, EndsAfter, Value
  <1>4. UntilEnd(e, q.end_date) \in Value
    BY Comparisons, OrValue DEF UntilEnd, Value
  <1>5. PICK p : p = IF q.status = "past" THEN IsPast(e, i) ELSE Not(IsPast(e, i))
    OBVIOUS
  <1>6. p \in Value
        /\ (p = True <=> IF q.status = "past" THEN IsPast(e, i) = True ELSE IsPast(e, i) = False)
    BY <1>5, PastValue DEF Not, Value
  <1>7. Clauses(id, e, q, i) \in SUBSET Value
    BY <1>1, <1>2, <1>3, <1>4, <1>5, <1>6, Zenon
  <1>8. Selected(id, e, q, i) <=> \A y : V(y) => y = True
    BY <1>1, <1>7, AndValue DEF Selected
  <1>9. (\A y : V(y) => y = True) <=>
           /\ q.restrict # NULL => Truth(id \in q.restrict) = True
           /\ q.category # NULL => Same(e.category, q.category) = True
           /\ q.location # {} => InPlace(e, q.location) = True
           /\ q.start_date # NULL => FromStart(e, q.start_date) = True
           /\ q.end_date # NULL => UntilEnd(e, q.end_date) = True
           /\ q.search # NULL => Contains(e.title, q.search) = True
           /\ q.status # NULL \/ q.hide_expired => p = True
           /\ q.price_from # NULL => AtMost(q.price_from, Coalesce(e.price_from, 0)) = True
           /\ q.price_to # NULL => AtMost(Coalesce(e.price_from, 0), q.price_to) = True
           /\ q.free => IsFree(e) = True
    BY <1>5
  <1> HIDE DEF V
  <1> QED
    BY <1>2, <1>6, <1>8, <1>9, Zenon DEF StatusHolds, WindowHolds, OthersHold

-----------------------------------------------------------------------------
(* What the clauses on times say of a row                                  *)

Numbers(e) == {e.start, e.end, e.price_from, e.popularity} \subseteq Int \union {NULL}

LEMMA NullIsNoNumber == NULL \notin Int /\ NULL # "past" /\ NULL # "upcoming" /\ "past" # "upcoming"
  BY NullAssumption

\* A day has its midnight at its beginning.
LEMMA MidnightBounds ==
  \A t \in Int : Midnight(t) \in Int /\ Midnight(t) <= t /\ t <= Midnight(t) + Day - 1
  BY QueryAssumption DEF Midnight

Ending(e) == Coalesce(e.end, Midnight(e.start) + Day)

\* The two clauses of a window leave the events that overlap it.
LEMMA Overlap ==
  ASSUME NEW e, Numbers(e), e.start # NULL, NEW s \in Int, NEW t \in Int, s <= t
  PROVE  FromStart(e, s) = True /\ UntilEnd(e, t) = True <=>
           \E u \in s..(Midnight(t) + Day - 1) : u = e.start \/ (e.start <= u /\ u < Ending(e))
  <1>1. e.start \in Int /\ e.end \in Int \union {NULL} /\ s # NULL /\ t # NULL
    BY NullIsNoNumber DEF Numbers
  <1>2. PICK a \in Int : a = e.start
    BY <1>1
  <1>3. Midnight(a) \in Int /\ Midnight(t) \in Int /\ t <= Midnight(t) + Day - 1 /\ Day \in Int
    <2>1. Midnight(a) \in Int
      BY MidnightBounds
    <2>2. Midnight(t) \in Int /\ t <= Midnight(t) + Day - 1
      BY MidnightBounds
    <2> QED
      BY <2>1, <2>2, QueryAssumption
  <1>4. PICK z : z = Ending(e)
    OBVIOUS
  <1>5. z \in Int /\ z # NULL
    BY <1>1, <1>2, <1>3, <1>4, NullIsNoNumber DEF Ending, Coalesce
  <1>6. PICK b : b = Midnight(t) + Day - 1
    OBVIOUS
  <1>7. b \in Int /\ b # NULL /\ t <= b
    BY <1>3, <1>6, NullIsNoNumber
  <1>8. FromStart(e, s) = True <=> s <= a \/ s < z
    <2>1. AtMost(s, a) \in Value /\ (AtMost(s, a) = True <=> s <= a)
      BY <1>1, <1>2, Comparisons
    <2>2. EndsAfter(e, s) = Under(s, z)
      BY <1>1, <1>2, <1>4 DEF EndsAfter, Ending
    <2>3. Under(s, z) \in Value /\ (Under(s, z) = True <=> s < z)
      BY <1>1, <1>5, Comparisons
    <2>4. IsNull(a) \in Value /\ IsNull(a) # True
      BY <1>1, <1>2, Comparisons DEF Value
    <2>5. FromStart(e, s) = Or({AtMost(s, a), Under(s, z), IsNull(a)})
      BY <1>2, <2>2 DEF FromStart
    <2> QED
      BY <2>1, <2>3, <2>4, <2>5, OrValue
  <1>9. UntilEnd(e, t) = True <=> a <= b
    <2>1. AtMost(a, b) \in Value /\ (AtMost(a, b) = True <=> a <= b)
      BY <1>1, <1>2, <1>7, Comparisons
    <2>2. IsNull(a) \in Value /\ IsNull(a) # True
      BY <1>1, <1>2, Comparisons DEF Value
    <2>3. UntilEnd(e, t) = Or({AtMost(a, b), IsNull(a)})
      BY <1>2, <1>6 DEF UntilEnd
    <2> QED
      BY <2>1, <2>2, <2>3, OrValue
  <1>10. (s <= a \/ s < z) /\ a <= b <=> \E u \in s..b : u = a \/ (a <= u /\ u < z)
    <2>1. ASSUME s <= a, a <= b
          PROVE  \E u \in s..b : u = a \/ (a <= u /\ u < z)
      BY <2>1, <1>7
    <2>2. ASSUME a < s, s < z, a <= b
          PROVE  \E u \in s..b : u = a \/ (a <= u /\ u < z)
      <3>1. s \in s..b /\ a <= s /\ s < z
        BY <2>2, <1>7
      <3> QED
        BY <3>1
    <2>3. ASSUME NEW u \in s..b, u = a \/ (a <= u /\ u < z)
          PROVE  (s <= a \/ s < z) /\ a <= b
      BY <2>3, <1>5, <1>7
    <2> QED
      BY <2>1, <2>2, <2>3
  <1> QED
    BY <1>2, <1>4, <1>6, <1>8, <1>9, <1>10

LEMMA LeastNat == \A S \in SUBSET Nat : S # {} => \E n \in S : \A m \in S : n <= m
  <1> SUFFICES ASSUME NEW S \in SUBSET Nat, S # {}
               PROVE  \E n \in S : \A m \in S : n <= m
    OBVIOUS
  <1>1. PICK k \in S : TRUE
    OBVIOUS
  <1> DEFINE T == {0..m : m \in {m \in S : m <= k}}
  <1>2. IsFiniteSet(0..k)
    BY <1>1, FS_Interval
  <1>3. T \subseteq FiniteSubsetsOf(0..k) /\ T # {}
    <2>1. \A m \in S : m <= k => 0..m \subseteq 0..k /\ IsFiniteSet(0..m)
      BY <1>1, FS_Interval
    <2> QED
      BY <1>1, <2>1 DEF FiniteSubsetsOf
  <1>4. PICK x \in T : \A y \in T : <<y, x>> \notin StrictSubsetOrdering(0..k)
    BY <1>2, <1>3, FS_StrictSubsetOrderingWellFounded, WFMin
  <1>5. PICK n \in S : x = 0..n /\ n <= k
    BY <1>4
  <1>6. ASSUME NEW m \in S, m < n
        PROVE  FALSE
    <2>1. 0..m \in T
      BY <1>1, <1>5, <1>6
    <2>2. 0..m \subseteq 0..n /\ 0..m # 0..n
      BY <1>5, <1>6
    <2>3. <<0..m, x>> \in StrictSubsetOrdering(0..k)
      BY <1>1, <1>3, <1>5, <2>1, <2>2 DEF StrictSubsetOrdering
    <2> QED
      BY <1>4, <2>1, <2>3
  <1> QED
    BY <1>5, <1>6

LEMMA GreatestBelow ==
  ASSUME NEW k \in Nat, NEW S \in SUBSET (0..k), S # {}
  PROVE  Greatest(S) \in S
  <1>1. {k - x : x \in S} \in SUBSET Nat /\ {k - x : x \in S} # {}
    <2>1. \A x \in S : x \in Int /\ 0 <= x /\ x <= k /\ k - x \in Nat
      OBVIOUS
    <2> QED
      BY <2>1
  <1>2. PICK n \in {k - x : x \in S} : \A m \in {k - x : x \in S} : n <= m
    BY <1>1, LeastNat
  <1>3. PICK x \in S : n = k - x
    OBVIOUS
  <1>4. \A y \in S : x >= y
    <2> SUFFICES ASSUME NEW y \in S
                 PROVE  x >= y
      OBVIOUS
    <2>1. k - x <= k - y
      BY <1>2, <1>3
    <2>2. x \in Int /\ y \in Int
      OBVIOUS
    <2> QED
      BY <2>1, <2>2
  <1> QED
    BY <1>4 DEF Greatest

LEMMA InstantType == \A t : Instant(t) \in Int
  <1> SUFFICES ASSUME NEW t
               PROVE  Instant(t) \in Int
    OBVIOUS
  <1>1. PICK at : at = {i \in 0..MaxInstant : Local[i] <= t}
    OBVIOUS
  <1>2. MaxInstant \in Nat /\ at \in SUBSET (0..MaxInstant)
    BY <1>1, QueryAssumption
  <1>3. at # {} => Greatest(at) \in at
    BY <1>2, GreatestBelow
  <1>4. Instant(t) = IF at = {} THEN -1 ELSE Greatest(at)
    BY <1>1 DEF Instant
  <1>5. CASE at = {}
    BY <1>4, <1>5
  <1>6. CASE at # {}
    <2>1. Instant(t) \in 0..MaxInstant
      BY <1>2, <1>3, <1>4, <1>6, Zenon
    <2> QED
      BY <1>2, <2>1
  <1> QED
    BY <1>5, <1>6

LEMMA PastWhen ==
  ASSUME NEW e, Numbers(e), NEW i \in 0..MaxInstant
  PROVE  IsPast(e, i) = True <=> IF e.end # NULL THEN Instant(e.end) <= i
                                 ELSE e.start # NULL /\ e.start < Midnight(Local[i])
  <1>1. CASE e.end # NULL
    BY <1>1 DEF IsPast, Truth
  <1>2. CASE e.end = NULL
    <2>1. PICK m \in Int : m = Midnight(Local[i])
      BY MidnightType
    <2>2. PICK a : a = e.start
      OBVIOUS
    <2>3. a \in Int \union {NULL} /\ m # NULL
      BY <2>2, NullIsNoNumber DEF Numbers
    <2>4. IsPast(e, i) = And({Not(IsNull(a)), Under(a, m)})
      BY <1>2, <2>1, <2>2 DEF IsPast
    <2>5. Not(IsNull(a)) \in Value /\ (Not(IsNull(a)) = True <=> a # NULL)
      BY DEF Not, IsNull, Truth, Value
    <2>6. Under(a, m) \in Value /\ (a # NULL => (Under(a, m) = True <=> a < m))
      BY <2>3, Comparisons
    <2>7. IsPast(e, i) = True <=> Not(IsNull(a)) = True /\ Under(a, m) = True
      BY <2>4, <2>5, <2>6, AndValue
    <2> QED
      BY <1>2, <2>1, <2>2, <2>5, <2>6, <2>7
  <1> QED
    BY <1>1, <1>2

\* An event that is past is past from then on.
LEMMA PastLater ==
  ASSUME NEW e, Numbers(e), NEW i \in 0..MaxInstant, i + 1 \in 0..MaxInstant, IsPast(e, i) = True
  PROVE  IsPast(e, i + 1) = True
  <1>1. Midnight(Local[i]) \in Int /\ Midnight(Local[i + 1]) \in Int
    BY MidnightType
  <1>2. Midnight(Local[i]) <= Midnight(Local[i + 1])
    BY ClockAssumption, QueryAssumption
  <1>3. CASE e.end # NULL
    <2>1. Instant(e.end) \in Int /\ Instant(e.end) <= i
      BY <1>3, PastWhen, InstantType
    <2> QED
      BY <1>3, <2>1, PastWhen
  <1>4. CASE e.end = NULL
    <2>1. e.start # NULL /\ e.start < Midnight(Local[i])
      BY <1>4, PastWhen
    <2>2. e.start \in Int
      BY <2>1 DEF Numbers
    <2>3. e.start < Midnight(Local[i + 1])
      BY <1>1, <1>2, <2>1, <2>2
    <2> QED
      BY <1>4, <2>1, <2>3, PastWhen
  <1> QED
    BY <1>3, <1>4

-----------------------------------------------------------------------------
(* The catalogue and the parameters                                        *)

OfScenario == \E s \in Scenario : catalogue = s.catalogue /\ query = s.query

LEMMA ScenarioFacts ==
  ASSUME OfScenario
  PROVE  /\ Ids \subseteq Nat /\ IsFiniteSet(Ids)
         /\ \A id \in Ids : Numbers(catalogue[id])
         /\ DOMAIN query = Parameter
         /\ query.start_date \in Int \union {NULL} /\ query.end_date \in Int \union {NULL}
         /\ query.order_by \in {"startTime", "popularityCounter", "price"}
         /\ query.page_size \in Nat \ {0}
  BY QueryAssumption, ColumnAssumption, ParameterAssumption DEF OfScenario, Ids, Numbers

LEMMA WithStatus ==
  ASSUME OfScenario, NEW status, NEW q, q = [query EXCEPT !.status = status, !.hide_expired = FALSE]
  PROVE  /\ q.status = status /\ ~q.hide_expired
         /\ \A id, e : OthersHold(id, e, q) <=> OthersHold(id, e, query)
         /\ \A e : WindowHolds(e, q) <=> WindowHolds(e, query)
  <1>1. DOMAIN query = Parameter
    BY ScenarioFacts
  <1>2. q.status = status
    BY <1>1 DEF Parameter
  <1>3. ~q.hide_expired
    BY <1>1 DEF Parameter
  <1>4. /\ q.restrict = query.restrict /\ q.category = query.category
        /\ q.location = query.location /\ q.search = query.search
        /\ q.price_from = query.price_from /\ q.price_to = query.price_to
        /\ q.free = query.free
        /\ q.start_date = query.start_date /\ q.end_date = query.end_date
    BY <1>1 DEF Parameter
  <1> QED
    BY <1>2, <1>3, <1>4 DEF OthersHold, WindowHolds

LEMMA Partition ==
  ASSUME OfScenario, now \in 0..MaxInstant
  PROVE  StatusPartitions
  <1> DEFINE with(s) == [query EXCEPT !.status = s, !.hide_expired = FALSE]
             in(id, s) == Selected(id, catalogue[id], with(s), now)
             rest(id) == WindowHolds(catalogue[id], query) /\ OthersHold(id, catalogue[id], query)
             past(id) == IsPast(catalogue[id], now)
  <1>1. \A id : past(id) = False \/ past(id) = True
    BY PastValue
  <1>2. \A id, s : in(id, s) <=> StatusHolds(catalogue[id], with(s), now) /\ rest(id)
    <2> SUFFICES ASSUME NEW id, NEW s
                 PROVE  in(id, s) <=> StatusHolds(catalogue[id], with(s), now) /\ rest(id)
      OBVIOUS
    <2>1. PICK q : q = with(s)
      OBVIOUS
    <2>2. /\ OthersHold(id, catalogue[id], q) <=> OthersHold(id, catalogue[id], query)
          /\ WindowHolds(catalogue[id], q) <=> WindowHolds(catalogue[id], query)
      BY <2>1, WithStatus
    <2>3. Selected(id, catalogue[id], q, now) <=>
            /\ StatusHolds(catalogue[id], q, now) /\ WindowHolds(catalogue[id], q)
            /\ OthersHold(id, catalogue[id], q)
      BY SelectedWhen
    <2> QED
      BY <2>1, <2>2, <2>3
  <1>3. \A s : with(s).status = s /\ ~with(s).hide_expired
    BY WithStatus
  <1>4. \A id : /\ StatusHolds(catalogue[id], with(NULL), now)
                /\ StatusHolds(catalogue[id], with("upcoming"), now) <=> past(id) = False
                /\ StatusHolds(catalogue[id], with("past"), now) <=> past(id) = True
    BY <1>3, NullIsNoNumber DEF StatusHolds
  <1> HIDE DEF past, rest, in, with
  <1>5. \A id : /\ in(id, NULL) <=> in(id, "upcoming") \/ in(id, "past")
                /\ ~(in(id, "upcoming") /\ in(id, "past"))
    BY <1>1, <1>2, <1>4
  <1> QED
    BY <1>5 DEF StatusPartitions, in, with

LEMMA Window ==
  ASSUME OfScenario, now \in 0..MaxInstant
  PROVE  WindowIsOverlap
  <1> SUFFICES ASSUME query.start_date # NULL, query.end_date # NULL,
                      query.start_date <= query.end_date,
                      NEW id \in Ids, NEW e, e = catalogue[id], e.start # NULL,
                      NEW wide, wide = [query EXCEPT !.start_date = NULL, !.end_date = NULL]
               PROVE  Selected(id, e, query, now) <=>
                        /\ Selected(id, e, wide, now)
                        /\ \E t \in query.start_date..(Midnight(query.end_date) + Day - 1) :
                              t = e.start \/ (e.start <= t /\ t < Ending(e))
    BY Zenon DEF WindowIsOverlap, Ending
  <1>1. /\ DOMAIN query = Parameter /\ Numbers(e)
        /\ query.start_date \in Int /\ query.end_date \in Int
    BY ScenarioFacts
  <1>2. wide.start_date = NULL /\ wide.end_date = NULL
    BY <1>1 DEF Parameter
  <1>3. /\ wide.restrict = query.restrict /\ wide.category = query.category
        /\ wide.location = query.location /\ wide.search = query.search
        /\ wide.price_from = query.price_from /\ wide.price_to = query.price_to
        /\ wide.free = query.free
        /\ wide.status = query.status /\ wide.hide_expired = query.hide_expired
    BY <1>1 DEF Parameter
  <1>4. OthersHold(id, e, wide) <=> OthersHold(id, e, query)
    BY <1>3 DEF OthersHold
  <1>5. StatusHolds(e, wide, now) <=> StatusHolds(e, query, now)
    BY <1>3 DEF StatusHolds
  <1>6. WindowHolds(e, wide)
    BY <1>2 DEF WindowHolds
  <1>7. WindowHolds(e, query) <=>
          \E t \in query.start_date..(Midnight(query.end_date) + Day - 1) :
             t = e.start \/ (e.start <= t /\ t < Ending(e))
    BY <1>1, Overlap DEF WindowHolds
  <1>8. /\ Selected(id, e, query, now) <=>
             StatusHolds(e, query, now) /\ WindowHolds(e, query) /\ OthersHold(id, e, query)
        /\ Selected(id, e, wide, now) <=>
             StatusHolds(e, wide, now) /\ WindowHolds(e, wide) /\ OthersHold(id, e, wide)
    BY SelectedWhen
  <1> QED
    BY <1>4, <1>5, <1>6, <1>7, <1>8

-----------------------------------------------------------------------------
(* The order                                                               *)

Precedes(k, l, n) == \E i \in 1..n : k[i] < l[i] /\ \A j \in 1..(i - 1) : k[j] = l[j]

\* Tuples of one length are in a strict total order.
LEMMA Lexicographic ==
  ASSUME NEW n \in Nat
  PROVE  /\ \A k \in [1..n -> Int] : ~Precedes(k, k, n)
         /\ \A k, l, m \in [1..n -> Int] :
               Precedes(k, l, n) /\ Precedes(l, m, n) => Precedes(k, m, n)
         /\ \A k, l \in [1..n -> Int] : k # l => Precedes(k, l, n) \/ Precedes(l, k, n)
  <1>1. ASSUME NEW k \in [1..n -> Int], Precedes(k, k, n)
        PROVE  FALSE
    BY <1>1 DEF Precedes
  <1>2. ASSUME NEW k \in [1..n -> Int], NEW l \in [1..n -> Int], NEW m \in [1..n -> Int],
               Precedes(k, l, n), Precedes(l, m, n)
        PROVE  Precedes(k, m, n)
    <2>1. PICK i \in 1..n : k[i] < l[i] /\ \A j \in 1..(i - 1) : k[j] = l[j]
      BY <1>2 DEF Precedes
    <2>2. PICK h \in 1..n : l[h] < m[h] /\ \A j \in 1..(h - 1) : l[j] = m[j]
      BY <1>2 DEF Precedes
    <2>3. \A j \in 1..n : k[j] \in Int /\ l[j] \in Int /\ m[j] \in Int
      OBVIOUS
    <2>4. CASE i <= h
      <3>1. k[i] < m[i]
        <4>1. i < h => i \in 1..(h - 1)
          BY <2>4
        <4>2. i < h => l[i] = m[i]
          BY <2>2, <4>1
        <4>3. i = h => l[i] < m[i]
          BY <2>2
        <4>4. i < h \/ i = h
          BY <2>4
        <4> QED
          BY <2>1, <2>3, <4>2, <4>3, <4>4
      <3>2. \A j \in 1..(i - 1) : k[j] = m[j]
        BY <2>1, <2>2, <2>4
      <3> QED
        BY <3>1, <3>2 DEF Precedes
    <2>5. CASE h < i
      <3>1. k[h] < m[h]
        BY <2>1, <2>2, <2>3, <2>5
      <3>2. \A j \in 1..(h - 1) : k[j] = m[j]
        BY <2>1, <2>2, <2>5
      <3> QED
        BY <3>1, <3>2 DEF Precedes
    <2> QED
      BY <2>4, <2>5
  <1>3. ASSUME NEW k \in [1..n -> Int], NEW l \in [1..n -> Int], k # l
        PROVE  Precedes(k, l, n) \/ Precedes(l, k, n)
    <2> DEFINE D == {i \in 1..n : k[i] # l[i]}
    <2>1. D \in SUBSET Nat /\ D # {}
      BY <1>3
    <2>2. PICK i \in D : \A j \in D : i <= j
      BY <2>1, LeastNat
    <2>3. i \in 1..n /\ k[i] # l[i] /\ k[i] \in Int /\ l[i] \in Int
      BY <2>2
    <2>4. \A j \in 1..(i - 1) : k[j] = l[j]
      BY <2>2, <2>3
    <2>5. CASE k[i] < l[i]
      BY <2>3, <2>4, <2>5 DEF Precedes
    <2>6. CASE l[i] < k[i]
      <3>1. \A j \in 1..(i - 1) : l[j] = k[j]
        BY <2>4
      <3> QED
        BY <2>3, <2>6, <3>1 DEF Precedes
    <2> QED
      BY <2>3, <2>5, <2>6
  <1> QED
    BY <1>1, <1>2, <1>3

LEMMA DirectedKeys ==
  ASSUME NEW value \in Int \union {NULL}, NEW direction, NEW last
  PROVE  /\ Directed(value, direction, last) \in Seq(Int)
         /\ Len(Directed(value, direction, last)) = 2
  <1>1. \A a, b \in Int : <<a, b>> \in Seq(Int) /\ Len(<<a, b>>) = 2
    OBVIOUS
  <1>2. CASE value = NULL
    <2>1. PICK a \in Int : a = IF direction = "ASC" \/ last THEN 1 ELSE -1
      OBVIOUS
    <2>2. Directed(value, direction, last) = <<a, 0>>
      BY <1>2, <2>1 DEF Directed
    <2> QED
      BY <1>1, <2>2
  <1>3. CASE value # NULL
    <2>1. PICK a \in Int : a = IF direction = "ASC" THEN value ELSE -value
      BY <1>3
    <2>2. Directed(value, direction, last) = <<0, a>>
      BY <1>3, <2>1 DEF Directed
    <2> QED
      BY <1>1, <2>2
  <1> QED
    BY <1>2, <1>3

LEMMA ConcatKeys ==
  ASSUME NEW s \in Seq(Int), NEW t \in Seq(Int)
  PROVE  s \o t \in Seq(Int) /\ Len(s \o t) = Len(s) + Len(t)
  BY ConcatProperties

LEMMA PairThen ==
  ASSUME NEW a \in Int, NEW b \in Int, NEW d \in Seq(Int), Len(d) = 2
  PROVE  <<a, b>> \o d \in Seq(Int) /\ Len(<<a, b>> \o d) = 4
  <1>1. <<a, b>> \in Seq(Int) /\ Len(<<a, b>>) = 2
    OBVIOUS
  <1>2. \A k \in Seq(Int) : Len(k) = 2 => k \o d \in Seq(Int) /\ Len(k \o d) = 4
    <2> SUFFICES ASSUME NEW k \in Seq(Int), Len(k) = 2
                 PROVE  k \o d \in Seq(Int) /\ Len(k \o d) = 4
      OBVIOUS
    <2>1. k \o d \in Seq(Int) /\ Len(k \o d) = Len(k) + Len(d)
      BY ConcatKeys, Zenon
    <2> QED
      BY <2>1
  <1> QED
    BY <1>1, <1>2, Zenon

LEMMA FlagType == \A b : Flag(b) \in Int
  BY DEF Flag

LEMMA EndsInId ==
  ASSUME NEW s \in Seq(Int), NEW id \in Nat
  PROVE  s \o <<id>> \in [1..(Len(s) + 1) -> Int] /\ (s \o <<id>>)[Len(s) + 1] = id
  <1>1. <<id>> \in Seq(Int) /\ Len(<<id>>) = 1 /\ <<id>>[1] = id
    OBVIOUS
  <1>2. PICK n \in Nat : n = Len(s)
    OBVIOUS
  <1>3. PICK k : k = s \o <<id>>
    OBVIOUS
  <1>4. k \in Seq(Int) /\ Len(k) = n + 1
    BY <1>1, <1>2, <1>3, ConcatProperties
  <1>5. \A i \in 1..(n + 1) : k[i] = IF i <= n THEN s[i] ELSE <<id>>[i - n]
    BY <1>1, <1>2, <1>3, ConcatProperties
  <1>6. k[n + 1] = id
    BY <1>1, <1>5
  <1>7. k \in [1..(n + 1) -> Int]
    BY <1>4
  <1> QED
    BY <1>2, <1>3, <1>6, <1>7

\* The keys of rows are of one length and end in the id.
KeysOfLength(n) ==
    \A id \in Ids : /\ Keys(id, catalogue[id], query) \in [1..(n + 1) -> Int]
                    /\ Keys(id, catalogue[id], query)[n + 1] = id

LEMMA KeysOfRows == ASSUME OfScenario PROVE \E n \in Nat : KeysOfLength(n)
  <1>1. Ids \subseteq Nat /\ \A id \in Ids : Numbers(catalogue[id])
    BY ScenarioFacts
  <1>2. ASSUME NEW n \in Nat,
               \A id \in Ids : \E s \in Seq(Int) :
                  Len(s) = n /\ Keys(id, catalogue[id], query) = s \o <<id>>
        PROVE  KeysOfLength(n)
    <2> SUFFICES ASSUME NEW id \in Ids
                 PROVE  /\ Keys(id, catalogue[id], query) \in [1..(n + 1) -> Int]
                        /\ Keys(id, catalogue[id], query)[n + 1] = id
      BY DEF KeysOfLength
    <2>1. PICK s \in Seq(Int) : Len(s) = n /\ Keys(id, catalogue[id], query) = s \o <<id>>
      BY <1>2
    <2>2. s \o <<id>> \in [1..(Len(s) + 1) -> Int] /\ (s \o <<id>>)[Len(s) + 1] = id
      BY <1>1, EndsInId
    <2> QED
      BY <2>1, <2>2
  <1>3. CASE query.order_by = "startTime"
    <2>1. \A id \in Ids : Keys(id, catalogue[id], query) = DateKeys(catalogue[id], query) \o <<id>>
      BY <1>3 DEF Keys
    <2>2. CASE Direction(query) = "ASC"
      <3> SUFFICES ASSUME NEW id \in Ids
                   PROVE  /\ DateKeys(catalogue[id], query) \in Seq(Int)
                          /\ Len(DateKeys(catalogue[id], query)) = 4
        BY <1>2, <2>1
      <3>1. PICK e : e = catalogue[id]
        OBVIOUS
      <3>2. PICK a \in Int, b \in Int : a = Flag(e.start = NULL) /\ b = Flag(IsLong(e))
        BY FlagType
      <3>4. PICK d : d = Directed(e.start, "ASC", query.status # NULL)
        OBVIOUS
      <3>5. d \in Seq(Int) /\ Len(d) = 2
        BY <1>1, <3>1, <3>4, DirectedKeys DEF Numbers
      <3>6. DateKeys(e, query) = <<a, b>> \o d
        BY <2>2, <3>2, <3>4 DEF DateKeys
      <3>7. <<a, b>> \o d \in Seq(Int) /\ Len(<<a, b>> \o d) = 4
        BY <3>5, PairThen
      <3>8. DateKeys(e, query) \in Seq(Int) /\ Len(DateKeys(e, query)) = 4
        BY <3>6, <3>7, Zenon
      <3> QED
        BY <3>1, <3>8
    <2>3. CASE Direction(query) # "ASC"
      <3>1. \A id \in Ids : DateKeys(catalogue[id], query)
                              = Directed(catalogue[id].start, "DESC", query.status # NULL)
        BY <2>3 DEF DateKeys
      <3>2. \A id \in Ids : /\ DateKeys(catalogue[id], query) \in Seq(Int)
                            /\ Len(DateKeys(catalogue[id], query)) = 2
        <4> SUFFICES ASSUME NEW id \in Ids
                     PROVE  /\ DateKeys(catalogue[id], query) \in Seq(Int)
                            /\ Len(DateKeys(catalogue[id], query)) = 2
          OBVIOUS
        <4>1. PICK v \in Int \union {NULL} : v = catalogue[id].start
          BY <1>1 DEF Numbers
        <4>2. PICK d : d = Directed(v, "DESC", query.status # NULL)
          OBVIOUS
        <4>3. d \in Seq(Int) /\ Len(d) = 2
          BY <4>2, DirectedKeys
        <4> QED
          BY <3>1, <4>1, <4>2, <4>3
      <3> QED
        BY <1>2, <2>1, <3>2
    <2> QED
      BY <2>2, <2>3
  <1>4. CASE query.order_by = "popularityCounter"
    <2>1. \A id \in Ids :
             Keys(id, catalogue[id], query)
               = Directed(catalogue[id].popularity, Direction(query), FALSE) \o <<id>>
      BY <1>4 DEF Keys
    <2>2. \A id \in Ids :
             /\ Directed(catalogue[id].popularity, Direction(query), FALSE) \in Seq(Int)
             /\ Len(Directed(catalogue[id].popularity, Direction(query), FALSE)) = 2
      BY <1>1, DirectedKeys DEF Numbers
    <2> QED
      BY <1>2, <2>1, <2>2
  <1>5. CASE query.order_by = "price"
    <2>1. \A id \in Ids : Keys(id, catalogue[id], query) = PriceKeys(catalogue[id], query) \o <<id>>
      BY <1>5 DEF Keys
    <2> SUFFICES ASSUME NEW id \in Ids
                 PROVE  /\ PriceKeys(catalogue[id], query) \in Seq(Int)
                        /\ Len(PriceKeys(catalogue[id], query)) = 4
      BY <1>2, <2>1
    <2>2. PICK e : e = catalogue[id]
      OBVIOUS
    <2> DEFINE free == IsFree(e) = True
               sink == query.price_from # NULL \/ query.price_to # NULL \/ Direction(query) = "DESC"
    <2>3. PICK a \in Int : a = IF sink THEN Flag(free) ELSE -Flag(free)
      BY FlagType
    <2>4. PICK b \in Int : b = Flag(e.price_from = NULL /\ ~free)
      BY FlagType
    <2>6. PICK d : d = Directed(Coalesce(e.price_from, 0), Direction(query), FALSE)
      OBVIOUS
    <2>7. Coalesce(e.price_from, 0) \in Int \union {NULL}
      BY <1>1, <2>2 DEF Numbers, Coalesce
    <2>8. d \in Seq(Int) /\ Len(d) = 2
      BY <2>6, <2>7, DirectedKeys
    <2>9. PriceKeys(e, query) = <<a, b>> \o d
      BY <2>3, <2>4, <2>6, Zenon DEF PriceKeys
    <2>10. <<a, b>> \o d \in Seq(Int) /\ Len(<<a, b>> \o d) = 4
      BY <2>8, PairThen
    <2>11. PriceKeys(e, query) \in Seq(Int) /\ Len(PriceKeys(e, query)) = 4
      BY <2>9, <2>10, Zenon
    <2> QED
      BY <2>2, <2>11
  <1> QED
    BY <1>3, <1>4, <1>5, ScenarioFacts

\* The order of rows is strict and total.
LEMMA BeforeOrder ==
  ASSUME OfScenario
  PROVE  /\ \A a \in Ids : ~Before(a, a)
         /\ \A a, b, c \in Ids : Before(a, b) /\ Before(b, c) => Before(a, c)
         /\ \A a, b \in Ids : a # b => Before(a, b) \/ Before(b, a)
  <1>1. PICK n \in Nat : KeysOfLength(n)
    BY KeysOfRows
  <1> DEFINE key(id) == Keys(id, catalogue[id], query)
  <1>2. \A id \in Ids : key(id) \in [1..(n + 1) -> Int] /\ key(id)[n + 1] = id
    BY <1>1 DEF KeysOfLength
  <1>3. \A id \in Ids : Len(key(id)) = n + 1
    BY <1>2
  <1>4. \A a, b \in Ids : Before(a, b) <=> Precedes(key(a), key(b), n + 1)
    BY <1>3, Zenon DEF Before, Precedes
  <1>5. \A a, b \in Ids : a # b => key(a) # key(b)
    BY <1>2
  <1> HIDE DEF key
  <1>6. n + 1 \in Nat
    OBVIOUS
  <1>7. PICK m \in Nat : m = n + 1
    BY <1>6
  <1>8. /\ \A k \in [1..m -> Int] : ~Precedes(k, k, m)
        /\ \A k, l, h \in [1..m -> Int] : Precedes(k, l, m) /\ Precedes(l, h, m) => Precedes(k, h, m)
        /\ \A k, l \in [1..m -> Int] : k # l => Precedes(k, l, m) \/ Precedes(l, k, m)
    BY Lexicographic
  <1>9. \A id \in Ids : key(id) \in [1..m -> Int]
    BY <1>2, <1>7
  <1>10. \A a, b \in Ids : Before(a, b) <=> Precedes(key(a), key(b), m)
    BY <1>4, <1>7
  <1> QED
    BY <1>5, <1>8, <1>9, <1>10

-----------------------------------------------------------------------------
(* The sorted enumeration of a set of rows                                 *)

LEMMA OrderingFacts ==
  ASSUME OfScenario, NEW S \in SUBSET Ids, NEW f \in Orderings(S)
  PROVE  /\ IsFiniteSet(S) /\ Cardinality(S) \in Nat
         /\ f \in [1..Cardinality(S) -> S] /\ f \in Seq(S) /\ Len(f) = Cardinality(S)
         /\ \A i, j \in 1..Cardinality(S) : i < j => Before(f[i], f[j])
         /\ \A x \in S : \E i \in 1..Cardinality(S) : f[i] = x
  <1>1. IsFiniteSet(S)
    BY ScenarioFacts, FS_Subset
  <1>2. PICK c \in Nat : c = Cardinality(S)
    BY <1>1, FS_CardinalityType
  <1>3. /\ f \in [1..c -> S]
        /\ \A i, j \in 1..c : i < j => f[i] # f[j] /\ ~Before(f[j], f[i])
    BY <1>2 DEF Orderings
  <1>4. \A i, j \in 1..c : i < j => Before(f[i], f[j])
    BY <1>3, BeforeOrder
  <1>5. f \in Injection(1..c, S)
    <2>1. \A i, j \in 1..c : f[i] = f[j] => i = j
      BY <1>3
    <2> QED
      BY <1>3, <2>1 DEF Injection, IsInjective
  <1>6. Cardinality(1..c) = c
    BY FS_Interval
  <1>7. f \in Surjection(1..c, S)
    BY <1>1, <1>2, <1>5, <1>6, FS_Injection
  <1>8. \A x \in S : \E i \in 1..c : f[i] = x
    BY <1>7 DEF Surjection
  <1>9. f \in Seq(S) /\ Len(f) = c
    BY <1>3
  <1> QED
    BY <1>1, <1>2, <1>3, <1>4, <1>8, <1>9

\* There is one.
LEMMA OneOrdering ==
  ASSUME OfScenario, NEW S \in SUBSET Ids, NEW f \in Orderings(S), NEW g \in Orderings(S)
  PROVE  f = g
  <1>1. PICK c \in Nat : c = Cardinality(S)
    BY OrderingFacts
  <1>2. /\ f \in [1..c -> S] /\ g \in [1..c -> S]
        /\ \A i, j \in 1..c : i < j => Before(f[i], f[j])
        /\ \A i, j \in 1..c : i < j => Before(g[i], g[j])
        /\ \A x \in S : \E i \in 1..c : f[i] = x
        /\ \A x \in S : \E i \in 1..c : g[i] = x
    BY <1>1, OrderingFacts
  <1>3. \A x, y \in S : ~(Before(x, y) /\ Before(y, x))
    BY BeforeOrder
  <1>4. ASSUME f # g
        PROVE  FALSE
    <2> DEFINE D == {i \in 1..c : f[i] # g[i]}
    <2>a. f \in [1..c -> S] /\ g \in [1..c -> S]
      BY <1>2
    <2>1. D \in SUBSET Nat /\ D # {}
      BY <1>4, <2>a
    <2>2. PICK n \in D : \A i \in D : n <= i
      BY <2>1, LeastNat
    <2>3. n \in 1..c /\ f[n] # g[n]
      BY <2>2
    <2>4. \A i \in 1..c : i < n => f[i] = g[i]
      BY <2>2, <2>3
    <2>5. PICK i \in 1..c : f[i] = g[n]
      BY <1>2, <2>3
    <2>6. PICK j \in 1..c : g[j] = f[n]
      BY <1>2, <2>3
    <2>7. ~(i < n)
      <3> SUFFICES ASSUME i < n PROVE FALSE
        OBVIOUS
      <3>1. g[i] = g[n] /\ Before(g[i], g[n])
        BY <1>2, <2>3, <2>4, <2>5
      <3> QED
        BY <1>2, <1>3, <2>3, <3>1
    <2>8. ~(j < n)
      <3> SUFFICES ASSUME j < n PROVE FALSE
        OBVIOUS
      <3>1. f[j] = f[n] /\ Before(f[j], f[n])
        BY <1>2, <2>3, <2>4, <2>6
      <3> QED
        BY <1>2, <1>3, <2>3, <3>1
    <2>9. n < i /\ n < j
      BY <2>3, <2>5, <2>6, <2>7, <2>8
    <2>10. Before(f[n], g[n]) /\ Before(g[n], f[n])
      BY <1>2, <2>3, <2>5, <2>6, <2>9
    <2> QED
      BY <1>2, <1>3, <2>3, <2>10
  <1> QED
    BY <1>4

-----------------------------------------------------------------------------
(* Pages                                                                   *)

LEMMA OfTwo ==
  \A a, b \in Int : /\ Least({a, b}) = IF a <= b THEN a ELSE b
                    /\ Greatest({a, b}) = IF a <= b THEN b ELSE a
  <1> SUFFICES ASSUME NEW a \in Int, NEW b \in Int
               PROVE  /\ Least({a, b}) = IF a <= b THEN a ELSE b
                      /\ Greatest({a, b}) = IF a <= b THEN b ELSE a
    OBVIOUS
  <1>1. PICK l \in {a, b} : l = IF a <= b THEN a ELSE b
    OBVIOUS
  <1>2. PICK g \in {a, b} : g = IF a <= b THEN b ELSE a
    OBVIOUS
  <1>3. \A x \in {a, b} : (\A y \in {a, b} : x <= y) <=> x = l
    BY <1>1
  <1>4. \A x \in {a, b} : (\A y \in {a, b} : x >= y) <=> x = g
    BY <1>2
  <1> QED
    BY <1>1, <1>2, <1>3, <1>4 DEF Least, Greatest

Beginning(f, k) == SubSeq(f, 1, Least({Len(f), k}))

PageOf(f, o, size) == SubSeq(f, o + 1, Least({Len(f), o + size}))

\* A page is what follows the pages before it.
LEMMA PageFollows ==
  ASSUME NEW S, NEW f \in Seq(S), NEW o \in Nat, NEW size \in Nat
  PROVE  /\ PageOf(f, o, size) \in Seq(S)
         /\ Len(PageOf(f, o, size)) = Greatest({0, Least({size, Len(f) - o})})
         /\ Beginning(f, o) \o PageOf(f, o, size) = Beginning(f, o + size)
  <1>1. PICK n \in Nat : n = Len(f)
    OBVIOUS
  <1>2. PICK u \in Nat : u = o + size
    OBVIOUS
  <1>3. Least({n, u}) = IF n <= u THEN n ELSE u
    BY OfTwo
  <1>4. Least({n, o}) = IF n <= o THEN n ELSE o
    BY OfTwo
  <1>5. PICK m \in Nat : m = Least({n, u})
    BY <1>3
  <1>6. PICK l \in Nat : l = Least({n, o})
    BY <1>4
  <1>7. PICK r : r = SubSeq(f, o + 1, m)
    OBVIOUS
  <1>8. m = (IF n <= u THEN n ELSE u) /\ l = (IF n <= o THEN n ELSE o) /\ m <= n
    BY <1>3, <1>4, <1>5, <1>6
  <1>9. \A i \in (o + 1)..m : f[i] \in S
    BY <1>1, <1>8
  <1>10. r \in Seq(S) /\ Len(r) = IF o + 1 <= m THEN m - (o + 1) + 1 ELSE 0
    BY <1>7, <1>9, SubSeqProperties
  <1>11. Len(r) = Greatest({0, Least({size, n - o})})
    <2>1. PICK k \in Int : k = n - o
      OBVIOUS
    <2>2. Least({size, k}) = IF size <= k THEN size ELSE k
      BY OfTwo
    <2>3. PICK h \in Int : h = Least({size, k})
      BY <2>2
    <2>4. \A z \in Int : Greatest({z, h}) = IF z <= h THEN h ELSE z
      BY OfTwo
    <2>5. Greatest({0, h}) = IF 0 <= h THEN h ELSE 0
      BY <2>4
    <2>6. h = IF size <= k THEN size ELSE k
      BY <2>2, <2>3
    <2>7. Len(r) = IF 0 <= h THEN h ELSE 0
      BY <1>2, <1>8, <1>10, <2>1, <2>6
    <2> QED
      BY <2>1, <2>3, <2>5, <2>7
  <1>12. SubSeq(f, 1, l) \o r = SubSeq(f, 1, m)
    <2>1. CASE n <= o
      <3>1. l = n /\ m = n /\ ~(o + 1 <= m)
        BY <1>2, <1>8, <2>1
      <3>2. r = <<>>
        BY <1>10, <3>1, EmptySeq
      <3>3. SubSeq(f, 1, n) \in Seq(S)
        BY <1>1, SubSeqFull
      <3> QED
        BY <3>1, <3>2, <3>3, ConcatEmptySeq
    <2>2. CASE o < n
      <3>1. l = o /\ o <= m /\ m <= n
        BY <1>2, <1>8, <2>2
      <3>2. SubSeq(f, 1, o) \o SubSeq(f, o + 1, m) = SubSeq(f, 1, m)
        <4>1. 1 \in 1..(Len(f) + 1) /\ o \in (1 - 1)..Len(f) /\ m \in o..Len(f)
          BY <1>1, <2>2, <3>1
        <4> QED
          BY <4>1, ConcatAdjacentSubSeq
      <3> QED
        BY <1>7, <3>1, <3>2
    <2> QED
      BY <2>1, <2>2
  <1> QED
    BY <1>1, <1>2, <1>5, <1>6, <1>7, <1>10, <1>11, <1>12 DEF PageOf, Beginning

-----------------------------------------------------------------------------
(* The inductive invariant                                                 *)

\* The instants of a client's pages are those of its clauses, one after the
\* other, and a total is what the clauses of the open request match.
Reading ==
    /\ now \in 0..MaxInstant
    /\ DOMAIN request = {"open", "at", "total"}
    /\ request.at \in 0..now
    /\ page \in Nat /\ shown \in Seq(Ids)
    /\ page = 0 => shown = <<>> /\ first = NULL
    /\ page > 0 => first \in 0..request.at
    /\ request.open => request.total = Cardinality(Matches(request.at))

\* As long as every page was read for the instant of the first, they are the
\* beginning of one enumeration.
PagesSoFar ==
    page > 0 /\ first = request.at =>
        \E f \in Orderings(Matches(first)) :
            shown = Beginning(f, page * query.page_size)

Inv == OfScenario /\ Reading /\ PagesSoFar

LEMMA MatchesType == \A i : Matches(i) \in SUBSET Ids
  BY DEF Matches

LEMMA SameOrderings ==
  ASSUME UNCHANGED <<catalogue, query>>, NEW t
  PROVE  (Orderings(Matches(t)))' = Orderings(Matches(t)) /\ (Matches(t))' = Matches(t)
  BY DEF Orderings, Matches, Before, Ids

LEMMA SamePages ==
  ASSUME Inv, UNCHANGED <<catalogue, query, page, shown, first>>, request'.at = request.at
  PROVE  PagesSoFar'
  <1> SUFFICES ASSUME page > 0, first = request.at
               PROVE  (\E f \in Orderings(Matches(first)) :
                          shown = Beginning(f, page * query.page_size))'
    BY DEF PagesSoFar
  <1>1. PICK t : t = first
    OBVIOUS
  <1>2. PICK f \in Orderings(Matches(t)) :
           shown = Beginning(f, page * query.page_size)
    BY <1>1 DEF Inv, PagesSoFar
  <1>3. (Orderings(Matches(first)))' = Orderings(Matches(t))
    BY <1>1, SameOrderings
  <1>4. shown' = Beginning(f, page' * query'.page_size)
    BY <1>2
  <1> QED
    BY <1>3, <1>4

LEMMA InitInv == Init => Inv
  <1> SUFFICES ASSUME Init PROVE Inv
    OBVIOUS
  <1>1. OfScenario /\ now \in 0..MaxInstant /\ <<>> \in Seq(Ids)
    BY QueryAssumption DEF Init, OfScenario
  <1>2. /\ DOMAIN request = {"open", "at", "total"} /\ request.at = 0 /\ ~request.open
        /\ page = 0 /\ shown = <<>> /\ first = NULL
    BY DEF Init
  <1> QED
    BY <1>1, <1>2 DEF Inv, Reading, PagesSoFar

LEMMA TickInv == Inv /\ Tick => Inv'
  <1> SUFFICES ASSUME Inv, Tick PROVE Inv'
    OBVIOUS
  <1>1. /\ now \in 0..MaxInstant /\ now < MaxInstant /\ now' = now + 1
        /\ UNCHANGED <<catalogue, query, request, page, shown, first>>
    BY DEF Inv, Reading, Tick
  <1>2. MaxInstant \in Nat
    BY QueryAssumption
  <1>3. OfScenario'
    BY <1>1 DEF Inv, OfScenario
  <1>4. \A i : Matches(i)' = Matches(i)
    BY <1>1 DEF Matches, Ids
  <1>5. now' \in 0..MaxInstant /\ request.at \in 0..now'
    BY <1>1, <1>2 DEF Inv, Reading
  <1>6. Reading'
    <2>1. (shown \in Seq(Ids))'
      BY <1>1 DEF Inv, Reading, Ids
    <2> QED
      BY <1>1, <1>4, <1>5, <2>1 DEF Inv, Reading
  <1>7. PagesSoFar'
    BY <1>1, SamePages
  <1> QED
    BY <1>3, <1>6, <1>7 DEF Inv

LEMMA RequestFields ==
  ASSUME NEW o, NEW a, NEW t, NEW r, r = [open |-> o, at |-> a, total |-> t]
  PROVE  DOMAIN r = {"open", "at", "total"} /\ r.open = o /\ r.at = a /\ r.total = t
  BY Zenon

LEMMA CountInv == Inv /\ Count => Inv'
  <1> SUFFICES ASSUME Inv, Count PROVE Inv'
    OBVIOUS
  <1>1. /\ request' = [open |-> TRUE, at |-> now, total |-> Cardinality(Matches(now))]
        /\ UNCHANGED <<catalogue, query, now, page, shown, first>>
    BY DEF Count
  <1>2. /\ DOMAIN request' = {"open", "at", "total"} /\ request'.at = now
        /\ request'.total = Cardinality(Matches(now))
    BY <1>1
  <1>3. OfScenario'
    BY <1>1 DEF Inv, OfScenario
  <1>4. \A i : Matches(i)' = Matches(i)
    BY <1>1 DEF Matches, Ids
  <1>5. /\ now \in 0..MaxInstant /\ request.at \in 0..now /\ page \in Nat
        /\ page = 0 => shown = <<>> /\ first = NULL
        /\ page > 0 => first \in 0..request.at
        /\ (shown \in Seq(Ids))'
    BY <1>1 DEF Inv, Reading, Ids
  <1>6. Reading'
    <2>1. page > 0 => first \in 0..now
      BY <1>5
    <2>2. (request.at \in 0..now)' /\ (request.total = Cardinality(Matches(request.at)))'
      BY <1>1, <1>2, <1>4, <1>5
    <2> QED
      BY <1>1, <1>2, <1>5, <2>1, <2>2 DEF Reading
  <1>7. PagesSoFar'
    <2>1. CASE page > 0 /\ first = now
      BY <1>1, <1>2, <1>5, <2>1, SamePages
    <2>2. CASE ~(page > 0 /\ first = now)
      BY <1>1, <1>2, <2>2 DEF PagesSoFar
    <2> QED
      BY <2>1, <2>2
  <1> QED
    BY <1>3, <1>6, <1>7 DEF Inv

\* What reading the rows of a page adds.
LEMMA RowsRead ==
  ASSUME Inv, ReadRows
  PROVE  /\ UNCHANGED <<catalogue, query, now>> /\ page' = page + 1
         /\ DOMAIN request' = {"open", "at", "total"} /\ ~request'.open
         /\ request.open /\ request'.at = request.at
         /\ first' = IF page = 0 THEN request.at ELSE first
         /\ \E f \in Orderings(Matches(request.at)), rows \in Seq(Matches(request.at)) :
               /\ shown' = shown \o rows
               /\ Len(rows) = Greatest({0, Least({query.page_size,
                                                  Len(f) - page * query.page_size})})
               /\ Beginning(f, page * query.page_size) \o rows
                    = Beginning(f, (page + 1) * query.page_size)
  <1>1. /\ UNCHANGED <<catalogue, query, now>> /\ page' = page + 1 /\ page \in Nat
        /\ request.open /\ request' = [request EXCEPT !.open = FALSE]
        /\ first' = IF page = 0 THEN request.at ELSE first
    BY DEF ReadRows, ReadRowsOf, Inv, Reading
  <1>2. DOMAIN request = {"open", "at", "total"}
    BY DEF Inv, Reading
  <1>3. DOMAIN request' = {"open", "at", "total"} /\ ~request'.open /\ request'.at = request.at
    BY <1>1, <1>2
  <1>4. PICK f \in Orderings(Matches(request.at)) :
           shown' = shown \o PageOf(f, Offset(page + 1), query.page_size)
    BY DEF ReadRows, ReadRowsOf, PageOf
  <1>5. PICK S : S = Matches(request.at) /\ f \in Seq(S)
    BY MatchesType, OrderingFacts DEF Inv
  <1>6. PICK size \in Nat : size = query.page_size
    BY ScenarioFacts DEF Inv
  <1>7. PICK o \in Nat : o = page * size
    BY <1>1
  <1>8. Offset(page + 1) = o /\ (page + 1) * size = o + size
    BY <1>1, <1>6, <1>7 DEF Offset
  <1>9. /\ PageOf(f, o, size) \in Seq(S)
        /\ Len(PageOf(f, o, size)) = Greatest({0, Least({size, Len(f) - o})})
        /\ Beginning(f, o) \o PageOf(f, o, size) = Beginning(f, o + size)
    BY <1>5, PageFollows
  <1>10. PICK rows : rows = PageOf(f, o, size)
    OBVIOUS
  <1>11. shown' = shown \o rows
    BY <1>4, <1>6, <1>8, <1>10
  <1>12. /\ rows \in Seq(S)
         /\ Len(rows) = Greatest({0, Least({query.page_size, Len(f) - page * query.page_size})})
         /\ Beginning(f, page * query.page_size) \o rows
              = Beginning(f, (page + 1) * query.page_size)
    BY <1>6, <1>7, <1>8, <1>9, <1>10
  <1> QED
    BY <1>1, <1>3, <1>5, <1>11, <1>12

LEMMA ReadInv == Inv /\ ReadRows => Inv'
  <1> SUFFICES ASSUME Inv, ReadRows PROVE Inv'
    OBVIOUS
  <1>1. /\ UNCHANGED <<catalogue, query, now>> /\ page' = page + 1
        /\ DOMAIN request' = {"open", "at", "total"} /\ ~request'.open /\ request'.at = request.at
        /\ first' = IF page = 0 THEN request.at ELSE first
    BY RowsRead
  <1>2. OfScenario'
    BY <1>1 DEF Inv, OfScenario
  <1>3. /\ now \in 0..MaxInstant /\ request.at \in 0..now /\ page \in Nat
        /\ page = 0 => shown = <<>> /\ first = NULL
        /\ page > 0 => first \in 0..request.at
    BY DEF Inv, Reading
  <1>4. Reading'
    <2>1. PICK rows \in Seq(Matches(request.at)) : shown' = shown \o rows
      BY RowsRead
    <2>2. rows \in Seq(Ids) /\ shown \in Seq(Ids)
      BY MatchesType, SeqMonotonic DEF Inv, Reading
    <2>3. shown' \in Seq(Ids')
      BY <1>1, <2>1, <2>2, ConcatProperties DEF Ids
    <2> QED
      BY <1>1, <1>3, <2>3 DEF Reading
  <1>5. PagesSoFar'
    <2> SUFFICES ASSUME first' = request.at
                 PROVE  (\E f \in Orderings(Matches(first)) :
                            shown = Beginning(f, page * query.page_size))'
      BY <1>1 DEF PagesSoFar
    <2>1. PICK f \in Orderings(Matches(request.at)), rows \in Seq(Matches(request.at)) :
             /\ shown' = shown \o rows
             /\ Beginning(f, page * query.page_size) \o rows
                  = Beginning(f, (page + 1) * query.page_size)
      BY RowsRead
    <2>2. shown = Beginning(f, page * query.page_size)
      <3>1. CASE page = 0
        <4>1. shown = <<>>
          BY <1>3, <3>1
        <4>2. PICK n \in Nat : n = Len(f) /\ f \in Seq(Matches(request.at))
          BY MatchesType, OrderingFacts DEF Inv
        <4>3. page * query.page_size = 0
          BY <3>1, ScenarioFacts DEF Inv
        <4>4. Least({n, 0}) = 0
          BY OfTwo
        <4>5. SubSeq(f, 1, 0) = <<>>
          BY <4>2, SubSeqEmpty
        <4> QED
          BY <4>1, <4>2, <4>3, <4>4, <4>5, Zenon DEF Beginning
      <3>2. CASE page > 0
        <4>1. first = request.at
          BY <1>1, <1>3, <3>2
        <4>2. PICK g \in Orderings(Matches(first)) :
                 shown = Beginning(g, page * query.page_size)
          BY <3>2, <4>1 DEF Inv, PagesSoFar
        <4>3. g = f
          BY <4>1, MatchesType, OneOrdering DEF Inv
        <4> QED
          BY <4>2, <4>3
      <3>3. page = 0 \/ page > 0
        BY <1>3
      <3> QED
        BY <3>1, <3>2, <3>3
    <2>3. shown' = Beginning(f, page' * query'.page_size)
      BY <1>1, <2>1, <2>2
    <2>4. (Orderings(Matches(first)))' = Orderings(Matches(request.at))
      BY <1>1 DEF Orderings, Matches, Before, Ids
    <2> QED
      BY <2>3, <2>4
  <1> QED
    BY <1>2, <1>4, <1>5 DEF Inv

LEMMA StutterInv == Inv /\ UNCHANGED vars => Inv'
  <1> SUFFICES ASSUME Inv, UNCHANGED vars PROVE Inv'
    OBVIOUS
  <1>1. OfScenario' /\ PagesSoFar'
    BY SamePages DEF Inv, vars, OfScenario
  <1>2. Reading'
    BY DEF Inv, vars, Reading, Matches, Ids
  <1> QED
    BY <1>1, <1>2 DEF Inv

\* The inductive invariant holds in every reachable state.
THEOREM Invariance == Spec => []Inv
  <1>1. Inv /\ [Next]_vars => Inv'
    BY TickInv, CountInv, ReadInv, StutterInv DEF Next
  <1> QED
    BY <1>1, InitInv, PTL DEF Spec

-----------------------------------------------------------------------------
(* The properties                                                          *)

\* The two status filters leave nothing out and have nothing in common,
\* whatever columns are NULL (events/repository.py, _is_past and its negation).
THEOREM StatusIsPartition == Spec => []StatusPartitions
  <1>1. Inv => StatusPartitions
    BY Partition DEF Inv, Reading
  <1> QED
    BY <1>1, Invariance, PTL

\* startDate and endDate select what overlaps them (events/repository.py,
\* _build_filters): for every pair of times, also those of a day without an end.
THEOREM WindowsSelectOverlaps == Spec => []WindowIsOverlap
  <1>1. Inv => WindowIsOverlap
    BY Window DEF Inv, Reading
  <1> QED
    BY <1>1, Invariance, PTL

\* What is past stays so (events/repository.py, _is_past), for every way to
\* set the clocks back that does not repeat a midnight.
THEOREM PastStaysPast == Spec => PastForGood
  <1>1. Inv /\ [Next]_vars =>
          [\A id \in Ids : IsPast(catalogue[id], now) = True => IsPast(catalogue[id], now)' = True]_vars
    <2> SUFFICES ASSUME Inv, Next, NEW id \in Ids, IsPast(catalogue[id], now) = True
                 PROVE  IsPast(catalogue[id], now)' = True
      OBVIOUS
    <2>1. PICK e : e = catalogue[id] /\ Numbers(e)
      BY ScenarioFacts DEF Inv
    <2>2. catalogue' = catalogue /\ (now' = now \/ (now' = now + 1 /\ now < MaxInstant))
      BY DEF Next, Count, ReadRows, ReadRowsOf, Tick
    <2>3. now \in 0..MaxInstant /\ MaxInstant \in Nat
      BY QueryAssumption DEF Inv, Reading
    <2>4. now < MaxInstant => IsPast(e, now + 1) = True
      BY <2>1, <2>3, PastLater
    <2>5. IsPast(catalogue[id], now)' = IsPast(e, now')
      BY <2>1, <2>2 DEF IsPast
    <2> QED
      BY <2>1, <2>2, <2>4, <2>5
  <1> QED
    BY <1>1, Invariance, PTL DEF Spec, PastForGood

LEMMA FirstRows ==
  ASSUME NEW S, NEW f \in Seq(S), NEW m \in Nat, m <= Len(f), NEW s, s = SubSeq(f, 1, m)
  PROVE  Len(s) = m /\ \A i \in 1..m : s[i] = f[i]
  OBVIOUS

\* Each of the first k of S once and in order.
EachOnce(s, S, k) ==
  /\ Len(s) = Least({k, Cardinality(S)})
  /\ {s[i] : i \in 1..Len(s)} \subseteq S
  /\ Len(s) = Cardinality({s[i] : i \in 1..Len(s)})
  /\ \A i, j \in 1..Len(s) : i < j => Before(s[i], s[j])

\* That is what the beginning of a sorted enumeration has.
LEMMA BeginningFacts ==
  ASSUME OfScenario, NEW S \in SUBSET Ids, NEW f \in Orderings(S), NEW k \in Nat
  PROVE  EachOnce(Beginning(f, k), S, k)
  <1>0. PICK s : s = Beginning(f, k)
    OBVIOUS
  <1>1. PICK c \in Nat : c = Cardinality(S)
    BY OrderingFacts
  <1>2. /\ f \in [1..c -> S] /\ f \in Seq(S) /\ Len(f) = c
        /\ \A i, j \in 1..c : i < j => Before(f[i], f[j])
    BY <1>1, OrderingFacts
  <1>3. PICK m \in Nat : m = Least({c, k}) /\ m = Least({k, c}) /\ m <= c
    BY OfTwo
  <1>4. s = SubSeq(f, 1, m)
    BY <1>0, <1>2, <1>3 DEF Beginning
  <1>5. \A i \in 1..m : f[i] \in S
    BY <1>2, <1>3
  <1>6. Len(s) = m /\ \A i \in 1..m : s[i] = f[i]
    <2>1. f \in Seq(S) /\ m <= Len(f)
      BY <1>2, <1>3
    <2> QED
      BY <1>4, <2>1, FirstRows, Zenon
  <1>7. \A i, j \in 1..m : i < j => Before(s[i], s[j])
    <2>1. \A i \in 1..m : i \in 1..c
      BY <1>3
    <2> QED
      BY <1>2, <1>6, <2>1
  <1>8. {s[i] : i \in 1..m} \subseteq S
    BY <1>5, <1>6
  <1>9. Cardinality({s[i] : i \in 1..m}) = m
    <2> DEFINE T == {s[i] : i \in 1..m}
               b == [i \in 1..m |-> s[i]]
    <2>1. \A i, j \in 1..m : s[i] = s[j] => i = j
      <3>1. \A i \in 1..m : s[i] \in Ids
        BY <1>8
      <3>2. \A i, j \in 1..m : i < j => s[i] # s[j]
        BY <1>7, <3>1, BeforeOrder
      <3> SUFFICES ASSUME NEW i \in 1..m, NEW j \in 1..m, s[i] = s[j]
                   PROVE  i = j
        OBVIOUS
      <3>3. ~(i < j) /\ ~(j < i)
        BY <3>2
      <3> QED
        BY <3>3
    <2>2. b \in Bijection(1..m, T)
      BY <2>1 DEF Bijection, Injection, Surjection, IsInjective
    <2>3. IsFiniteSet(1..m) /\ Cardinality(1..m) = m
      BY FS_Interval
    <2> QED
      BY <2>2, <2>3, FS_Bijection DEF ExistsBijection
  <1> QED
    BY <1>0, <1>1, <1>3, <1>6, <1>7, <1>8, <1>9 DEF EachOnce

\* Pages read for one instant show each match once, in one order, and are
\* complete after the last (events/repository.py, _apply_ordering: the id
\* breaks every tie).
THEOREM PagesAreComplete == Spec => []PagesShowEachOnce
  <1>1. Inv => PagesShowEachOnce
    <2> SUFFICES ASSUME Inv, page > 0, first = request.at
                 PROVE  LET found == Matches(request.at)
                        IN  /\ Len(shown) = Cardinality(Shown)
                            /\ Shown \subseteq found
                            /\ \A i, j \in 1..Len(shown) : i < j => Before(shown[i], shown[j])
                            /\ Len(shown) = Least({page * query.page_size, Cardinality(found)})
      BY DEF PagesShowEachOnce
    <2>1. PICK f \in Orderings(Matches(request.at)) :
             shown = Beginning(f, page * query.page_size)
      BY DEF Inv, PagesSoFar
    <2>2. page * query.page_size \in Nat
      BY ScenarioFacts DEF Inv, Reading
    <2>3. OfScenario /\ Matches(request.at) \in SUBSET Ids
      BY MatchesType DEF Inv
    <2>4. PICK k \in Nat : k = page * query.page_size
      BY <2>2
    <2>5. PICK S \in SUBSET Ids : S = Matches(request.at)
      BY <2>3
    <2>6. f \in Orderings(S) /\ shown = Beginning(f, k)
      BY <2>1, <2>4, <2>5
    <2>7. EachOnce(shown, S, k)
      BY <2>3, <2>4, <2>6, BeginningFacts
    <2> QED
      BY <2>4, <2>5, <2>7 DEF Shown, EachOnce
  <1> QED
    BY <1>1, Invariance, PTL

\* A page has the rows that the total in its answer says, although events may
\* end between the two statements (events/repository.py, count_and_list: both
\* have the clauses of one now).
THEOREM TotalsAgree == Spec => TotalAndRowsAgree
  <1>1. Inv /\ [Next]_vars =>
          [page' = page + 1 =>
             Len(shown') - Len(shown) =
                Greatest({0, Least({query.page_size, request.total - Offset(page + 1)})})]_vars
    <2> SUFFICES ASSUME Inv, Next, page' = page + 1
                 PROVE  Len(shown') - Len(shown) =
                          Greatest({0, Least({query.page_size, request.total - Offset(page + 1)})})
      OBVIOUS
    <2>1. page \in Nat
      BY DEF Inv, Reading
    <2>2. ReadRows
      BY <2>1 DEF Next, Count, Tick
    <2>3. PICK f \in Orderings(Matches(request.at)), rows \in Seq(Matches(request.at)) :
             /\ shown' = shown \o rows
             /\ Len(rows) = Greatest({0, Least({query.page_size,
                                                Len(f) - page * query.page_size})})
      BY <2>2, RowsRead
    <2>4. Len(f) = request.total
      <3>1. request.total = Cardinality(Matches(request.at))
        BY <2>2, RowsRead DEF Inv, Reading
      <3> QED
        BY <3>1, MatchesType, OrderingFacts DEF Inv
    <2>5. Offset(page + 1) = page * query.page_size
      BY <2>1, ScenarioFacts DEF Offset, Inv
    <2>6. Len(shown') = Len(shown) + Len(rows) /\ Len(shown) \in Nat /\ Len(rows) \in Nat
      <3>1. rows \in Seq(Ids) /\ shown \in Seq(Ids)
        BY MatchesType, SeqMonotonic DEF Inv, Reading
      <3> QED
        BY <2>3, <3>1, ConcatProperties
    <2>7. Len(shown') - Len(shown) = Len(rows)
      BY <2>6
    <2> QED
      BY <2>3, <2>4, <2>5, <2>7
  <1> QED
    BY <1>1, Invariance, PTL DEF Spec, TotalAndRowsAgree

=============================================================================

----------------------------- MODULE EventQuery -----------------------------
(***************************************************************************)
(* Listing events: the filters, the order and the pages that               *)
(* count_and_list (app/events/repository.py) builds from EventFilters      *)
(* (app/events/schemas.py), over a catalogue that does not change, while a *)
(* client reads page after page and time goes on.  A page is two           *)
(* statements: the one that counts, and the one that reads the rows.       *)
(*                                                                         *)
(* Predicates are SQL's: a truth value is false, unknown or true, and a    *)
(* row is selected if the WHERE clause is true.  Wall-clock times are      *)
(* integers and Local says which one each instant shows, so that an hour   *)
(* can be repeated when the clocks go back.  Text is the set of words it   *)
(* contains; validation of the parameters is ValidQuery.                   *)
(***************************************************************************)
EXTENDS Integers, Sequences, FiniteSets

CONSTANTS
    Scenario,     \* catalogues, each with a client's parameters and when it comes
    Day,          \* ticks of a day
    Local,        \* [0..MaxInstant -> wall-clock time in Europe/Vilnius]
    MaxInstant,   \* bound of the clock
    LongLimit,    \* LONG_EVENT_THRESHOLD_DAYS, in ticks
    NULL

ASSUME QueryAssumption ==
    /\ \A s \in Scenario :
          /\ DOMAIN s.catalogue \subseteq Nat /\ IsFiniteSet(DOMAIN s.catalogue)
          /\ s.now \in 0..MaxInstant
    /\ Day \in Nat \ {0} /\ LongLimit \in Nat /\ MaxInstant \in Nat
    /\ Local \in [0..MaxInstant -> Int]

ASSUME NullAssumption == NULL \notin Int \union {"upcoming", "past"}

\* Times, prices and counters are numbers.
ASSUME ColumnAssumption ==
    \A s \in Scenario : \A id \in DOMAIN s.catalogue :
        LET e == s.catalogue[id]
        IN  {e.start, e.end, e.price_from, e.popularity} \subseteq Int \union {NULL}

Parameter == {"restrict", "category", "location", "start_date", "end_date", "search", "status",
              "hide_expired", "price_from", "price_to", "free", "order_by", "direction",
              "page_size"}

ASSUME ParameterAssumption ==
    \A s \in Scenario :
        /\ DOMAIN s.query = Parameter
        /\ {s.query.start_date, s.query.end_date} \subseteq Int \union {NULL}
        /\ {s.query.hide_expired, s.query.free} \subseteq BOOLEAN
        /\ s.query.order_by \in {"startTime", "popularityCounter", "price"}
        /\ s.query.page_size \in Nat \ {0}

VARIABLES
    catalogue,  \* [Ids -> row of the table]
    query,      \* the client's parameters
    now,        \* an instant
    request,    \* of the last page asked for: [open, at, total]
    page,       \* pages read so far
    shown,      \* the ids on them
    first       \* history: the instant of the first page's clauses

vars == <<catalogue, query, now, request, page, shown, first>>

Ids == DOMAIN catalogue

-----------------------------------------------------------------------------
(* Truth values and time                                                   *)

False == 0
Unknown == 1
True == 2

Truth(b) == IF b THEN True ELSE False

Least(S) == CHOOSE x \in S : \A y \in S : x <= y
Greatest(S) == CHOOSE x \in S : \A y \in S : x >= y

And(S) == IF S = {} THEN True ELSE Least(S)
Or(S) == IF S = {} THEN False ELSE Greatest(S)
Not(x) == True - x

\* A comparison with NULL is unknown.
AtMost(a, b) == IF a = NULL \/ b = NULL THEN Unknown ELSE Truth(a <= b)
Under(a, b) == IF a = NULL \/ b = NULL THEN Unknown ELSE Truth(a < b)
Same(a, b) == IF a = NULL \/ b = NULL THEN Unknown ELSE Truth(a = b)
IsNull(a) == Truth(a = NULL)
Contains(text, word) == IF text = NULL THEN Unknown ELSE Truth(word \in text)

Coalesce(a, b) == IF a = NULL THEN b ELSE a

Midnight(t) == t - (t % Day)

\* The hour that is repeated is not one at midnight.
ASSUME ClockAssumption ==
    \A i \in 0..(MaxInstant - 1) : Midnight(Local[i]) <= Midnight(Local[i + 1])

\* AT TIME ZONE: a repeated wall-clock time is its later occurrence.
Instant(t) ==
    LET at == {i \in 0..MaxInstant : Local[i] <= t}
    IN  IF at = {} THEN -1 ELSE Greatest(at)

-----------------------------------------------------------------------------
(* Clauses                                                                 *)

\* Faulty variants: end times compared as wall-clock times; no look for an
\* unknown start.
IsPastByWallClock(e, i) ==
    IF e.end # NULL THEN AtMost(e.end, Local[i])
    ELSE And({Not(IsNull(e.start)), Under(e.start, Midnight(Local[i]))})

IsPastUnguarded(e, i) ==
    IF e.end # NULL THEN Truth(Instant(e.end) <= i)
    ELSE Under(e.start, Midnight(Local[i]))

\* At instant i.
IsPast(e, i) ==
    IF e.end # NULL THEN Truth(Instant(e.end) <= i)
    ELSE And({Not(IsNull(e.start)), Under(e.start, Midnight(Local[i]))})

\* The class-level expression of Event.is_free.
IsFree(e) ==
    And({Or({IsNull(e.price_from), Same(e.price_from, 0)}),
         Or({IsNull(e.price_to), Same(e.price_to, 0)}),
         IsNull(e.ticket_url), IsNull(e.ticket_purchase_note),
         Or({IsNull(e.description), Not(Contains(e.description, "kaina"))})})

\* Event.is_free of a loaded row, as responses show it: what is falsy is
\* absent, empty text included.
ShownFree(e) ==
    /\ e.price_from \in {NULL, 0} /\ e.price_to \in {NULL, 0}
    /\ e.ticket_url \in {NULL, {}} /\ e.ticket_purchase_note \in {NULL, {}}
    /\ e.description # NULL => "kaina" \notin e.description

\* Faulty variant: an event that ends as the window begins still counts.
EndsLateEnough(e, t) == AtMost(t, Coalesce(e.end, IF e.start = NULL THEN NULL
                                                  ELSE Midnight(e.start) + Day))

EndsAfter(e, t) == Under(t, Coalesce(e.end, IF e.start = NULL THEN NULL
                                            ELSE Midnight(e.start) + Day))

FromStart(e, t) == Or({AtMost(t, e.start), EndsAfter(e, t), IsNull(e.start)})

UntilEnd(e, t) == Or({AtMost(e.start, Midnight(t) + Day - 1), IsNull(e.start)})

InPlace(e, names) ==
    Or(UNION {{Contains(e.city, name), Contains(e.address, name)} : name \in names})

\* The clauses, built at instant i.
Clauses(id, e, q, i) ==
    (IF q.restrict # NULL THEN {Truth(id \in q.restrict)} ELSE {})
    \union (IF q.category # NULL THEN {Same(e.category, q.category)} ELSE {})
    \union (IF q.location # {} THEN {InPlace(e, q.location)} ELSE {})
    \union (IF q.start_date # NULL THEN {FromStart(e, q.start_date)} ELSE {})
    \union (IF q.end_date # NULL THEN {UntilEnd(e, q.end_date)} ELSE {})
    \union (IF q.search # NULL THEN {Contains(e.title, q.search)} ELSE {})
    \union (IF q.status # NULL \/ q.hide_expired
            THEN {IF q.status = "past" THEN IsPast(e, i) ELSE Not(IsPast(e, i))} ELSE {})
    \union (IF q.price_from # NULL
            THEN {AtMost(q.price_from, Coalesce(e.price_from, 0))} ELSE {})
    \union (IF q.price_to # NULL
            THEN {AtMost(Coalesce(e.price_from, 0), q.price_to)} ELSE {})
    \union (IF q.free THEN {IsFree(e)} ELSE {})

Selected(id, e, q, i) == And(Clauses(id, e, q, i)) = True

Matches(i) == {id \in Ids : Selected(id, catalogue[id], query, i)}

ValidQuery(q) ==
    /\ ~(q.status = "past" /\ q.hide_expired)
    /\ q.price_from # NULL /\ q.price_to # NULL => q.price_from <= q.price_to

-----------------------------------------------------------------------------
(* Order: a row's sort keys, compared one after the other.                 *)

Direction(q) ==
    IF q.direction # NULL THEN q.direction ELSE IF q.status = "upcoming" THEN "ASC" ELSE "DESC"

\* PostgreSQL puts NULL last when ascending and first when descending, unless
\* told otherwise.
Directed(value, direction, nulls_last) ==
    CASE value = NULL -> <<IF direction = "ASC" \/ nulls_last THEN 1 ELSE -1, 0>>
      [] value # NULL -> <<0, IF direction = "ASC" THEN value ELSE -value>>

Flag(b) == IF b THEN 1 ELSE 0

IsLong(e) == e.start # NULL /\ e.end # NULL /\ e.end > e.start + LongLimit

DateKeys(e, q) ==
    IF Direction(q) = "ASC"
    THEN <<Flag(e.start = NULL), Flag(IsLong(e))>> \o Directed(e.start, "ASC", q.status # NULL)
    ELSE Directed(e.start, "DESC", q.status # NULL)

PriceKeys(e, q) ==
    LET sinkFree == q.price_from # NULL \/ q.price_to # NULL \/ Direction(q) = "DESC"
        free == IsFree(e) = True
    IN  <<IF sinkFree THEN Flag(free) ELSE -Flag(free),
          Flag(e.price_from = NULL /\ ~free)>>
        \o Directed(Coalesce(e.price_from, 0), Direction(q), FALSE)

\* Faulty variant: nothing breaks ties.
KeysWithoutId(id, e, q) ==
    CASE q.order_by = "startTime" -> DateKeys(e, q)
      [] q.order_by = "popularityCounter" -> Directed(e.popularity, Direction(q), FALSE)
      [] q.order_by = "price" -> PriceKeys(e, q)

Keys(id, e, q) ==
    CASE q.order_by = "startTime" -> DateKeys(e, q) \o <<id>>
      [] q.order_by = "popularityCounter" -> Directed(e.popularity, Direction(q), FALSE) \o <<id>>
      [] q.order_by = "price" -> PriceKeys(e, q) \o <<id>>

Before(a, b) ==
    LET k == Keys(a, catalogue[a], query)
        l == Keys(b, catalogue[b], query)
    IN  \E i \in 1..Len(k) : k[i] < l[i] /\ \A j \in 1..(i - 1) : k[j] = l[j]

\* The answers a query may be given: rows no key tells apart come in any order.
Orderings(S) ==
    {f \in [1..Cardinality(S) -> S] :
        \A i, j \in 1..Cardinality(S) : i < j => f[i] # f[j] /\ ~Before(f[j], f[i])}

-----------------------------------------------------------------------------
Init ==
    /\ \E s \in Scenario :
          ValidQuery(s.query) /\ catalogue = s.catalogue /\ query = s.query /\ now = s.now
    /\ request = [open |-> FALSE, at |-> 0, total |-> 0]
    /\ page = 0
    /\ shown = <<>>
    /\ first = NULL

Offset(n) == (n - 1) * query.page_size

\* The clauses with their now, and the count, of the next page if the last
\* total says that there is one.
Count ==
    /\ ~request.open
    /\ page = 0 \/ Offset(page + 1) < request.total
    /\ request' = [open |-> TRUE, at |-> now, total |-> Cardinality(Matches(now))]
    /\ UNCHANGED <<catalogue, query, now, page, shown, first>>

\* The rows of the page that the clauses of instant i select.
ReadRowsOf(i) ==
    /\ request.open
    /\ request' = [request EXCEPT !.open = FALSE]
    /\ \E f \in Orderings(Matches(i)) :
          shown' = shown \o SubSeq(f, Offset(page + 1) + 1,
                                   Least({Len(f), Offset(page + 1) + query.page_size}))
    /\ page' = page + 1
    /\ first' = IF page = 0 THEN request.at ELSE first
    /\ UNCHANGED <<catalogue, query, now>>

\* Faulty variant: the clauses are built again, with another now.
ReadRowsAfresh == ReadRowsOf(now)

ReadRows == ReadRowsOf(request.at)

Tick ==
    /\ now < MaxInstant
    /\ now' = now + 1
    /\ UNCHANGED <<catalogue, query, request, page, shown, first>>

Next == Count \/ ReadRows \/ Tick

Spec == Init /\ [][Next]_vars

-----------------------------------------------------------------------------
(* Properties                                                              *)

Shown == {shown[i] : i \in 1..Len(shown)}

\* Upcoming and past events are two groups that leave nothing out, whatever
\* columns are NULL.
StatusPartitions ==
    \A id \in Ids :
        LET in(s) == Selected(id, catalogue[id],
                              [query EXCEPT !.status = s, !.hide_expired = FALSE], now)
        IN  /\ in(NULL) <=> in("upcoming") \/ in("past")
            /\ ~(in("upcoming") /\ in("past"))

\* What is past stays past, also through the hour that the clocks repeat.
PastForGood ==
    [][\A id \in Ids : IsPast(catalogue[id], now) = True => IsPast(catalogue[id], now)' = True]_vars

\* "Date filters match the event's active period": an event with a start is
\* in the window of startDate and endDate exactly if it starts or is going on
\* at some time of it; the end is not part of an event.
WindowIsOverlap ==
    query.start_date # NULL /\ query.end_date # NULL /\ query.start_date <= query.end_date =>
        \A id \in Ids :
            LET e == catalogue[id]
                end == Coalesce(e.end, Midnight(e.start) + Day)
                window == query.start_date..(Midnight(query.end_date) + Day - 1)
                wide == [query EXCEPT !.start_date = NULL, !.end_date = NULL]
            IN  e.start # NULL =>
                   (Selected(id, e, query, now) <=>
                      /\ Selected(id, e, wide, now)
                      /\ \E t \in window : t = e.start \/ (e.start <= t /\ t < end))

\* Reading page after page while the matches stay what they are shows each
\* of them once, in one order, and the last page completes them.
PagesShowEachOnce ==
    page > 0 /\ ~request.open /\ first = request.at =>
        LET found == Matches(request.at)
        IN  /\ Len(shown) = Cardinality(Shown)
            /\ Shown \subseteq found
            /\ \A i, j \in 1..Len(shown) : i < j => Before(shown[i], shown[j])
            /\ Len(shown) = Least({page * query.page_size, Cardinality(found)})

\* "total counts only the matching group": the total and the rows of an answer
\* agree, also when an event ends between the two statements: a page is full
\* unless the total says that it is the last.
TotalAndRowsAgree ==
    [][page' = page + 1 =>
          Len(shown') - Len(shown) =
             Greatest({0, Least({query.page_size, request.total - Offset(page + 1)})})]_vars

\* "so the rule has exactly one definition": the filter for free events
\* selects the events whose responses say that they are free.
FreeHasOneDefinition ==
    \A id \in Ids : (IsFree(catalogue[id]) = True) <=> ShownFree(catalogue[id])

=============================================================================

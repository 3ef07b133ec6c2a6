--------------------------- MODULE ProfileUpdates ---------------------------
(***************************************************************************)
(* Concurrent updates of one user's row and of the popularity of events:   *)
(* add_favorite, remove_favorite and update_marketing_consents             *)
(* (app/users/repository.py, called from app/users/router.py) and          *)
(* get_event with increment_popularity (app/events).                       *)
(*                                                                         *)
(* Each request loads a row, later runs one UPDATE, commits, and reads the *)
(* row again for its answer.  The UPDATE waits for the row's lock, looks   *)
(* at its WHERE clause again and computes its values from the row as it    *)
(* then is; as the lock keeps that row, its effect is part of the commit.  *)
(* The catalogue itself is written by an ingest process outside the API    *)
(* and does not change here.                                               *)
(***************************************************************************)
EXTENDS Naturals, Sequences, FiniteSets, Functions

CONSTANTS
    Request,
    Event,      \* event ids a client may name
    Known,      \* the events there are
    First,      \* stamps the consents given at registration
    NULL

ASSUME CatalogueAssumption == Known \subseteq Event /\ First \notin Request

ASSUME FinitenessAssumption == IsFiniteSet(Request) /\ IsFiniteSet(Known)

Channel == {"email", "push"}

Row == [favorites : UNION {[1..n -> Known] : n \in 0..Cardinality(Known)},
        consent : [Channel -> BOOLEAN],
        updated : [Channel -> Request \union {First}]]

Operation == {"add", "remove", "consent", "view"}

ASSUME NullAssumption == NULL \notin Row \union Request \union BOOLEAN \union Operation

Wish == [Channel -> BOOLEAN \union {NULL}]   \* NULL: the channel is not supplied

VARIABLES
    user,       \* the row: [favorites, consent, updated], or NULL
    popularity, \* [Known -> popularity_counter]
    userLock, eventLock,   \* holders of the row locks
    op, pc,     \* [Request -> operation, control state]
    event,      \* [Request -> event id it names]
    wish,       \* [Request -> marketing consents it asks for]
    loaded,     \* [Request -> the row it loaded at the start]
    met         \* history: what r asks for and the row has had since it came

rows == <<user, popularity>>
locks == <<userLock, eventLock>>
inputs == <<op, event, wish>>
vars == <<rows, locks, inputs, pc, loaded, met>>

-----------------------------------------------------------------------------
NoWish == [c \in Channel |-> NULL]

\* MarketingConsentsUpdateRequest names at least one channel.
Consents == Wish \ {NoWish}

Goto(r, label) == pc' = [pc EXCEPT ![r] = label]

Release(r) ==
    /\ userLock' = IF userLock = r THEN NULL ELSE userLock
    /\ eventLock' = [e \in Known |-> IF eventLock[e] = r THEN NULL ELSE eventLock[e]]

\* r answers, and its local variables are gone.
Answer(r, label) ==
    /\ Goto(r, label)
    /\ wish' = [wish EXCEPT ![r] = NoWish]
    /\ loaded' = [loaded EXCEPT ![r] = NULL]
    /\ UNCHANGED <<op, event>>

\* A request arrives and loads the row it is about.
Arrive(r, operation, e, w, row) ==
    /\ pc[r] = "new"
    /\ op' = [op EXCEPT ![r] = operation]
    /\ event' = [event EXCEPT ![r] = e]
    /\ wish' = [wish EXCEPT ![r] = w]
    /\ loaded' = [loaded EXCEPT ![r] = row]
    /\ UNCHANGED <<rows, locks>>

Init ==
    /\ \E consent \in [Channel -> BOOLEAN] :
          user = [favorites |-> <<>>, consent |-> consent,
                  updated |-> [c \in Channel |-> First]]
    /\ popularity = [e \in Known |-> 0]
    /\ userLock = NULL
    /\ eventLock = [e \in Known |-> NULL]
    /\ op = [r \in Request |-> NULL]
    /\ pc = [r \in Request |-> "new"]
    /\ event = [r \in Request |-> NULL]
    /\ wish = [r \in Request |-> NoWish]
    /\ loaded = [r \in Request |-> NULL]
    /\ met = [r \in Request |-> {}]

-----------------------------------------------------------------------------
(* What the UPDATE statements do to the row                                *)

\* array_remove: the n-th of the elements that stay.
Without(favorites, e) ==
    LET kept == {i \in DOMAIN favorites : favorites[i] # e}
        at(n) == CHOOSE i \in kept : Cardinality({j \in kept : j <= i}) = n
    IN  [n \in 1..Cardinality(kept) |-> favorites[at(n)]]

\* Faulty variant: the array is computed in Python from the row loaded.
AppendToLoaded(r) ==
    [user EXCEPT !.favorites = Append(loaded[r].favorites, event[r])]

WithFavorite(r) == [user EXCEPT !.favorites = Append(@, event[r])]

WithoutFavorite(r) == [user EXCEPT !.favorites = Without(@, event[r])]

\* Faulty variant: every channel is written, with the loaded value if it was
\* not supplied.
WithAllConsents(r) ==
    [user EXCEPT !.consent = [c \in Channel |-> IF wish[r][c] # NULL THEN wish[r][c]
                                                ELSE loaded[r].consent[c]],
                 !.updated = [c \in Channel |-> r]]

\* The channels whose value differs from the one loaded.
Changes(r) == {c \in Channel : wish[r][c] # NULL /\ wish[r][c] # loaded[r].consent[c]}

WithConsents(r) ==
    [user EXCEPT !.consent = [c \in Channel |-> IF c \in Changes(r) THEN wish[r][c] ELSE @[c]],
                 !.updated = [c \in Channel |-> IF c \in Changes(r) THEN r ELSE @[c]]]

\* Faulty variant: WHERE is not looked at again.
AppliesToLoaded(r) ==
    user # NULL /\ (op[r] = "add" => event[r] \notin Range(loaded[r].favorites))

\* The WHERE clause; an account that is gone has no row to match.
Applies(r) ==
    user # NULL /\ (op[r] = "add" => event[r] \notin Range(user.favorites))

-----------------------------------------------------------------------------
(* Requests on the user's row                                              *)

Missing(r, operation, e) ==
    /\ Arrive(r, operation, e, NoWish, NULL)
    /\ e \notin Known
    /\ Goto(r, "missing")

AddFind(r, e) ==
    /\ user # NULL /\ e \in Known
    /\ Arrive(r, "add", e, NoWish, user)
    /\ Goto(r, "loaded")

RemoveFind(r, e) ==
    /\ user # NULL
    /\ Arrive(r, "remove", e, NoWish, user)
    /\ Goto(r, "loaded")

ConsentFind(r, w) ==
    /\ user # NULL
    /\ Arrive(r, "consent", NULL, w, user)
    /\ Goto(r, "loaded")

\* Nothing to change is answered without a statement.
ConsentUnchanged(r) ==
    /\ pc[r] = "loaded" /\ op[r] = "consent"
    /\ Changes(r) = {}
    /\ Answer(r, "ok")
    /\ UNCHANGED <<rows, locks>>

\* The UPDATE takes the row's lock if its WHERE clause holds.
Update(r) ==
    /\ pc[r] = "loaded" /\ op[r] # "view"
    /\ op[r] = "consent" => Changes(r) # {}
    /\ userLock = NULL
    /\ IF Applies(r)
       THEN userLock' = r /\ Goto(r, "updated")
       ELSE UNCHANGED userLock /\ Goto(r, "committed")
    /\ UNCHANGED <<rows, eventLock, inputs, loaded>>

UpdateCommit(r) ==
    /\ pc[r] = "updated" /\ op[r] # "view"
    /\ user' = CASE op[r] = "add" -> WithFavorite(r)
                 [] op[r] = "remove" -> WithoutFavorite(r)
                 [] op[r] = "consent" -> WithConsents(r)
    /\ Release(r)
    /\ Goto(r, "committed")
    /\ UNCHANGED <<popularity, inputs, loaded>>

\* Faulty variant: the answer is made without another look at the row.
RefreshNothing(r) ==
    /\ pc[r] = "committed"
    /\ Answer(r, "ok")
    /\ UNCHANGED <<rows, locks>>

\* session.refresh reads the row for the answer and fails if it is gone.
Refresh(r) ==
    /\ pc[r] = "committed"
    /\ Answer(r, IF user = NULL THEN "error" ELSE "ok")
    /\ UNCHANGED <<rows, locks>>

\* delete_account, at its commit (PasswordSessions has its statements).
AccountDeleted ==
    /\ user # NULL /\ userLock = NULL
    /\ user' = NULL
    /\ UNCHANGED <<popularity, locks, inputs, pc, loaded>>

-----------------------------------------------------------------------------
(* get_event                                                               *)

\* The response is built from this row, before the view is counted.
ViewFind(r, e) ==
    /\ e \in Known
    /\ Arrive(r, "view", e, NoWish, popularity[e])
    /\ Goto(r, "loaded")

Increment(r) ==
    /\ pc[r] = "loaded" /\ op[r] = "view"
    /\ eventLock[event[r]] = NULL
    /\ eventLock' = [eventLock EXCEPT ![event[r]] = r]
    /\ Goto(r, "updated")
    /\ UNCHANGED <<rows, userLock, inputs, loaded>>

\* Faulty variant: the counter loaded is written back.
LoadedPlusOne(r) == loaded[r] + 1

PlusOne(r) == popularity[event[r]] + 1

IncrementCommit(r) ==
    /\ pc[r] = "updated" /\ op[r] = "view"
    /\ popularity' = [popularity EXCEPT ![event[r]] = PlusOne(r)]
    /\ Release(r)
    /\ Answer(r, "ok")
    /\ UNCHANGED user

-----------------------------------------------------------------------------
\* The connection or the process is lost before the commit.
Abort(r) ==
    /\ pc[r] \in {"loaded", "updated"}
    /\ Release(r)
    /\ Answer(r, "aborted")
    /\ UNCHANGED rows

Arrival(r) ==
    \/ \E e \in Event : AddFind(r, e) \/ RemoveFind(r, e) \/ ViewFind(r, e)
    \/ \E e \in Event, operation \in {"add", "view"} : Missing(r, operation, e)
    \/ \E w \in Consents : ConsentFind(r, w)

Asked(r) ==
    CASE op[r] = "consent" -> {c \in Channel : wish[r][c] # NULL}
      [] op[r] \in {"add", "remove"} -> {"favorite"}
      [] op[r] \in {"view", NULL} -> {}

\* What r asks for and the row now has.
Met(r) ==
    {x \in Asked(r) :
        /\ user # NULL
        /\ IF x = "favorite" THEN event[r] \in Range(user.favorites) <=> op[r] = "add"
           ELSE user.consent[x] = wish[r][x]}

Remember ==
    met' = [r \in Request |-> IF pc'[r] \in {"loaded", "updated", "committed"}
                              THEN met[r] \union Met(r)' ELSE {}]

Next ==
    /\ \/ \E r \in Request :
             \/ Arrival(r) \/ Abort(r)
             \/ ConsentUnchanged(r) \/ Update(r) \/ UpdateCommit(r) \/ Refresh(r)
             \/ Increment(r) \/ IncrementCommit(r)
       \/ AccountDeleted
    /\ Remember

Spec == Init /\ [][Next]_vars

-----------------------------------------------------------------------------
(* Properties                                                              *)

TypeOK ==
    /\ user \in Row \union {NULL}
    /\ popularity \in [Known -> 0..Cardinality(Request)]
    /\ userLock \in Request \union {NULL}
    /\ eventLock \in [Known -> Request \union {NULL}]
    /\ \A r \in Request : pc[r] \in {"new", "loaded", "updated", "committed", "ok",
                                     "missing", "error", "aborted"}
    /\ met \in [Request -> SUBSET (Channel \union {"favorite"})]

\* add_favorite ignores duplicates, also those that another request adds
\* while it waits.
NoDuplicateFavorites == user # NULL => IsInjective(user.favorites)

\* The tables hold rows of their types, and no favorite twice.
Consistent == TypeOK /\ NoDuplicateFavorites

\* "two concurrent requests cannot overwrite each other": a step changes the
\* favorites in one event only, and leaves the others and their order alone.
FavoritesDoNotOverwrite ==
    [][user # NULL /\ user' # NULL =>
          \/ user'.favorites = user.favorites
          \/ \E r \in Request :
                /\ op[r] \in {"add", "remove"} /\ pc'[r] = "committed"
                /\ Without(user'.favorites, event[r]) = Without(user.favorites, event[r])]_vars

\* Email and push consents are independent: a consent or the time it was
\* updated changes only by a request that supplied that channel, whatever
\* the others do meanwhile.
ChannelsIndependent ==
    [][user # NULL /\ user' # NULL =>
          \A c \in Channel :
              \/ user'.consent[c] = user.consent[c] /\ user'.updated[c] = user.updated[c]
              \/ \E r \in Request : /\ pc[r] = "updated" /\ pc'[r] = "committed"
                                    /\ wish[r][c] # NULL /\ user'.consent[c] = wish[r][c]]_vars

\* A request that succeeds has had its effect: what it asked for has been so at
\* some time between its load and its answer, also if another request for the
\* opposite or the deletion of the account came in between.
AnsweredAsAsked ==
    [][\A r \in Request :
          pc[r] \in {"loaded", "committed"} /\ pc'[r] = "ok" => Asked(r) \subseteq met[r]]_vars

\* Every view of an event that was answered is counted, once.
EveryViewCounted ==
    \A e \in Known :
        popularity[e] = Cardinality({r \in Request : op[r] = "view" /\ event[r] = e
                                                     /\ pc[r] = "ok"})

=============================================================================

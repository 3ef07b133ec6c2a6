---------------------------- MODULE MCEventQuery ----------------------------
(* EventQuery with rows and parameters for the model checker.              *)
EXTENDS EventQuery, TLC

\* Days of four ticks; the clocks go back in the second, from 7 to 5.
LocalTimes == 0 :> 3 @@ 1 :> 6 @@ 2 :> 5 @@ 3 :> 6 @@ 4 :> 9

Times == 2..9

PlainRow ==
    [start |-> 4, end |-> NULL, price_from |-> NULL, price_to |-> NULL, ticket_url |-> NULL,
     ticket_purchase_note |-> NULL, description |-> NULL, title |-> {}, city |-> NULL,
     address |-> NULL, category |-> NULL, popularity |-> 0]

PlainQuery ==
    [restrict |-> NULL, category |-> NULL, location |-> {}, start_date |-> NULL,
     end_date |-> NULL, search |-> NULL, status |-> NULL, hide_expired |-> FALSE,
     price_from |-> NULL, price_to |-> NULL, free |-> FALSE,
     order_by |-> "startTime", direction |-> NULL, page_size |-> 1]

\* Every combination of the columns that date filters look at,
DatedRows == {[PlainRow EXCEPT !.start = s, !.end = e] : s, e \in Times \union {NULL}}

DateQueries ==
    {[PlainQuery EXCEPT !.start_date = s, !.end_date = e, !.status = x, !.hide_expired = h] :
        s, e \in {NULL, 4, 6, 7}, x \in {NULL, "upcoming", "past"}, h \in BOOLEAN}

\* of those that prices, text and the rule for free events look at,
PricedRows ==
    {[PlainRow EXCEPT !.price_from = p, !.price_to = q, !.ticket_url = u,
                      !.ticket_purchase_note = n, !.description = d] :
        p, q \in {NULL, 0, 5}, u, n \in {NULL, {}, {"text"}}, d \in {NULL, {}, {"kaina"}}}

\* and a few rows that tie, or differ in what decides their order.
ListedRows ==
    {PlainRow,
     [PlainRow EXCEPT !.start = NULL],
     [PlainRow EXCEPT !.start = 2, !.end = 9, !.popularity = 2],
     [PlainRow EXCEPT !.start = 5, !.price_from = 5, !.city = {"Vilnius"}],
     [PlainRow EXCEPT !.end = 6, !.price_from = 0, !.ticket_url = {"text"},
                      !.address = {"Vilnius"}],
     [PlainRow EXCEPT !.price_to = 5, !.category = "music", !.title = {"jazz"},
                      !.popularity = 2]}

\* What a client may ask that has nothing to do with time,
ListQueries ==
    {[PlainQuery EXCEPT !.order_by = o, !.direction = d, !.page_size = n] :
        o \in {"startTime", "popularityCounter", "price"}, d \in {"ASC", "DESC"},
        n \in {1, 2}}
    \union
    {[PlainQuery EXCEPT !.order_by = "price", !.direction = d, !.price_from = p, !.price_to = 5] :
        d \in {"ASC", "DESC"}, p \in {NULL, 0, 5}}
    \union
    {[PlainQuery EXCEPT !.category = "music"], [PlainQuery EXCEPT !.search = "jazz"],
     [PlainQuery EXCEPT !.location = {"Vilnius", "Kaunas"}],
     [PlainQuery EXCEPT !.restrict = {1, 3}], [PlainQuery EXCEPT !.restrict = {}],
     [PlainQuery EXCEPT !.free = TRUE]}

\* and what changes while it reads.
StatusQueries ==
    {[PlainQuery EXCEPT !.status = x, !.hide_expired = (x = NULL), !.page_size = n] :
        x \in {"upcoming", "past", NULL}, n \in {1, 2}}

From(instant, catalogues, queries) ==
    {[catalogue |-> c, query |-> q, now |-> instant] : c \in catalogues, q \in queries}

OneOf(rows) == {<<row>> : row \in rows}

Lists ==
    From(0, OneOf(DatedRows), DateQueries)
    \union From(MaxInstant, [1..3 -> ListedRows], ListQueries)
    \union From(0, [1..3 -> ListedRows], StatusQueries)

Prices == From(0, OneOf(PricedRows), {PlainQuery})

=============================================================================

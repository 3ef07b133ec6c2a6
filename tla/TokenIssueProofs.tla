-------------------------- MODULE TokenIssueProofs --------------------------
(***************************************************************************)
(* Theorems about TokenIssue for every set of requests and workers and all *)
(* durations.                                                              *)
(*                                                                         *)
(* The inductive invariant says, for each place in a transaction, which    *)
(* rows it has locked or is about to insert, and that links and accounts   *)
(* have names that were never used before.                                 *)
(***************************************************************************)
EXTENDS TokenIssue, TLAPS

Issuing(r) == pc[r] \in {"found", "timed", "due", "scanned", "deleted"}

Inserting(r) == pc[r] = "inserted" /\ op[r] # "register"

\* What the label of a request says about its operation.
RunsItsOperation(r) ==
    /\ pc[r] = "free" => op[r] = "register"
    /\ Issuing(r) => op[r] \in {"resend", "forgot"}
    /\ pc[r] = "inserted" => op[r] \in {"register", "resend", "forgot"}
    /\ pc[r] \in {"locked", "used"} => op[r] \in {"confirm", "reset"}
    /\ pc[r] \in {"verified", "deleting"} => op[r] = "delete"

\* Accounts are named for the registrations that made them, links for these and
\* for the requests that issued them.
Born(id) == id = First \/ (id \in Request /\ op[id] = "register" /\ pc[id] = "ok")

Made(k, link) ==
    \/ link = First /\ k = "confirmation"
    \/ /\ link \in Request /\ pc[link] = "ok"
       /\ op[link] \in {"register", "resend", "forgot"} /\ KindOf(link) = k

\* A request keeps the name of an account that was there, confirmed if it asked
\* for that.
KnowsItsAccount(r) ==
    /\ pc[r] \in {"free", "inserted"} /\ op[r] = "register" => work[r].owner = r
    /\ Issuing(r) \/ Inserting(r) =>
          /\ work[r].owner \in Id
          /\ Born(work[r].owner)
          /\ op[r] = "forgot" /\ user # NULL /\ user.id = work[r].owner => user.verified
    /\ work[r].clock <= now

\* The link there was when the request came is, if it is still there, one of its
\* account, and past its cooldown if the request has looked.
KnowsTheLink(r) ==
    (Issuing(r) \/ Inserting(r)) /\ work[r].had # NULL =>
        LET row == tokens[KindOf(r)]
        IN  /\ Made(KindOf(r), work[r].had)
            /\ row # NULL /\ row.id = work[r].had =>
                  /\ row.user = work[r].owner
                  /\ pc[r] \notin {"found", "timed"} => row.created + Cooldown <= work[r].clock

\* From its INSERT to its commit, a request keeps others from inserting, its
\* account from going, and has locked the link that it replaces.
HoldsItsInsert(r) ==
    /\ pc[r] = "inserted" /\ op[r] = "register" => creating = r
    /\ Inserting(r) =>
          /\ inserting[KindOf(r)] = r
          /\ userLock[r] = "share" /\ user # NULL /\ user.id = work[r].owner
          /\ tokens[KindOf(r)] # NULL => tokenLock[KindOf(r)] = r

\* A link in use is locked and stays what it was.
HoldsItsLink(r) ==
    /\ pc[r] \in {"locked", "used"} =>
          /\ tokenLock[KindOf(r)] = r
          /\ tokens[KindOf(r)] # NULL /\ tokens[KindOf(r)].id = given[r]
    /\ pc[r] = "used" => userLock[r] = "write"
    /\ pc[r] = "deleting" => userLock[r] = "exclusive" /\ user # NULL

InPlace(r) ==
    /\ RunsItsOperation(r)
    /\ KnowsItsAccount(r)
    /\ KnowsTheLink(r)
    /\ HoldsItsInsert(r)
    /\ HoldsItsLink(r)

EachInPlace == \A r \in Request : InPlace(r)

UserLocksCompatible ==
    \A q, r \in Request : q # r =>
        /\ userLock[r] = "exclusive" => userLock[q] = "none"
        /\ userLock[r] = "write" => userLock[q] \in {"none", "share"}

LockedTokensExist == \A k \in Kind : tokenLock[k] # NULL => tokens[k] # NULL

CreatesTheOnlyUser == creating # NULL => user = NULL

RowsAreMade ==
    /\ user # NULL => Born(user.id)
    /\ \A k \in Kind : tokens[k] # NULL => Made(k, tokens[k].id)

Inv ==
    /\ Consistent
    /\ LinkAndEmailTogether
    /\ EachInPlace
    /\ UserLocksCompatible
    /\ LockedTokensExist
    /\ CreatesTheOnlyUser
    /\ RowsAreMade

-----------------------------------------------------------------------------
USE DEF outbox, rows, locks

LEMMA Names ==
  /\ NULL \notin Id /\ NULL \notin Request /\ First \notin Request
  /\ First \in Id /\ Request \subseteq Id
  /\ NULL \notin UserRow /\ NULL \notin TokenRow
  /\ Cooldown \in Nat /\ Lifetime \in Nat /\ MaxTime \in Nat
  BY NullAssumption, DurationAssumption DEF Id

USE Names

LEMMA Kinds ==
  ASSUME NEW operation
  PROVE  KindFor(operation) \in Kind
  BY DEF Kind, KindFor

-----------------------------------------------------------------------------
(* What a step of one request leaves to the others.                        *)

\* The others keep their local variables and their locks.
OthersStay(r) ==
    /\ pc[r] # "ok"
    /\ UNCHANGED now
    /\ \A q \in Request \ {r} :
          /\ pc'[q] = pc[q] /\ op'[q] = op[q] /\ given'[q] = given[q] /\ work'[q] = work[q]
          /\ userLock'[q] = userLock[q]
          /\ creating = q => creating' = q
          /\ \A k \in Kind : /\ tokenLock[k] = q => tokenLock'[k] = q
                             /\ inserting[k] = q => inserting'[k] = q

\* The rows keep what the locks of the others protect; accounts are confirmed
\* for good, and a new row has a new name.
RespectsLocks(r) ==
    /\ user' # NULL => \/ user # NULL /\ user'.id = user.id /\ (user.verified => user'.verified)
                       \/ user'.id = r
    /\ \A q \in Request \ {r} :
          userLock[q] # "none" /\ user # NULL => user' # NULL /\ user'.id = user.id
    /\ \A k \in Kind :
          /\ tokens'[k] = tokens[k] \/ tokens'[k] = NULL \/ tokens'[k].id = r
          /\ tokenLock[k] \in Request \ {r} => tokens'[k] = tokens[k]
          /\ inserting[k] \in Request \ {r} /\ user # NULL /\ tokens[k] = NULL => tokens'[k] = NULL

LEMMA NamesStay ==
  ASSUME NEW r \in Request, OthersStay(r), NEW x, NEW k \in Kind
  PROVE  /\ Born(x) => Born(x)' /\ x # r
         /\ Made(k, x) => Made(k, x)' /\ x # r
  BY DEF OthersStay, Born, Made, KindOf

LEMMA OthersInPlace ==
  ASSUME Inv, NEW r \in Request, OthersStay(r), RespectsLocks(r), TypeOK',
         NEW q \in Request \ {r}
  PROVE  InPlace(q)'
  <1>1. InPlace(q) /\ TypeOK /\ KindOf(q) \in Kind /\ KindOf(q)' = KindOf(q)
    BY Kinds DEF Inv, Consistent, EachInPlace, KindOf, OthersStay
  <1> USE DEF OthersStay, InPlace
  <1>2. RunsItsOperation(q)'
    BY <1>1 DEF RunsItsOperation, Issuing
  <1>3. KnowsItsAccount(q)'
    <2>1. Born(work[q].owner) => Born(work[q].owner)' /\ work[q].owner # r
      BY NamesStay, <1>1
    <2>2. work'[q] = work[q] /\ now' = now /\ pc'[q] = pc[q] /\ op'[q] = op[q]
      OBVIOUS
    <2> QED
      BY <1>1, <2>1, <2>2 DEF KnowsItsAccount, Issuing, Inserting, RespectsLocks
  <1>4. KnowsTheLink(q)'
    <2>1. Made(KindOf(q), work[q].had) => Made(KindOf(q), work[q].had)' /\ work[q].had # r
      BY NamesStay, <1>1
    <2> QED
      BY <1>1, <2>1 DEF KnowsTheLink, Issuing, Inserting, RespectsLocks
  <1>5. HoldsItsInsert(q)'
    BY <1>1 DEF HoldsItsInsert, Inserting, RespectsLocks
  <1>6. HoldsItsLink(q)'
    BY <1>1 DEF HoldsItsLink, RespectsLocks
  <1> QED
    BY <1>2, <1>3, <1>4, <1>5, <1>6

\* A step of r that writes no row, takes locks that are free, and is not the
\* success of a registration.
Quiet(r) ==
    /\ OthersStay(r)
    /\ UNCHANGED rows
    /\ pc'[r] = "ok" => op'[r] # "register"
    /\ \A k \in Kind :
          \/ tokenLock'[k] \in {tokenLock[k], NULL}
          \/ tokenLock'[k] = r /\ tokens[k] # NULL
    /\ \/ userLock'[r] \in {userLock[r], "none"}
       \/ userLock'[r] = "share" /\ ~HeldByOthers(r, {"exclusive"})
       \/ userLock'[r] = "write" /\ ~HeldByOthers(r, {"write", "exclusive"})
       \/ userLock'[r] = "exclusive" /\ ~HeldByOthers(r, {"share", "write", "exclusive"})
    /\ creating' \in {creating, NULL} \/ user = NULL

LEMMA QuietInv ==
  ASSUME Inv, NEW r \in Request, Quiet(r), TypeOK', InPlace(r)'
  PROVE  Inv'
  <1> USE DEF Inv, Consistent
  <1>1. OthersStay(r) /\ UNCHANGED rows
    BY DEF Quiet
  <1>2. RespectsLocks(r)
    BY <1>1 DEF RespectsLocks
  <1>3. EachInPlace'
    BY <1>1, <1>2, OthersInPlace DEF EachInPlace
  <1>4. UserLocksCompatible'
    <2>1. UserLocksCompatible /\ \A q \in Request \ {r} : userLock'[q] = userLock[q]
      BY <1>1 DEF OthersStay
    <2>2. \A q \in Request : userLock[q] \in {"none", "share", "write", "exclusive"}
      BY DEF TypeOK
    <2>3. ASSUME NEW q \in Request \ {r}
          PROVE  /\ userLock'[r] = "exclusive" => userLock[q] = "none"
                 /\ userLock[q] = "exclusive" => userLock'[r] = "none"
                 /\ userLock'[r] = "write" => userLock[q] \in {"none", "share"}
                 /\ userLock[q] = "write" => userLock'[r] \in {"none", "share"}
      BY <2>1, <2>2 DEF Quiet, UserLocksCompatible, HeldByOthers
    <2> QED
      BY <2>1, <2>3 DEF UserLocksCompatible
  <1>5. LockedTokensExist' /\ CreatesTheOnlyUser'
    BY <1>1 DEF Quiet, LockedTokensExist, CreatesTheOnlyUser
  <1>6. RowsAreMade'
    <2>1. ASSUME user' # NULL
          PROVE  Born(user.id)'
      BY <1>1, <2>1, NamesStay DEF RowsAreMade, Kind
    <2>2. ASSUME NEW k \in Kind, tokens'[k] # NULL
          PROVE  Made(k, tokens[k].id)'
      BY <1>1, <2>2, NamesStay DEF RowsAreMade
    <2> QED
      BY <2>1, <2>2 DEF RowsAreMade
  <1>7. TokensOfTheAccount' /\ ResetLinksOnlyForVerified' /\ UnverifiedCanConfirm'
    BY <1>1 DEF TokensOfTheAccount, ResetLinksOnlyForVerified, UnverifiedCanConfirm, IsOf
  <1>8. LinkAndEmailTogether'
    BY <1>1 DEF LinkAndEmailTogether, Live
  <1> HIDE DEF Inv
  <1> QED
    BY <1>3, <1>4, <1>5, <1>6, <1>7, <1>8 DEF Inv

-----------------------------------------------------------------------------
(* Steps that write no row.                                                *)

\* What the end of a transaction leaves.
Released(r) ==
    /\ pc[r] # "ok" => OthersStay(r)
    /\ userLock'[r] = "none" /\ work'[r] = NoWork
    /\ creating' \in {creating, NULL} /\ creating' # r
    /\ \A k \in Kind :
          /\ tokenLock'[k] # r /\ tokenLock'[k] \in {tokenLock[k], NULL}
          /\ inserting'[k] # r /\ inserting'[k] \in {inserting[k], NULL}

\* What TypeOK says of what a request changes at its end.
TypesAtTheEnd ==
    /\ userLock \in [Request -> {"none", "share", "write", "exclusive"}]
    /\ tokenLock \in [Kind -> Request \union {NULL}]
    /\ inserting \in [Kind -> Request \union {NULL}]
    /\ creating \in Request \union {NULL}
    /\ pc \in [Request -> {"new", "free", "found", "timed", "due", "scanned", "deleted", "inserted",
                           "locked", "used", "verified", "deleting", "ok", "conflict",
                           "unavailable", "rejected", "error", "aborted"}]
    /\ work \in [Request -> [owner : Id \union {NULL}, started : Time, clock : Time,
                             target : Id \union {NULL}, had : Id \union {NULL}]]
    /\ now \in Time

Verdict == {"ok", "conflict", "unavailable", "rejected", "error", "aborted"}

LEMMA AnswerFacts ==
  ASSUME TypeOK, NEW r \in Request, NEW label \in Verdict, Answer(r, label),
         \A q \in Request \ {r} : op'[q] = op[q] /\ given'[q] = given[q]
  PROVE  TypesAtTheEnd' /\ Released(r)
  <1> USE DEF Answer, Goto, Local, TypeOK
  <1>1. NoWork \in [owner : Id \union {NULL}, started : Time, clock : Time,
                    target : Id \union {NULL}, had : Id \union {NULL}]
    BY DEF NoWork, Time
  <1>2. TypesAtTheEnd'
    BY <1>1 DEF TypesAtTheEnd, Verdict
  <1>3. Released(r)
    BY DEF Released, OthersStay
  <1> QED
    BY <1>2, <1>3

\* An answer without a commit, from any place in a transaction.
LEMMA AnswerInv ==
  ASSUME Inv, NEW r \in Request, NEW label \in Verdict, Answer(r, label), UNCHANGED rows,
         pc[r] \notin Verdict, label = "ok" => op'[r] # "register",
         TypeOK => op' \in [Request -> {"register", "resend", "forgot", "confirm", "reset", "delete", NULL}]
                   /\ given' \in [Request -> Id \union {NULL}],
         \A q \in Request \ {r} : op'[q] = op[q] /\ given'[q] = given[q]
  PROVE  Inv'
  <1>1. TypesAtTheEnd' /\ Released(r) /\ TypeOK
    BY AnswerFacts DEF Inv, Consistent
  <1>2. TypeOK'
    BY <1>1 DEF TypesAtTheEnd, TypeOK
  <1>3. Quiet(r)
    BY <1>1 DEF Quiet, Released, Answer, Goto, TypeOK, Verdict
  <1>4. InPlace(r)'
    BY <1>1, <1>2 DEF InPlace, RunsItsOperation, KnowsItsAccount, Issuing, Inserting, KnowsTheLink,
       HoldsItsInsert, HoldsItsLink, Released, NoWork, Answer, Goto, TypeOK, Verdict, Time
  <1> QED
    BY <1>2, <1>3, <1>4, QuietInv

Operation == {"register", "resend", "forgot", "confirm", "reset", "delete"}

LEMMA ArriveFacts ==
  ASSUME TypeOK, NEW r \in Request, NEW operation \in Operation, NEW link \in Id \union {NULL},
         Arrive(r, operation, link)
  PROVE  /\ pc[r] = "new" /\ op'[r] = operation /\ given'[r] = link /\ UNCHANGED rows
         /\ op' \in [Request -> Operation \union {NULL}] /\ given' \in [Request -> Id \union {NULL}]
         /\ \A q \in Request \ {r} : op'[q] = op[q] /\ given'[q] = given[q]
         /\ KindOf(r)' = KindFor(operation)
  BY DEF TypeOK, Arrive, KindOf, Operation

LEMMA ArriveAnswerInv ==
  ASSUME Inv, NEW r \in Request, NEW operation \in Operation, NEW link \in Id \union {NULL},
         Arrive(r, operation, link), NEW label \in Verdict, Answer(r, label),
         label = "ok" => operation # "register"
  PROVE  Inv'
  <1>1. TypeOK
    BY DEF Inv, Consistent
  <1> QED
    BY <1>1, ArriveFacts, AnswerInv DEF Operation, Verdict

LEMMA LaterAnswerInv ==
  ASSUME Inv, NEW r \in Request, Running(r), UNCHANGED <<rows, op, given>>,
         NEW label \in Verdict, Answer(r, label), label = "ok" => op[r] # "register"
  PROVE  Inv'
  <1>1. TypeOK /\ op'[r] = op[r]
    BY DEF Inv, Consistent
  <1> QED
    BY <1>1, AnswerInv DEF Verdict, Running, TypeOK

Place == {"free", "found", "timed", "due", "scanned", "deleted", "inserted", "locked", "used",
          "verified", "deleting"}

Work == [owner : Id \union {NULL}, started : Time, clock : Time,
         target : Id \union {NULL}, had : Id \union {NULL}]

\* A step of r to another place of its transaction that takes no lock.
LEMMA WalkFacts ==
  ASSUME TypeOK, NEW r \in Request, NEW label \in Place, NEW w \in Work, pc[r] # "ok",
         Goto(r, label), Local(r, w), UNCHANGED <<rows, locks, now>>,
         op' \in [Request -> Operation \union {NULL}], given' \in [Request -> Id \union {NULL}],
         \A q \in Request \ {r} : op'[q] = op[q] /\ given'[q] = given[q]
  PROVE  /\ TypeOK' /\ Quiet(r) /\ OthersStay(r)
         /\ pc'[r] = label /\ work'[r] = w
  <1> USE DEF TypeOK, Goto, Local, Place
  <1>1. pc'[r] = label /\ work'[r] = w
    OBVIOUS
  <1>2. TypeOK'
    BY DEF Operation, Work
  <1>3. OthersStay(r)
    BY DEF OthersStay
  <1>4. Quiet(r)
    BY <1>1, <1>3 DEF Quiet
  <1> QED
    BY <1>1, <1>2, <1>3, <1>4

LEMMA UpdatedNoWork ==
  ASSUME NEW id, NEW time, NEW had
  PROVE  /\ [NoWork EXCEPT !.owner = id, !.started = time, !.had = had] =
              [owner |-> id, started |-> time, clock |-> 0, target |-> NULL, had |-> had]
         /\ [NoWork EXCEPT !.owner = id, !.started = time] =
              [owner |-> id, started |-> time, clock |-> 0, target |-> NULL, had |-> NULL]
  <1>1. ASSUME NEW w, w = [NoWork EXCEPT !.owner = id, !.started = time, !.had = had]
        PROVE  w = [owner |-> id, started |-> time, clock |-> 0, target |-> NULL, had |-> had]
    BY <1>1 DEF NoWork
  <1>2. ASSUME NEW w, w = [NoWork EXCEPT !.owner = id, !.started = time]
        PROVE  w = [owner |-> id, started |-> time, clock |-> 0, target |-> NULL, had |-> NULL]
    BY <1>2 DEF NoWork
  <1> QED
    BY <1>1, <1>2

LEMMA NewWork ==
  ASSUME TypeOK, NEW id \in Id, NEW had \in Id \union {NULL},
         NEW w, w = [owner |-> id, started |-> now, clock |-> 0, target |-> NULL, had |-> had]
  PROVE  /\ w \in Work /\ w.owner = id /\ w.clock = 0 /\ w.had = had
  <1>1. now \in Time /\ 0 \in Time
    BY DEF TypeOK, Time
  <1> QED
    BY <1>1 DEF Work

LEMMA ChangedWork ==
  ASSUME TypeOK, NEW r \in Request, NEW w
  PROVE  /\ w = [work[r] EXCEPT !.clock = now] =>
              /\ w \in Work /\ w.owner = work[r].owner /\ w.had = work[r].had
              /\ w.clock = now
         /\ \A id \in Id \union {NULL} : w = [work[r] EXCEPT !.target = id] =>
              /\ w \in Work /\ w.owner = work[r].owner /\ w.had = work[r].had
              /\ w.clock = work[r].clock
  <1>1. work[r] \in Work /\ now \in Time
    BY DEF TypeOK, Work
  <1> QED
    BY <1>1 DEF Work

LEMMA RegisterFindInv ==
  ASSUME Inv, NEW r \in Request, RegisterFind(r)
  PROVE  Inv'
  <1>1. TypeOK /\ Arrive(r, "register", NULL)
    BY DEF Inv, Consistent, RegisterFind
  <1>2. CASE user # NULL
    BY <1>1, <1>2, ArriveAnswerInv DEF RegisterFind, Operation, Verdict
  <1>3. CASE user = NULL
    <2>0. PICK w : w = [owner |-> r, started |-> now, clock |-> 0, target |-> NULL, had |-> NULL]
      OBVIOUS
    <2>1. w \in Work /\ w.owner = r /\ w.clock = 0 /\ w.had = NULL
      BY <1>1, <2>0, NewWork
    <2>a. w = [NoWork EXCEPT !.owner = r, !.started = now]
      BY <2>0, UpdatedNoWork
    <2>2. Goto(r, "free") /\ Local(r, w) /\ UNCHANGED <<locks, now>>
      BY <1>3, <2>a DEF RegisterFind
    <2>3. /\ TypeOK' /\ Quiet(r) /\ pc'[r] = "free" /\ work'[r] = w /\ op'[r] = "register"
      BY <1>1, <2>1, <2>2, ArriveFacts, WalkFacts DEF Operation, Place
    <2>4. InPlace(r)'
      BY <2>1, <2>3 DEF InPlace, RunsItsOperation, KnowsItsAccount, Issuing, Inserting, KnowsTheLink,
         HoldsItsInsert, HoldsItsLink, TypeOK, Time
    <2> QED
      BY <2>3, <2>4, QuietInv
  <1> QED
    BY <1>2, <1>3

LEMMA TermsMissingInv ==
  ASSUME Inv, NEW r \in Request, TermsMissing(r)
  PROVE  Inv'
  BY ArriveAnswerInv DEF TermsMissing, Operation, Verdict

LEMMA RegisterInsertInv ==
  ASSUME Inv, NEW r \in Request, RegisterInsert(r)
  PROVE  Inv'
  <1>1. TypeOK /\ pc[r] = "free" /\ InPlace(r)
    BY DEF Inv, Consistent, RegisterInsert, EachInPlace
  <1>2. CASE user # NULL
    BY <1>1, <1>2, LaterAnswerInv DEF RegisterInsert, Running, Verdict
  <1>3. CASE user = NULL
    <2> PICK w : w = [work[r] EXCEPT !.clock = now]
      OBVIOUS
    <2>1. /\ w \in Work /\ w.owner = work[r].owner /\ w.clock = now
      BY <1>1, ChangedWork
    <2>2. /\ creating = NULL /\ creating' = r /\ Goto(r, "inserted") /\ Local(r, w)
          /\ UNCHANGED <<userLock, tokenLock, inserting, now, rows, op, given>>
      BY <1>3 DEF RegisterInsert
    <2>3. TypeOK' /\ pc'[r] = "inserted" /\ work'[r] = w
      BY <1>1, <2>1, <2>2 DEF TypeOK, Goto, Local, Work
    <2>4. Quiet(r)
      BY <1>1, <1>3, <2>2, <2>3 DEF Quiet, OthersStay, Goto, Local, TypeOK
    <2>5. op[r] = "register" /\ work[r].owner = r
      BY <1>1 DEF InPlace, RunsItsOperation, KnowsItsAccount
    <2>6. InPlace(r)'
      BY <1>1, <2>1, <2>2, <2>3, <2>5 DEF InPlace, RunsItsOperation, KnowsItsAccount, Issuing,
         Inserting, KnowsTheLink, HoldsItsInsert, HoldsItsLink, TypeOK, Time
    <2> QED
      BY <2>3, <2>4, <2>6, QuietInv
  <1> QED
    BY <1>2, <1>3

LEMMA IssueFindInv ==
  ASSUME Inv, NEW r \in Request, NEW operation \in {"resend", "forgot"}, IssueFind(r, operation)
  PROVE  Inv'
  <1> DEFINE k == KindFor(operation)
  <1>1. TypeOK /\ Arrive(r, operation, NULL) /\ k \in Kind
    BY Kinds DEF Inv, Consistent, IssueFind
  <1>2. CASE ~(user # NULL /\ user.verified = (operation = "forgot"))
    BY <1>1, <1>2, ArriveAnswerInv DEF IssueFind, Operation, Verdict
  <1>3. CASE user # NULL /\ user.verified = (operation = "forgot")
    <2>1. user.id \in Id /\ (operation = "forgot" => user.verified)
      BY <1>1, <1>3 DEF TypeOK, UserRow
    <2>2. PICK had \in Id \union {NULL} :
             had = IF IsOf(k, user.id) THEN tokens[k].id ELSE NULL
      BY <1>1 DEF TypeOK, TokenRow, IsOf
    <2>0. PICK w : w = [owner |-> user.id, started |-> now, clock |-> 0, target |-> NULL, had |-> had]
      OBVIOUS
    <2>3. /\ w \in Work /\ w.owner = user.id /\ w.clock = 0 /\ w.had = had
      BY <1>1, <2>0, <2>1, NewWork
    <2>a. w = [NoWork EXCEPT !.owner = user.id, !.started = now,
                !.had = IF IsOf(k, user.id) THEN tokens[k].id ELSE NULL]
      BY <2>0, <2>2, UpdatedNoWork
    <2>4. Goto(r, "found") /\ Local(r, w) /\ UNCHANGED <<locks, now>>
      BY <1>3, <2>a DEF IssueFind
    <2>5. /\ TypeOK' /\ Quiet(r) /\ OthersStay(r) /\ pc'[r] = "found" /\ work'[r] = w
          /\ op'[r] = operation /\ KindOf(r)' = k /\ UNCHANGED rows
      BY <1>1, <2>3, <2>4, ArriveFacts, WalkFacts DEF Operation, Place
    <2>6. RunsItsOperation(r)' /\ HoldsItsInsert(r)' /\ HoldsItsLink(r)'
      BY <2>5 DEF RunsItsOperation, Issuing, Inserting, HoldsItsInsert, HoldsItsLink
    <2>7. KnowsItsAccount(r)'
      <3>1. Born(user.id)'
        BY <1>3, <2>5, NamesStay, <1>1 DEF Inv, RowsAreMade
      <3>2. Born(work[r].owner)'
        BY <3>1, <2>3, <2>5 DEF Born
      <3> QED
        BY <1>1, <2>1, <2>3, <2>5, <3>2 DEF KnowsItsAccount, Issuing, Inserting, TypeOK, Time
    <2>8. KnowsTheLink(r)'
      <3>1. CASE w.had = NULL
        BY <3>1, <2>5 DEF KnowsTheLink
      <3>2. CASE w.had # NULL
        <4>1. tokens[k] # NULL /\ tokens[k].user = user.id /\ w.had = tokens[k].id
          BY <3>2, <2>2, <2>3 DEF IsOf
        <4>2. Made(k, tokens[k].id)'
          BY <1>1, <4>1, <2>5, NamesStay DEF Inv, RowsAreMade
        <4>3. Made(KindOf(r), work[r].had)'
          BY <4>1, <4>2, <2>5 DEF Made
        <4> QED
          BY <4>1, <4>3, <2>3, <2>5 DEF KnowsTheLink, Issuing, Inserting
      <3> QED
        BY <3>1, <3>2
    <2> QED
      BY <2>5, <2>6, <2>7, <2>8, QuietInv DEF InPlace
  <1> QED
    BY <1>2, <1>3

\* A step of an issuing request that leaves all but its clock and its target.
LEMMA IssueWalkInv ==
  ASSUME Inv, NEW r \in Request, pc[r] \in {"found", "timed", "due"}, UNCHANGED <<op, given>>,
         NEW label \in {"timed", "due", "scanned"}, NEW w \in Work,
         Goto(r, label), Local(r, w), UNCHANGED <<rows, locks, now>>,
         w.owner = work[r].owner /\ w.had = work[r].had /\ w.clock \in {work[r].clock, now},
         label = "timed" \/ w.clock = work[r].clock,
         pc[r] = "found" => label = "timed",
         pc[r] = "timed" => label = "due" /\ ~(/\ IsOf(KindOf(r), work[r].owner)
                                               /\ tokens[KindOf(r)].created + Cooldown > work[r].clock)
  PROVE  Inv'
  <1>1. TypeOK /\ InPlace(r) /\ KindOf(r) \in Kind
    BY Kinds DEF Inv, Consistent, EachInPlace, KindOf
  <1>2. /\ TypeOK' /\ Quiet(r) /\ OthersStay(r) /\ pc'[r] = label /\ work'[r] = w
    BY <1>1, WalkFacts DEF Place, TypeOK, Operation
  <1>3. KindOf(r)' = KindOf(r) /\ op'[r] = op[r]
    BY DEF KindOf
  <1>4. RunsItsOperation(r)' /\ HoldsItsInsert(r)' /\ HoldsItsLink(r)'
    BY <1>1, <1>2, <1>3 DEF InPlace, RunsItsOperation, Issuing, Inserting, HoldsItsInsert, HoldsItsLink
  <1>5. KnowsItsAccount(r)'
    <2>1. work[r].owner \in Id /\ Born(work[r].owner)
      BY <1>1 DEF InPlace, KnowsItsAccount, Issuing
    <2>2. Born(work[r].owner)'
      BY <1>2, <2>1 DEF Born, OthersStay
    <2>3. w.clock <= now /\ now \in Time
      BY <1>1 DEF InPlace, KnowsItsAccount, TypeOK, Time
    <2> QED
      BY <1>1, <1>2, <1>3, <2>1, <2>2, <2>3 DEF InPlace, KnowsItsAccount, Issuing, Inserting
  <1>6. KnowsTheLink(r)'
    <2>1. CASE w.had = NULL
      BY <2>1, <1>2 DEF KnowsTheLink
    <2>2. CASE w.had # NULL
      <3>1. Made(KindOf(r), work[r].had)
        BY <1>1, <2>2 DEF InPlace, KnowsTheLink, Issuing
      <3>2. Made(KindOf(r), work[r].had)'
        BY <1>1, <1>2, <1>3, <3>1 DEF Made, OthersStay, KindOf
      <3>3. PICK row : row = tokens[KindOf(r)]
        OBVIOUS
      <3>4. row # NULL => row.created \in Nat
        BY <1>1, <3>3 DEF TypeOK, TokenRow, Time
      <3>5. work[r].clock \in Nat
        BY <1>1 DEF TypeOK, Time
      <3>6. row # NULL /\ row.id = work[r].had =>
              /\ row.user = work[r].owner
              /\ label # "timed" => row.created + Cooldown <= w.clock
        BY <1>1, <2>2, <3>3, <3>4, <3>5 DEF InPlace, KnowsTheLink, Issuing, IsOf
      <3> QED
        BY <1>2, <1>3, <3>2, <3>3, <3>6 DEF KnowsTheLink
    <2> QED
      BY <2>1, <2>2
  <1> QED
    BY <1>2, <1>4, <1>5, <1>6, QuietInv DEF InPlace

LEMMA IssueClockInv ==
  ASSUME Inv, NEW r \in Request, IssueClock(r)
  PROVE  Inv'
  <1> PICK w : w = [work[r] EXCEPT !.clock = now]
    OBVIOUS
  <1>1. /\ w \in Work /\ w.owner = work[r].owner /\ w.had = work[r].had /\ w.clock = now
    BY ChangedWork DEF Inv, Consistent
  <1>2. /\ pc[r] = "found" /\ Goto(r, "timed") /\ Local(r, w)
        /\ UNCHANGED <<rows, locks, op, given, now>>
    BY DEF IssueClock
  <1> QED
    BY <1>1, <1>2, IssueWalkInv

LEMMA IssueCooldownInv ==
  ASSUME Inv, NEW r \in Request, IssueCooldown(r)
  PROVE  Inv'
  <1>1. TypeOK /\ pc[r] = "timed" /\ UNCHANGED <<rows, op, given>> /\ op[r] \in {"resend", "forgot"}
    BY DEF Inv, Consistent, IssueCooldown, EachInPlace, InPlace, RunsItsOperation, Issuing
  <1>2. CASE IsOf(KindOf(r), work[r].owner)
             /\ tokens[KindOf(r)].created + Cooldown > work[r].clock
    BY <1>1, <1>2, LaterAnswerInv DEF IssueCooldown, Running, Verdict
  <1>3. CASE ~(/\ IsOf(KindOf(r), work[r].owner)
               /\ tokens[KindOf(r)].created + Cooldown > work[r].clock)
    <2>1. Goto(r, "due") /\ UNCHANGED <<locks, work, now>>
      BY <1>3 DEF IssueCooldown
    <2>2. work[r] \in Work /\ Local(r, work[r])
      BY <1>1, <2>1 DEF Local, Work, TypeOK
    <2> QED
      BY <1>1, <1>3, <2>1, <2>2, IssueWalkInv
  <1> QED
    BY <1>2, <1>3

LEMMA DeleteScanInv ==
  ASSUME Inv, NEW r \in Request, DeleteScan(r)
  PROVE  Inv'
  <1>1. TypeOK /\ KindOf(r) \in Kind
    BY Kinds DEF Inv, Consistent, KindOf
  <1>2. PICK id : id = IF IsOf(KindOf(r), work[r].owner) THEN tokens[KindOf(r)].id ELSE NULL
    OBVIOUS
  <1>3. id \in Id \union {NULL}
    BY <1>1, <1>2 DEF TypeOK, TokenRow, IsOf
  <1> PICK w : w = [work[r] EXCEPT !.target = id]
    OBVIOUS
  <1>4. /\ w \in Work /\ w.owner = work[r].owner /\ w.had = work[r].had /\ w.clock = work[r].clock
    BY <1>1, <1>3, ChangedWork
  <1>5. /\ pc[r] = "due" /\ Goto(r, "scanned") /\ Local(r, w)
        /\ UNCHANGED <<rows, locks, op, given, now>>
    BY <1>2 DEF DeleteScan
  <1> QED
    BY <1>4, <1>5, IssueWalkInv

\* What an issuing request that goes on to another statement keeps.
LEMMA IssueStays ==
  ASSUME Inv, NEW r \in Request, pc[r] \in {"scanned", "deleted"}, OthersStay(r),
         UNCHANGED <<rows, op, given, work>>, pc'[r] \in {"deleted", "inserted"}
  PROVE  RunsItsOperation(r)' /\ KnowsItsAccount(r)' /\ KnowsTheLink(r)' /\ HoldsItsLink(r)'
  <1>1. TypeOK /\ InPlace(r) /\ KindOf(r) \in Kind /\ KindOf(r)' = KindOf(r) /\ now' = now
    BY Kinds DEF Inv, Consistent, EachInPlace, KindOf, OthersStay
  <1>2. RunsItsOperation(r)' /\ HoldsItsLink(r)'
    BY <1>1 DEF InPlace, RunsItsOperation, Issuing, HoldsItsLink
  <1>3. KnowsItsAccount(r)'
    <2>1. work[r].owner \in Id /\ Born(work[r].owner)
      BY <1>1 DEF InPlace, KnowsItsAccount, Issuing
    <2>2. Born(work[r].owner)'
      BY <2>1 DEF Born, OthersStay
    <2> QED
      BY <1>1, <2>1, <2>2 DEF InPlace, RunsItsOperation, KnowsItsAccount, Issuing, Inserting
  <1>4. KnowsTheLink(r)'
    <2>1. Made(KindOf(r), work[r].had) => Made(KindOf(r), work[r].had)'
      BY <1>1, NamesStay DEF Made, OthersStay, KindOf
    <2> QED
      BY <1>1, <2>1 DEF InPlace, KnowsTheLink, Issuing, Inserting
  <1> QED
    BY <1>2, <1>3, <1>4

LEMMA DeleteLockInv ==
  ASSUME Inv, NEW r \in Request, DeleteLock(r)
  PROVE  Inv'
  <1> DEFINE k == KindOf(r)
             found == tokens[k] # NULL /\ tokens[k].id = work[r].target
  <1>1. /\ TypeOK /\ k \in Kind /\ pc[r] = "scanned" /\ Goto(r, "deleted")
        /\ found => tokenLock[k] = NULL
        /\ tokenLock' = IF found THEN [tokenLock EXCEPT ![k] = r] ELSE tokenLock
        /\ UNCHANGED <<rows, userLock, inserting, creating, op, given, work, now>>
    BY Kinds DEF Inv, Consistent, KindOf, DeleteLock
  <1> HIDE DEF k
  <1>2. pc'[r] = "deleted" /\ TypeOK'
    BY <1>1 DEF Goto, TypeOK
  <1>3. OthersStay(r)
    BY <1>1 DEF OthersStay, Goto, TypeOK
  <1>4. Quiet(r)
    BY <1>1, <1>2, <1>3 DEF Quiet, TypeOK
  <1>5. InPlace(r)'
    BY <1>1, <1>2, <1>3, IssueStays DEF InPlace, HoldsItsInsert, Inserting
  <1> QED
    BY <1>2, <1>4, <1>5, QuietInv

LEMMA IssueInsertInv ==
  ASSUME Inv, NEW r \in Request, IssueInsert(r)
  PROVE  Inv'
  <1> DEFINE k == KindOf(r)
             duplicate == IsOf(k, work[r].owner) /\ tokenLock[k] # r
             orphan == user = NULL \/ user.id # work[r].owner
  <1>1. /\ TypeOK /\ TokensOfTheAccount /\ k \in Kind /\ KindOf(r)' = k /\ pc[r] = "deleted"
        /\ ~UniqueUndecided(r, k) /\ ~HeldByOthers(r, {"exclusive"})
        /\ UNCHANGED <<rows, op, given>>
        /\ op[r] \in {"resend", "forgot"} /\ op'[r] = op[r]
    BY Kinds DEF Inv, Consistent, KindOf, IssueInsert, EachInPlace, InPlace, RunsItsOperation, Issuing
  <1>2. CASE duplicate \/ orphan
    BY <1>1, <1>2, LaterAnswerInv DEF IssueInsert, Running, Verdict
  <1>3. CASE ~(duplicate \/ orphan)
    <2>1. /\ inserting' = [inserting EXCEPT ![k] = r]
          /\ userLock' = [userLock EXCEPT ![r] = "share"]
          /\ Goto(r, "inserted") /\ UNCHANGED <<tokenLock, creating, work, now>>
      BY <1>3 DEF IssueInsert
    <2>2. tokens[k] # NULL => tokenLock[k] = r
      BY <1>1, <1>3 DEF TokensOfTheAccount, IsOf
    <2>3. inserting[k] = NULL
      BY <1>1 DEF UniqueUndecided
    <2> HIDE DEF k
    <2>4. pc'[r] = "inserted" /\ TypeOK' /\ userLock'[r] = "share" /\ inserting'[k] = r
      BY <1>1, <2>1 DEF Goto, TypeOK
    <2>5. OthersStay(r)
      BY <1>1, <2>1, <2>3 DEF OthersStay, Goto, TypeOK
    <2>6. Quiet(r)
      BY <1>1, <2>1, <2>4, <2>5 DEF Quiet
    <2>7. HoldsItsInsert(r)'
      BY <1>1, <1>3, <2>1, <2>2, <2>4 DEF HoldsItsInsert, Inserting
    <2>8. InPlace(r)'
      BY <1>1, <2>1, <2>4, <2>5, <2>7, IssueStays DEF InPlace
    <2> QED
      BY <2>4, <2>6, <2>8, QuietInv
  <1> QED
    BY <1>2, <1>3

LEMMA ConsumeLockInv ==
  ASSUME Inv, NEW r \in Request, NEW operation \in {"confirm", "reset"}, NEW link \in delivered,
         ConsumeLock(r, operation, link)
  PROVE  Inv'
  <1> DEFINE k == KindFor(operation)
             found == tokens[k] # NULL /\ tokens[k].id = link
  <1>1. TypeOK /\ Arrive(r, operation, link) /\ k \in Kind /\ link \in Id /\ InPlace(r)
        /\ (found => tokenLock[k] = NULL)
    BY Kinds DEF Inv, Consistent, ConsumeLock, TypeOK, EachInPlace
  <1>2. CASE ~(found /\ tokens[k].expires > now)
    BY <1>1, <1>2, ArriveAnswerInv DEF ConsumeLock, Operation, Verdict
  <1>3. CASE found /\ tokens[k].expires > now
    <2>1. /\ tokenLock' = [tokenLock EXCEPT ![k] = r] /\ Goto(r, "locked")
          /\ UNCHANGED <<userLock, inserting, creating, work, now>>
      BY <1>3 DEF ConsumeLock
    <2>2. /\ pc[r] = "new" /\ op'[r] = operation /\ given'[r] = link /\ UNCHANGED rows
          /\ op' \in [Request -> Operation \union {NULL}] /\ given' \in [Request -> Id \union {NULL}]
          /\ \A q \in Request \ {r} : op'[q] = op[q] /\ given'[q] = given[q]
          /\ KindOf(r)' = k
      BY <1>1, ArriveFacts DEF Operation
    <2> HIDE DEF k
    <2>3. pc'[r] = "locked" /\ TypeOK' /\ tokenLock'[k] = r
      BY <1>1, <2>1, <2>2 DEF Goto, TypeOK, Operation
    <2>4. OthersStay(r)
      BY <1>1, <1>3, <2>1, <2>2 DEF OthersStay, Goto, TypeOK
    <2>5. Quiet(r)
      BY <1>1, <1>3, <2>1, <2>2, <2>3, <2>4 DEF Quiet, TypeOK
    <2>6. InPlace(r)'
      BY <1>1, <1>3, <2>1, <2>2, <2>3 DEF InPlace, RunsItsOperation, KnowsItsAccount, Issuing,
         Inserting, KnowsTheLink, HoldsItsInsert, HoldsItsLink
    <2> QED
      BY <2>3, <2>5, <2>6, QuietInv
  <1> QED
    BY <1>2, <1>3

LEMMA ConsumeDeleteInv ==
  ASSUME Inv, NEW r \in Request, ConsumeDelete(r)
  PROVE  Inv'
  <1>1. /\ TypeOK /\ InPlace(r) /\ KindOf(r)' = KindOf(r) /\ pc[r] = "locked"
        /\ ~HeldByOthers(r, {"write", "exclusive"})
        /\ userLock' = [userLock EXCEPT ![r] = "write"] /\ Goto(r, "used")
        /\ UNCHANGED <<rows, tokenLock, inserting, creating, op, given, work, now>>
    BY DEF Inv, Consistent, KindOf, ConsumeDelete, EachInPlace
  <1>2. pc'[r] = "used" /\ TypeOK' /\ userLock'[r] = "write"
    BY <1>1 DEF Goto, TypeOK
  <1>3. Quiet(r)
    BY <1>1, <1>2 DEF Quiet, OthersStay, Goto, TypeOK
  <1>4. InPlace(r)'
    BY <1>1, <1>2 DEF InPlace, RunsItsOperation, KnowsItsAccount, Issuing,
       Inserting, KnowsTheLink, HoldsItsInsert, HoldsItsLink
  <1> QED
    BY <1>2, <1>3, <1>4, QuietInv

LEMMA DeleteFindInv ==
  ASSUME Inv, NEW r \in Request, DeleteFind(r)
  PROVE  Inv'
  <1> PICK w : w = [NoWork EXCEPT !.owner = user.id]
    OBVIOUS
  <1>1. /\ TypeOK /\ Arrive(r, "delete", NULL) /\ Goto(r, "verified") /\ Local(r, w)
        /\ UNCHANGED <<locks, now>> /\ user # NULL
    BY DEF Inv, Consistent, DeleteFind
  <1>2. w \in Work /\ w.clock = 0
    BY <1>1 DEF NoWork, Work, Time, TypeOK, UserRow
  <1>3. TypeOK' /\ Quiet(r) /\ pc'[r] = "verified" /\ work'[r] = w /\ op'[r] = "delete"
    BY <1>1, <1>2, ArriveFacts, WalkFacts DEF Operation, Place
  <1>4. InPlace(r)'
    BY <1>2, <1>3 DEF InPlace, RunsItsOperation, KnowsItsAccount, Issuing, Inserting, KnowsTheLink,
       HoldsItsInsert, HoldsItsLink, TypeOK, Time
  <1> QED
    BY <1>3, <1>4, QuietInv

LEMMA DeleteUserInv ==
  ASSUME Inv, NEW r \in Request, DeleteUser(r)
  PROVE  Inv'
  <1>1. /\ TypeOK /\ InPlace(r) /\ pc[r] = "verified" /\ UNCHANGED <<rows, op, given>>
        /\ ~HeldByOthers(r, {"share", "write", "exclusive"}) /\ op[r] = "delete"
    BY DEF Inv, Consistent, DeleteUser, EachInPlace, InPlace, RunsItsOperation
  <1>2. CASE user = NULL \/ user.id # work[r].owner
    BY <1>1, <1>2, LaterAnswerInv DEF DeleteUser, Running, Verdict
  <1>3. CASE ~(user = NULL \/ user.id # work[r].owner)
    <2>1. /\ userLock' = [userLock EXCEPT ![r] = "exclusive"] /\ Goto(r, "deleting")
          /\ UNCHANGED <<tokenLock, inserting, creating, work, now>>
      BY <1>3 DEF DeleteUser
    <2>2. pc'[r] = "deleting" /\ TypeOK' /\ userLock'[r] = "exclusive"
      BY <1>1, <2>1 DEF Goto, TypeOK
    <2>3. Quiet(r)
      BY <1>1, <2>1, <2>2 DEF Quiet, OthersStay, Goto, TypeOK
    <2>4. InPlace(r)'
      BY <1>1, <1>3, <2>1, <2>2 DEF InPlace, RunsItsOperation, KnowsItsAccount, Issuing,
         Inserting, KnowsTheLink, HoldsItsInsert, HoldsItsLink
    <2> QED
      BY <2>2, <2>3, <2>4, QuietInv
  <1> QED
    BY <1>2, <1>3

LEMMA AbortInv ==
  ASSUME Inv, NEW r \in Request, Abort(r)
  PROVE  Inv'
  BY LaterAnswerInv DEF Abort, Verdict

-----------------------------------------------------------------------------
(* Commits.                                                                *)

\* The two links are different.
LEMMA DistinctLinks ==
  ASSUME Inv, NEW j \in Kind, NEW k \in Kind, j # k, tokens[j] # NULL, tokens[k] # NULL
  PROVE  tokens[j].id # tokens[k].id
  BY DEF Inv, RowsAreMade, Made, Kind

LEMMA WithdrawnFacts ==
  ASSUME NEW old, TypeOK
  PROVE  /\ Withdrawn(old) \in [Id -> Outbox!Status]
         /\ \A j \in Id : /\ Withdrawn(old)[j] = "queued" => status[j] = "queued" /\ j \notin old
                          /\ j \notin old => Withdrawn(old)[j] = status[j]
  BY DEF Withdrawn, TypeOK, Outbox!Status

\* What a commit leaves is a state of the system if it respects the locks of the
\* others and its rows agree.
LEMMA CommitInv ==
  ASSUME Inv, NEW r \in Request, pc[r] \in Place, Answer(r, "ok"),
         UNCHANGED <<attempt, delivered, op, given>>,
         user' \in UserRow \union {NULL}, tokens' \in [Kind -> TokenRow \union {NULL}],
         status' \in [Id -> Outbox!Status],
         RespectsLocks(r),
         user' # NULL => user # NULL \/ creating = r,
         user' # NULL /\ user'.id = r => op[r] = "register",
         \A k \in Kind : tokens'[k] # tokens[k] /\ tokens'[k] # NULL =>
                            k = KindOf(r) /\ op[r] \in {"register", "resend", "forgot"},
         TokensOfTheAccount', ResetLinksOnlyForVerified', UnverifiedCanConfirm',
         LinkAndEmailTogether'
  PROVE  Inv'
  <1>1. TypeOK /\ pc[r] \notin Verdict
    BY DEF Inv, Consistent, Place, Verdict
  <1>2. TypesAtTheEnd' /\ Released(r)
    BY <1>1, AnswerFacts DEF Verdict
  <1>3. TypeOK'
    BY <1>1, <1>2 DEF TypesAtTheEnd, TypeOK
  <1>4. OthersStay(r) /\ pc'[r] = "ok" /\ op'[r] = op[r]
    BY <1>1, <1>2 DEF Released, Verdict, Answer, Goto, TypeOK
  <1>5. InPlace(r)'
    BY <1>1, <1>2, <1>3, <1>4 DEF InPlace, RunsItsOperation, KnowsItsAccount, Issuing, Inserting,
       KnowsTheLink, HoldsItsInsert, HoldsItsLink, Released, NoWork, TypeOK, Time
  <1>6. EachInPlace'
    BY <1>3, <1>4, <1>5, OthersInPlace DEF EachInPlace
  <1>7. UserLocksCompatible'
    BY <1>2, <1>4 DEF Inv, UserLocksCompatible, OthersStay, Released
  <1>8. LockedTokensExist'
    <2> SUFFICES ASSUME NEW k \in Kind, tokenLock'[k] # NULL
                 PROVE  tokens'[k] # NULL
      BY DEF LockedTokensExist
    <2>1. tokenLock[k] \in Request \ {r}
      BY <1>1, <1>2 DEF Released, TypeOK
    <2> QED
      BY <2>1 DEF RespectsLocks, Inv, LockedTokensExist
  <1>9. CreatesTheOnlyUser'
    BY <1>2 DEF Released, Inv, CreatesTheOnlyUser
  <1>10. RowsAreMade'
    <2>1. ASSUME user' # NULL
          PROVE  Born(user.id)'
      <3>1. CASE user # NULL /\ user'.id = user.id
        <4>1. Born(user.id)
          BY <3>1 DEF Inv, RowsAreMade
        <4> QED
          BY <3>1, <4>1, <1>4 DEF Born, OthersStay
      <3>2. CASE user'.id = r
        BY <2>1, <3>2, <1>4 DEF Born
      <3> QED
        BY <2>1, <3>1, <3>2 DEF RespectsLocks
    <2>2. ASSUME NEW k \in Kind, tokens'[k] # NULL
          PROVE  Made(k, tokens[k].id)'
      <3>1. CASE tokens'[k] = tokens[k]
        <4>1. Made(k, tokens[k].id)
          BY <2>2, <3>1 DEF Inv, RowsAreMade
        <4> QED
          BY <3>1, <4>1, <1>4 DEF Made, OthersStay, KindOf
      <3>2. CASE tokens'[k] # tokens[k]
        <4>1. tokens'[k].id = r /\ k = KindOf(r) /\ op[r] \in {"register", "resend", "forgot"}
          BY <2>2, <3>2 DEF RespectsLocks
        <4> QED
          BY <4>1, <1>4 DEF Made, KindOf
      <3> QED
        BY <3>1, <3>2
    <2> QED
      BY <2>1, <2>2 DEF RowsAreMade
  <1> QED
    BY <1>3, <1>6, <1>7, <1>8, <1>9, <1>10 DEF Inv, Consistent

LEMMA NewTokenFacts ==
  ASSUME TypeOK, NEW r \in Request, work[r].owner \in Id
  PROVE  /\ NewToken(r) \in TokenRow
         /\ NewToken(r).id = r /\ NewToken(r).user = work[r].owner
  <1>1. /\ work[r].started \in Time /\ work[r].clock + Lifetime \in 0..(MaxTime + Lifetime)
    BY DEF TypeOK, Time
  <1> QED
    BY <1>1 DEF NewToken, TokenRow

LEMMA RegisterCommitInv ==
  ASSUME Inv, NEW r \in Request, RegisterCommit(r)
  PROVE  Inv'
  <1>1. /\ TypeOK /\ TokensOfTheAccount /\ pc[r] = "inserted" /\ op[r] = "register"
        /\ user' = [id |-> r, verified |-> FALSE]
        /\ tokens' = [tokens EXCEPT !["confirmation"] = NewToken(r)]
        /\ status' = [status EXCEPT ![r] = "queued"]
        /\ Answer(r, "ok") /\ UNCHANGED <<attempt, delivered, op, given>>
    BY DEF Inv, Consistent, RegisterCommit
  <1>2. /\ creating = r /\ work[r].owner = r /\ KindOf(r) = "confirmation"
    BY <1>1 DEF Inv, EachInPlace, InPlace, HoldsItsInsert, KnowsItsAccount, KindOf, KindFor
  <1>3. user = NULL /\ \A k \in Kind : tokens[k] = NULL
    BY <1>1, <1>2 DEF Inv, CreatesTheOnlyUser, TokensOfTheAccount
  <1>4. /\ NewToken(r) \in TokenRow /\ NewToken(r).id = r /\ NewToken(r).user = r
        /\ user' \in UserRow /\ user'.id = r /\ ~user'.verified
    BY <1>1, <1>2, NewTokenFacts DEF UserRow
  <1> HIDE DEF NewToken
  <1>5. /\ tokens' \in [Kind -> TokenRow \union {NULL}] /\ status' \in [Id -> Outbox!Status]
        /\ tokens'["confirmation"] = NewToken(r) /\ tokens'["reset"] = NULL
        /\ tokens'["confirmation"] # NULL /\ Kind = {"confirmation", "reset"}
    BY <1>1, <1>3, <1>4 DEF TypeOK, Outbox!Status, Kind
  <1>6. RespectsLocks(r)
    BY <1>3, <1>4, <1>5 DEF RespectsLocks, Inv, LockedTokensExist
  <1>7. TokensOfTheAccount' /\ ResetLinksOnlyForVerified' /\ UnverifiedCanConfirm'
    BY <1>4, <1>5 DEF TokensOfTheAccount, ResetLinksOnlyForVerified, UnverifiedCanConfirm, IsOf
  <1>8. LinkAndEmailTogether'
    <2>1. ASSUME NEW link \in Id
          PROVE  (Live(link)' <=> link = r) /\ (status[link] = "queued" => FALSE)
      BY <1>3, <1>4, <1>5 DEF Live, Inv, LinkAndEmailTogether
    <2>2. \A link \in Id : status'[link] = IF link = r THEN "queued" ELSE status[link]
      BY <1>1 DEF TypeOK
    <2> QED
      BY <2>1, <2>2 DEF LinkAndEmailTogether
  <1> QED
    BY <1>1, <1>2, <1>3, <1>4, <1>5, <1>6, <1>7, <1>8, CommitInv DEF Place

LEMMA IssueCommitInv ==
  ASSUME Inv, NEW r \in Request, IssueCommit(r)
  PROVE  Inv'
  <1>1. PICK k \in Kind : k = KindOf(r)
    BY Kinds DEF KindOf
  <1>2. PICK old : old = IF tokenLock[k] = r THEN {tokens[k].id} ELSE {}
    OBVIOUS
  <1>3. /\ TypeOK /\ TokensOfTheAccount /\ pc[r] = "inserted" /\ op[r] \in {"resend", "forgot"}
        /\ tokens' = [tokens EXCEPT ![k] = NewToken(r)]
        /\ status' = [Withdrawn(old) EXCEPT ![r] = "queued"]
        /\ Answer(r, "ok") /\ UNCHANGED <<user, attempt, delivered, op, given>>
    BY <1>1, <1>2 DEF Inv, Consistent, IssueCommit
  <1>4. /\ work[r].owner \in Id /\ user # NULL /\ user.id = work[r].owner /\ Born(user.id)
        /\ op[r] = "forgot" => user.verified
        /\ inserting[k] = r /\ (tokens[k] # NULL => tokenLock[k] = r)
    BY <1>1, <1>3 DEF Inv, EachInPlace, InPlace, HoldsItsInsert, KnowsItsAccount, Inserting
  <1>5. NewToken(r) \in TokenRow /\ NewToken(r).id = r /\ NewToken(r).user = user.id
    BY <1>3, <1>4, NewTokenFacts
  <1>6. /\ tokens' \in [Kind -> TokenRow \union {NULL}]
        /\ tokens'[k] = NewToken(r) /\ tokens'[k] # NULL
        /\ \A j \in Kind \ {k} : tokens'[j] = tokens[j]
    BY <1>3, <1>5 DEF TypeOK
  <1>7. /\ status' \in [Id -> Outbox!Status] /\ status'[r] = "queued"
        /\ \A j \in Id \ {r} : status'[j] = Withdrawn(old)[j]
    BY <1>3, WithdrawnFacts DEF Outbox!Status
  <1>8. RespectsLocks(r)
    <2>1. tokenLock[k] \notin Request \ {r}
      BY <1>4 DEF Inv, LockedTokensExist
    <2> QED
      BY <1>3, <1>4, <1>5, <1>6, <2>1 DEF RespectsLocks
  <1>9. TokensOfTheAccount' /\ ResetLinksOnlyForVerified' /\ UnverifiedCanConfirm'
    <2>1. k = "reset" => op[r] = "forgot"
      BY <1>1, <1>3 DEF KindOf, KindFor
    <2>2. ResetLinksOnlyForVerified /\ UnverifiedCanConfirm /\ {"reset", "confirmation"} = Kind
      BY DEF Inv, Consistent, Kind
    <2> QED
      BY <1>3, <1>4, <1>5, <1>6, <2>1, <2>2
         DEF TokensOfTheAccount, ResetLinksOnlyForVerified, UnverifiedCanConfirm, IsOf
  <1>10. LinkAndEmailTogether'
    <2> SUFFICES ASSUME NEW link \in Id
                 PROVE  /\ Live(link)' => status'[link] \in {"queued", "done", "dead"}
                        /\ status'[link] = "queued" => Live(link)'
      BY DEF LinkAndEmailTogether
    <2>1. CASE link = r
      BY <1>5, <1>6, <1>7, <2>1 DEF Live
    <2>2. CASE link # r
      <3>1. status'[link] = Withdrawn(old)[link]
        BY <1>7, <2>2
      <3>2. /\ Live(link) => status[link] \in {"queued", "done", "dead"}
            /\ status[link] = "queued" => Live(link)
        BY DEF Inv, LinkAndEmailTogether
      <3>3. ASSUME Live(link)'
            PROVE  Live(link) /\ link \notin old
        <4>1. PICK j \in Kind : tokens'[j] # NULL /\ tokens'[j].id = link
          BY <3>3 DEF Live
        <4>2. j # k /\ tokens'[j] = tokens[j]
          BY <1>5, <1>6, <2>2, <4>1
        <4>3. tokenLock[k] = r => tokens[k] # NULL
          BY DEF Inv, LockedTokensExist
        <4> QED
          BY <1>2, <4>1, <4>2, <4>3, DistinctLinks DEF Live
      <3>4. ASSUME Live(link), link \notin old
            PROVE  Live(link)'
        <4>1. PICK j \in Kind : tokens[j] # NULL /\ tokens[j].id = link
          BY <3>4 DEF Live
        <4>2. j # k
          BY <1>2, <1>4, <3>4, <4>1
        <4> QED
          BY <1>6, <4>1, <4>2 DEF Live
      <3> QED
        BY <1>3, <3>1, <3>2, <3>3, <3>4, WithdrawnFacts
    <2> QED
      BY <2>1, <2>2
  <1>11. Born(user.id) => user.id # r
    BY <1>3, DurationAssumption DEF Born
  <1> QED
    BY <1>1, <1>3, <1>4, <1>6, <1>7, <1>8, <1>9, <1>10, <1>11, CommitInv DEF Place, TypeOK

LEMMA ConsumeCommitInv ==
  ASSUME Inv, NEW r \in Request, ConsumeCommit(r)
  PROVE  Inv'
  <1>1. PICK k \in Kind : k = KindOf(r)
    BY Kinds DEF KindOf
  <1>2. /\ TypeOK /\ TokensOfTheAccount /\ pc[r] = "used"
        /\ user' = IF op[r] = "confirm" THEN [user EXCEPT !.verified = TRUE] ELSE user
        /\ tokens' = [tokens EXCEPT ![k] = NULL]
        /\ status' = Withdrawn({given[r]})
        /\ Answer(r, "ok") /\ UNCHANGED <<attempt, delivered, op, given>>
    BY <1>1 DEF Inv, Consistent, ConsumeCommit
  <1>3. /\ op[r] \in {"confirm", "reset"} /\ tokenLock[k] = r
        /\ tokens[k] # NULL /\ tokens[k].id = given[r]
    BY <1>1, <1>2 DEF Inv, EachInPlace, InPlace, HoldsItsLink, RunsItsOperation
  <1>4. user # NULL /\ user \in UserRow
    BY <1>2, <1>3 DEF TokensOfTheAccount, TypeOK
  <1>5. /\ user' \in UserRow /\ user'.id = user.id /\ (user.verified => user'.verified)
        /\ user' # NULL
    <2>1. CASE op[r] = "confirm"
      BY <1>2, <1>4, <2>1 DEF UserRow
    <2>2. CASE op[r] # "confirm"
      BY <1>2, <1>4, <2>2
    <2> QED
      BY <2>1, <2>2
  <1>6. op[r] = "confirm" => user'.verified
    BY <1>2, <1>4 DEF UserRow
  <1>7. /\ tokens' \in [Kind -> TokenRow \union {NULL}] /\ tokens'[k] = NULL
        /\ \A j \in Kind \ {k} : tokens'[j] = tokens[j]
    BY <1>2 DEF TypeOK
  <1>8. RespectsLocks(r)
    BY <1>3, <1>4, <1>5, <1>7 DEF RespectsLocks
  <1>9. TokensOfTheAccount' /\ ResetLinksOnlyForVerified' /\ UnverifiedCanConfirm'
    <2>1. op[r] # "confirm" => k = "reset"
      BY <1>1, <1>3 DEF KindOf, KindFor
    <2>2. ResetLinksOnlyForVerified /\ UnverifiedCanConfirm /\ {"reset", "confirmation"} = Kind
      BY DEF Inv, Consistent, Kind
    <2>3. TokensOfTheAccount' /\ ResetLinksOnlyForVerified'
      BY <1>2, <1>4, <1>5, <1>7, <2>2 DEF TokensOfTheAccount, ResetLinksOnlyForVerified
    <2>4. UnverifiedCanConfirm'
      <3>1. CASE op[r] = "confirm"
        BY <3>1, <1>6 DEF UnverifiedCanConfirm
      <3>2. CASE op[r] # "confirm"
        BY <3>2, <1>2, <1>7, <2>1, <2>2 DEF UnverifiedCanConfirm, IsOf
      <3> QED
        BY <3>1, <3>2
    <2> QED
      BY <2>3, <2>4
  <1>10. LinkAndEmailTogether'
    <2> SUFFICES ASSUME NEW link \in Id
                 PROVE  /\ Live(link)' => status'[link] \in {"queued", "done", "dead"}
                        /\ status'[link] = "queued" => Live(link)'
      BY DEF LinkAndEmailTogether
    <2>1. /\ Live(link) => status[link] \in {"queued", "done", "dead"}
          /\ status[link] = "queued" => Live(link)
      BY DEF Inv, LinkAndEmailTogether
    <2>2. Live(link)' <=> Live(link) /\ link # given[r]
      BY <1>3, <1>7, DistinctLinks DEF Live
    <2> QED
      BY <1>2, <2>1, <2>2, WithdrawnFacts
  <1>11. Born(user.id) /\ (Born(user.id) => user.id # r)
    BY <1>2, <1>4, DurationAssumption DEF Born, Inv, RowsAreMade
  <1>12. status' \in [Id -> Outbox!Status]
    BY <1>2, WithdrawnFacts
  <1>13. \A j \in Kind : ~(tokens'[j] # tokens[j] /\ tokens'[j] # NULL)
    BY <1>7
  <1>14. Answer(r, "ok") /\ UNCHANGED <<attempt, delivered, op, given>>
    BY <1>2
  <1>15. pc[r] \in Place /\ user' \in UserRow \union {NULL}
         /\ (user' # NULL => user # NULL \/ creating = r)
         /\ (user' # NULL /\ user'.id = r => op[r] = "register")
    BY <1>2, <1>4, <1>5, <1>11 DEF Place
  <1> QED
    BY <1>7, <1>8, <1>9, <1>10, <1>12, <1>13, <1>14, <1>15, CommitInv

LEMMA DeleteCommitInv ==
  ASSUME Inv, NEW r \in Request, DeleteCommit(r)
  PROVE  Inv'
  <1>1. PICK old : old = {tokens[k].id : k \in {k \in Kind : tokens[k] # NULL}}
    OBVIOUS
  <1>2. /\ TypeOK /\ pc[r] = "deleting" /\ user' = NULL /\ tokens' = [k \in Kind |-> NULL]
        /\ \A k \in Kind : tokens[k] # NULL => tokenLock[k] = NULL
        /\ status' = Withdrawn(old)
        /\ Answer(r, "ok") /\ UNCHANGED <<attempt, delivered, op, given>>
    BY <1>1 DEF Inv, Consistent, DeleteCommit
  <1>3. \A q \in Request \ {r} : userLock[q] = "none"
    BY <1>2 DEF Inv, EachInPlace, InPlace, HoldsItsLink, UserLocksCompatible
  <1>4. \A k \in Kind : tokens'[k] = NULL
    BY <1>2
  <1>5. RespectsLocks(r)
    BY <1>2, <1>3, <1>4 DEF RespectsLocks, Inv, LockedTokensExist
  <1>6. TokensOfTheAccount' /\ ResetLinksOnlyForVerified' /\ UnverifiedCanConfirm'
    BY <1>2, <1>4 DEF TokensOfTheAccount, ResetLinksOnlyForVerified, UnverifiedCanConfirm, Kind
  <1>7. LinkAndEmailTogether'
    <2> SUFFICES ASSUME NEW link \in Id
                 PROVE  /\ Live(link)' => status'[link] \in {"queued", "done", "dead"}
                        /\ status'[link] = "queued" => Live(link)'
      BY DEF LinkAndEmailTogether
    <2>1. status[link] = "queued" => link \in old
      BY <1>1 DEF Inv, LinkAndEmailTogether, Live
    <2>2. ~Live(link)'
      BY <1>4 DEF Live
    <2> QED
      BY <1>2, <2>1, <2>2, WithdrawnFacts
  <1>8. status' \in [Id -> Outbox!Status]
    BY <1>2, WithdrawnFacts
  <1>9. /\ tokens' \in [Kind -> TokenRow \union {NULL}] /\ pc[r] \in Place
        /\ \A k \in Kind : ~(tokens'[k] # tokens[k] /\ tokens'[k] # NULL)
    BY <1>2 DEF Place
  <1>10. /\ Answer(r, "ok") /\ UNCHANGED <<attempt, delivered, op, given>>
         /\ user' \in UserRow \union {NULL} /\ ~(user' # NULL)
    BY <1>2
  <1> QED
    BY <1>5, <1>6, <1>7, <1>8, <1>9, <1>10, CommitInv

-----------------------------------------------------------------------------
(* The outbox and the clock.                                               *)

LEMMA DeliverInv ==
  ASSUME Inv, NEW w \in Worker, Deliver(w)
  PROVE  Inv'
  <1>1. TypeOK /\ UNCHANGED <<user, tokens, locks, op, pc, given, work, now>>
    BY DEF Inv, Consistent, Deliver
  <1>2. /\ status' \in [Id -> Outbox!Status] /\ attempt' \in [Worker -> Id \union {NULL}]
        /\ delivered' \subseteq Id
        /\ \A j \in Id : \/ status'[j] = status[j]
                         \/ status[j] = "queued" /\ status'[j] \in {"done", "dead"}
    BY <1>1 DEF Deliver, TypeOK, Outbox!Begin, Outbox!Accept, Outbox!LetGo, Outbox!Finish,
       Outbox!GiveUp, Outbox!Status
  <1>3. Consistent'
    BY <1>1, <1>2 DEF Inv, Consistent, TypeOK, TokensOfTheAccount, ResetLinksOnlyForVerified,
       UnverifiedCanConfirm, IsOf
  <1>4. LinkAndEmailTogether'
    BY <1>1, <1>2 DEF Inv, LinkAndEmailTogether, Live
  <1>5. EachInPlace'
    BY <1>1 DEF Inv, EachInPlace, InPlace, RunsItsOperation, Issuing, Inserting, KnowsItsAccount,
       KnowsTheLink, HoldsItsInsert, HoldsItsLink, Born, Made, KindOf
  <1>6. UserLocksCompatible' /\ LockedTokensExist' /\ CreatesTheOnlyUser' /\ RowsAreMade'
    BY <1>1 DEF Inv, UserLocksCompatible, LockedTokensExist, CreatesTheOnlyUser, RowsAreMade,
       Born, Made, KindOf
  <1> QED
    BY <1>3, <1>4, <1>5, <1>6 DEF Inv

LEMMA TickInv ==
  ASSUME Inv, Tick
  PROVE  Inv'
  <1>1. /\ TypeOK /\ now' = now + 1 /\ now' \in Time /\ now \in Nat
        /\ UNCHANGED <<rows, locks, op, pc, given, work>>
    BY DEF Inv, Consistent, TypeOK, Tick, Time
  <1>2. Consistent' /\ LinkAndEmailTogether'
    BY <1>1 DEF Inv, Consistent, TypeOK, TokensOfTheAccount, ResetLinksOnlyForVerified,
       UnverifiedCanConfirm, IsOf, LinkAndEmailTogether, Live
  <1>3. EachInPlace'
    <2>1. \A r \in Request : work[r].clock \in Nat
      BY <1>1 DEF TypeOK, Time
    <2> QED
      BY <1>1, <2>1 DEF Inv, EachInPlace, InPlace, RunsItsOperation, Issuing, Inserting,
         KnowsItsAccount, KnowsTheLink, HoldsItsInsert, HoldsItsLink, Born, Made, KindOf
  <1>4. UserLocksCompatible' /\ LockedTokensExist' /\ CreatesTheOnlyUser' /\ RowsAreMade'
    BY <1>1 DEF Inv, UserLocksCompatible, LockedTokensExist, CreatesTheOnlyUser, RowsAreMade,
       Born, Made, KindOf
  <1> QED
    BY <1>2, <1>3, <1>4 DEF Inv

LEMMA StutterInv ==
  ASSUME Inv, UNCHANGED vars
  PROVE  Inv'
  BY DEF vars, Inv, Consistent, TypeOK, TokensOfTheAccount, ResetLinksOnlyForVerified,
     UnverifiedCanConfirm, IsOf, LinkAndEmailTogether, Live, EachInPlace, InPlace,
     RunsItsOperation, Issuing, Inserting, KnowsItsAccount, KnowsTheLink, HoldsItsInsert,
     HoldsItsLink, UserLocksCompatible, LockedTokensExist, CreatesTheOnlyUser, RowsAreMade,
     Born, Made, KindOf

-----------------------------------------------------------------------------
LEMMA InitInv ==
  ASSUME Init
  PROVE  Inv
  <1>1. /\ pc = [r \in Request |-> "new"] /\ work = [r \in Request |-> NoWork]
        /\ userLock = [r \in Request |-> "none"] /\ tokenLock = [k \in Kind |-> NULL]
        /\ creating = NULL /\ now = 0 /\ Kind = {"confirmation", "reset"}
    BY DEF Init, Kind
  <1>2. user = NULL \/ (user \in UserRow /\ user # NULL /\ user.id = First)
    BY DEF Init, UserRow
  <1>3. PICK row : row = [id |-> First, user |-> First, created |-> 0, expires |-> Lifetime]
    OBVIOUS
  <1>4. row \in TokenRow /\ row.id = First /\ row.user = First /\ row # NULL
    <2>1. 0 \in Time /\ Lifetime \in 0..(MaxTime + Lifetime)
      BY DEF Time
    <2> QED
      BY <1>3, <2>1 DEF TokenRow
  <1>5. /\ tokens \in [Kind -> TokenRow \union {NULL}] /\ tokens["reset"] = NULL
        /\ user # NULL /\ ~user.verified => tokens["confirmation"] = row
        /\ user = NULL \/ user.verified => tokens["confirmation"] = NULL
    BY <1>1, <1>3, <1>4 DEF Init
  <1>6. TypeOK
    <2>1. NoWork \in Work /\ now \in Time
      BY <1>1 DEF NoWork, Work, Time
    <2>2. status \in [Id -> Outbox!Status]
      BY DEF Init, Outbox!Status
    <2> QED
      BY <1>2, <1>5, <2>1, <2>2 DEF Init, TypeOK, Work
  <1>7. TokensOfTheAccount /\ ResetLinksOnlyForVerified /\ UnverifiedCanConfirm
    BY <1>1, <1>2, <1>4, <1>5 DEF TokensOfTheAccount, ResetLinksOnlyForVerified,
       UnverifiedCanConfirm, IsOf
  <1>8. LinkAndEmailTogether
    <2>1. /\ \A j \in Id : status[j] = IF j = First /\ user # NULL
                                       THEN IF user.verified THEN "done" ELSE "queued"
                                       ELSE "absent"
      BY DEF Init
    <2>2. \A link \in Id : Live(link) <=> link = First /\ user # NULL /\ ~user.verified
      BY <1>1, <1>4, <1>5 DEF Live
    <2> QED
      BY <2>1, <2>2 DEF LinkAndEmailTogether
  <1>9. EachInPlace
    BY <1>1 DEF EachInPlace, InPlace, RunsItsOperation, Issuing, Inserting, KnowsItsAccount,
       KnowsTheLink, HoldsItsInsert, HoldsItsLink, NoWork
  <1>10. UserLocksCompatible /\ LockedTokensExist /\ CreatesTheOnlyUser
    BY <1>1 DEF UserLocksCompatible, LockedTokensExist, CreatesTheOnlyUser
  <1>11. RowsAreMade
    BY <1>1, <1>2, <1>4, <1>5 DEF RowsAreMade, Born, Made
  <1> QED
    BY <1>6, <1>7, <1>8, <1>9, <1>10, <1>11 DEF Inv, Consistent

LEMMA ProceedInv ==
  ASSUME Inv, NEW r \in Request, Proceed(r)
  PROVE  Inv'
  BY RegisterInsertInv, RegisterCommitInv, IssueClockInv, IssueCooldownInv, DeleteScanInv,
     DeleteLockInv, IssueInsertInv, IssueCommitInv, ConsumeDeleteInv, ConsumeCommitInv,
     DeleteUserInv, DeleteCommitInv DEF Proceed

LEMMA StepInv ==
  ASSUME Inv, [Next]_vars
  PROVE  Inv'
  <1>1. ASSUME NEW r \in Request, Arrival(r)
        PROVE  Inv'
    BY <1>1, RegisterFindInv, TermsMissingInv, DeleteFindInv, IssueFindInv, ConsumeLockInv
       DEF Arrival
  <1> QED
    BY <1>1, ProceedInv, AbortInv, DeliverInv, TickInv, StutterInv DEF Next

THEOREM Invariance == Spec => []Inv
  BY InitInv, StepInv, PTL DEF Spec

-----------------------------------------------------------------------------
(* What the invariant says of the system.                                  *)

\* However the requests of an address interleave with each other, with the
\* emails and with the account's deletion, its account and tokens agree: tokens
\* belong to the account that has the address, reset links exist for confirmed
\* accounts only, and an unconfirmed account can confirm.
THEOREM AccountAndTokensAgree == Spec => []Consistent
  <1>1. Inv => Consistent
    BY DEF Inv
  <1> QED
    BY <1>1, Invariance, PTL

\* A link is in the tables exactly as long as its email is queued, sent or dead.
THEOREM LinksHaveTheirEmails == Spec => []LinkAndEmailTogether
  <1>1. Inv => LinkAndEmailTogether
    BY DEF Inv
  <1> QED
    BY <1>1, Invariance, PTL

\* Which step ends a transaction that has used a link or inserted one.
LEMMA OnlyCommitsSucceed ==
  ASSUME Inv, [Next]_vars, NEW r \in Request, pc[r] \in {"used", "inserted"}, pc'[r] = "ok"
  PROVE  /\ pc[r] = "used" => ConsumeCommit(r)
         /\ pc[r] = "inserted" => RegisterCommit(r) \/ IssueCommit(r)
  <1> USE DEF Inv, Consistent, TypeOK
  <1>1. ASSUME NEW q \in Request, Arrival(q) \/ Proceed(q) \/ Abort(q)
        PROVE  q = r
    BY <1>1 DEF Arrival, Proceed, Abort, Arrive, Answer, Goto, RegisterFind, TermsMissing,
       RegisterInsert, RegisterCommit, IssueFind, IssueClock, IssueCooldown, DeleteScan,
       DeleteLock, IssueInsert, IssueCommit, ConsumeLock, ConsumeDelete, ConsumeCommit,
       DeleteFind, DeleteUser, DeleteCommit
  <1>2. ~Arrival(r)
    BY DEF Arrival, Arrive, RegisterFind, TermsMissing, IssueFind, ConsumeLock, DeleteFind
  <1>3. ~Abort(r)
    BY DEF Abort, Answer, Goto
  <1>4. Proceed(r) => /\ pc[r] = "used" => ConsumeCommit(r)
                      /\ pc[r] = "inserted" => RegisterCommit(r) \/ IssueCommit(r)
    BY DEF Proceed, RegisterInsert, RegisterCommit, IssueClock, IssueCooldown, DeleteScan,
       DeleteLock, IssueInsert, IssueCommit, ConsumeDelete, ConsumeCommit, DeleteUser, DeleteCommit
  <1>5. ~Tick /\ ~UNCHANGED vars /\ \A w \in Worker : ~Deliver(w)
    BY DEF Tick, vars, Deliver
  <1> QED
    BY <1>1, <1>2, <1>3, <1>4, <1>5 DEF Next

\* A confirmation or a reset that succeeds uses up the link it came with, which
\* was the current one: a link works once, and never after its replacement.
THEOREM LinksWorkOnce == Spec => OnlyTheCurrentLinkWorks
  <1>1. ASSUME Inv, [Next]_vars, NEW r \in Request, pc[r] = "used", pc'[r] = "ok"
        PROVE  /\ tokens[KindOf(r)] # NULL /\ tokens[KindOf(r)].id = given[r]
               /\ ~Live(given[r])'
    <2>1. PICK k \in Kind : k = KindOf(r)
      BY Kinds DEF KindOf
    <2>2. tokens[k] # NULL /\ tokens[k].id = given[r]
      BY <1>1, <2>1 DEF Inv, EachInPlace, InPlace, HoldsItsLink
    <2>3. /\ tokens' = [tokens EXCEPT ![k] = NULL] /\ given' = given
          /\ tokens \in [Kind -> TokenRow \union {NULL}]
      BY <1>1, <2>1, OnlyCommitsSucceed DEF ConsumeCommit, Inv, Consistent, TypeOK
    <2>4. ~Live(given[r])'
      BY <1>1, <2>2, <2>3, DistinctLinks DEF Live
    <2> QED
      BY <2>1, <2>2, <2>4
  <1>2. Inv /\ [Next]_vars => [\A r \in Request :
                                 pc[r] = "used" /\ pc'[r] = "ok" =>
                                    /\ tokens[KindOf(r)] # NULL /\ tokens[KindOf(r)].id = given[r]
                                    /\ ~Live(given[r])']_vars
    BY <1>1
  <1> QED
    BY <1>2, Invariance, PTL DEF Spec, OnlyTheCurrentLinkWorks

\* A link that was there when another was asked for is replaced only after its
\* cooldown, whatever happens between the look at its age and the commit.
THEOREM LinksLiveForTheirCooldown == Spec => LinkKeptForItsCooldown
  <1> DEFINE P(r) == LET old == tokens[KindOf(r)]
                     IN  /\ op[r] \in {"resend", "forgot"}
                         /\ pc[r] = "inserted" /\ pc'[r] = "ok"
                         /\ old # NULL /\ old.id = work[r].had
                         => old.created + Cooldown <= now
  <1>1. ASSUME Inv, NEW r \in Request
        PROVE  P(r)
    <2> SUFFICES ASSUME op[r] \in {"resend", "forgot"}, pc[r] = "inserted",
                        tokens[KindOf(r)] # NULL, tokens[KindOf(r)].id = work[r].had
                 PROVE  tokens[KindOf(r)].created + Cooldown <= now
      OBVIOUS
    <2>1. PICK row : row = tokens[KindOf(r)]
      OBVIOUS
    <2>2. row \in TokenRow /\ row.id = work[r].had /\ work[r].had \in Id
      BY <1>1, <2>1, Kinds DEF Inv, Consistent, TypeOK, TokenRow, KindOf
    <2>3. row.created + Cooldown <= work[r].clock /\ work[r].clock <= now
      BY <1>1, <2>1, <2>2 DEF Inv, EachInPlace, InPlace, KnowsTheLink, KnowsItsAccount, Inserting
    <2>4. row.created \in Nat /\ work[r].clock \in Nat /\ now \in Nat
      BY <1>1, <2>2 DEF Inv, Consistent, TypeOK, TokenRow, Time
    <2> QED
      BY <2>1, <2>3, <2>4
  <1>2. Inv /\ [Next]_vars => [\A r \in Request : P(r)]_vars
    BY <1>1
  <1> QED
    BY <1>2, Invariance, PTL DEF Spec, LinkKeptForItsCooldown

-----------------------------------------------------------------------------
(* The requests keep to what the outbox promises                           *)

\* A transaction withdraws the emails of the links that it deletes, of those
\* that have not left, and queues at most one, which never was in the outbox:
\* Withdraw and Enqueue of OutboxPromise, one after the other.
WithdrawsAndQueues ==
    \E old, new \in SUBSET Id :
        /\ \A j \in old : status[j] \in {"queued", "dead"}
        /\ \A j \in new : status[j] = "absent" /\ new = {j}
        /\ status' = [j \in Id |-> IF j \in old THEN "withdrawn"
                                   ELSE IF j \in new THEN "queued" ELSE status[j]]
        /\ UNCHANGED <<attempt, delivered>>

KeepsToTheOutbox == [][WithdrawsAndQueues \/ Outbox!Next]_outbox

\* A request has queued no email before it succeeds.
NoEmailYet == \A r \in Request : pc[r] # "ok" => status[r] = "absent"

QueuingInv == Inv /\ NoEmailYet

LEMMA Withdraws ==
  ASSUME TypeOK, NEW old, status' = Withdrawn(old), UNCHANGED <<attempt, delivered>>
  PROVE  WithdrawsAndQueues
  <1> DEFINE gone == {j \in Id : j \in old /\ status[j] \in {"queued", "dead"}}
  <1>1. status' = [j \in Id |-> IF j \in gone THEN "withdrawn"
                                ELSE IF j \in {} THEN "queued" ELSE status[j]]
    BY DEF Withdrawn
  <1>2. gone \in SUBSET Id /\ {} \in SUBSET Id /\ \A j \in gone : status[j] \in {"queued", "dead"}
    OBVIOUS
  <1> HIDE DEF gone
  <1> QED
    BY <1>1, <1>2 DEF WithdrawsAndQueues

LEMMA WithdrawsThenQueues ==
  ASSUME TypeOK, NEW old, NEW r \in Request, status[r] = "absent",
         status' = [Withdrawn(old) EXCEPT ![r] = "queued"], UNCHANGED <<attempt, delivered>>
  PROVE  WithdrawsAndQueues
  <1> DEFINE gone == {j \in Id : j \in old /\ status[j] \in {"queued", "dead"}}
  <1>1. status' = [j \in Id |-> IF j \in gone THEN "withdrawn"
                                ELSE IF j \in {r} THEN "queued" ELSE status[j]]
    BY DEF Withdrawn
  <1>2. gone \in SUBSET Id /\ {r} \in SUBSET Id /\ \A j \in gone : status[j] \in {"queued", "dead"}
    OBVIOUS
  <1>3. \A j \in {r} : status[j] = "absent" /\ {r} = {j}
    OBVIOUS
  <1> HIDE DEF gone
  <1> QED
    BY <1>1, <1>2, <1>3 DEF WithdrawsAndQueues

\* The commits of requests, and which of them change the outbox.
LEMMA RequestsOnTheOutbox ==
  ASSUME QueuingInv, NEW r \in Request, Arrival(r) \/ Proceed(r) \/ Abort(r)
  PROVE  UNCHANGED outbox \/ WithdrawsAndQueues
  <1>1. TypeOK
    BY DEF QueuingInv, Inv, Consistent
  <1>2. CASE RegisterCommit(r)
    <2>1. status' = [Withdrawn({}) EXCEPT ![r] = "queued"]
      <3>1. Withdrawn({}) = status
        BY <1>1 DEF Withdrawn, TypeOK
      <3> QED
        BY <1>2, <3>1 DEF RegisterCommit
    <2>2. status[r] = "absent"
      BY <1>2 DEF QueuingInv, NoEmailYet, RegisterCommit
    <2> QED
      BY <1>1, <1>2, <2>1, <2>2, WithdrawsThenQueues DEF RegisterCommit
  <1>3. CASE IssueCommit(r)
    <2>1. PICK old : status' = [Withdrawn(old) EXCEPT ![r] = "queued"]
      BY <1>3 DEF IssueCommit
    <2>2. status[r] = "absent"
      BY <1>3 DEF QueuingInv, NoEmailYet, IssueCommit
    <2> QED
      BY <1>1, <1>3, <2>1, <2>2, WithdrawsThenQueues DEF IssueCommit
  <1>4. CASE ConsumeCommit(r)
    BY <1>1, <1>4, Withdraws DEF ConsumeCommit
  <1>5. CASE DeleteCommit(r)
    BY <1>1, <1>5, Withdraws DEF DeleteCommit
  <1> QED
    BY <1>2, <1>3, <1>4, <1>5
    DEF Arrival, Proceed, Abort, Arrive, RegisterFind, TermsMissing, RegisterInsert, IssueFind,
        IssueClock, IssueCooldown, DeleteScan, DeleteLock, IssueInsert, ConsumeLock,
        ConsumeDelete, DeleteFind, DeleteUser

LEMMA WorkersOnTheOutbox ==
  ASSUME NEW w \in Worker, Deliver(w)
  PROVE  Outbox!Next
  BY DEF Deliver, Outbox!Next

LEMMA QueuingStep == QueuingInv /\ [Next]_vars => QueuingInv'
  <1> SUFFICES ASSUME QueuingInv, [Next]_vars PROVE QueuingInv'
    OBVIOUS
  <1>1. Inv' /\ TypeOK
    BY StepInv DEF QueuingInv, Inv, Consistent
  <1>2. ASSUME NEW q \in Request, pc'[q] # "ok"
        PROVE  status'[q] = "absent"
    <2>1. ASSUME NEW r \in Request, Arrival(r) \/ Proceed(r) \/ Abort(r)
          PROVE  pc[q] # "ok" /\ (status'[q] = status[q] \/ status[q] # "absent")
      <3>1. pc[r] # "ok" /\ \A s \in Request \ {r} : pc'[s] = pc[s]
        BY <1>1, <2>1
        DEF TypeOK, Arrival, Proceed, Abort, Running, Arrive, Answer, Goto, RegisterFind,
            TermsMissing, RegisterInsert, RegisterCommit, IssueFind, IssueClock, IssueCooldown,
            DeleteScan, DeleteLock, IssueInsert, IssueCommit, ConsumeLock, ConsumeDelete,
            ConsumeCommit, DeleteFind, DeleteUser, DeleteCommit
      <3>2. CASE RegisterCommit(r) \/ IssueCommit(r)
        <4>1. q # r
          BY <1>1, <1>2, <3>2 DEF TypeOK, RegisterCommit, IssueCommit, Answer, Goto
        <4>2. pc[q] # "ok"
          BY <1>2, <3>1, <4>1
        <4>3. q \in Id /\ status[q] = "absent"
          BY <4>2 DEF QueuingInv, NoEmailYet
        <4>4. CASE RegisterCommit(r)
          BY <1>1, <4>1, <4>2, <4>3, <4>4 DEF RegisterCommit, TypeOK
        <4>5. CASE IssueCommit(r)
          <5>1. PICK old : status' = [Withdrawn(old) EXCEPT ![r] = "queued"]
            BY <4>5 DEF IssueCommit
          <5> QED
            BY <4>1, <4>2, <4>3, <5>1 DEF Withdrawn
        <4> QED
          BY <3>2, <4>2, <4>3, <4>4, <4>5
      <3>3. CASE ConsumeCommit(r) \/ DeleteCommit(r)
        BY <1>1, <1>2, <3>1, <3>3 DEF ConsumeCommit, DeleteCommit, Withdrawn, TypeOK
      <3>4. CASE UNCHANGED outbox
        BY <1>2, <3>1, <3>4
      <3> QED
        BY <2>1, <3>2, <3>3, <3>4
        DEF Arrival, Proceed, Abort, Arrive, RegisterFind, TermsMissing, RegisterInsert, IssueFind,
            IssueClock, IssueCooldown, DeleteScan, DeleteLock, IssueInsert, ConsumeLock,
            ConsumeDelete, DeleteFind, DeleteUser
    <2>2. ASSUME NEW w \in Worker, Deliver(w)
          PROVE  pc[q] # "ok" /\ (status'[q] = status[q] \/ status[q] # "absent")
      BY <1>1, <1>2, <2>2 DEF TypeOK, Deliver, Outbox!Begin, Outbox!Accept, Outbox!LetGo,
         Outbox!Finish, Outbox!GiveUp
    <2>3. Tick \/ UNCHANGED vars => pc[q] # "ok" /\ status'[q] = status[q]
      BY <1>2 DEF Tick, vars
    <2> QED
      BY <2>1, <2>2, <2>3 DEF Next, QueuingInv, NoEmailYet
  <1> QED
    BY <1>1, <1>2 DEF QueuingInv, NoEmailYet

\* Every step of the requests, and of the workers under them, is one that the
\* outbox allows: an email is queued once, by the request it belongs to, and
\* withdrawn while it waits (app/auth/service.py enqueues only in the
\* transaction that makes the link, the foreign key deletes with it).
THEOREM OutboxUsedAsPromised == Spec => KeepsToTheOutbox
  <1>1. Init => QueuingInv
    <2> SUFFICES ASSUME Init PROVE QueuingInv
      OBVIOUS
    <2>1. NoEmailYet
      BY DEF NoEmailYet, Init
    <2> QED
      BY <2>1, InitInv DEF QueuingInv
  <1>2. QueuingInv /\ [Next]_vars => [WithdrawsAndQueues \/ Outbox!Next]_outbox
    <2>1. Tick \/ UNCHANGED vars => UNCHANGED outbox
      BY DEF Tick, vars
    <2> QED
      BY <2>1, RequestsOnTheOutbox, WorkersOnTheOutbox DEF Next
  <1> QED
    BY <1>1, <1>2, QueuingStep, PTL DEF Spec, KeepsToTheOutbox

=============================================================================

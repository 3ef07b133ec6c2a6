--------------------------- MODULE AccountsProofs ---------------------------
(***************************************************************************)
(* Theorems about Accounts for every set of requests and locales and all   *)
(* lifetimes.                                                              *)
(*                                                                         *)
(* An access token carries no session and no server state, so what is      *)
(* proved of it rests on when it was made.  The inductive invariant keeps, *)
(* for each token that was ever made, whose session it came with and when  *)
(* it expires, and for each request what it has read still means.          *)
(***************************************************************************)
EXTENDS Accounts, TLAPS

Token == Id \X Nat
AccessTokens == [sub : Id, exp : Nat, session : Id]

Input == Locale \union Token \union AccessTokens \union {NULL}

Work == [op : {"profile", "change", "delete", NULL}, input : Input,
         owner : Id \union {NULL}, clock : Time,
         version : 0..MaxVersion, since : 0..MaxVersion]

WorkHasItsType == work \in [Request -> Work]

\* A request that has committed gives its name to what it made; no other does.
Named(id) == id = First \/ pc[id] \in {"committed", "ok"}

NamesAreUsedOnce ==
    /\ user # NULL => Named(user.id)
    /\ \A s \in Id : sessions[s] # NULL \/ ended[s] # NULL => Named(s)
    /\ \A token \in issued : Named(token[1])
    /\ \A token \in access : Named(token.session)

\* The Terms of a registration under way were read between its coming and now.
ReadsTheTerms ==
    \A r \in Request :
        /\ pc[r] \in {"free", "agreed"} =>
              work[r].input \in Locale /\ work[r].since <= terms[work[r].input]
        /\ pc[r] = "agreed" =>
              /\ work[r].version \in Version
              /\ work[r].since <= work[r].version
              /\ work[r].version <= terms[work[r].input]

\* A login knows an account that was confirmed.
KnowsItsAccount ==
    \A r \in Request : pc[r] = "authenticated" =>
        /\ work[r].owner \in Id /\ Named(work[r].owner)
        /\ user # NULL /\ user.id = work[r].owner => user.verified

\* A refresh has the session it locked, alone.
HoldsItsSession ==
    \A r \in Request : pc[r] = "holding" =>
        /\ work[r].input \in Token
        /\ Matches(work[r].input) /\ ~sessions[work[r].input[1]].revoked
        /\ \A q \in Request : pc[q] = "holding" /\ work[q].input[1] = work[r].input[1] => q = r

\* An exchange to be answered was of its session's account.
KnowsItsExchange ==
    \A r \in Request : pc[r] = "committed" =>
        /\ work[r].input \in Token /\ Named(work[r].input[1])
        /\ work[r].owner \in Id /\ work[r].owner = used[work[r].input[1]].owner

\* No exchange commits once its session has ended.
ExchangesAreInTime == \A s \in Id : used[s].open

\* A session's row agrees with what happened to the session.
RowsTellTheHistory ==
    \A s \in Id : sessions[s] # NULL =>
        /\ sessions[s].user = used[s].owner
        /\ sessions[s].expires = used[s].at + RefreshLife
        /\ sessions[s].revoked <=> ended[s] # NULL

\* An access token names its session's account, and expires within its life of
\* now.
AccessFollowsTheSession ==
    \A token \in access :
        token.sub = used[token.session].owner /\ token.exp <= now + AccessLife

\* An authenticated request came with a token that had not expired.
CameWithAToken ==
    \A r \in Request : pc[r] \in {"decoded", "acting"} =>
        work[r].input \in access /\ work[r].clock < work[r].input.exp

Inv ==
    /\ TypeOK
    /\ WorkHasItsType
    /\ NamesAreUsedOnce
    /\ ReadsTheTerms
    /\ KnowsItsAccount
    /\ HoldsItsSession
    /\ KnowsItsExchange
    /\ ExchangesAreInTime
    /\ RowsTellTheHistory
    /\ AccessFollowsTheSession
    /\ CameWithAToken
    /\ SessionsOfTheAccount
    /\ ActsForItsOwnAccount

-----------------------------------------------------------------------------
USE DEF tables, credentials, requests, history

LEMMA Names ==
  /\ NULL \notin Id /\ NULL \notin Nat /\ NULL \notin Time /\ First \notin Request
  /\ First \in Id /\ Request \subseteq Id /\ Time \subseteq Nat /\ Version \subseteq Nat
  /\ NULL \in Input /\ NULL \notin UserRow /\ NULL \notin SessionRow
  /\ AccessLife \in Nat /\ RefreshLife \in Nat /\ MaxTime \in Nat /\ MaxVersion \in Nat
  BY NullAssumption, LifetimeAssumption DEF Id, Time, Version, Input

USE Names

LEMMA NoWorkIsWork == NoWork \in Work
  BY DEF NoWork, Work, Time

LEMMA RevokedRow ==
  ASSUME NEW row \in SessionRow
  PROVE  LET closed == [row EXCEPT !.revoked = TRUE]
         IN  /\ closed \in SessionRow /\ closed # NULL
             /\ closed.user = row.user /\ closed.version = row.version
             /\ closed.expires = row.expires /\ closed.revoked
  BY DEF SessionRow

LEMMA RegisteredRow ==
  ASSUME NEW r \in Request, NEW l \in Locale, NEW v \in Version, NEW b \in BOOLEAN
  PROVE  LET row == [id |-> r, locale |-> l, terms |-> v, verified |-> b]
         IN  row \in UserRow /\ row # NULL /\ row.id = r
  BY DEF UserRow

LEMMA NamedStays ==
  ASSUME NEW r \in Request, pc[r] \in {"committed", "ok"} => pc'[r] = "ok",
         NEW id \in Id, Named(id),
         \A q \in Request \ {r} : pc'[q] = pc[q]
  PROVE  Named(id)'
  BY DEF Named, Id

\* r sets its local variables; the others keep theirs.
WroteLocally(r, update) ==
    /\ work' \in [Request -> Work]
    /\ work'[r] = update
    /\ \A q \in Request \ {r} : work'[q] = work[q]

LEMMA LocalFacts ==
  ASSUME WorkHasItsType, NEW r \in Request, NEW update \in Work, Local(r, update)
  PROVE  WroteLocally(r, update)
  BY DEF WorkHasItsType, Local, WroteLocally

-----------------------------------------------------------------------------
(* Steps in which a request reads.                                         *)

Label == {"free", "agreed", "authenticated", "holding", "decoded", "acting", "refused"}

\* What a request that has come to label knows by its local variables.
Knows(label, local) ==
    /\ label \in {"free", "agreed"} =>
          local.input \in Locale /\ local.since <= terms[local.input]
    /\ label = "agreed" =>
          /\ local.version \in Version
          /\ local.since <= local.version /\ local.version <= terms[local.input]
    /\ label = "authenticated" =>
          /\ local.owner \in Id /\ Named(local.owner)
          /\ user # NULL /\ user.id = local.owner => user.verified
    /\ label = "holding" =>
          /\ local.input \in Token /\ Matches(local.input)
          /\ ~sessions[local.input[1]].revoked /\ ~Held(local.input[1])
    /\ label \in {"decoded", "acting"} =>
          local.input \in access /\ local.clock < local.input.exp
    /\ label = "acting" => local.owner = used[local.input.session].owner

\* r changes nothing but its own state.
Reads(r, label, update) ==
    /\ pc[r] \notin {"committed", "ok"}
    /\ Goto(r, label) /\ Local(r, update)
    /\ UNCHANGED <<tables, credentials, now, history>>

LEMMA ReadsInv ==
  ASSUME Inv, NEW r \in Request, NEW label \in Label, NEW update \in Work,
         Reads(r, label, update), Knows(label, update)
  PROVE  Inv'
  <1> USE DEF Inv, Reads, Goto
  <1>1. WroteLocally(r, update)
    BY LocalFacts
  <1>2. pc'[r] = label /\ \A q \in Request \ {r} : pc'[q] = pc[q]
    BY DEF TypeOK
  <1>3. \A id \in Id : Named(id) => Named(id)'
    BY <1>2, NamedStays
  <1>4. TypeOK' /\ WorkHasItsType'
    BY <1>1, <1>2 DEF TypeOK, WroteLocally, WorkHasItsType, Work, Label
  <1>5. NamesAreUsedOnce'
    BY <1>3 DEF NamesAreUsedOnce, TypeOK, UserRow
  <1>6. ReadsTheTerms' /\ KnowsItsAccount'
    BY <1>1, <1>2, <1>3 DEF ReadsTheTerms, KnowsItsAccount, WroteLocally, Knows
  <1>7. HoldsItsSession'
    BY <1>1, <1>2 DEF HoldsItsSession, Matches, Held, WroteLocally, Knows
  <1>10. KnowsItsExchange' /\ ExchangesAreInTime'
    BY <1>1, <1>2, <1>3 DEF KnowsItsExchange, ExchangesAreInTime, WroteLocally, Label, Token
  <1>8. CameWithAToken' /\ ActsForItsOwnAccount'
    BY <1>1, <1>2 DEF CameWithAToken, ActsForItsOwnAccount, WroteLocally, Knows
  <1>9. RowsTellTheHistory' /\ AccessFollowsTheSession' /\ SessionsOfTheAccount'
    BY DEF RowsTellTheHistory, AccessFollowsTheSession, SessionsOfTheAccount
  <1> QED
    BY <1>4, <1>5, <1>6, <1>7, <1>8, <1>9, <1>10

LEMMA RefuseInv ==
  ASSUME Inv, NEW r \in Request, pc[r] \notin {"committed", "ok"}, Answer(r, "refused"),
         UNCHANGED <<tables, credentials, now, history>>
  PROVE  Inv'
  <1>1. Reads(r, "refused", NoWork) /\ Knows("refused", NoWork)
    BY DEF Answer, Reads, Knows
  <1> QED
    BY <1>1, ReadsInv, NoWorkIsWork DEF Label

LEMMA RegisterFindInv ==
  ASSUME Inv, NEW r \in Request, NEW l \in Locale, RegisterFind(r, l), user = NULL
  PROVE  Inv'
  <1> DEFINE update == [NoWork EXCEPT !.input = l, !.since = terms[l]]
  <1>1. terms[l] \in 0..MaxVersion
    BY DEF Inv, TypeOK
  <1>2. update \in Work /\ update.input = l /\ update.since = terms[l]
    BY <1>1, NoWorkIsWork DEF Work, Input
  <1>3. Reads(r, "free", update)
    BY DEF RegisterFind, Reads
  <1> HIDE DEF update
  <1>4. Knows("free", update)
    BY <1>1, <1>2 DEF Knows
  <1> QED
    BY <1>2, <1>3, <1>4, ReadsInv DEF Label

LEMMA RegisterTermsInv ==
  ASSUME Inv, NEW r \in Request, RegisterTerms(r), TermsVersion(work[r].input) # NULL
  PROVE  Inv'
  <1> DEFINE version == terms[work[r].input]
             update == [work[r] EXCEPT !.version = version]
  <1>1. /\ work[r] \in Work /\ work[r].input \in Locale /\ work[r].since <= version
        /\ version \in Version /\ TermsVersion(work[r].input) = version
    BY DEF RegisterTerms, Inv, ReadsTheTerms, TermsVersion, TypeOK, WorkHasItsType, Version
  <1>2. /\ update \in Work /\ update.input = work[r].input
        /\ update.since = work[r].since /\ update.version = version
    BY <1>1 DEF Work, Version
  <1>3. Reads(r, "agreed", update)
    BY <1>1 DEF RegisterTerms, Reads
  <1> HIDE DEF update
  <1>4. Knows("agreed", update)
    BY <1>1, <1>2 DEF Knows, Version
  <1> QED
    BY <1>2, <1>3, <1>4, ReadsInv DEF Label

LEMMA LoginAuthenticateInv ==
  ASSUME Inv, NEW r \in Request, LoginAuthenticate(r), user # NULL, user.verified
  PROVE  Inv'
  <1> DEFINE update == [NoWork EXCEPT !.owner = user.id, !.clock = now]
  <1>1. user.id \in Id /\ Named(user.id) /\ now \in Time
    BY DEF Inv, TypeOK, UserRow, NamesAreUsedOnce
  <1>2. update \in Work /\ update.owner = user.id
    BY <1>1, NoWorkIsWork DEF Work
  <1>3. Reads(r, "authenticated", update)
    BY DEF LoginAuthenticate, Reads
  <1> HIDE DEF update
  <1>4. Knows("authenticated", update)
    BY <1>1, <1>2 DEF Knows
  <1> QED
    BY <1>2, <1>3, <1>4, ReadsInv DEF Label

LEMMA RefreshLockInv ==
  ASSUME Inv, NEW r \in Request, NEW token \in issued, RefreshLock(r, token),
         pc'[r] = "holding"
  PROVE  Inv'
  <1> DEFINE update == [NoWork EXCEPT !.input = token, !.clock = now]
  <1>1. /\ token \in Token /\ Matches(token) /\ ~Held(token[1])
        /\ ~sessions[token[1]].revoked /\ now \in Time
    BY DEF RefreshLock, Answer, Goto, Inv, TypeOK, Token
  <1>2. update \in Work /\ update.input = token
    BY <1>1, NoWorkIsWork DEF Work, Input
  <1>3. Reads(r, "holding", update)
    BY DEF RefreshLock, Answer, Goto, Reads, Inv, TypeOK
  <1> HIDE DEF update
  <1>4. Knows("holding", update)
    BY <1>1, <1>2 DEF Knows
  <1> QED
    BY <1>2, <1>3, <1>4, ReadsInv DEF Label

LEMMA DecodeInv ==
  ASSUME Inv, NEW r \in Request, NEW operation \in {"profile", "change", "delete"},
         NEW token \in access, Decode(r, operation, token), token.exp > now
  PROVE  Inv'
  <1> DEFINE update == Authorized(operation, token)
  <1>1. token \in AccessTokens /\ now \in Time /\ now < token.exp
    BY DEF Inv, TypeOK, AccessTokens
  <1>2. update \in Work /\ update.input = token /\ update.clock = now
    BY <1>1, NoWorkIsWork DEF Work, Authorized, Input
  <1>3. Reads(r, "decoded", update)
    BY DEF Decode, Reads
  <1> HIDE DEF update
  <1>4. Knows("decoded", update)
    BY <1>1, <1>2 DEF Knows
  <1> QED
    BY <1>2, <1>3, <1>4, ReadsInv DEF Label

\* The row of sub is the account of the token's session.
LEMMA LoadUserInv ==
  ASSUME Inv, NEW r \in Request, LoadUser(r),
         user # NULL, user.id = work[r].input.sub, user.verified
  PROVE  Inv'
  <1> DEFINE update == [work[r] EXCEPT !.owner = user.id]
  <1>1. /\ work[r] \in Work /\ user.id \in Id
        /\ work[r].input \in access /\ work[r].clock < work[r].input.exp
    BY DEF LoadUser, Inv, TypeOK, UserRow, WorkHasItsType, CameWithAToken
  <1>2. /\ update \in Work /\ update.input = work[r].input
        /\ update.clock = work[r].clock /\ update.owner = user.id
    BY <1>1 DEF Work
  <1>3. Reads(r, "acting", update)
    BY DEF LoadUser, Reads
  <1>4. user.id = used[work[r].input.session].owner
    BY <1>1 DEF Inv, AccessFollowsTheSession
  <1> HIDE DEF update
  <1>5. Knows("acting", update)
    BY <1>1, <1>2, <1>4 DEF Knows
  <1> QED
    BY <1>2, <1>3, <1>5, ReadsInv DEF Label

-----------------------------------------------------------------------------
(* Steps that write.                                                       *)

\* r is answered, and its name is taken.
Answered(r) ==
    /\ pc'[r] = "ok" /\ WroteLocally(r, NoWork)
    /\ pc' \in [Request -> {"new", "free", "agreed", "authenticated", "holding", "committed",
                            "decoded", "acting", "ok", "refused"}]
    /\ \A q \in Request \ {r} : pc'[q] = pc[q]
    /\ \A id \in Id : Named(id) => Named(id)'

LEMMA AnsweredFacts ==
  ASSUME TypeOK, WorkHasItsType, NEW r \in Request, Answer(r, "ok")
  PROVE  Answered(r)
  <1>1. WroteLocally(r, NoWork)
    BY NoWorkIsWork, LocalFacts DEF Answer
  <1>2. /\ pc' \in [Request -> {"new", "free", "agreed", "authenticated", "holding", "committed",
                                "decoded", "acting", "ok", "refused"}]
        /\ pc'[r] = "ok" /\ \A q \in Request \ {r} : pc'[q] = pc[q]
    BY DEF Answer, Goto, TypeOK
  <1> QED
    BY <1>1, <1>2, NamedStays DEF Answered

LEMMA AnsweredExchanges ==
  ASSUME KnowsItsExchange, ExchangesAreInTime, NEW r \in Request, Answered(r), used' = used
  PROVE  KnowsItsExchange' /\ ExchangesAreInTime'
  BY DEF KnowsItsExchange, ExchangesAreInTime, Answered, WroteLocally, Token

LEMMA RegisterCommitInv ==
  ASSUME Inv, NEW r \in Request, RegisterCommit(r), user = NULL
  PROVE  Inv'
  <1> USE DEF Inv
  <1>1. /\ pc[r] = "agreed" /\ Answer(r, "ok")
        /\ UNCHANGED <<terms, sessions, credentials, now, history>>
        /\ user' = [id |-> r, locale |-> work[r].input, terms |-> work[r].version,
                    verified |-> FALSE]
    BY DEF RegisterCommit
  <1>2. work[r].input \in Locale /\ work[r].version \in Version
    BY <1>1 DEF ReadsTheTerms
  <1>3. user' \in UserRow /\ user' # NULL /\ user'.id = r
    BY <1>1, <1>2, RegisteredRow, Zenon
  <1>4. Answered(r)
    BY <1>1, AnsweredFacts
  <1>5. ~Named(r) /\ Named(r)'
    BY <1>1, <1>4 DEF Named, Answered, WroteLocally
  <1>6. \A s \in Id : sessions[s] = NULL
    BY DEF SessionsOfTheAccount
  <1>7. TypeOK' /\ WorkHasItsType'
    BY <1>1, <1>3, <1>4 DEF TypeOK, WorkHasItsType, Work, Answered, WroteLocally
  <1>8. NamesAreUsedOnce'
    BY <1>1, <1>3, <1>4, <1>5 DEF NamesAreUsedOnce, Answered, WroteLocally, TypeOK
  <1>9. ReadsTheTerms' /\ KnowsItsAccount'
    BY <1>1, <1>3, <1>4, <1>5 DEF ReadsTheTerms, KnowsItsAccount, Answered, WroteLocally
  <1>10. /\ HoldsItsSession' /\ RowsTellTheHistory' /\ AccessFollowsTheSession'
         /\ SessionsOfTheAccount'
    BY <1>1, <1>4, <1>6 DEF HoldsItsSession, Matches, RowsTellTheHistory,
       AccessFollowsTheSession, SessionsOfTheAccount, Answered, WroteLocally
  <1>11. CameWithAToken' /\ ActsForItsOwnAccount'
    BY <1>1, <1>4 DEF CameWithAToken, ActsForItsOwnAccount, Answered, WroteLocally
  <1>12. KnowsItsExchange' /\ ExchangesAreInTime'
    BY <1>1, <1>4, AnsweredExchanges
  <1> QED
    BY <1>7, <1>8, <1>9, <1>10, <1>11, <1>12

LEMMA UsedFacts ==
  ASSUME TypeOK, NEW r \in Request, NEW s \in Id, NEW row, Exchanged(r, s, row),
         row.user \in Id, work[r].clock \in Time, ended[s] = NULL
  PROVE  /\ used' \in [Id -> [owner : Id \union {NULL}, at : Time, open : BOOLEAN]]
         /\ used'[s].owner = row.user /\ used'[s].at = work[r].clock /\ used'[s].open
         /\ \A t \in Id \ {s} : used'[t] = used[t]
  BY DEF Exchanged, TypeOK

\* The commit of an exchange makes a row for the account that has the address,
\* of a session that no other refresh holds.
LEMMA ExchangedInv ==
  ASSUME Inv, NEW r \in Request, NEW s \in Id, NEW row \in SessionRow, Exchanged(r, s, row),
         pc[r] \notin {"committed", "ok"}, s = r \/ Named(s), work[r].clock \in Time,
         user # NULL, user.verified, row.user = user.id, ~row.revoked,
         row.expires = work[r].clock + RefreshLife, ended[s] = NULL,
         Named(s) => used[s].owner = row.user,
         \A q \in Request \ {r} : pc[q] = "holding" => work[q].input[1] # s
  PROVE  Inv'
  <1> USE DEF Inv
  <1> DEFINE update == [NoWork EXCEPT !.owner = row.user, !.input = <<s, row.version>>]
  <1>1. UNCHANGED <<terms, user, credentials, now, ended>>
    BY DEF Exchanged
  <1>2. row.user \in Id /\ <<s, row.version>> \in Token
    BY DEF SessionRow, Token
  <1>3. update \in Work /\ update.owner = row.user /\ update.input = <<s, row.version>>
    BY <1>2, NoWorkIsWork DEF Work, Input
  <1>4. WroteLocally(r, update)
    BY <1>3, LocalFacts DEF Exchanged
  <1> HIDE DEF update
  <1>5. /\ pc' \in [Request -> {"new", "free", "agreed", "authenticated", "holding", "committed",
                                "decoded", "acting", "ok", "refused"}]
        /\ pc'[r] = "committed" /\ \A q \in Request \ {r} : pc'[q] = pc[q]
    BY DEF Exchanged, Goto, TypeOK
  <1>6. (\A id \in Id : Named(id) => Named(id)') /\ Named(s)'
    BY <1>5, NamedStays DEF Named
  <1>7. /\ sessions' \in [Id -> SessionRow \union {NULL}]
        /\ sessions'[s] = row /\ \A t \in Id \ {s} : sessions'[t] = sessions[t]
    BY DEF Exchanged, TypeOK
  <1>8. /\ used' \in [Id -> [owner : Id \union {NULL}, at : Time, open : BOOLEAN]]
        /\ used'[s].owner = row.user /\ used'[s].at = work[r].clock /\ used'[s].open
        /\ \A t \in Id \ {s} : used'[t] = used[t]
    BY <1>2, UsedFacts
  <1>9. TypeOK' /\ WorkHasItsType'
    BY <1>1, <1>4, <1>5, <1>7, <1>8 DEF TypeOK, WorkHasItsType, Work, WroteLocally
  <1>10. NamesAreUsedOnce'
    BY <1>1, <1>6, <1>7 DEF NamesAreUsedOnce, TypeOK, UserRow
  <1>11. ReadsTheTerms' /\ KnowsItsAccount'
    BY <1>1, <1>4, <1>5, <1>6 DEF ReadsTheTerms, KnowsItsAccount, WroteLocally
  <1>12. HoldsItsSession'
    BY <1>4, <1>5, <1>7 DEF HoldsItsSession, Matches, Token, WroteLocally
  <1>13. KnowsItsExchange'
    BY <1>2, <1>3, <1>4, <1>5, <1>6, <1>8 DEF KnowsItsExchange, WroteLocally, Token
  <1>14. ExchangesAreInTime'
    BY <1>8 DEF ExchangesAreInTime
  <1>15. RowsTellTheHistory' /\ SessionsOfTheAccount'
    BY <1>1, <1>7, <1>8 DEF RowsTellTheHistory, SessionsOfTheAccount
  <1>16. \A token \in access : token.session \in Id /\ used'[token.session].owner = used[token.session].owner
    BY <1>8 DEF NamesAreUsedOnce, TypeOK
  <1>17. AccessFollowsTheSession' /\ CameWithAToken'
    BY <1>1, <1>4, <1>5, <1>16 DEF AccessFollowsTheSession, CameWithAToken, WroteLocally
  <1>18. ActsForItsOwnAccount'
    BY <1>4, <1>5, <1>16 DEF ActsForItsOwnAccount, CameWithAToken, WroteLocally
  <1> QED
    BY <1>9, <1>10, <1>11, <1>12, <1>13, <1>14, <1>15, <1>17, <1>18

\* The answer makes a token for the account that the exchange was of.
LEMMA AnswerExchangeInv ==
  ASSUME Inv, NEW r \in Request, AnswerExchange(r)
  PROVE  Inv'
  <1> USE DEF Inv
  <1>1. /\ pc[r] = "committed" /\ Answered(r)
        /\ UNCHANGED <<tables, now, history>>
    BY AnsweredFacts DEF AnswerExchange
  <1>2. PICK s \in Id : s = work[r].input[1]
    BY <1>1 DEF KnowsItsExchange, Token
  <1> DEFINE made == AccessToken(work[r].owner, s)
  <1>3. work[r].owner \in Id /\ work[r].owner = used[s].owner /\ Named(s) /\ work[r].input \in Token
    BY <1>1, <1>2 DEF KnowsItsExchange
  <1>4. /\ made \in AccessTokens /\ made.session = s
        /\ made.sub = work[r].owner /\ made.exp <= now + AccessLife
    <2>1. PICK n \in Nat : n = now + AccessLife
      BY LifetimeAssumption DEF TypeOK, Time
    <2>2. made.exp = n /\ made.exp <= n
      BY <2>1 DEF AccessToken
    <2> QED
      BY <1>3, <2>1, <2>2 DEF AccessToken, AccessTokens
  <1>5. issued' = issued \union {work[r].input} /\ access' = access \union {made}
    BY <1>2 DEF AnswerExchange
  <1> HIDE DEF made
  <1>6. TypeOK' /\ WorkHasItsType'
    <2>1. issued' \subseteq Id \X Nat /\ access' \subseteq AccessTokens
      BY <1>3, <1>4, <1>5 DEF AccessTokens, TypeOK, Token
    <2> QED
      BY <1>1, <2>1 DEF TypeOK, WorkHasItsType, Work, Answered, WroteLocally, AccessTokens
  <1>7. NamesAreUsedOnce'
    BY <1>1, <1>2, <1>3, <1>4, <1>5 DEF NamesAreUsedOnce, Answered, TypeOK, UserRow
  <1>8. ReadsTheTerms' /\ KnowsItsAccount' /\ HoldsItsSession'
    BY <1>1 DEF ReadsTheTerms, KnowsItsAccount, HoldsItsSession, Matches, Answered, WroteLocally
  <1>9. KnowsItsExchange' /\ ExchangesAreInTime'
    BY <1>1, AnsweredExchanges
  <1>10. RowsTellTheHistory' /\ SessionsOfTheAccount'
    BY <1>1 DEF RowsTellTheHistory, SessionsOfTheAccount
  <1>11. AccessFollowsTheSession'
    <2>1. made.sub = used[made.session].owner
      BY <1>3, <1>4
    <2> QED
      BY <1>1, <1>4, <1>5, <2>1 DEF AccessFollowsTheSession
  <1>12. CameWithAToken' /\ ActsForItsOwnAccount'
    BY <1>1, <1>5 DEF CameWithAToken, ActsForItsOwnAccount, Answered, WroteLocally
  <1> QED
    BY <1>6, <1>7, <1>8, <1>9, <1>10, <1>11, <1>12

LEMMA PublishInv ==
  ASSUME Inv, NEW l \in Locale, Publish(l)
  PROVE  Inv'
  <1> USE DEF Inv, Publish
  <1>1. TypeOK' /\ WorkHasItsType'
    BY DEF TypeOK, WorkHasItsType
  <1>2. \A k \in Locale : terms[k] <= terms'[k] /\ terms[k] \in Nat /\ terms'[k] \in Nat
    BY DEF TypeOK
  <1>3. ReadsTheTerms'
    BY <1>2 DEF ReadsTheTerms, TypeOK, Version
  <1>4. /\ NamesAreUsedOnce' /\ KnowsItsAccount' /\ HoldsItsSession' /\ KnowsItsExchange'
        /\ ExchangesAreInTime'
    BY DEF NamesAreUsedOnce, KnowsItsAccount, HoldsItsSession, KnowsItsExchange,
       ExchangesAreInTime, Named, Matches
  <1>5. /\ RowsTellTheHistory' /\ AccessFollowsTheSession' /\ CameWithAToken'
        /\ SessionsOfTheAccount' /\ ActsForItsOwnAccount'
    BY DEF RowsTellTheHistory, AccessFollowsTheSession, CameWithAToken, SessionsOfTheAccount,
       ActsForItsOwnAccount
  <1> QED
    BY <1>1, <1>3, <1>4, <1>5

LEMMA EmailConfirmedInv ==
  ASSUME Inv, EmailConfirmed
  PROVE  Inv'
  <1> USE DEF Inv, EmailConfirmed
  <1>1. user' \in UserRow /\ user' # NULL /\ user'.id = user.id /\ user'.verified
    BY DEF UserRow, TypeOK
  <1>2. TypeOK' /\ WorkHasItsType'
    BY <1>1 DEF TypeOK, WorkHasItsType
  <1>3. NamesAreUsedOnce' /\ KnowsItsAccount' /\ SessionsOfTheAccount'
    BY <1>1 DEF NamesAreUsedOnce, KnowsItsAccount, SessionsOfTheAccount, Named
  <1>4. /\ ReadsTheTerms' /\ HoldsItsSession' /\ RowsTellTheHistory'
        /\ AccessFollowsTheSession' /\ CameWithAToken' /\ ActsForItsOwnAccount'
        /\ KnowsItsExchange' /\ ExchangesAreInTime'
    BY DEF ReadsTheTerms, HoldsItsSession, RowsTellTheHistory, AccessFollowsTheSession,
       CameWithAToken, ActsForItsOwnAccount, KnowsItsExchange, ExchangesAreInTime, Named,
       Matches
  <1> QED
    BY <1>2, <1>3, <1>4

LEMMA TickInv ==
  ASSUME Inv, Tick
  PROVE  Inv'
  <1> USE DEF Inv, Tick
  <1>1. TypeOK' /\ WorkHasItsType'
    BY DEF TypeOK, WorkHasItsType, Time
  <1>2. AccessFollowsTheSession'
    BY DEF AccessFollowsTheSession, TypeOK
  <1>3. /\ NamesAreUsedOnce' /\ ReadsTheTerms' /\ KnowsItsAccount' /\ HoldsItsSession'
        /\ KnowsItsExchange' /\ ExchangesAreInTime'
    BY DEF NamesAreUsedOnce, ReadsTheTerms, KnowsItsAccount, HoldsItsSession,
       KnowsItsExchange, ExchangesAreInTime, Named, Matches
  <1>4. RowsTellTheHistory' /\ CameWithAToken' /\ SessionsOfTheAccount' /\ ActsForItsOwnAccount'
    BY DEF RowsTellTheHistory, CameWithAToken, SessionsOfTheAccount, ActsForItsOwnAccount
  <1> QED
    BY <1>1, <1>2, <1>3, <1>4

\* A step that concerns no request, or that answers one.
SomeAnswer ==
    \/ UNCHANGED requests
    \/ \E r \in Request : pc[r] \in {"new", "acting"} /\ Answer(r, "ok")

RequestsStay ==
    /\ pc' \in [Request -> {"new", "free", "agreed", "authenticated", "holding", "committed",
                            "decoded", "acting", "ok", "refused"}]
    /\ work' \in [Request -> Work]
    /\ \A q \in Request :
          \/ pc'[q] = pc[q] /\ work'[q] = work[q]
          \/ pc[q] \in {"new", "acting"} /\ pc'[q] = "ok"
    /\ \A id \in Id : Named(id) => Named(id)'

LEMMA SomeAnswerFacts ==
  ASSUME TypeOK, WorkHasItsType, SomeAnswer
  PROVE  RequestsStay
  BY NoWorkIsWork
  DEF TypeOK, WorkHasItsType, SomeAnswer, RequestsStay, Answer, Goto, Local, Named, Id

LEMMA HoldersStay ==
  ASSUME HoldsItsSession, RequestsStay,
         \A s \in Id : Held(s) => sessions'[s] = sessions[s]
  PROVE  HoldsItsSession'
  <1> SUFFICES ASSUME NEW r \in Request, pc'[r] = "holding"
               PROVE  /\ work'[r].input \in Token
                      /\ Matches(work[r].input)' /\ ~sessions'[work'[r].input[1]].revoked
                      /\ \A q \in Request :
                            pc'[q] = "holding" /\ work'[q].input[1] = work'[r].input[1] => q = r
    BY DEF HoldsItsSession
  <1>1. \A q \in Request : pc'[q] = "holding" => pc[q] = "holding" /\ work'[q] = work[q]
    BY DEF RequestsStay
  <1>2. /\ work[r].input \in Token /\ Matches(work[r].input)
        /\ ~sessions[work[r].input[1]].revoked
        /\ \A q \in Request : pc[q] = "holding" /\ work[q].input[1] = work[r].input[1] => q = r
    BY <1>1 DEF HoldsItsSession
  <1>3. work'[r] = work[r] /\ sessions'[work[r].input[1]] = sessions[work[r].input[1]]
    BY <1>1, <1>2 DEF Held, Token
  <1> QED
    BY <1>1, <1>2, <1>3 DEF Matches

\* What a logout, and a change or reset of the password, do to the sessions.
Revokes(S) ==
    /\ \A s \in S : sessions[s] # NULL /\ ~Held(s)
    /\ End(S)
    /\ sessions' = [s \in Id |-> IF s \in S THEN [sessions[s] EXCEPT !.revoked = TRUE]
                                 ELSE sessions[s]]
    /\ UNCHANGED <<terms, user, credentials, now, used>>

LEMMA RevokesInv ==
  ASSUME Inv, NEW S \in SUBSET Id, Revokes(S), SomeAnswer
  PROVE  Inv'
  <1> USE DEF Inv, Revokes
  <1>1. RequestsStay
    BY SomeAnswerFacts
  <1>2. \A s \in S : /\ sessions'[s] \in SessionRow /\ sessions'[s] # NULL
                     /\ sessions'[s].user = sessions[s].user
                     /\ sessions'[s].expires = sessions[s].expires /\ sessions'[s].revoked
    BY RevokedRow DEF TypeOK
  <1>3. \A s \in Id \ S : sessions'[s] = sessions[s] /\ ended'[s] = ended[s]
    BY DEF End
  <1>4. \A s \in S : ended'[s] = IF ended[s] = NULL THEN now ELSE ended[s]
    BY DEF End
  <1>5. TypeOK' /\ WorkHasItsType'
    <2>1. sessions' \in [Id -> SessionRow \union {NULL}] /\ ended' \in [Id -> Time \union {NULL}]
      BY <1>2, <1>3 DEF TypeOK, End
    <2> QED
      BY <1>1, <2>1 DEF TypeOK, WorkHasItsType, Work, RequestsStay
  <1>6. NamesAreUsedOnce'
    BY <1>1, <1>3 DEF NamesAreUsedOnce, RequestsStay, TypeOK, UserRow
  <1>7. ReadsTheTerms' /\ KnowsItsAccount'
    BY <1>1 DEF ReadsTheTerms, KnowsItsAccount, RequestsStay
  <1>8. HoldsItsSession'
    BY <1>1, <1>3, HoldersStay
  <1>9. RowsTellTheHistory' /\ SessionsOfTheAccount'
    BY <1>2, <1>3, <1>4 DEF RowsTellTheHistory, SessionsOfTheAccount, TypeOK
  <1>10. AccessFollowsTheSession'
    BY <1>3, <1>4 DEF AccessFollowsTheSession, TypeOK
  <1>11. CameWithAToken' /\ ActsForItsOwnAccount'
    BY <1>1 DEF CameWithAToken, ActsForItsOwnAccount, RequestsStay
  <1>12. KnowsItsExchange' /\ ExchangesAreInTime'
    BY <1>1 DEF KnowsItsExchange, ExchangesAreInTime, RequestsStay, Token
  <1> QED
    BY <1>5, <1>6, <1>7, <1>8, <1>9, <1>10, <1>11, <1>12

LEMMA DeleteAccountInv ==
  ASSUME Inv, NEW r \in Request, DeleteAccount(r)
  PROVE  Inv'
  <1> USE DEF Inv
  <1> DEFINE gone == SessionsOf(work[r].owner)
  <1>1. /\ Answered(r) /\ pc[r] = "acting" /\ user' \in {user, NULL}
        /\ UNCHANGED <<terms, credentials, now, used>>
    BY AnsweredFacts DEF DeleteAccount
  <1>2. /\ \A s \in gone : ~Held(s) /\ sessions'[s] = NULL
        /\ \A s \in Id \ gone : sessions'[s] = sessions[s] /\ ended'[s] = ended[s]
        /\ \A s \in gone : ended'[s] = IF ended[s] = NULL THEN now ELSE ended[s]
        /\ \A s \in gone : sessions[s] # NULL
    BY DEF DeleteAccount, SessionsOf, End
  <1>3. \A s \in Id : sessions'[s] # NULL => user' = user /\ user # NULL
    BY <1>2 DEF DeleteAccount, SessionsOfTheAccount, SessionsOf
  <1>4. TypeOK' /\ WorkHasItsType'
    <2>1. sessions' \in [Id -> SessionRow \union {NULL}] /\ ended' \in [Id -> Time \union {NULL}]
      BY DEF DeleteAccount, End, TypeOK
    <2> QED
      BY <1>1, <2>1 DEF TypeOK, WorkHasItsType, Work, Answered, WroteLocally
  <1> HIDE DEF gone
  <1>5. NamesAreUsedOnce'
    BY <1>1, <1>2 DEF NamesAreUsedOnce, Answered, WroteLocally, TypeOK, UserRow
  <1>6. ReadsTheTerms' /\ KnowsItsAccount'
    BY <1>1 DEF ReadsTheTerms, KnowsItsAccount, Answered, WroteLocally
  <1>7. HoldsItsSession'
    <2>1. RequestsStay
      BY <1>1, <1>4 DEF Answered, WroteLocally, RequestsStay, TypeOK, WorkHasItsType
    <2>2. \A s \in Id : Held(s) => sessions'[s] = sessions[s]
      BY <1>2
    <2> QED
      BY <2>1, <2>2, HoldersStay
  <1>8. RowsTellTheHistory' /\ SessionsOfTheAccount'
    BY <1>1, <1>2, <1>3 DEF RowsTellTheHistory, SessionsOfTheAccount
  <1>9. AccessFollowsTheSession'
    BY <1>1, <1>2 DEF AccessFollowsTheSession, TypeOK
  <1>10. CameWithAToken' /\ ActsForItsOwnAccount'
    BY <1>1 DEF CameWithAToken, ActsForItsOwnAccount, Answered, WroteLocally
  <1>11. KnowsItsExchange' /\ ExchangesAreInTime'
    BY <1>1, AnsweredExchanges
  <1> QED
    BY <1>4, <1>5, <1>6, <1>7, <1>8, <1>9, <1>10, <1>11

LEMMA NewRow ==
  ASSUME NEW id \in Id, NEW expires \in Nat, NEW b \in BOOLEAN
  PROVE  LET row == [user |-> id, version |-> 0, expires |-> expires, revoked |-> b]
         IN  /\ row \in SessionRow /\ row # NULL /\ row.user = id /\ row.version = 0
             /\ row.expires = expires /\ (row.revoked <=> b)
  BY DEF SessionRow

LEMMA NewSessionFacts ==
  ASSUME NEW r \in Request, work[r].owner \in Id, work[r].clock \in Nat
  PROVE  /\ NewSession(r) \in SessionRow /\ NewSession(r) # NULL
         /\ NewSession(r).user = work[r].owner /\ NewSession(r).version = 0
         /\ NewSession(r).expires = work[r].clock + RefreshLife /\ ~NewSession(r).revoked
  <1>1. work[r].clock + RefreshLife \in Nat
    OBVIOUS
  <1> QED
    BY <1>1, NewRow, Zenon DEF NewSession

LEMMA RotatedFacts ==
  ASSUME NEW r \in Request, NEW row \in SessionRow, work[r].clock \in Nat
  PROVE  /\ Rotated(r, row) \in SessionRow /\ Rotated(r, row).user = row.user
         /\ Rotated(r, row).version = row.version + 1
         /\ Rotated(r, row).expires = work[r].clock + RefreshLife
         /\ (Rotated(r, row).revoked <=> row.revoked)
  <1>1. Rotated(r, row).user = row.user /\ Rotated(r, row).version = row.version + 1
    BY DEF Rotated, SessionRow
  <1>2. Rotated(r, row).expires = work[r].clock + RefreshLife
    BY DEF Rotated, SessionRow
  <1>3. Rotated(r, row).revoked <=> row.revoked
    BY DEF Rotated, SessionRow
  <1>4. Rotated(r, row) \in SessionRow
    <2>1. row.version + 1 \in Nat /\ work[r].clock + RefreshLife \in Nat
      BY DEF SessionRow
    <2>2. Rotated(r, row) = [row EXCEPT !.version = row.version + 1,
                                        !.expires = work[r].clock + RefreshLife]
      BY DEF Rotated
    <2> QED
      BY <2>1, <2>2 DEF SessionRow
  <1> QED
    BY <1>1, <1>2, <1>3, <1>4

\* A login's session has a name that nothing had before.
LEMMA LoginCommitInv ==
  ASSUME Inv, NEW r \in Request, LoginCommit(r), user # NULL, user.id = work[r].owner
  PROVE  Inv'
  <1> USE DEF Inv
  <1>1. pc[r] = "authenticated" /\ Exchanged(r, r, NewSession(r))
    BY DEF LoginCommit
  <1>2. work[r].owner \in Id /\ work[r].clock \in Time /\ user.verified
    BY <1>1 DEF KnowsItsAccount, TypeOK
  <1>3. /\ NewSession(r) \in SessionRow /\ NewSession(r).user = user.id
        /\ NewSession(r).expires = work[r].clock + RefreshLife /\ ~NewSession(r).revoked
    BY <1>2, NewSessionFacts
  <1>5. ~Named(r)
    BY <1>1 DEF Named
  <1>7. sessions[r] = NULL /\ ended[r] = NULL
    BY <1>5 DEF NamesAreUsedOnce
  <1>8. \A q \in Request : pc[q] = "holding" => work[q].input[1] # r
    BY <1>7 DEF HoldsItsSession, Matches
  <1> HIDE DEF Inv
  <1> QED
    BY <1>1, <1>2, <1>3, <1>5, <1>7, <1>8, ExchangedInv

LEMMA RefreshCommitInv ==
  ASSUME Inv, NEW r \in Request, RefreshCommit(r)
  PROVE  Inv'
  <1> USE DEF Inv
  <1>1. PICK s \in Id : s = work[r].input[1]
    BY DEF RefreshCommit, HoldsItsSession, Token
  <1>2. /\ sessions[s] \in SessionRow /\ sessions[s] # NULL /\ ~sessions[s].revoked
        /\ \A q \in Request \ {r} : pc[q] = "holding" => work[q].input[1] # s
    BY <1>1 DEF RefreshCommit, HoldsItsSession, Matches, TypeOK
  <1> DEFINE row == Rotated(r, sessions[s])
  <1>3. pc[r] = "holding" /\ Exchanged(r, s, row)
    BY <1>1 DEF RefreshCommit
  <1>4. work[r].clock \in Time
    BY DEF TypeOK
  <1>5. /\ row \in SessionRow /\ row.user = sessions[s].user /\ ~row.revoked
        /\ row.expires = work[r].clock + RefreshLife
    BY <1>2, <1>4, RotatedFacts
  <1>6. user # NULL /\ user.verified /\ row.user = user.id
    BY <1>2, <1>5 DEF SessionsOfTheAccount
  <1>7. ended[s] = NULL /\ used[s].owner = row.user
    BY <1>2, <1>5 DEF RowsTellTheHistory
  <1>8. Named(s)
    BY <1>2 DEF NamesAreUsedOnce
  <1> HIDE DEF Inv, row
  <1> QED
    BY <1>2, <1>3, <1>4, <1>5, <1>6, <1>7, <1>8, ExchangedInv

LEMMA LogoutRevokes ==
  ASSUME TypeOK, NEW r \in Request, NEW token \in issued, Logout(r, token)
  PROVE  \E S \in SUBSET Id : Revokes(S)
  <1> USE DEF TypeOK, Logout
  <1>1. PICK s \in Id : s = token[1]
    OBVIOUS
  <1>2. CASE Matches(token)
    <2>1. sessions' = [t \in Id |-> IF t \in {s} THEN [sessions[t] EXCEPT !.revoked = TRUE]
                                    ELSE sessions[t]]
      BY <1>1, <1>2
    <2> QED
      BY <1>1, <1>2, <2>1 DEF Revokes, Matches
  <1>3. CASE ~Matches(token)
    <2>1. sessions' = [t \in Id |-> IF t \in {} THEN [sessions[t] EXCEPT !.revoked = TRUE]
                                    ELSE sessions[t]]
      BY <1>3
    <2> QED
      BY <1>3, <2>1 DEF Revokes
  <1> QED
    BY <1>2, <1>3

LEMMA PasswordRevokes ==
  ASSUME NEW id, RevokeSessions(id), UNCHANGED <<terms, user, credentials, now, used>>
  PROVE  Revokes(SessionsOf(id)) /\ SessionsOf(id) \in SUBSET Id
  BY DEF RevokeSessions, Revokes, SessionsOf

LEMMA ArrivalInv ==
  ASSUME Inv, NEW r \in Request, Arrival(r)
  PROVE  Inv'
  <1>1. ASSUME NEW l \in Locale, RegisterFind(r, l) PROVE Inv'
    BY <1>1, RegisterFindInv, RefuseInv DEF RegisterFind
  <1>2. ASSUME LoginAuthenticate(r) PROVE Inv'
    BY <1>2, LoginAuthenticateInv, RefuseInv DEF LoginAuthenticate
  <1>3. ASSUME NEW token \in issued, RefreshLock(r, token) PROVE Inv'
    <2>1. CASE pc'[r] = "holding"
      BY <1>3, <2>1, RefreshLockInv
    <2>2. CASE pc'[r] # "holding"
      <3>1. pc[r] = "new" /\ Answer(r, "refused")
        BY <1>3, <2>2 DEF RefreshLock, Goto, Inv, TypeOK
      <3> QED
        BY <1>3, <3>1, RefuseInv DEF RefreshLock
    <2> QED
      BY <2>1, <2>2
  <1>4. ASSUME NEW token \in issued, Logout(r, token) PROVE Inv'
    <2>1. SomeAnswer
      BY <1>4 DEF Logout, SomeAnswer
    <2> QED
      BY <1>4, <2>1, LogoutRevokes, RevokesInv DEF Inv
  <1>5. ASSUME NEW operation \in {"profile", "change", "delete"}, NEW token \in access,
               Decode(r, operation, token)
        PROVE  Inv'
    BY <1>5, DecodeInv, RefuseInv DEF Decode
  <1> QED
    BY <1>1, <1>2, <1>3, <1>4, <1>5 DEF Arrival

LEMMA ProceedInv ==
  ASSUME Inv, NEW r \in Request, Proceed(r)
  PROVE  Inv'
  <1>1. ASSUME RegisterTerms(r) PROVE Inv'
    BY <1>1, RegisterTermsInv, RefuseInv DEF RegisterTerms
  <1>2. ASSUME RegisterCommit(r) PROVE Inv'
    BY <1>2, RegisterCommitInv, RefuseInv DEF RegisterCommit
  <1>3. ASSUME LoginCommit(r) PROVE Inv'
    BY <1>3, LoginCommitInv, RefuseInv DEF LoginCommit
  <1>4. ASSUME LoadUser(r) PROVE Inv'
    BY <1>4, LoadUserInv, RefuseInv DEF LoadUser
  <1>5. ASSUME ChangePassword(r) PROVE Inv'
    <2>1. CASE user # NULL /\ user.id = work[r].owner
      <3>1. SomeAnswer
        BY <1>5, <2>1 DEF ChangePassword, SomeAnswer
      <3> QED
        BY <1>5, <2>1, <3>1, PasswordRevokes, RevokesInv DEF ChangePassword
    <2>2. CASE ~(user # NULL /\ user.id = work[r].owner)
      BY <1>5, <2>2, RefuseInv DEF ChangePassword
    <2> QED
      BY <2>1, <2>2
  <1> QED
    BY <1>1, <1>2, <1>3, <1>4, <1>5, RefreshCommitInv, AnswerExchangeInv, DeleteAccountInv
       DEF Proceed

LEMMA InitialRows ==
  ASSUME Init
  PROVE  /\ First \in Id /\ 0 \in Time
         /\ user \in UserRow /\ user # NULL /\ user.id = First /\ user.verified
         /\ sessions[First] \in SessionRow /\ sessions[First].user = First
         /\ sessions[First].expires = RefreshLife /\ ~sessions[First].revoked
         /\ \A s \in Id \ {First} : sessions[s] = NULL
         /\ sessions \in [Id -> SessionRow \union {NULL}]
  <1> USE DEF Init
  <1>1. First \in Id /\ 0 \in Time /\ 1 \in Version
    BY LifetimeAssumption DEF Time, Version
  <1>2. user \in UserRow /\ user.id = First /\ user.verified
    BY <1>1 DEF UserRow
  <1>3. sessions[First] = [user |-> First, version |-> 0, expires |-> RefreshLife,
                           revoked |-> FALSE]
    BY <1>1
  <1>4. /\ sessions[First] \in SessionRow /\ sessions[First].user = First
        /\ sessions[First].expires = RefreshLife /\ ~sessions[First].revoked
    BY <1>1, <1>3, NewRow, Names, Zenon
  <1>5. \A s \in Id \ {First} : sessions[s] = NULL
    OBVIOUS
  <1> QED
    BY <1>1, <1>2, <1>4, <1>5

LEMMA InitInv == Init => Inv
  <1> SUFFICES ASSUME Init PROVE Inv
    OBVIOUS
  <1>1. TypeOK
    <2>1. terms \in [Locale -> 0..MaxVersion]
      BY LifetimeAssumption DEF Init
    <2>2. issued \subseteq Id \X Nat /\ access \subseteq [sub : Id, exp : Nat, session : Id]
      BY InitialRows DEF Init
    <2>3. used \in [Id -> [owner : Id \union {NULL}, at : Time, open : BOOLEAN]]
      BY InitialRows DEF Init
    <2>4. \A r \in Request :
            /\ work[r].op \in {"profile", "change", "delete", NULL}
            /\ work[r].owner \in Id \union {NULL} /\ work[r].clock \in Time
            /\ work[r].version \in 0..MaxVersion /\ work[r].since \in 0..MaxVersion
      BY NoWorkIsWork DEF Init, Work
    <2> QED
      BY InitialRows, <2>1, <2>2, <2>3, <2>4 DEF TypeOK, Init
  <1>2. WorkHasItsType
    BY NoWorkIsWork DEF Init, WorkHasItsType
  <1>3. NamesAreUsedOnce
    BY InitialRows DEF Init, NamesAreUsedOnce, Named
  <1>4. /\ ReadsTheTerms /\ KnowsItsAccount /\ HoldsItsSession /\ CameWithAToken
        /\ ActsForItsOwnAccount /\ KnowsItsExchange /\ ExchangesAreInTime
    BY DEF Init, ReadsTheTerms, KnowsItsAccount, HoldsItsSession, CameWithAToken,
       ActsForItsOwnAccount, KnowsItsExchange, ExchangesAreInTime
  <1>5. RowsTellTheHistory /\ SessionsOfTheAccount
    <2>1. used[First].owner = First /\ used[First].at = 0 /\ ended[First] = NULL
      BY InitialRows DEF Init
    <2> QED
      BY <2>1, InitialRows DEF RowsTellTheHistory, SessionsOfTheAccount
  <1>6. AccessFollowsTheSession
    BY InitialRows DEF Init, AccessFollowsTheSession
  <1> QED
    BY <1>1, <1>2, <1>3, <1>4, <1>5, <1>6 DEF Inv

LEMMA StutterInv ==
  ASSUME Inv, UNCHANGED vars
  PROVE  Inv'
  <1> USE DEF Inv, vars
  <1>1. TypeOK' /\ WorkHasItsType'
    BY DEF TypeOK, WorkHasItsType
  <1>2. NamesAreUsedOnce' /\ ReadsTheTerms' /\ KnowsItsAccount'
    BY DEF NamesAreUsedOnce, Named, ReadsTheTerms, KnowsItsAccount
  <1>3. /\ HoldsItsSession' /\ CameWithAToken' /\ ActsForItsOwnAccount'
        /\ KnowsItsExchange' /\ ExchangesAreInTime'
    BY DEF HoldsItsSession, Matches, CameWithAToken, ActsForItsOwnAccount, KnowsItsExchange,
       ExchangesAreInTime, Named
  <1>4. RowsTellTheHistory' /\ AccessFollowsTheSession' /\ SessionsOfTheAccount'
    BY DEF RowsTellTheHistory, AccessFollowsTheSession, SessionsOfTheAccount
  <1> QED
    BY <1>1, <1>2, <1>3, <1>4

LEMMA StepInv == Inv /\ [Next]_vars => Inv'
  <1> SUFFICES ASSUME Inv, [Next]_vars PROVE Inv'
    OBVIOUS
  <1>1. ASSUME NEW r \in Request, Abort(r) PROVE Inv'
    BY <1>1, RefuseInv DEF Abort
  <1>2. ASSUME PasswordReset PROVE Inv'
    BY <1>2, PasswordRevokes, RevokesInv DEF PasswordReset, SomeAnswer
  <1> QED
    BY <1>1, <1>2, ArrivalInv, ProceedInv, PublishInv, EmailConfirmedInv, TickInv, StutterInv
       DEF Next

\* The inductive invariant holds in every state of every behaviour.
THEOREM Invariance == Spec => []Inv
  BY InitInv, StepInv, PTL DEF Spec

-----------------------------------------------------------------------------
\* Whatever logins were under way when an account was deleted, a session
\* belongs to the confirmed account that has the address.
THEOREM SessionsBelongToTheAccount == Spec => []Consistent
  <1>1. Inv => Consistent
    BY DEF Inv, Consistent
  <1> QED
    BY <1>1, Invariance, PTL

\* An access token acts for the account whose login it came from and for no
\* other account that its address ever has.
THEOREM TokensActForTheirAccount == Spec => []ActsForItsOwnAccount
  <1>1. Inv => ActsForItsOwnAccount
    BY DEF Inv
  <1> QED
    BY <1>1, Invariance, PTL

\* An access token outlives the end of its session by its own life at most,
\* unless the exchange it comes from had committed before that end and was
\* answered after it: then it lasts its own life from the answer.
THEOREM AccessEnds == Spec => []AccessEndsWithTheSession
  <1>1. ASSUME Inv, NEW r \in Request, pc[r] = "acting", ended[work[r].input.session] # NULL
        PROVE  LET token == work[r].input
               IN  \/ work[r].clock < ended[token.session] + AccessLife
                   \/ Crossed(token) /\ work[r].clock < token.exp
    <2>1. PICK token \in access : token = work[r].input
      BY <1>1 DEF Inv, CameWithAToken
    <2>2. work[r].clock < token.exp
      BY <1>1, <2>1 DEF Inv, CameWithAToken
    <2>3. used[token.session].open
      BY <2>1, <1>1 DEF Inv, ExchangesAreInTime, TypeOK
    <2>4. token.exp \in Nat /\ ended[token.session] \in Nat /\ work[r].clock \in Nat
      BY <1>1, <2>1 DEF Inv, TypeOK
    <2> QED
      BY <2>1, <2>2, <2>3, <2>4 DEF Crossed
  <1>2. Inv => AccessEndsWithTheSession
    BY <1>1 DEF AccessEndsWithTheSession
  <1> QED
    BY <1>2, Invariance, PTL

\* The newest token of a live session is accepted exactly while the session was
\* exchanged less than the refresh lifetime ago, with no bound on its age.
THEOREM TheWindowSlides == Spec => SlidingWindow
  <1>1. ASSUME Inv, NEW r \in Request, NEW token \in issued,
               RefreshLock(r, token), Matches(token), ended[token[1]] = NULL
        PROVE  pc'[r] = "holding" <=> now < used[token[1]].at + RefreshLife
    <2>1. PICK s \in Id : s = token[1]
      BY <1>1 DEF Inv, TypeOK
    <2>2. sessions[s] # NULL /\ sessions[s] \in SessionRow
      BY <1>1, <2>1 DEF Matches, Inv, TypeOK
    <2>3. ~sessions[s].revoked /\ sessions[s].expires = used[s].at + RefreshLife
      BY <1>1, <2>1, <2>2 DEF Inv, RowsTellTheHistory
    <2>4. user # NULL /\ user.id = sessions[s].user /\ user.verified
      BY <1>1, <2>2 DEF Inv, SessionsOfTheAccount
    <2>5. sessions[s].expires > now <=> now < used[s].at + RefreshLife
      BY <2>2, <2>3
    <2>6. pc'[r] = "holding" <=> sessions[s].expires > now
      BY <1>1, <2>1, <2>3, <2>4 DEF RefreshLock, Answer, Goto, Inv, TypeOK
    <2> QED
      BY <2>1, <2>5, <2>6
  <1>2. Inv /\ [Next]_vars =>
          [\A r \in Request, token \in issued :
              RefreshLock(r, token) /\ Matches(token) /\ ended[token[1]] = NULL
              => (pc'[r] = "holding" <=> now < used[token[1]].at + RefreshLife)]_vars
    BY <1>1
  <1> QED
    BY <1>2, Invariance, PTL DEF Spec, SlidingWindow

\* Every step that changes rows is one of these.
LEMMA WritersOfRows ==
  ASSUME [Next]_vars
  PROVE  \/ UNCHANGED <<user, sessions>>
         \/ EmailConfirmed \/ PasswordReset
         \/ \E r \in Request :
               \/ RegisterCommit(r) /\ user = NULL
               \/ LoginCommit(r) /\ user # NULL /\ user.id = work[r].owner
               \/ RefreshCommit(r) \/ DeleteAccount(r)
               \/ \E token \in issued : Logout(r, token)
               \/ ChangePassword(r) /\ user # NULL /\ user.id = work[r].owner
  BY DEF Next, vars, Arrival, Proceed, RegisterFind, LoginAuthenticate, RefreshLock, Decode,
     RegisterTerms, RegisterCommit, LoginCommit, AnswerExchange, LoadUser, ChangePassword,
     Abort, Publish, Tick

\* The version recorded with an account was in force in its locale while the
\* registration was under way, whatever is published at the same time.
THEOREM TermsAreRecorded == Spec => TermsInForceAreRecorded
  <1> DEFINE Stays == user # NULL /\ user.id = user'.id /\ user.terms = user'.terms
             Registers(r) == /\ user'.id = r /\ user'.locale = work[r].input
                             /\ user'.terms >= work[r].since
                             /\ user'.terms <= terms[work[r].input]
  <1>1. ASSUME Inv, [Next]_vars, user' # NULL
        PROVE  Stays \/ \E r \in Request : Registers(r)
    <2>1. ASSUME NEW r \in Request, RegisterCommit(r), user = NULL PROVE Registers(r)
      <3>1. /\ user'.id = r /\ user'.locale = work[r].input
            /\ user'.terms = work[r].version
        BY <2>1 DEF RegisterCommit
      <3>2. /\ work[r].since <= work[r].version /\ work[r].version <= terms[work[r].input]
            /\ work[r].version \in Nat /\ work[r].since \in Nat
        BY <1>1, <2>1 DEF RegisterCommit, Inv, ReadsTheTerms, TypeOK
      <3> QED
        BY <3>1, <3>2
    <2>2. ASSUME EmailConfirmed PROVE Stays
      BY <1>1, <2>2 DEF EmailConfirmed, Inv, TypeOK, UserRow
    <2>3. ASSUME user' = user PROVE Stays
      BY <1>1, <2>3
    <2> QED
      BY <1>1, <2>1, <2>2, <2>3, WritersOfRows DEF PasswordReset, LoginCommit, RefreshCommit,
         Exchanged, Logout, ChangePassword, DeleteAccount
  <1>2. Inv /\ [Next]_vars =>
          [user' # NULL =>
              \/ user # NULL /\ user.id = user'.id /\ user.terms = user'.terms
              \/ \E r \in Request :
                    /\ user'.id = r /\ user'.locale = work[r].input
                    /\ user'.terms >= work[r].since /\ user'.terms <= terms[work[r].input]]_vars
    BY <1>1
  <1> QED
    BY <1>2, Invariance, PTL DEF Spec, TermsInForceAreRecorded

-----------------------------------------------------------------------------
(* Accounts implements SessionPromise.                                     *)

account == IF user = NULL THEN NULL ELSE user.id
session == [s \in Id |-> SessionOf(s)]

LEMMA SessionOfRow ==
  ASSUME TypeOK, NEW s \in Id, sessions[s] # NULL
  PROVE  SessionOf(s) # NULL
  <1>1. SessionOf(s) \in [owner : Id, exchanges : Nat, open : BOOLEAN]
    BY DEF SessionOf, TypeOK, SessionRow
  <1> QED
    BY <1>1, NullAssumption

LEMMA AccountOfRow ==
  ASSUME TypeOK, user # NULL
  PROVE  account = user.id /\ account # NULL /\ account \in Id
  BY DEF account, TypeOK, UserRow

LEMMA InitPromise == Init => Promise!Init
  <1> SUFFICES ASSUME Init PROVE Promise!Init
    OBVIOUS
  <1>2. user # NULL /\ user.id = First
    BY InitialRows
  <1>3. account = First
    BY <1>2 DEF account
  <1>4. \A s \in Id : SessionOf(s) \in {NULL, Promise!Opened}
    BY <1>2 DEF Init, SessionOf, Promise!Opened
  <1>5. session \in [Id -> {NULL, Promise!Opened}]
    BY <1>4 DEF session
  <1> QED
    BY <1>2, <1>3, <1>5 DEF Promise!Init, session, account

LEMMA LoginImplements ==
  ASSUME Inv, NEW r \in Request, LoginCommit(r), user # NULL, user.id = work[r].owner
  PROVE  Promise!Open(r)
  <1>1. pc[r] = "authenticated" /\ Exchanged(r, r, NewSession(r))
    BY DEF LoginCommit
  <1>2. sessions[r] = NULL
    BY <1>1 DEF Inv, NamesAreUsedOnce, Named
  <1>3. user.id \in Id /\ work[r].clock \in Nat
    BY DEF Inv, TypeOK, UserRow
  <1>4. /\ sessions'[r] = NewSession(r) /\ user' = user
        /\ \A s \in Id \ {r} : sessions'[s] = sessions[s]
    BY <1>1 DEF Exchanged, Inv, TypeOK
  <1>5. /\ NewSession(r) # NULL /\ NewSession(r).user = user.id /\ NewSession(r).version = 0
        /\ ~NewSession(r).revoked
    BY <1>3, NewSessionFacts
  <1>6. SessionOf(r) = NULL /\ SessionOf(r)' = Promise!Opened
    BY <1>2, <1>4, <1>5 DEF SessionOf, Promise!Opened, account
  <1>7. \A s \in Id \ {r} : SessionOf(s)' = SessionOf(s)
    BY <1>4 DEF SessionOf
  <1>8. session' = [session EXCEPT ![r] = Promise!Opened]
    BY <1>6, <1>7 DEF session
  <1> QED
    BY <1>3, <1>4, <1>6, <1>8 DEF Promise!Open, Promise!Exists, session, account

LEMMA RefreshImplements ==
  ASSUME Inv, NEW r \in Request, RefreshCommit(r)
  PROVE  \E s \in Id : Promise!Exchange(s)
  <1>1. PICK s \in Id : s = work[r].input[1]
    BY DEF Inv, RefreshCommit, HoldsItsSession, Token
  <1>2. sessions[s] \in SessionRow /\ sessions[s] # NULL /\ ~sessions[s].revoked
    BY <1>1 DEF Inv, RefreshCommit, HoldsItsSession, Matches, TypeOK
  <1>3. Exchanged(r, s, Rotated(r, sessions[s]))
    BY <1>1 DEF RefreshCommit
  <1>4. /\ sessions'[s] = Rotated(r, sessions[s]) /\ user' = user
        /\ \A t \in Id \ {s} : sessions'[t] = sessions[t]
    BY <1>3 DEF Exchanged, Inv, TypeOK
  <1>5. work[r].clock \in Nat
    BY DEF Inv, TypeOK
  <1>6. /\ sessions'[s] \in SessionRow /\ sessions'[s].user = sessions[s].user
        /\ sessions'[s].version = sessions[s].version + 1 /\ ~sessions'[s].revoked
    BY <1>2, <1>4, <1>5, RotatedFacts
  <1>7. SessionOf(s) # NULL /\ SessionOf(s).open
    BY <1>2, SessionOfRow DEF SessionOf, Inv
  <1>8. SessionOf(s)' = [SessionOf(s) EXCEPT !.exchanges = @ + 1]
    BY <1>2, <1>6 DEF SessionOf
  <1>9. \A t \in Id \ {s} : SessionOf(t)' = SessionOf(t)
    BY <1>4 DEF SessionOf
  <1>10. session' = [session EXCEPT ![s].exchanges = @ + 1]
    BY <1>8, <1>9 DEF session
  <1> QED
    BY <1>4, <1>7, <1>10 DEF Promise!Exchange, Promise!Exists, session

LEMMA ClosedRecord ==
  ASSUME NEW a, NEW n, NEW b, NEW c
  PROVE  [[owner |-> a, exchanges |-> n, open |-> b] EXCEPT !.open = c]
           = [owner |-> a, exchanges |-> n, open |-> c]
  <1> DEFINE l == [[owner |-> a, exchanges |-> n, open |-> b] EXCEPT !.open = c]
             r == [owner |-> a, exchanges |-> n, open |-> c]
  <1>1. DOMAIN l = DOMAIN r
    OBVIOUS
  <1>2. \A x \in DOMAIN r : l[x] = r[x]
    OBVIOUS
  <1>3. l = [x \in DOMAIN l |-> l[x]] /\ r = [x \in DOMAIN r |-> r[x]]
    OBVIOUS
  <1> HIDE DEF l, r
  <1> QED
    BY <1>1, <1>2, <1>3

LEMMA RevokesImplements ==
  ASSUME TypeOK, NEW S \in SUBSET Id, Revokes(S)
  PROVE  Promise!Close(S)
  <1> USE DEF Revokes
  <1>1. \A s \in S : /\ sessions'[s] # NULL /\ sessions'[s].revoked
                     /\ sessions'[s].user = sessions[s].user
                     /\ sessions'[s].version = sessions[s].version
    BY RevokedRow DEF TypeOK
  <1>2. \A s \in S : SessionOf(s)' = [SessionOf(s) EXCEPT !.open = FALSE]
    <2> TAKE s \in S
    <2>1. SessionOf(s)' = [owner |-> sessions[s].user, exchanges |-> sessions[s].version,
                           open |-> FALSE]
      BY <1>1 DEF SessionOf
    <2>2. SessionOf(s) = [owner |-> sessions[s].user, exchanges |-> sessions[s].version,
                          open |-> ~sessions[s].revoked]
      BY DEF SessionOf
    <2>3. [[owner |-> sessions[s].user, exchanges |-> sessions[s].version,
            open |-> ~sessions[s].revoked] EXCEPT !.open = FALSE]
            = [owner |-> sessions[s].user, exchanges |-> sessions[s].version, open |-> FALSE]
      BY ClosedRecord, Zenon
    <2> QED
      BY <2>1, <2>2, <2>3, Zenon
  <1>3. \A s \in Id \ S : SessionOf(s)' = SessionOf(s)
    BY DEF SessionOf
  <1>4. session' = [s \in Id |-> IF s \in S THEN [session[s] EXCEPT !.open = FALSE]
                                 ELSE session[s]]
    BY <1>2, <1>3 DEF session
  <1>5. \A s \in S : session[s] # NULL
    BY SessionOfRow DEF session
  <1>6. account' = account
    BY DEF account
  <1> QED
    BY <1>4, <1>5, <1>6 DEF Promise!Close, Promise!Exists, session, account

\* The deletion of an account that is gone deletes nothing.
LEMMA DeleteImplements ==
  ASSUME Inv, NEW r \in Request, DeleteAccount(r)
  PROVE  Promise!Delete \/ UNCHANGED <<user, sessions>>
  <1> DEFINE gone == SessionsOf(work[r].owner)
  <1>1. CASE user # NULL /\ user.id = work[r].owner
    <2>1. \A s \in Id : sessions[s] # NULL => s \in gone
      BY <1>1 DEF Inv, SessionsOfTheAccount, SessionsOf
    <2>2. user' = NULL /\ \A s \in Id : sessions'[s] = NULL
      BY <1>1, <2>1 DEF DeleteAccount
    <2>3. session' = [s \in Id |-> NULL]
      BY <2>2 DEF session, SessionOf
    <2>4. account # NULL
      BY <1>1, AccountOfRow DEF Inv
    <2> QED
      BY <2>2, <2>3, <2>4 DEF Promise!Delete, session, account
  <1>2. CASE ~(user # NULL /\ user.id = work[r].owner)
    <2>1. gone = {}
      BY <1>2 DEF Inv, SessionsOfTheAccount, SessionsOf
    <2> QED
      BY <1>2, <2>1 DEF DeleteAccount, Inv, TypeOK
  <1> QED
    BY <1>1, <1>2

LEMMA RegisterImplements ==
  ASSUME Inv, NEW r \in Request, RegisterCommit(r), user = NULL
  PROVE  Promise!Register(r)
  <1>1. Inv'
    BY RegisterCommitInv
  <1>2. user' # NULL /\ user'.id = r
    <2>1. work[r].input \in Locale /\ work[r].version \in Version
      BY DEF RegisterCommit, Inv, ReadsTheTerms
    <2>2. user' = [id |-> r, locale |-> work[r].input, terms |-> work[r].version,
                   verified |-> FALSE]
      BY DEF RegisterCommit
    <2> QED
      BY <2>1, <2>2, RegisteredRow, Zenon
  <1>3. account = NULL /\ account' = r
    BY <1>2 DEF account
  <1>4. session' = session
    BY DEF session, SessionOf, RegisterCommit
  <1> QED
    BY <1>3, <1>4 DEF Promise!Register, session, account

LEMMA StepPromise == Inv /\ [Next]_vars => [Promise!Next]_(Promise!vars)
  <1> SUFFICES ASSUME Inv, [Next]_vars PROVE [Promise!Next]_(Promise!vars)
    OBVIOUS
  <1>1. ASSUME UNCHANGED <<user, sessions>> PROVE UNCHANGED Promise!vars
    BY <1>1 DEF Promise!vars, SessionOf
  <1>2. ASSUME EmailConfirmed PROVE UNCHANGED Promise!vars
    <2>1. user' # NULL /\ user'.id = user.id /\ user # NULL
      BY <1>2 DEF EmailConfirmed, Inv, TypeOK, UserRow
    <2> QED
      BY <1>2, <2>1 DEF EmailConfirmed, Promise!vars, SessionOf
  <1>3. ASSUME NEW S \in SUBSET Id, Revokes(S) PROVE Promise!Next
    BY <1>3, RevokesImplements DEF Inv, Promise!Next
  <1>4. ASSUME PasswordReset PROVE Promise!Next
    BY <1>3, <1>4, PasswordRevokes DEF PasswordReset
  <1>5. ASSUME NEW r \in Request, NEW token \in issued, Logout(r, token) PROVE Promise!Next
    BY <1>3, <1>5, LogoutRevokes DEF Inv
  <1>6. ASSUME NEW r \in Request, ChangePassword(r), user # NULL, user.id = work[r].owner
        PROVE  Promise!Next
    BY <1>3, <1>6, PasswordRevokes DEF ChangePassword
  <1>7. ASSUME NEW r \in Request, DeleteAccount(r) PROVE [Promise!Next]_(Promise!vars)
    BY <1>1, <1>7, DeleteImplements DEF Promise!Next
  <1>8. ASSUME NEW r \in Request,
               \/ RegisterCommit(r) /\ user = NULL
               \/ LoginCommit(r) /\ user # NULL /\ user.id = work[r].owner
               \/ RefreshCommit(r)
        PROVE  Promise!Next
    BY <1>8, RegisterImplements, LoginImplements, RefreshImplements DEF Promise!Next
  <1> QED
    BY <1>1, <1>2, <1>4, <1>5, <1>6, <1>7, <1>8, WritersOfRows

\* From one account of the address to the next, its sessions are what the API
\* promises, for any number of accounts, logins and refreshes.
THEOREM Implementation == Spec => KeepsSessionPromise
  BY InitPromise, StepPromise, Invariance, PTL DEF Spec, KeepsSessionPromise, Promise!Spec

=============================================================================

----------------------- MODULE PasswordSessionsProofs -----------------------
(***************************************************************************)
(* Theorems about PasswordSessions for every set of requests and           *)
(* passwords.                                                              *)
(*                                                                         *)
(* A statement does not look again at what an earlier one of its           *)
(* transaction saw.  The inductive invariant says, for each place in a     *)
(* transaction, which row locks it holds and what they keep true.          *)
(***************************************************************************)
EXTENDS PasswordSessions, FiniteSetTheorems, TLAPS

\* What the label of a request says about its operation.
RunsItsOperation(r) ==
    /\ pc[r] \in {"authenticated", "inserted"} => op[r] = "login" /\ seen[r] # NULL
    /\ pc[r] = "holding" => op[r] \in {"refresh", "logout"}
    /\ pc[r] \in {"verified", "locking"} => op[r] \in {"reset", "change", "delete"}
    /\ pc[r] \in {"updated", "cleared"} => op[r] \in {"reset", "change"}
    /\ pc[r] \in {"deleting", "cascaded"} => op[r] = "delete"
    /\ pc[r] # "new" /\ op[r] \in {"reset", "change"} => wanted[r] \in Password

\* A request that is about to replace the password, or to delete the account.
Replacing(r) ==
    pc[r] \in {"updated", "cleared"} \/ (pc[r] = "locking" /\ op[r] \in {"reset", "change"})

Deleting(r) ==
    pc[r] \in {"deleting", "cascaded"} \/ (pc[r] = "locking" /\ op[r] = "delete")

\* The user row is locked from the statement that writes it to the commit.
HoldsTheUser(r) ==
    /\ pc[r] = "inserted" => userLock[r] = "share" /\ user # NULL
    /\ Replacing(r) => userLock[r] = "write" /\ user # NULL
    /\ Deleting(r) => userLock[r] = "exclusive" /\ user # NULL

\* A reset holds its link until it commits; afterwards the link is gone.  Past
\* the DELETE of the reset token, no other request holds one that is there.
HoldsTheLink(r) ==
    /\ op[r] = "reset" /\ (pc[r] = "verified" \/ Replacing(r)) => resetToken /\ tokenLock = r
    /\ op[r] = "reset" /\ pc[r] = "ok" => ~resetToken
    /\ pc[r] \in {"cleared", "cascaded"} \/ (pc[r] = "locking" /\ op[r] # "delete")
          => (resetToken => tokenLock = r)

\* Between its lock and its commit, a refresh or logout has the session it read.
HoldsItsSession(r) ==
    pc[r] = "holding" =>
        /\ given[r] \in Token
        /\ sessionLock[given[r][1]] = r
        /\ Matches(given[r]) /\ Active(given[r][1])

\* Sessions are named for the logins that opened them.
Born(s) == s = First \/ (op[s] = "login" /\ pc[s] = "ok")

\* What a scan found is still to be locked, is locked, or no longer counts; to
\* a cascade, every session there is.
SweepsSessions(r) ==
    /\ \A s \in found[r] : Born(s)
    /\ pc[r] = "locking" /\ op[r] # "delete" =>
          \A s \in found[r] : s \in scan[r] \/ sessionLock[s] = r \/ ~Active(s)
    /\ \A s \in Session : sessions[s] # NULL =>
          /\ pc[r] = "locking" /\ op[r] = "delete" => s \in scan[r] \/ sessionLock[s] = r
          /\ pc[r] = "cascaded" => sessionLock[s] = r

\* A token that was exchanged is behind its session for good.
SpentItsToken(r) ==
    r \in Succeeded("refresh") =>
        /\ given[r] \in Token
        /\ Born(given[r][1])
        /\ sessions[given[r][1]] # NULL => given[r][2] < sessions[given[r][1]].version

InPlace(r) ==
    /\ RunsItsOperation(r)
    /\ HoldsTheUser(r)
    /\ HoldsTheLink(r)
    /\ HoldsItsSession(r)
    /\ SweepsSessions(r)
    /\ SpentItsToken(r)

EachInPlace == \A r \in Request : InPlace(r)

UserLocksCompatible ==
    \A q, r \in Request : q # r =>
        /\ userLock[r] = "exclusive" => userLock[q] = "none"
        /\ userLock[r] = "write" => userLock[q] \in {"none", "share"}

SessionsAreBorn ==
    /\ \A s \in Session : sessions[s] # NULL => Born(s)
    /\ \A token \in issued : Born(token[1])

\* A row that is locked exists.
LockedRowsExist == \A s \in Session : sessionLock[s] # NULL => sessions[s] # NULL

OneResetSucceeds == \A q, r \in Succeeded("reset") : q = r

ResetLinkGoesWithTheChange == user # NULL /\ user.setBy # First => ~resetToken

Inv ==
    /\ TypeOK
    /\ NothingOutlivesTheAccount
    /\ EachInPlace
    /\ UserLocksCompatible
    /\ SessionsAreBorn
    /\ LockedRowsExist
    /\ OneResetSucceeds
    /\ ResetLinkGoesWithTheChange
    /\ SingleRotation

-----------------------------------------------------------------------------
USE DEF rows, locks, inputs

LEMMA Names ==
  /\ NULL \notin Session /\ NULL \notin Request /\ First \notin Request
  /\ First \in Session /\ Request \subseteq Session
  /\ NULL \notin UserRow /\ NULL \notin SessionRow
  BY NullAssumption, RequestAssumption DEF Session

USE Names

-----------------------------------------------------------------------------
(* What a step of one request leaves to the others.                        *)

\* The others keep their local variables and their locks.
OthersStay(r) ==
    /\ pc[r] # "ok"
    /\ \A q \in Request \ {r} :
          /\ pc'[q] = pc[q] /\ op'[q] = op[q] /\ given'[q] = given[q]
          /\ wanted'[q] = wanted[q] /\ seen'[q] = seen[q]
          /\ scan'[q] = scan[q] /\ found'[q] = found[q]
          /\ userLock'[q] = userLock[q]
          /\ tokenLock = q => tokenLock' = q
          /\ \A s \in Session : sessionLock[s] = q => sessionLock'[s] = q

\* The rows keep what the locks of the others protect; sessions only close, and
\* their versions only grow.
RespectsLocks(r) ==
    /\ \A q \in Request \ {r} :
          /\ userLock[q] # "none" /\ user # NULL => user' # NULL
          /\ tokenLock = q => resetToken' = resetToken
          /\ \A s \in Session : sessionLock[s] = q => sessions'[s] = sessions[s]
          /\ Deleting(q) => \A s \in Session : sessions'[s] # NULL => sessions[s] # NULL
    /\ resetToken' => resetToken
    /\ \A s \in Session : Born(s) /\ sessions'[s] # NULL =>
          /\ sessions[s] # NULL /\ sessions[s].version <= sessions'[s].version
          /\ Active(s)' => Active(s)

LEMMA BornStays ==
  ASSUME NEW r \in Request, OthersStay(r), NEW s \in Session, Born(s)
  PROVE  Born(s)'
  BY DEF OthersStay, Born, Session

LEMMA OthersInPlace ==
  ASSUME Inv, NEW r \in Request, OthersStay(r), RespectsLocks(r), TypeOK',
         NEW q \in Request \ {r}
  PROVE  InPlace(q)'
  <1>1. InPlace(q)
    BY DEF Inv, EachInPlace
  <1> USE DEF OthersStay, InPlace
  <1>2. RunsItsOperation(q)'
    BY <1>1 DEF RunsItsOperation
  <1>3. HoldsTheUser(q)'
    BY <1>1 DEF HoldsTheUser, Replacing, Deleting, RespectsLocks
  <1>4. HoldsTheLink(q)'
    BY <1>1 DEF HoldsTheLink, Replacing, RespectsLocks
  <1>5. HoldsItsSession(q)'
    <2> SUFFICES ASSUME pc'[q] = "holding" PROVE HoldsItsSession(q)'
      BY DEF HoldsItsSession
    <2>1. /\ given'[q] = given[q] /\ given[q] \in Token /\ given[q][1] \in Session
          /\ sessionLock[given[q][1]] = q /\ Matches(given[q]) /\ Active(given[q][1])
      BY <1>1 DEF HoldsItsSession, Token
    <2>2. sessions'[given[q][1]] = sessions[given[q][1]] /\ sessionLock'[given[q][1]] = q
      BY <2>1 DEF RespectsLocks
    <2> QED
      BY <2>1, <2>2 DEF HoldsItsSession, Matches, Active
  <1>6. SweepsSessions(q)'
    <2>1. \A s \in found'[q] : Born(s) /\ Born(s)'
      BY <1>1, BornStays DEF SweepsSessions, TypeOK
    <2>2. pc'[q] = "locking" /\ op'[q] # "delete" =>
            \A s \in found'[q] : s \in scan'[q] \/ sessionLock'[s] = q \/ ~Active(s)'
      BY <1>1, <2>1 DEF SweepsSessions, RespectsLocks, Active, TypeOK
    <2>3. \A s \in Session : sessions'[s] # NULL =>
            /\ pc'[q] = "locking" /\ op'[q] = "delete" => s \in scan'[q] \/ sessionLock'[s] = q
            /\ pc'[q] = "cascaded" => sessionLock'[s] = q
      BY <1>1 DEF SweepsSessions, RespectsLocks, Deleting
    <2> QED
      BY <2>1, <2>2, <2>3 DEF SweepsSessions
  <1>7. SpentItsToken(q)'
    <2> SUFFICES ASSUME q \in Succeeded("refresh") PROVE SpentItsToken(q)'
      BY DEF SpentItsToken, Succeeded
    <2>1. PICK s \in Session, n \in Nat : given[q] = <<s, n>>
      BY <1>1 DEF SpentItsToken, Token
    <2>2. Born(s) /\ Born(s)' /\ (sessions[s] # NULL => n < sessions[s].version)
      BY <1>1, <2>1, BornStays DEF SpentItsToken
    <2>3. sessions'[s] # NULL => n < sessions'[s].version
      <3> SUFFICES ASSUME sessions'[s] # NULL PROVE n < sessions'[s].version
        OBVIOUS
      <3>1. /\ sessions[s] # NULL /\ sessions[s] \in SessionRow /\ sessions'[s] \in SessionRow
            /\ sessions[s].version <= sessions'[s].version
        BY <2>2 DEF RespectsLocks, Inv, TypeOK
      <3> QED
        BY <2>2, <3>1 DEF SessionRow
    <2>4. given'[q] = <<s, n>>
      BY <2>1
    <2>5. (given[q] \in Token /\ Born(given[q][1]))'
      BY <2>2, <2>4 DEF Token, Born
    <2>6. (sessions[given[q][1]] # NULL => given[q][2] < sessions[given[q][1]].version)'
      BY <2>3, <2>4
    <2> QED
      BY <2>5, <2>6 DEF SpentItsToken
  <1> QED
    BY <1>2, <1>3, <1>4, <1>5, <1>6, <1>7

\* A step of r that writes no row, takes locks that are free, and is not the
\* success of a login, refresh or change of password.
Quiet(r) ==
    /\ OthersStay(r)
    /\ UNCHANGED <<rows, issued>>
    /\ pc'[r] = "ok" => op'[r] \in {"logout", "delete"}
    /\ \A s \in Session :
          \/ sessionLock'[s] \in {sessionLock[s], NULL}
          \/ sessionLock'[s] = r /\ sessions[s] # NULL
    /\ \/ userLock'[r] \in {userLock[r], "none"}
       \/ userLock'[r] = "share" /\ UserHeldBy(r, {"exclusive"}) = {}
       \/ userLock'[r] = "write" /\ UserHeldBy(r, {"write", "exclusive"}) = {}
       \/ userLock'[r] = "exclusive" /\ UserHeldBy(r, {"share", "write", "exclusive"}) = {}

LEMMA QuietInv ==
  ASSUME Inv, NEW r \in Request, Quiet(r), TypeOK', InPlace(r)'
  PROVE  Inv'
  <1> USE DEF Inv
  <1>1. OthersStay(r) /\ UNCHANGED <<rows, issued>>
    BY DEF Quiet
  <1>2. RespectsLocks(r)
    <2>1. \A s \in Session : sessions'[s] # NULL => sessions[s].version \in Nat
      BY <1>1 DEF TypeOK, SessionRow
    <2> QED
      BY <1>1, <2>1 DEF RespectsLocks, Active
  <1>3. EachInPlace'
    BY <1>1, <1>2, OthersInPlace DEF EachInPlace
  <1>4. UserLocksCompatible'
    BY <1>1 DEF Quiet, OthersStay, UserLocksCompatible, UserHeldBy, TypeOK
  <1>5. SessionsAreBorn'
    BY <1>1, BornStays DEF SessionsAreBorn, TypeOK, Token
  <1>6. LockedRowsExist'
    BY DEF Quiet, LockedRowsExist
  <1>7. OneResetSucceeds' /\ SingleRotation'
    BY <1>1 DEF Quiet, OthersStay, OneResetSucceeds, SingleRotation, Succeeded
  <1>8. NothingOutlivesTheAccount' /\ ResetLinkGoesWithTheChange'
    BY <1>1 DEF NothingOutlivesTheAccount, ResetLinkGoesWithTheChange
  <1> HIDE DEF Inv
  <1> QED
    BY <1>3, <1>4, <1>5, <1>6, <1>7, <1>8 DEF Inv

-----------------------------------------------------------------------------
(* Statements that write no row.                                           *)

\* What the end of a transaction leaves of the locks.
Released(r) ==
    /\ userLock'[r] = "none"
    /\ \A q \in Request \ {r} :
          /\ userLock'[q] = userLock[q]
          /\ tokenLock = q => tokenLock' = q
          /\ \A s \in Session : sessionLock[s] = q => sessionLock'[s] = q
    /\ \A s \in Session : sessionLock'[s] # r /\ sessionLock'[s] \in {sessionLock[s], NULL}

LEMMA ReleaseFacts ==
  ASSUME TypeOK, NEW r \in Request, Release(r)
  PROVE  /\ Released(r)
         /\ userLock' \in [Request -> {"none", "share", "write", "exclusive"}]
         /\ tokenLock' \in Request \union {NULL}
         /\ sessionLock' \in [Session -> Request \union {NULL}]
  BY DEF Release, Released, TypeOK, Session

\* An answer without a commit, from any place in a transaction.
LEMMA AnswerInv ==
  ASSUME Inv, NEW r \in Request, NEW label \in {"ok", "rejected", "error"},
         Running(r), label = "ok" => op[r] = "delete",
         Answer(r, label), UNCHANGED <<rows, inputs, seen, found, issued>>
  PROVE  Inv'
  <1> USE DEF Inv, Running, Answer, Goto
  <1>1. Released(r)
    BY ReleaseFacts
  <1>2. TypeOK'
    BY ReleaseFacts DEF TypeOK, Label
  <1>3. OthersStay(r)
    BY <1>1 DEF Released, OthersStay, TypeOK
  <1>4. Quiet(r)
    BY <1>1, <1>3 DEF Released, Quiet, TypeOK
  <1>5. InPlace(r)'
    <2>1. InPlace(r) /\ \A s \in found[r] : Born(s) => Born(s)'
      BY <1>3, BornStays DEF EachInPlace, TypeOK
    <2>2. RunsItsOperation(r)' /\ HoldsTheUser(r)' /\ HoldsTheLink(r)' /\ HoldsItsSession(r)'
      BY <2>1 DEF InPlace, RunsItsOperation, HoldsTheUser, Replacing, Deleting, HoldsTheLink,
         HoldsItsSession, TypeOK
    <2>3. SweepsSessions(r)' /\ SpentItsToken(r)'
      BY <2>1 DEF InPlace, SweepsSessions, SpentItsToken, Succeeded, TypeOK
    <2> QED
      BY <2>2, <2>3 DEF InPlace
  <1> HIDE DEF Inv
  <1> QED
    BY <1>2, <1>4, <1>5, QuietInv

\* Arriving and checking a password, or failing to.
LEMMA VerifyInv ==
  ASSUME Inv, NEW r \in Request, NEW operation \in {"login", "change", "delete"},
         NEW credential \in Password, NEW password \in Password \union {NULL},
         operation = "change" => password \in Password,
         NEW ok \in BOOLEAN, ok => user # NULL, NEW label,
         label = (IF operation = "login" THEN "authenticated" ELSE "verified"),
         Arrive(r, operation, credential, password), Verify(r, ok, label)
  PROVE  Inv'
  <1> USE DEF Inv, Arrive, Verify, Goto
  <1>1. TypeOK'
    BY DEF TypeOK, Label, UserRow
  <1>2. OthersStay(r)
    BY DEF OthersStay, TypeOK
  <1>3. Quiet(r)
    BY <1>2 DEF Quiet, TypeOK
  <1>4. InPlace(r)'
    <2>1. InPlace(r) /\ \A s \in found[r] : Born(s) => Born(s)'
      BY <1>2, BornStays DEF EachInPlace, TypeOK
    <2>2. RunsItsOperation(r)'
      BY DEF RunsItsOperation, TypeOK, UserRow
    <2>3. HoldsTheUser(r)' /\ HoldsTheLink(r)' /\ HoldsItsSession(r)'
      BY DEF HoldsTheUser, Replacing, Deleting, HoldsTheLink, HoldsItsSession, TypeOK
    <2>4. SweepsSessions(r)' /\ SpentItsToken(r)'
      BY <2>1 DEF InPlace, SweepsSessions, SpentItsToken, Succeeded, TypeOK
    <2> QED
      BY <2>2, <2>3, <2>4 DEF InPlace
  <1> HIDE DEF Inv
  <1> QED
    BY <1>1, <1>3, <1>4, QuietInv

LEMMA LockSessionInv ==
  ASSUME Inv, NEW r \in Request, NEW token \in issued, NEW operation \in {"refresh", "logout"},
         NEW miss \in Label, miss = (IF operation = "logout" THEN "ok" ELSE "rejected"),
         LockSession(r, operation, token, miss)
  PROVE  Inv'
  <1> USE DEF Inv, LockSession, Arrive, Goto
  <1>0. token \in Token /\ token[1] \in Session
    BY DEF TypeOK, Token
  <1>1. TypeOK'
    BY <1>0 DEF TypeOK, Label
  <1>2. OthersStay(r)
    BY <1>0 DEF OthersStay, TypeOK, Unlocked
  <1>3. Quiet(r)
    BY <1>0, <1>2 DEF Quiet, TypeOK, Matches
  <1>4. InPlace(r)'
    <2>1. InPlace(r) /\ \A s \in found[r] : Born(s) => Born(s)'
      BY <1>2, BornStays DEF EachInPlace, TypeOK
    <2>2. RunsItsOperation(r)' /\ HoldsTheUser(r)' /\ HoldsTheLink(r)'
      BY DEF RunsItsOperation, HoldsTheUser, Replacing, Deleting, HoldsTheLink, TypeOK
    <2>3. HoldsItsSession(r)'
      BY <1>0 DEF HoldsItsSession, Matches, Active, TypeOK
    <2>4. SweepsSessions(r)' /\ SpentItsToken(r)'
      BY <2>1 DEF InPlace, SweepsSessions, SpentItsToken, Succeeded, TypeOK
    <2> QED
      BY <2>2, <2>3, <2>4 DEF InPlace
  <1> HIDE DEF Inv
  <1> QED
    BY <1>1, <1>3, <1>4, QuietInv

LEMMA LapseInv ==
  ASSUME Inv, NEW r \in Request, NEW token \in issued, Lapse(r, token)
  PROVE  Inv'
  <1> USE DEF Inv, Lapse, Arrive, Goto
  <1>1. TypeOK'
    BY DEF TypeOK, Label
  <1>2. OthersStay(r)
    BY DEF OthersStay, TypeOK
  <1>3. Quiet(r)
    BY <1>2 DEF Quiet, TypeOK
  <1>4. InPlace(r)'
    <2>1. InPlace(r) /\ \A s \in found[r] : Born(s) => Born(s)'
      BY <1>2, BornStays DEF EachInPlace, TypeOK
    <2>2. RunsItsOperation(r)' /\ HoldsTheUser(r)' /\ HoldsTheLink(r)' /\ HoldsItsSession(r)'
      BY DEF RunsItsOperation, HoldsTheUser, Replacing, Deleting, HoldsTheLink,
         HoldsItsSession, TypeOK
    <2>3. SweepsSessions(r)' /\ SpentItsToken(r)'
      BY <2>1 DEF InPlace, SweepsSessions, SpentItsToken, Succeeded, TypeOK
    <2> QED
      BY <2>2, <2>3 DEF InPlace
  <1> HIDE DEF Inv
  <1> QED
    BY <1>1, <1>3, <1>4, QuietInv

LEMMA ResetLockInv ==
  ASSUME Inv, NEW r \in Request, NEW p \in Password, ResetLock(r, p)
  PROVE  Inv'
  <1> USE DEF Inv, ResetLock, Arrive, Goto
  <1>1. TypeOK'
    BY DEF TypeOK, Label
  <1>2. OthersStay(r)
    BY DEF OthersStay, TypeOK, TokenHeldBy
  <1>3. Quiet(r)
    BY <1>2 DEF Quiet, TypeOK
  <1>4. InPlace(r)'
    <2>1. InPlace(r) /\ \A s \in found[r] : Born(s) => Born(s)'
      BY <1>2, BornStays DEF EachInPlace, TypeOK
    <2>2. RunsItsOperation(r)' /\ HoldsTheUser(r)' /\ HoldsTheLink(r)' /\ HoldsItsSession(r)'
      BY DEF RunsItsOperation, HoldsTheUser, Replacing, Deleting, HoldsTheLink,
         HoldsItsSession, TypeOK
    <2>3. SweepsSessions(r)' /\ SpentItsToken(r)'
      BY <2>1 DEF InPlace, SweepsSessions, SpentItsToken, Succeeded, TypeOK
    <2> QED
      BY <2>2, <2>3 DEF InPlace
  <1> HIDE DEF Inv
  <1> QED
    BY <1>1, <1>3, <1>4, QuietInv

\* The statements that lock the user row.
LEMMA LockUserInv ==
  ASSUME Inv, NEW r \in Request, user # NULL,
         LoginInsert(r) \/ UpdatePassword(r) \/ DeleteUser(r)
  PROVE  Inv'
  <1> USE DEF Inv, LoginInsert, UpdatePassword, DeleteUser, Goto
  <1>1. TypeOK'
    BY DEF TypeOK, Label
  <1>2. OthersStay(r)
    BY DEF OthersStay, TypeOK
  <1>3. Quiet(r)
    BY <1>2 DEF Quiet, TypeOK
  <1>4. InPlace(r)'
    <2>1. InPlace(r) /\ \A s \in found[r] : Born(s) => Born(s)'
      BY <1>2, BornStays DEF EachInPlace, TypeOK
    <2>2. RunsItsOperation(r)' /\ HoldsTheUser(r)' /\ HoldsTheLink(r)' /\ HoldsItsSession(r)'
      BY <2>1 DEF InPlace, RunsItsOperation, HoldsTheUser, Replacing, Deleting, HoldsTheLink,
         HoldsItsSession, TypeOK
    <2>3. SweepsSessions(r)' /\ SpentItsToken(r)'
      BY <2>1 DEF InPlace, SweepsSessions, SpentItsToken, Succeeded, TypeOK
    <2> QED
      BY <2>2, <2>3 DEF InPlace
  <1> HIDE DEF Inv
  <1> QED
    BY <1>1, <1>3, <1>4, QuietInv

\* The statements that lock the reset token on its way out.
LEMMA LockTokenInv ==
  ASSUME Inv, NEW r \in Request, ClearResetToken(r) \/ CascadeToken(r)
  PROVE  Inv'
  <1> USE DEF Inv, ClearResetToken, CascadeToken, Goto
  <1>1. TypeOK'
    BY DEF TypeOK, Label
  <1>2. OthersStay(r)
    BY DEF OthersStay, TypeOK, TokenHeldBy
  <1>3. Quiet(r)
    BY <1>2 DEF Quiet, TypeOK
  <1>4. InPlace(r)'
    <2>1. InPlace(r) /\ \A s \in found[r] : Born(s) => Born(s)'
      BY <1>2, BornStays DEF EachInPlace, TypeOK
    <2>2. RunsItsOperation(r)' /\ HoldsTheUser(r)' /\ HoldsTheLink(r)' /\ HoldsItsSession(r)'
      BY <2>1 DEF InPlace, RunsItsOperation, HoldsTheUser, Replacing, Deleting, HoldsTheLink,
         HoldsItsSession, TypeOK
    <2>3. SweepsSessions(r)' /\ SpentItsToken(r)'
      BY <2>1 DEF InPlace, SweepsSessions, SpentItsToken, Succeeded, TypeOK
    <2> QED
      BY <2>2, <2>3 DEF InPlace
  <1> HIDE DEF Inv
  <1> QED
    BY <1>1, <1>3, <1>4, QuietInv

LEMMA ScanInv ==
  ASSUME Inv, NEW r \in Request, RevokeScan(r) \/ CascadeScan(r)
  PROVE  Inv'
  <1> USE DEF Inv, RevokeScan, CascadeScan, Goto
  <1>1. TypeOK'
    <2>1. PICK S \in SUBSET Session : scan' = [scan EXCEPT ![r] = S] /\ found' = [found EXCEPT ![r] = S]
      OBVIOUS
    <2> QED
      BY <2>1 DEF TypeOK, Label
  <1>2. OthersStay(r)
    BY DEF OthersStay, TypeOK, TokenHeldBy
  <1>3. Quiet(r)
    BY <1>2 DEF Quiet, TypeOK
  <1>4. InPlace(r)'
    <2>1. InPlace(r) /\ \A s \in Session : sessions[s] # NULL => Born(s)'
      BY <1>2, BornStays DEF EachInPlace, SessionsAreBorn
    <2>2. RunsItsOperation(r)' /\ HoldsTheUser(r)' /\ HoldsTheLink(r)' /\ HoldsItsSession(r)'
      BY <2>1 DEF InPlace, RunsItsOperation, HoldsTheUser, Replacing, Deleting, HoldsTheLink,
         HoldsItsSession, TypeOK
    <2>3. SweepsSessions(r)' /\ SpentItsToken(r)'
      BY <2>1 DEF InPlace, SweepsSessions, RunsItsOperation, SpentItsToken, Succeeded, Active, TypeOK
    <2> QED
      BY <2>2, <2>3 DEF InPlace
  <1> HIDE DEF Inv
  <1> QED
    BY <1>1, <1>3, <1>4, QuietInv

LEMMA LockRowInv ==
  ASSUME Inv, NEW r \in Request, NEW s \in Session, LockRow(r, s)
  PROVE  Inv'
  <1> USE DEF Inv, LockRow
  <1>1. TypeOK'
    BY DEF TypeOK
  <1>2. OthersStay(r)
    BY DEF OthersStay, TypeOK, Unlocked
  <1>3. Quiet(r)
    BY <1>2 DEF Quiet, TypeOK, Active
  <1>4. InPlace(r)'
    <2>1. InPlace(r) /\ \A t \in found[r] : Born(t) => Born(t)'
      BY <1>2, BornStays DEF EachInPlace, TypeOK
    <2>2. RunsItsOperation(r)' /\ HoldsTheUser(r)' /\ HoldsTheLink(r)' /\ HoldsItsSession(r)'
      BY <2>1 DEF InPlace, RunsItsOperation, HoldsTheUser, Replacing, Deleting, HoldsTheLink,
         HoldsItsSession, TypeOK
    <2>3. SweepsSessions(r)' /\ SpentItsToken(r)'
      BY <2>1 DEF InPlace, SweepsSessions, SpentItsToken, Succeeded, Active, TypeOK
    <2> QED
      BY <2>2, <2>3 DEF InPlace
  <1> HIDE DEF Inv
  <1> QED
    BY <1>1, <1>3, <1>4, QuietInv

-----------------------------------------------------------------------------
(* Commits.                                                                *)

LEMMA RevokedRow ==
  ASSUME NEW row \in SessionRow
  PROVE  LET closed == [row EXCEPT !.revoked = TRUE]
         IN  /\ closed \in SessionRow /\ closed # NULL
             /\ closed.version = row.version /\ closed.revoked
  BY DEF SessionRow

\* What the commits share: the rows and the tables of tokens are for each of
\* them to show.
LEMMA CommitInv ==
  ASSUME Inv, NEW r \in Request, Answer(r, "ok"), UNCHANGED <<inputs, seen, found>>,
         Running(r), RespectsLocks(r),
         user' \in UserRow \union {NULL}, resetToken' \in BOOLEAN,
         sessions' \in [Session -> SessionRow \union {NULL}],
         issued' \subseteq Token, \A token \in issued' \ issued : Born(token[1])',
         \A s \in Session : sessions'[s] # NULL /\ sessions[s] = NULL => s = r /\ op[r] = "login",
         \A s \in Session : sessionLock[s] \notin {r, NULL} => sessions'[s] # NULL,
         op[r] = "reset" => ~resetToken', SpentItsToken(r)',
         NothingOutlivesTheAccount', OneResetSucceeds', ResetLinkGoesWithTheChange',
         SingleRotation'
  PROVE  Inv'
  <1> USE DEF Inv, Answer, Goto, Running
  <1>1. Released(r)
    BY ReleaseFacts
  <1>2. TypeOK'
    BY ReleaseFacts DEF TypeOK, Label
  <1>3. OthersStay(r)
    BY <1>1 DEF Released, OthersStay, TypeOK
  <1>4. \A s \in Session : Born(s) => Born(s)'
    BY <1>3, BornStays
  <1>5. InPlace(r)'
    <2>1. InPlace(r) /\ pc'[r] = "ok" /\ op'[r] = op[r]
      BY DEF EachInPlace, TypeOK
    <2>2. RunsItsOperation(r)' /\ HoldsTheUser(r)' /\ HoldsTheLink(r)' /\ HoldsItsSession(r)'
      BY <2>1 DEF InPlace, RunsItsOperation, HoldsTheUser, Replacing, Deleting, HoldsTheLink,
         HoldsItsSession
    <2>3. SweepsSessions(r)'
      BY <1>4, <2>1 DEF InPlace, SweepsSessions, TypeOK
    <2> QED
      BY <2>2, <2>3 DEF InPlace
  <1>6. EachInPlace'
    BY <1>2, <1>3, <1>5, OthersInPlace DEF EachInPlace
  <1>7. UserLocksCompatible'
    BY <1>1 DEF Released, UserLocksCompatible, TypeOK
  <1>8. SessionsAreBorn'
    <2>1. op[r] = "login" => Born(r)'
      BY DEF Born, TypeOK
    <2>2. \A s \in Session : sessions'[s] # NULL => Born(s)'
      BY <1>4, <2>1 DEF SessionsAreBorn
    <2>3. \A token \in issued' : Born(token[1])'
      BY <1>4 DEF SessionsAreBorn, TypeOK, Token
    <2> QED
      BY <2>2, <2>3 DEF SessionsAreBorn
  <1>9. LockedRowsExist'
    BY <1>1 DEF Released, LockedRowsExist
  <1> HIDE DEF Inv
  <1> QED
    BY <1>2, <1>6, <1>7, <1>8, <1>9 DEF Inv

\* Only a refresh adds to the refreshes that succeeded, and a reset to the resets.
LEMMA SameSuccesses ==
  ASSUME TypeOK, NEW r \in Request, Answer(r, "ok"), pc[r] # "ok", UNCHANGED inputs,
         NEW operation, op[r] # operation
  PROVE  Succeeded(operation)' = Succeeded(operation)
  BY DEF Answer, Goto, Succeeded, TypeOK

LEMMA LoginCommitInv ==
  ASSUME Inv, NEW r \in Request, LoginCommit(r)
  PROVE  Inv'
  <1> USE DEF Inv, LoginCommit
  <1>1. InPlace(r) /\ op[r] = "login" /\ seen[r] \in Session /\ Running(r)
    BY DEF EachInPlace, InPlace, RunsItsOperation, Running, TypeOK
  <1>2. sessions[r] = NULL /\ sessionLock[r] = NULL /\ ~Born(r)
    BY DEF SessionsAreBorn, LockedRowsExist, Born, TypeOK
  <1>3. user # NULL /\ \A q \in Request \ {r} : ~Deleting(q)
    BY <1>1 DEF InPlace, EachInPlace, HoldsTheUser, UserLocksCompatible
  <1>4. /\ sessions' \in [Session -> SessionRow \union {NULL}]
        /\ \A s \in Session \ {r} : sessions'[s] = sessions[s]
    BY <1>1 DEF TypeOK, SessionRow
  <1>5. RespectsLocks(r)
    <2>1. \A s \in Session : sessions[s] # NULL => sessions[s].version \in Nat
      BY DEF TypeOK, SessionRow
    <2> QED
      BY <1>2, <1>3, <1>4, <2>1 DEF RespectsLocks, Active
  <1>6. issued' \subseteq Token /\ \A token \in issued' \ issued : Born(token[1])'
    BY <1>1 DEF TypeOK, Token, Born, Answer, Goto
  <1>7. Succeeded("refresh")' = Succeeded("refresh") /\ Succeeded("reset")' = Succeeded("reset")
    BY <1>1, SameSuccesses DEF Running
  <1>8. OneResetSucceeds' /\ SingleRotation' /\ SpentItsToken(r)'
    BY <1>1, <1>7 DEF OneResetSucceeds, SingleRotation, SpentItsToken, Succeeded
  <1>9. NothingOutlivesTheAccount' /\ ResetLinkGoesWithTheChange'
    BY <1>3 DEF NothingOutlivesTheAccount, ResetLinkGoesWithTheChange
  <1>10. \A s \in Session : /\ sessions'[s] # NULL /\ sessions[s] = NULL => s = r
                            /\ sessionLock[s] \notin {r, NULL} => sessions'[s] # NULL
    BY <1>2, <1>4 DEF LockedRowsExist
  <1> HIDE DEF Inv
  <1> QED
    BY <1>1, <1>4, <1>5, <1>6, <1>8, <1>9, <1>10, CommitInv DEF Inv, TypeOK

LEMMA RefreshCommitInv ==
  ASSUME Inv, NEW r \in Request, RefreshCommit(r)
  PROVE  Inv'
  <1> USE DEF Inv, RefreshCommit
  <1>1. InPlace(r) /\ op[r] = "refresh" /\ Running(r)
    BY DEF EachInPlace, Running
  <1>2. PICK s \in Session, n \in Nat : given[r] = <<s, n>>
    BY <1>1 DEF InPlace, HoldsItsSession, Token
  <1>3. /\ sessionLock[s] = r /\ sessions[s] \in SessionRow /\ sessions[s] # NULL
        /\ sessions[s].version = n /\ ~sessions[s].revoked /\ Born(s)
    BY <1>1, <1>2 DEF InPlace, HoldsItsSession, SessionsAreBorn, Matches, Active, TypeOK
  <1>4. /\ sessions'[s] = [sessions[s] EXCEPT !.version = n + 1]
        /\ \A t \in Session \ {s} : sessions'[t] = sessions[t]
        /\ issued' = issued \union {<<s, n + 1>>}
    BY <1>2, <1>3 DEF TypeOK
  <1>5. /\ sessions'[s] \in SessionRow /\ sessions'[s] # NULL
        /\ sessions'[s].version = n + 1 /\ ~sessions'[s].revoked
    BY <1>3, <1>4 DEF SessionRow
  <1>14. sessions' \in [Session -> SessionRow \union {NULL}]
    BY <1>2, <1>4, <1>5 DEF TypeOK
  <1>6. RespectsLocks(r)
    <2>1. \A t \in Session : sessions[t] # NULL => sessions[t].version \in Nat
      BY DEF TypeOK, SessionRow
    <2> QED
      BY <1>3, <1>4, <1>5, <2>1 DEF RespectsLocks, Active
  <1>7. Born(s)' /\ pc'[r] = "ok"
    BY <1>1, <1>3 DEF Born, Answer, Goto, TypeOK
  <1>8. issued' \subseteq Token /\ \A token \in issued' \ issued : Born(token[1])'
    BY <1>4, <1>7 DEF TypeOK, Token, Born
  <1>9. (given[r] \in Token /\ Born(given[r][1]))' /\ SpentItsToken(r)'
    BY <1>2, <1>5, <1>7 DEF SpentItsToken, Token, Born
  <1>10. SingleRotation'
    <2>1. Succeeded("refresh")' \subseteq Succeeded("refresh") \union {r}
      BY DEF Succeeded, Answer, Goto, TypeOK
    <2>2. \A q \in Succeeded("refresh") : given[q] # given[r]
      BY <1>2, <1>3 DEF EachInPlace, InPlace, SpentItsToken, Succeeded
    <2> QED
      BY <2>1, <2>2 DEF SingleRotation
  <1>11. OneResetSucceeds'
    BY <1>1, SameSuccesses DEF OneResetSucceeds, Running
  <1>12. NothingOutlivesTheAccount' /\ ResetLinkGoesWithTheChange'
    BY <1>3 DEF NothingOutlivesTheAccount, ResetLinkGoesWithTheChange
  <1>13. \A t \in Session : /\ sessions'[t] # NULL => sessions[t] # NULL
                            /\ sessionLock[t] \notin {r, NULL} => sessions'[t] # NULL
    BY <1>3, <1>4, <1>5 DEF LockedRowsExist
  <1> HIDE DEF Inv
  <1> QED
    BY <1>1, <1>14, <1>6, <1>8, <1>9, <1>10, <1>11, <1>12, <1>13, CommitInv DEF Inv, TypeOK

LEMMA LogoutCommitInv ==
  ASSUME Inv, NEW r \in Request, LogoutCommit(r)
  PROVE  Inv'
  <1> USE DEF Inv, LogoutCommit
  <1>1. InPlace(r) /\ op[r] = "logout" /\ Running(r)
    BY DEF EachInPlace, Running
  <1>2. PICK s \in Session : s = given[r][1]
    BY <1>1 DEF InPlace, HoldsItsSession, Token
  <1>3. sessionLock[s] = r /\ sessions[s] \in SessionRow /\ sessions[s] # NULL
    BY <1>1, <1>2 DEF InPlace, HoldsItsSession, Matches, Active, TypeOK
  <1>4. /\ sessions'[s] = [sessions[s] EXCEPT !.revoked = TRUE]
        /\ \A t \in Session \ {s} : sessions'[t] = sessions[t]
    BY <1>2 DEF TypeOK
  <1>5. /\ sessions'[s] \in SessionRow /\ sessions'[s] # NULL
        /\ sessions'[s].version = sessions[s].version /\ sessions'[s].revoked
    BY <1>3, <1>4, RevokedRow
  <1>6. sessions' \in [Session -> SessionRow \union {NULL}]
    BY <1>2, <1>4, <1>5 DEF TypeOK
  <1>7. RespectsLocks(r)
    <2>1. \A t \in Session : sessions[t] # NULL => sessions[t].version \in Nat
      BY DEF TypeOK, SessionRow
    <2>2. \A t \in Session : /\ sessions'[t] # NULL <=> sessions[t] # NULL
                             /\ sessions[t] # NULL => sessions[t].version = sessions'[t].version
                             /\ Active(t)' => Active(t)
      BY <1>3, <1>4, <1>5 DEF Active
    <2>3. \A q \in Request \ {r}, t \in Session : sessionLock[t] = q => sessions'[t] = sessions[t]
      BY <1>3, <1>4
    <2>4. UNCHANGED <<user, resetToken>>
      OBVIOUS
    <2> HIDE DEF Inv, LogoutCommit
    <2> QED
      BY <2>1, <2>2, <2>3, <2>4 DEF RespectsLocks
  <1>8. Succeeded("refresh")' = Succeeded("refresh") /\ Succeeded("reset")' = Succeeded("reset")
    BY <1>1, SameSuccesses DEF Running
  <1>9. OneResetSucceeds' /\ SingleRotation' /\ SpentItsToken(r)'
    BY <1>1, <1>8 DEF OneResetSucceeds, SingleRotation, SpentItsToken, Succeeded
  <1>10. NothingOutlivesTheAccount' /\ ResetLinkGoesWithTheChange'
    BY <1>3 DEF NothingOutlivesTheAccount, ResetLinkGoesWithTheChange
  <1>11. \A t \in Session : /\ sessions'[t] # NULL => sessions[t] # NULL
                            /\ sessionLock[t] \notin {r, NULL} => sessions'[t] # NULL
    BY <1>3, <1>4 DEF LockedRowsExist
  <1> HIDE DEF Inv
  <1> QED
    BY <1>1, <1>6, <1>7, <1>9, <1>10, <1>11, CommitInv DEF Inv, TypeOK

LEMMA PasswordCommitInv ==
  ASSUME Inv, NEW r \in Request, PasswordCommit(r)
  PROVE  Inv'
  <1> USE DEF Inv, PasswordCommit
  <1>1. InPlace(r) /\ Running(r) /\ wanted[r] \in Password
    BY DEF EachInPlace, InPlace, RunsItsOperation, Running
  <1>2. user' \in UserRow /\ user' # NULL /\ user # NULL
    BY <1>1 DEF InPlace, HoldsTheUser, Replacing, UserRow
  <1>3. ~resetToken' /\ (op[r] = "reset" => resetToken)
    BY <1>1 DEF InPlace, HoldsTheLink, Replacing, TypeOK
  <1>4. ASSUME NEW s \in Session, sessionLock[s] = r
        PROVE  /\ sessions[s] # NULL /\ sessions'[s] \in SessionRow /\ sessions'[s] # NULL
               /\ sessions'[s].version = sessions[s].version /\ sessions'[s].revoked
    <2>1. sessions[s] \in SessionRow /\ sessions[s] # NULL
      BY <1>4 DEF TypeOK, LockedRowsExist
    <2> QED
      BY <1>4, <2>1, RevokedRow
  <1>5. \A s \in Session : sessionLock[s] # r => sessions'[s] = sessions[s]
    OBVIOUS
  <1>6. sessions' \in [Session -> SessionRow \union {NULL}]
    BY <1>4, <1>5 DEF TypeOK
  <1>7. RespectsLocks(r)
    <2>1. \A t \in Session : sessions[t] # NULL => sessions[t].version \in Nat
      BY DEF TypeOK, SessionRow
    <2>2. \A q \in Request \ {r} : tokenLock = q => resetToken' = resetToken
      BY <1>1, <1>3 DEF InPlace, HoldsTheLink, TypeOK
    <2> QED
      BY <1>2, <1>3, <1>4, <1>5, <2>1, <2>2 DEF RespectsLocks, Active
  <1>8. Succeeded("refresh")' = Succeeded("refresh")
    BY <1>1, SameSuccesses DEF Running
  <1>9. SingleRotation' /\ SpentItsToken(r)'
    BY <1>8 DEF SingleRotation, SpentItsToken, Succeeded
  <1>10. OneResetSucceeds'
    <2>1. CASE op[r] = "reset"
      <3>1. Succeeded("reset") = {}
        BY <1>3, <2>1 DEF EachInPlace, InPlace, HoldsTheLink, Succeeded
      <3>2. Succeeded("reset")' \subseteq Succeeded("reset") \union {r}
        BY DEF Succeeded, Answer, Goto, TypeOK
      <3> QED
        BY <3>1, <3>2 DEF OneResetSucceeds
    <2>2. CASE op[r] # "reset"
      BY <1>1, <2>2, SameSuccesses DEF OneResetSucceeds, Running
    <2> QED
      BY <2>1, <2>2
  <1>11. NothingOutlivesTheAccount' /\ ResetLinkGoesWithTheChange'
    BY <1>2, <1>3 DEF NothingOutlivesTheAccount, ResetLinkGoesWithTheChange
  <1>12. \A t \in Session : /\ sessions'[t] # NULL => sessions[t] # NULL
                            /\ sessionLock[t] \notin {r, NULL} => sessions'[t] # NULL
    BY <1>4, <1>5 DEF LockedRowsExist
  <1> HIDE DEF Inv
  <1> QED
    BY <1>1, <1>2, <1>3, <1>6, <1>7, <1>9, <1>10, <1>11, <1>12, CommitInv DEF Inv, TypeOK

LEMMA DeleteCommitInv ==
  ASSUME Inv, NEW r \in Request, DeleteCommit(r)
  PROVE  Inv'
  <1> USE DEF Inv, DeleteCommit
  <1>1. InPlace(r) /\ op[r] = "delete" /\ Running(r) /\ userLock[r] = "exclusive"
    BY DEF EachInPlace, InPlace, RunsItsOperation, HoldsTheUser, Deleting, Running
  <1>2. ~resetToken'
    BY <1>1 DEF InPlace, HoldsTheLink, TypeOK
  <1>3. \A s \in Session : /\ sessions'[s] = NULL
                           /\ sessionLock[s] \in {r, NULL}
    BY <1>1 DEF InPlace, SweepsSessions, LockedRowsExist, TypeOK
  <1>4. \A q \in Request \ {r} : userLock[q] = "none"
    BY <1>1 DEF UserLocksCompatible
  <1>5. RespectsLocks(r)
    <2>1. \A q \in Request \ {r} : tokenLock = q => resetToken' = resetToken
      BY <1>1, <1>2 DEF InPlace, HoldsTheLink, TypeOK
    <2> QED
      BY <1>2, <1>3, <1>4, <2>1 DEF RespectsLocks
  <1>6. Succeeded("refresh")' = Succeeded("refresh") /\ Succeeded("reset")' = Succeeded("reset")
    BY <1>1, SameSuccesses DEF Running
  <1>7. OneResetSucceeds' /\ SingleRotation' /\ SpentItsToken(r)'
    BY <1>1, <1>6 DEF OneResetSucceeds, SingleRotation, SpentItsToken, Succeeded
  <1>8. NothingOutlivesTheAccount' /\ ResetLinkGoesWithTheChange'
    BY <1>2, <1>3 DEF NothingOutlivesTheAccount, ResetLinkGoesWithTheChange
  <1>9. sessions' \in [Session -> SessionRow \union {NULL}]
    BY DEF TypeOK
  <1> HIDE DEF Inv
  <1> QED
    BY <1>1, <1>2, <1>3, <1>5, <1>7, <1>8, <1>9, CommitInv DEF Inv, TypeOK

-----------------------------------------------------------------------------
LEMMA InitInv == Init => Inv
  <1> SUFFICES ASSUME Init PROVE Inv
    OBVIOUS
  <1> USE DEF Init
  <1>1. TypeOK
    BY DEF TypeOK, Token, Label, UserRow, SessionRow
  <1>2. user # NULL /\ user.setBy = First
    BY DEF UserRow
  <1>3. NothingOutlivesTheAccount /\ ResetLinkGoesWithTheChange
    BY <1>2 DEF NothingOutlivesTheAccount, ResetLinkGoesWithTheChange
  <1>4. EachInPlace
    BY DEF EachInPlace, InPlace, RunsItsOperation, HoldsTheUser, Replacing, Deleting, HoldsTheLink,
       HoldsItsSession, SweepsSessions, SpentItsToken, Succeeded
  <1>5. UserLocksCompatible /\ SessionsAreBorn /\ LockedRowsExist
    BY DEF UserLocksCompatible, SessionsAreBorn, Born, LockedRowsExist
  <1>6. OneResetSucceeds /\ SingleRotation
    BY DEF Succeeded, OneResetSucceeds, SingleRotation
  <1> QED
    BY <1>1, <1>3, <1>4, <1>5, <1>6 DEF Inv

\* A statement that finds the user deleted ends its request.
LEMMA UserGoneInv ==
  ASSUME Inv, NEW r \in Request, user = NULL,
         LoginInsert(r) \/ UpdatePassword(r) \/ DeleteUser(r)
  PROVE  Inv'
  <1>1. PICK label \in {"ok", "error"} :
            /\ Running(r) /\ (label = "ok" => op[r] = "delete")
            /\ Answer(r, label) /\ UNCHANGED <<rows, inputs, seen, found, issued>>
    BY DEF LoginInsert, UpdatePassword, DeleteUser, Running
  <1> QED
    BY <1>1, AnswerInv

LEMMA DeadlockedRuns ==
  ASSUME Inv, NEW r \in Request, Deadlocked(r)
  PROVE  Running(r)
  <1>1. WaitsFor(r) # {}
    BY DEF Deadlocked
  <1> QED
    BY <1>1 DEF WaitsFor, Running

LEMMA StepInv == Inv /\ [Next]_vars => Inv'
  <1> SUFFICES ASSUME Inv, [Next]_vars PROVE Inv'
    OBVIOUS
  <1>1. ASSUME NEW r \in Request, NEW p \in Password,
               LoginAuthenticate(r, p) \/ DeleteVerify(r, p)
        PROVE  Inv'
    BY <1>1, VerifyInv DEF LoginAuthenticate, DeleteVerify
  <1>2. ASSUME NEW r \in Request, NEW p \in Password, NEW q \in Password, ChangeVerify(r, p, q)
        PROVE  Inv'
    BY <1>2, VerifyInv DEF ChangeVerify
  <1>3. ASSUME NEW r \in Request, NEW p \in Password, ResetLock(r, p)
        PROVE  Inv'
    BY <1>3, ResetLockInv
  <1>4. ASSUME NEW r \in Request, NEW token \in issued,
               RefreshLock(r, token) \/ Lapse(r, token) \/ LogoutLock(r, token)
        PROVE  Inv'
    BY <1>4, LockSessionInv, LapseInv DEF RefreshLock, LogoutLock, Label
  <1>5. ASSUME NEW r \in Request, LoginInsert(r) \/ UpdatePassword(r) \/ DeleteUser(r)
        PROVE  Inv'
    BY <1>5, UserGoneInv, LockUserInv
  <1>6. ASSUME NEW r \in Request,
               \/ LoginCommit(r) \/ RefreshCommit(r) \/ LogoutCommit(r)
               \/ PasswordCommit(r) \/ DeleteCommit(r)
        PROVE  Inv'
    BY <1>6, LoginCommitInv, RefreshCommitInv, LogoutCommitInv, PasswordCommitInv,
       DeleteCommitInv
  <1>7. ASSUME NEW r \in Request,
               \/ ClearResetToken(r) \/ RevokeScan(r) \/ CascadeScan(r) \/ CascadeToken(r)
               \/ \E s \in Session : LockRow(r, s)
        PROVE  Inv'
    BY <1>7, LockTokenInv, ScanInv, LockRowInv
  <1>8. ASSUME NEW r \in Request, DeadlockVictim(r) \/ Abort(r)
        PROVE  Inv'
    <2>1. Running(r)
      BY <1>8, DeadlockedRuns DEF DeadlockVictim, Abort
    <2> QED
      BY <1>8, <2>1, AnswerInv DEF DeadlockVictim, Abort
  <1>9. CASE UNCHANGED vars
    BY <1>9
    DEF vars, Inv, TypeOK, NothingOutlivesTheAccount, EachInPlace, InPlace, RunsItsOperation,
        HoldsTheUser, Replacing, Deleting, HoldsTheLink, HoldsItsSession, Matches, Active,
        SweepsSessions, Born, SpentItsToken, Succeeded, UserLocksCompatible, SessionsAreBorn,
        LockedRowsExist, OneResetSucceeds, ResetLinkGoesWithTheChange, SingleRotation
  <1> QED
    BY <1>1, <1>2, <1>3, <1>4, <1>5, <1>6, <1>7, <1>8, <1>9 DEF Next, Serve, Proceed

THEOREM Invariance == Spec => []Inv
  BY InitInv, StepInv, PTL DEF Spec

-----------------------------------------------------------------------------
\* A step that writes a row is a commit.
LEMMA OnlyCommitsWrite ==
  ASSUME [Next]_vars, rows' # rows
  PROVE  \E r \in Request : \/ LoginCommit(r) \/ RefreshCommit(r) \/ LogoutCommit(r)
                            \/ PasswordCommit(r) \/ DeleteCommit(r)
  <1>1. PICK r \in Request : Serve(r) \/ Proceed(r) \/ DeadlockVictim(r) \/ Abort(r)
    BY DEF Next, vars
  <1>2. ~Serve(r)
    BY DEF Serve, LoginAuthenticate, DeleteVerify, ResetLock, ChangeVerify, Verify,
           RefreshLock, Lapse, LogoutLock, LockSession
  <1>3. ~DeadlockVictim(r) /\ ~Abort(r)
    BY DEF DeadlockVictim, Abort
  <1> QED
    BY <1>1, <1>2, <1>3
    DEF Proceed, LoginInsert, UpdatePassword, ClearResetToken, RevokeScan, DeleteUser,
        CascadeScan, CascadeToken, LockRow

-----------------------------------------------------------------------------
\* The tables hold rows of their types, and nothing of a deleted account,
\* however many requests there are.
THEOREM TablesStayConsistent == Spec => []Consistent
  <1>1. Inv => Consistent
    BY DEF Inv, Consistent
  <1> QED
    BY <1>1, Invariance, PTL

\* Of all requests that carry the reset link, one changes the password, and
\* none does once a change of the password has removed the link.
THEOREM ResetsOnce == Spec => []SingleUseReset
  <1>1. Inv => SingleUseReset
    <2> SUFFICES ASSUME Inv PROVE SingleUseReset
      OBVIOUS
    <2>1. \A q, r \in Succeeded("reset") : q = r
      BY DEF Inv, OneResetSucceeds
    <2>2. Cardinality(Succeeded("reset")) <= 1
      BY <2>1, FS_EmptySet, FS_Singleton
    <2> QED
      BY <2>2 DEF SingleUseReset, Inv, ResetLinkGoesWithTheChange
  <1> QED
    BY <1>1, Invariance, PTL

\* Whoever presents a refresh token at the same time or later, one exchange of
\* it succeeds.
THEOREM RotatesOnce == Spec => []SingleRotation
  <1>1. Inv => SingleRotation
    BY DEF Inv, SingleRotation
  <1> QED
    BY <1>1, Invariance, PTL

\* A password change revokes every session that its statement found, though
\* refreshes and logouts of them were under way.
THEOREM FoundSessionsRevoked == Spec => RevokesEverySessionFound
  <1>1. ASSUME Inv, Next, NEW r \in Request,
               user' # NULL, user'.setBy = r, user # user', NEW s \in found[r]
        PROVE  sessions'[s] = NULL \/ sessions'[s].revoked
    <2>1. PICK q \in Request : PasswordCommit(q) \/ DeleteCommit(q)
      BY <1>1, OnlyCommitsWrite DEF LoginCommit, RefreshCommit, LogoutCommit
    <2>2. PasswordCommit(r)
      BY <1>1, <2>1 DEF PasswordCommit, DeleteCommit
    <2>3. s \in Session /\ (sessionLock[s] = r \/ ~Active(s))
      BY <1>1, <2>2 DEF PasswordCommit, Inv, EachInPlace, InPlace, SweepsSessions, TypeOK
    <2>4. CASE sessionLock[s] = r
      <3>1. sessions[s] \in SessionRow
        BY <1>1, <2>3, <2>4 DEF Inv, TypeOK, LockedRowsExist
      <3> QED
        BY <2>2, <2>3, <2>4, <3>1, RevokedRow DEF PasswordCommit
    <2>5. CASE sessionLock[s] # r
      BY <2>2, <2>3, <2>5 DEF PasswordCommit, Active
    <2> QED
      BY <2>4, <2>5
  <1>2. Inv /\ [Next]_vars =>
          [\A r \in Request : user' # NULL /\ user'.setBy = r /\ user # user'
              => \A s \in found[r] : sessions'[s] = NULL \/ sessions'[s].revoked]_vars
    BY <1>1
  <1> QED
    BY <1>2, Invariance, PTL DEF Spec, RevokesEverySessionFound

-----------------------------------------------------------------------------
(* PasswordSessions implements SessionPromise.                             *)

account == IF user = NULL THEN NULL ELSE First
session == [s \in Session |-> SessionOf(s)]

LEMMA SessionOfRow ==
  ASSUME TypeOK, NEW s \in Session, sessions[s] # NULL
  PROVE  SessionOf(s) # NULL
  <1>1. SessionOf(s) \in [owner : Session, exchanges : Nat, open : BOOLEAN]
    BY DEF SessionOf, TypeOK, SessionRow
  <1> QED
    BY <1>1, NullAssumption

LEMMA InitPromise == Init => Promise!Init
  <1> SUFFICES ASSUME Init PROVE Promise!Init
    OBVIOUS
  <1>1. user # NULL
    BY DEF Init, UserRow
  <1>2. \A s \in Session : SessionOf(s) \in {NULL, Promise!Opened}
    BY <1>1 DEF Init, SessionOf, Promise!Opened
  <1>3. session \in [Session -> {NULL, Promise!Opened}]
    BY <1>2 DEF session
  <1> QED
    BY <1>1, <1>3 DEF Promise!Init, session

\* Statements that write no row are no step of the promise.
LEMMA SameRows ==
  ASSUME user' = user, sessions' = sessions
  PROVE  UNCHANGED Promise!vars
  BY DEF Promise!vars, SessionOf

LEMMA LoginImplements ==
  ASSUME Inv, NEW r \in Request, LoginCommit(r)
  PROVE  Promise!Open(r)
  <1> USE DEF Inv, LoginCommit
  <1> DEFINE row == [version |-> 0, revoked |-> FALSE, auth |-> seen[r]]
  <1>1. sessions[r] = NULL /\ user # NULL
    BY DEF SessionsAreBorn, Born, EachInPlace, InPlace, HoldsTheUser
  <1>2. row \in SessionRow /\ row.version = 0 /\ ~row.revoked
    BY DEF TypeOK, SessionRow, EachInPlace, InPlace, RunsItsOperation
  <1>3. sessions'[r] = row /\ \A s \in Session \ {r} : sessions'[s] = sessions[s]
    BY DEF TypeOK
  <1> HIDE DEF row
  <1>4. SessionOf(r) = NULL /\ SessionOf(r)' = Promise!Opened
    BY <1>1, <1>2, <1>3 DEF SessionOf, Promise!Opened
  <1>5. \A s \in Session \ {r} : SessionOf(s)' = SessionOf(s)
    BY <1>3 DEF SessionOf
  <1>6. session' = [session EXCEPT ![r] = Promise!Opened]
    BY <1>4, <1>5 DEF session
  <1> QED
    BY <1>1, <1>4, <1>6 DEF Promise!Open, Promise!Exists, session

LEMMA RefreshImplements ==
  ASSUME Inv, NEW r \in Request, RefreshCommit(r)
  PROVE  \E s \in Session : Promise!Exchange(s)
  <1> USE DEF Inv, RefreshCommit
  <1>0. PICK s \in Session : s = given[r][1]
    BY DEF EachInPlace, InPlace, HoldsItsSession, Token
  <1>1. /\ sessions[s] \in SessionRow /\ sessions[s] # NULL /\ ~sessions[s].revoked
        /\ sessions' = [sessions EXCEPT ![s].version = @ + 1]
    BY <1>0 DEF EachInPlace, InPlace, HoldsItsSession, Matches, Active, TypeOK
  <1>2. /\ sessions'[s] = [sessions[s] EXCEPT !.version = @ + 1]
        /\ \A t \in Session \ {s} : sessions'[t] = sessions[t]
    BY <1>1 DEF TypeOK
  <1>3. /\ sessions'[s] # NULL /\ ~sessions'[s].revoked
        /\ sessions'[s].version = sessions[s].version + 1
    BY <1>1, <1>2 DEF SessionRow
  <1>4. SessionOf(s) # NULL /\ SessionOf(s).open
    BY <1>1, SessionOfRow DEF SessionOf
  <1>5. SessionOf(s)' = [SessionOf(s) EXCEPT !.exchanges = @ + 1]
    BY <1>1, <1>3 DEF SessionOf
  <1>6. \A t \in Session \ {s} : SessionOf(t)' = SessionOf(t)
    BY <1>2 DEF SessionOf
  <1>7. session' = [session EXCEPT ![s].exchanges = @ + 1]
    BY <1>5, <1>6 DEF session
  <1> QED
    BY <1>1, <1>4, <1>7 DEF Promise!Exchange, Promise!Exists, session

LEMMA ClosedRecord ==
  ASSUME NEW a, NEW n, NEW b, NEW c
  PROVE  [[owner |-> a, exchanges |-> n, open |-> b] EXCEPT !.open = c]
           = [owner |-> a, exchanges |-> n, open |-> c]
  <1> DEFINE l == [[owner |-> a, exchanges |-> n, open |-> b] EXCEPT !.open = c]
             r == [owner |-> a, exchanges |-> n, open |-> c]
  <1>1. DOMAIN l = DOMAIN r
    OBVIOUS
  <1>2. \A x \in DOMAIN r : l[x] = r[x]
    OBVIOUS
  <1>3. l = [x \in DOMAIN l |-> l[x]] /\ r = [x \in DOMAIN r |-> r[x]]
    OBVIOUS
  <1> HIDE DEF l, r
  <1> QED
    BY <1>1, <1>2, <1>3

\* Closing a set of sessions revokes exactly these.
LEMMA CloseImplements ==
  ASSUME TypeOK, NEW S \in SUBSET Session, user' # NULL <=> user # NULL,
         \A s \in S : sessions[s] # NULL,
         sessions' = [s \in Session |->
                        IF s \in S THEN [sessions[s] EXCEPT !.revoked = TRUE]
                        ELSE sessions[s]]
  PROVE  Promise!Close(S)
  <1>1. \A s \in S : /\ sessions'[s] # NULL /\ sessions'[s].revoked
                     /\ sessions'[s].version = sessions[s].version
    BY RevokedRow DEF TypeOK
  <1>2. \A s \in S : SessionOf(s)' = [SessionOf(s) EXCEPT !.open = FALSE]
    <2> TAKE s \in S
    <2>1. SessionOf(s)' = [owner |-> First, exchanges |-> sessions[s].version, open |-> FALSE]
      BY <1>1 DEF SessionOf
    <2>2. SessionOf(s) = [owner |-> First, exchanges |-> sessions[s].version,
                          open |-> ~sessions[s].revoked]
      BY DEF SessionOf
    <2>3. [[owner |-> First, exchanges |-> sessions[s].version, open |-> ~sessions[s].revoked]
             EXCEPT !.open = FALSE]
            = [owner |-> First, exchanges |-> sessions[s].version, open |-> FALSE]
      BY ClosedRecord, Zenon
    <2> QED
      BY <2>1, <2>2, <2>3, Zenon
  <1>3. \A s \in Session \ S : SessionOf(s)' = SessionOf(s)
    BY DEF SessionOf
  <1>4. session' = [s \in Session |-> IF s \in S THEN [session[s] EXCEPT !.open = FALSE]
                                      ELSE session[s]]
    BY <1>2, <1>3 DEF session
  <1>5. \A s \in S : session[s] # NULL
    BY SessionOfRow DEF session
  <1>6. account' = account
    BY DEF account
  <1> QED
    BY <1>4, <1>5, <1>6 DEF Promise!Close, Promise!Exists, session, account

LEMMA LogoutImplements ==
  ASSUME Inv, NEW r \in Request, LogoutCommit(r)
  PROVE  \E S \in SUBSET Session : Promise!Close(S)
  <1> DEFINE s == given[r][1]
  <1>1. s \in Session /\ sessions[s] # NULL
    BY DEF Inv, EachInPlace, InPlace, LogoutCommit, HoldsItsSession, Token, Matches
  <1>2. sessions' = [sessions EXCEPT ![s].revoked = TRUE]
    BY DEF LogoutCommit
  <1>3. user' = user
    BY DEF LogoutCommit
  <1> HIDE DEF s
  <1>4. sessions' = [t \in Session |-> IF t \in {s} THEN [sessions[t] EXCEPT !.revoked = TRUE]
                                       ELSE sessions[t]]
    BY <1>1, <1>2 DEF Inv, TypeOK
  <1>5. {s} \in SUBSET Session /\ \A t \in {s} : sessions[t] # NULL
    BY <1>1
  <1>6. Promise!Close({s})
    BY <1>3, <1>4, <1>5, CloseImplements DEF Inv
  <1> QED
    BY <1>5, <1>6

LEMMA ChangeImplements ==
  ASSUME Inv, NEW r \in Request, PasswordCommit(r)
  PROVE  \E S \in SUBSET Session : Promise!Close(S)
  <1> DEFINE S == {s \in Session : sessionLock[s] = r}
  <1>1. \A s \in S : sessions[s] # NULL
    BY DEF Inv, LockedRowsExist
  <1>2. user # NULL /\ user' # NULL
    BY DEF Inv, EachInPlace, InPlace, HoldsTheUser, Replacing, PasswordCommit, RunsItsOperation, UserRow
  <1>3. sessions' = [s \in Session |-> IF s \in S THEN [sessions[s] EXCEPT !.revoked = TRUE]
                                       ELSE sessions[s]]
    BY DEF PasswordCommit
  <1> QED
    BY <1>1, <1>2, <1>3, CloseImplements DEF Inv

LEMMA DeleteImplements ==
  ASSUME Inv, NEW r \in Request, DeleteCommit(r)
  PROVE  Promise!Delete
  <1>1. user # NULL /\ user' = NULL
    BY DEF Inv, EachInPlace, InPlace, HoldsTheUser, Deleting, DeleteCommit
  <1>2. \A s \in Session : sessions'[s] = NULL
    BY DEF Inv, EachInPlace, InPlace, SweepsSessions, DeleteCommit
  <1>3. session' = [s \in Session |-> NULL]
    BY <1>2 DEF session, SessionOf
  <1> QED
    BY <1>1, <1>3 DEF Promise!Delete, session

LEMMA StepPromise == Inv /\ [Next]_vars => [Promise!Next]_(Promise!vars)
  <1> SUFFICES ASSUME Inv, [Next]_vars PROVE [Promise!Next]_(Promise!vars)
    OBVIOUS
  <1>1. CASE UNCHANGED rows
    BY <1>1, SameRows
  <1>2. ASSUME NEW r \in Request,
               \/ LoginCommit(r) \/ RefreshCommit(r) \/ LogoutCommit(r)
               \/ PasswordCommit(r) \/ DeleteCommit(r)
        PROVE  Promise!Next
    BY <1>2, LoginImplements, RefreshImplements, LogoutImplements, ChangeImplements,
       DeleteImplements DEF Promise!Next
  <1> QED
    BY <1>1, <1>2, OnlyCommitsWrite

\* Statement by statement and for any number of requests, the sessions are what
\* the API promises: opened for the account, exchanged only while open, closed
\* for good, gone with the account.
THEOREM Implementation == Spec => KeepsSessionPromise
  BY InitPromise, StepPromise, Invariance, PTL DEF Spec, KeepsSessionPromise, Promise!Spec

=============================================================================

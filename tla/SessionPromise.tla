--------------------------- MODULE SessionPromise ---------------------------
(***************************************************************************)
(* What the API promises about login sessions, with no locks, tokens or    *)
(* clocks: a session is opened for the account there is, is exchanged one  *)
(* time after the other while it is open, and is closed for good, alone or *)
(* together with others; the account goes with all of its sessions, and    *)
(* another may take its place.  PasswordSessions implements this statement *)
(* by statement, Accounts from one account of an address to the next.      *)
(***************************************************************************)
EXTENDS Naturals

CONSTANTS
    Id,     \* names of accounts and of sessions
    NULL

VARIABLES
    account,  \* the account there is, or NULL
    session   \* [Id -> [owner, exchanges, open] or NULL]

vars == <<account, session>>

Exists(s) == session[s] # NULL

Opened == [owner |-> account, exchanges |-> 0, open |-> TRUE]

Init ==
    /\ account \in Id \union {NULL}
    /\ session \in [Id -> {NULL} \union (IF account = NULL THEN {} ELSE {Opened})]

Open(s) ==
    /\ account # NULL /\ ~Exists(s)
    /\ session' = [session EXCEPT ![s] = Opened]
    /\ UNCHANGED account

Exchange(s) ==
    /\ Exists(s) /\ session[s].open
    /\ session' = [session EXCEPT ![s].exchanges = @ + 1]
    /\ UNCHANGED account

Close(S) ==
    /\ \A s \in S : Exists(s)
    /\ session' = [s \in Id |-> IF s \in S THEN [session[s] EXCEPT !.open = FALSE]
                                ELSE session[s]]
    /\ UNCHANGED account

Delete ==
    /\ account # NULL
    /\ account' = NULL
    /\ session' = [s \in Id |-> NULL]

Register(a) ==
    /\ account = NULL
    /\ account' = a
    /\ UNCHANGED session

Next ==
    \/ \E s \in Id : Open(s) \/ Exchange(s)
    \/ \E S \in SUBSET Id : Close(S)
    \/ Delete
    \/ \E a \in Id : Register(a)

Spec == Init /\ [][Next]_vars

=============================================================================

------------------------------- MODULE Google -------------------------------
(***************************************************************************)
(* Eggy's one Google grant (google/oauth.go, store.go) and the calls that  *)
(* borrow it (client.go). The sealed record holds the tokens, the identity *)
(* they were verified to belong to, the number of the connection, to which *)
(* approvals are bound, and the login in progress. Logins and disconnects  *)
(* take a mutex; a call reads the record, may wait for Google to renew its *)
(* token, and writes the token it used back.                               *)
(*                                                                         *)
(* A token is known by the account it belongs to and by the login it came  *)
(* from; an access token is fresh or has to be renewed.                    *)
(***************************************************************************)
EXTENDS Naturals

CONSTANTS Own,        \* Eggy's own Google account
          Person,     \* somebody's personal account
          Borrowers,  \* calls of the Google tools
          MaxLogins,  \* bound: logins begun
          MaxOuts,    \* bound: disconnects
          None

Identities == {Own, Person}

VARIABLES expected,  \* google.expected_email: the account, or None
          grant,     \* the record
          begun,     \* logins begun
          outs,      \* disconnects
          mutex,     \* who holds the mutex of Auth
          login,     \* the CompleteLogin that runs: [at, who, before]
          borrows,   \* [Borrowers -> [at, who]]
          connected, \* history: a login landed after the last disconnect
          landed,    \* history: a login landed over a disconnect
          sentAs     \* history: accounts a tool call acted as

vars == <<expected, grant, begun, outs, mutex, login, borrows, connected, landed, sentAs>>
history == <<connected, landed, sentAs>>

Empty == [who |-> None, fresh |-> FALSE, email |-> None, gen |-> 0, pending |-> 0]
NoLogin == [at |-> "idle", who |-> None, before |-> 0]

\* A record that was written before identities were verified has no email.
Init ==
    /\ expected \in {None, Own}
    /\ grant \in {Empty} \cup {[Empty EXCEPT !.who = i]: i \in Identities}
    /\ begun = 0 /\ outs = 0 /\ mutex = "free" /\ login = NoLogin
    /\ borrows = [c \in Borrowers |-> [at |-> "new", who |-> None]]
    /\ connected = (grant.who # None) /\ landed = FALSE /\ sentAs = {}

(********************************* logins **********************************)
BeginLogin ==
    /\ mutex = "free" /\ begun < MaxLogins
    /\ begun' = begun + 1
    /\ grant' = [grant EXCEPT !.pending = begun + 1]
    /\ UNCHANGED <<expected, outs, mutex, login, borrows, history>>

\* The redirect of the login that is pending, pasted or called back, is
\* exchanged at Google; whoever was signed in there consented.
CompleteLogin ==
    /\ mutex = "free" /\ grant.pending # 0
    /\ mutex' = "login"
    /\ \E i \in Identities: login' = [at |-> "exchanged", who |-> i, before |-> outs]
    /\ UNCHANGED <<expected, grant, begun, outs, borrows, history>>

\* Google refuses the exchange, or does not say whose it is.
RefuseLogin ==
    /\ login.at = "exchanged"
    /\ grant' \in {grant, [grant EXCEPT !.pending = 0]}
    /\ login' = NoLogin /\ mutex' = "free"
    /\ UNCHANGED <<expected, begun, outs, borrows, history>>

Foreign(i) == expected # None /\ i # expected

\* Somebody else's consent keeps the connection as it was.
WrongAccount ==
    /\ login.at = "exchanged" /\ Foreign(login.who)
    /\ grant' = [grant EXCEPT !.pending = 0]
    /\ login' = NoLogin /\ mutex' = "free"
    /\ UNCHANGED <<expected, begun, outs, borrows, history>>

Connect ==
    /\ login.at = "exchanged" /\ ~Foreign(login.who)
    /\ grant' = [who |-> login.who, fresh |-> TRUE, email |-> login.who,
                 gen |-> grant.gen + 1, pending |-> 0]
    /\ connected' = TRUE /\ landed' = (landed \/ login.before # outs)
    /\ login' = NoLogin /\ mutex' = "free"
    /\ UNCHANGED <<expected, begun, outs, borrows, sentAs>>

WithoutMutex == TRUE
MayLogout == mutex = "free"

Disconnected == [Empty EXCEPT !.gen = grant.gen + 1]

Logout ==
    /\ MayLogout /\ outs < MaxOuts
    /\ outs' = outs + 1
    /\ grant' = Disconnected /\ connected' = FALSE
    /\ UNCHANGED <<expected, begun, mutex, login, borrows, landed, sentAs>>

(********************************** calls **********************************)
Expire ==
    /\ grant.fresh
    /\ grant' = [grant EXCEPT !.fresh = FALSE]
    /\ UNCHANGED <<expected, begun, outs, mutex, login, borrows, history>>

Borrow(c) ==
    /\ borrows[c].at = "new" /\ grant.who # None
    /\ borrows' = [borrows EXCEPT ![c] =
           [at |-> IF grant.email = None /\ expected # None THEN "unverified" ELSE "ready",
            who |-> grant.who]]
    /\ UNCHANGED <<expected, grant, begun, outs, mutex, login, history>>

\* The token used, renewed if it had to be, is applied to the record there is.
WriteBack(c) == [grant EXCEPT !.who = borrows[c].who, !.fresh = TRUE]

\* A record with no identity is verified, under the mutex, before it serves.
Verify(c) ==
    /\ borrows[c].at = "unverified" /\ mutex = "free"
    /\ mutex' = c
    /\ grant' = WriteBack(c)
    /\ borrows' = [borrows EXCEPT ![c].at = "verifying"]
    /\ UNCHANGED <<expected, begun, outs, login, history>>

Verified(c) ==
    /\ borrows[c].at = "verifying" /\ mutex' = "free"
    /\ IF Foreign(borrows[c].who)
       THEN borrows' = [borrows EXCEPT ![c].at = "refused"] /\ UNCHANGED grant
       ELSE /\ borrows' = [borrows EXCEPT ![c].at = "ready"]
            /\ grant' = [grant EXCEPT !.email = borrows[c].who]
    /\ UNCHANGED <<expected, begun, outs, login, history>>

\* The request carries the token; the record has been given it first.
Send(c) ==
    /\ borrows[c].at = "ready"
    /\ grant' = WriteBack(c)
    /\ borrows' = [borrows EXCEPT ![c].at = "done"]
    /\ sentAs' = sentAs \cup {borrows[c].who}
    /\ UNCHANGED <<expected, begun, outs, mutex, login, connected, landed>>

\* Google does not answer, or takes the token back.
Fail(c) ==
    /\ borrows[c].at \in {"ready", "unverified", "verifying"}
    /\ mutex' = IF borrows[c].at = "verifying" THEN "free" ELSE mutex
    /\ borrows' = [borrows EXCEPT ![c].at = "failed"]
    /\ UNCHANGED <<expected, grant, begun, outs, login, history>>

Next ==
    \/ BeginLogin \/ CompleteLogin \/ RefuseLogin \/ WrongAccount \/ Connect \/ Logout \/ Expire
    \/ \E c \in Borrowers: Borrow(c) \/ Verify(c) \/ Verified(c) \/ Send(c) \/ Fail(c)

Spec == Init /\ [][Next]_vars

(******************************* properties ********************************)
TypeOK ==
    /\ expected \in {None, Own} /\ begun \in 0..MaxLogins /\ outs \in 0..MaxOuts
    /\ grant \in [who: Identities \cup {None}, fresh: BOOLEAN,
                  email: Identities \cup {None}, gen: Nat, pending: 0..MaxLogins]
    /\ mutex \in {"free", "login"} \cup Borrowers /\ login.at \in {"idle", "exchanged"}
    /\ \A c \in Borrowers:
           borrows[c].at \in {"new", "unverified", "verifying", "ready", "refused", "failed", "done"}
    /\ connected \in BOOLEAN /\ landed \in BOOLEAN /\ sentAs \subseteq Identities

\* An exchange in progress never lands its tokens over a disconnect.
NoLateLogin == ~landed

\* The number of the connection never goes back and never stays when the
\* connection is replaced or dropped: an approval bound to it dies with it.
NumberGoesUp ==
    /\ grant'.gen >= grant.gen
    /\ (connected' # connected \/ outs' # outs) => grant'.gen > grant.gen

\* What oauth.go says of a grant that is not Eggy's: no tool runs on it.
RunsAsEggy == expected # None => sentAs \subseteq {expected}
=============================================================================

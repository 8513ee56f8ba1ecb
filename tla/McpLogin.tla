------------------------------ MODULE McpLogin ------------------------------
(***************************************************************************)
(* The OAuth grant of one MCP server (mcp/oauth.go, oauth_store.go): a     *)
(* login asks the server which issuer authorizes for it, registers a       *)
(* client there and waits for the owner; the redirect, called back or      *)
(* pasted, is exchanged for a token; requests renew the token and write it *)
(* back; a logout deletes the record. Logins take the mutex of the         *)
(* provider, requests and logouts do not.                                  *)
(*                                                                         *)
(* A token is known by the number of the login it came from. No client is  *)
(* configured, so the one in the record is the one that is used.           *)
(***************************************************************************)
EXTENDS Naturals

CONSTANTS Issuers,    \* authorization servers
          Requests,   \* HTTP requests of the server's session
          MaxLogins,  \* bound: logins begun
          MaxMoves,   \* bound: times the server names another issuer
          None

VARIABLES resource,  \* the issuer the server names
          moves,     \* times it has changed
          record,    \* the stored record, or None
          begun,     \* logins begun
          held,      \* what the holder of the provider's mutex does
          seen,      \* the record it has in hand
          requests,  \* [Requests -> [at, seen]]
          landed,    \* history: logins whose token was stored
          dropped    \* history: logins whose token a logout discarded

vars == <<resource, moves, record, begun, held, seen, requests, landed, dropped>>

Blank == [issuer |-> None, client |-> None, pending |-> 0, token |-> 0]
Idle == [at |-> "new", seen |-> Blank]

Init ==
    /\ resource \in Issuers /\ moves = 0
    /\ record = None /\ begun = 0
    /\ held = "free" /\ seen = Blank
    /\ requests = [r \in Requests |-> Idle]
    /\ landed = {} /\ dropped = {}

\* What Load and Update start from when there is no record.
Stored == IF record = None THEN Blank ELSE record

Move ==
    /\ moves < MaxMoves
    /\ moves' = moves + 1
    /\ resource' \in Issuers \ {resource}
    /\ UNCHANGED <<record, begun, held, seen, requests, landed, dropped>>

(********************************* logins **********************************)
BeginLogin ==
    /\ held = "free" /\ begun < MaxLogins
    /\ begun' = begun + 1
    /\ held' = "begin" /\ seen' = Stored
    /\ UNCHANGED <<resource, moves, record, requests, landed, dropped>>

\* A client is bound to the issuer that registered it.
NeverChanges(before) == FALSE
IssuerChanged(before) == before # None /\ before # resource

Discover ==
    /\ held = "begin" /\ held' = "discovered"
    /\ seen' = [seen EXCEPT !.issuer = resource,
                            !.client = IF IssuerChanged(seen.issuer) THEN None ELSE @]
    /\ UNCHANGED <<resource, moves, record, begun, requests, landed, dropped>>

\* A client that is still missing is registered with the issuer just found.
Offer ==
    /\ held = "discovered" /\ held' = "free"
    /\ record' = [seen EXCEPT !.client = IF seen.client = None THEN seen.issuer ELSE @,
                              !.pending = begun]
    /\ UNCHANGED <<resource, moves, begun, seen, requests, landed, dropped>>

\* The pending login's redirect comes back in time and names its issuer.
CompleteLogin ==
    /\ held = "free" /\ Stored.pending # 0
    /\ held' = "exchange" /\ seen' = record
    /\ UNCHANGED <<resource, moves, record, begun, requests, landed, dropped>>

Completed == [seen EXCEPT !.token = seen.pending, !.pending = 0]

Exchanged ==
    /\ held = "exchange" /\ held' = "free"
    /\ record' = Completed
    /\ landed' = landed \cup {seen.pending}
    /\ UNCHANGED <<resource, moves, begun, seen, requests, dropped>>

\* Discovery, registration or the exchange fails: nothing is stored.
LoginFails ==
    /\ held # "free" /\ held' = "free"
    /\ UNCHANGED <<resource, moves, record, begun, seen, requests, landed, dropped>>

Logout ==
    /\ record # None
    /\ record' = None
    /\ dropped' = landed
    /\ UNCHANGED <<resource, moves, begun, held, seen, requests, landed>>

(******************************** requests *********************************)
Request(r) ==
    /\ requests[r].at = "new" /\ Stored.token # 0
    /\ requests' = [requests EXCEPT ![r] = [at |-> "renewing", seen |-> record]]
    /\ UNCHANGED <<resource, moves, record, begun, held, seen, landed, dropped>>

\* Update copies the token, renewed if it had to be, into the record there is.
TokenOnly(r) == [Stored EXCEPT !.token = requests[r].seen.token]

WriteBack(r) ==
    /\ requests[r].at = "renewing"
    /\ record' = TokenOnly(r)
    /\ requests' = [requests EXCEPT ![r] = Idle]
    /\ UNCHANGED <<resource, moves, begun, held, seen, landed, dropped>>

\* The issuer does not renew it: login required.
RenewFails(r) ==
    /\ requests[r].at = "renewing"
    /\ requests' = [requests EXCEPT ![r] = Idle]
    /\ UNCHANGED <<resource, moves, record, begun, held, seen, landed, dropped>>

\* The record survives the process; logins and requests under way do not.
Restart ==
    /\ held' = "free" /\ seen' = Blank
    /\ requests' = [r \in Requests |-> Idle]
    /\ UNCHANGED <<resource, moves, record, begun, landed, dropped>>

Next ==
    \/ Move \/ BeginLogin \/ Discover \/ Offer \/ CompleteLogin \/ Exchanged \/ LoginFails
    \/ Logout \/ Restart
    \/ \E r \in Requests: Request(r) \/ WriteBack(r) \/ RenewFails(r)

Spec == Init /\ [][Next]_vars

(******************************* properties ********************************)
Records == [issuer: Issuers \cup {None}, client: Issuers \cup {None},
            pending: 0..MaxLogins, token: 0..MaxLogins]

TypeOK ==
    /\ resource \in Issuers /\ moves \in 0..MaxMoves /\ begun \in 0..MaxLogins
    /\ record \in Records \cup {None} /\ seen \in Records
    /\ held \in {"free", "begin", "discovered", "exchange"}
    /\ \A r \in Requests: requests[r].at \in {"new", "renewing"} /\ requests[r].seen \in Records
    /\ landed \subseteq 1..MaxLogins /\ dropped \subseteq landed

\* The client a login is started with is the one its issuer registered: a
\* server that moves to another issuer gets a new client, whatever requests
\* and logouts happen meanwhile.
ClientIsIssuers == record # None /\ record.client # None => record.client = record.issuer

\* A login is finished once: nothing that is written later makes the code of
\* a finished login acceptable again.
SpentOnce == record # None /\ record.pending # 0 => record.pending \notin landed
=============================================================================

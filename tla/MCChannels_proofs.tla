--------------------------- MODULE MCChannels_proofs ---------------------------
(***************************************************************************)
(* What is proved of the outside world, for every value of the constants:  *)
(* of a login at an MCP server, the Google grant, calendar events,         *)
(* Telegram, Discord and the menus an inductive invariant each, that every *)
(* step of the component keeps; and then, since a behaviour is one         *)
(* component's, what the run of MCChannels checks.                         *)
(***************************************************************************)
EXTENDS MCChannels, McpServers_proofs, FiniteSetTheorems, SequenceTheorems

-----------------------------------------------------------------------------
(* The login of a server                                                   *)

(* A client is bound to the issuer that registered it.                     *)
ClientIs(r) == r.client # None => r.client = r.issuer

(* Who holds the mutex has a record in hand whose pending login is not     *)
(* finished; the login just begun has not landed, and the client goes with *)
(* the issuer, if there is one yet.                                        *)
HandOfLogin ==
    /\ landed \subseteq 1..begun
    /\ held \in {"begin", "exchange"} => ClientIs(seen) /\ seen.pending \notin landed
    /\ held = "discovered" =>
          ClientIs(seen) /\ seen.issuer # None /\ seen.pending \notin landed
    /\ held \in {"begin", "discovered"} => begun \in 1..MaxLogins /\ begun \notin landed
    /\ held = "exchange" => seen.pending \in 1..begun

StoredLogin == record # None => ClientIs(record) /\ record.pending \notin landed /\ record.pending <= begun

LoginTypes ==
    /\ resource \in Issuers /\ moves \in 0..MaxMoves /\ begun \in 0..MaxLogins
    /\ record \in L!Records \cup {None} /\ seen \in L!Records
    /\ held \in {"free", "begin", "discovered", "exchange"}
    /\ requests \in [Requests -> [at : {"new", "renewing"}, seen : L!Records]]
    /\ dropped \subseteq landed

LoginInv == LoginTypes /\ HandOfLogin /\ StoredLogin

(* A record stays one when a field of it is set.                           *)
LEMMA RecordsOf ==
  ASSUME NEW r \in L!Records
  PROVE  /\ r.issuer \in Issuers \cup {None} /\ r.client \in Issuers \cup {None}
         /\ r.pending \in 0..MaxLogins /\ r.token \in 0..MaxLogins
         /\ \A v \in Issuers \cup {None}, w \in Issuers \cup {None} :
               [r EXCEPT !.issuer = v, !.client = w] \in L!Records
         /\ \A v \in Issuers \cup {None}, n \in 0..MaxLogins :
               [r EXCEPT !.client = v, !.pending = n] \in L!Records
         /\ \A n \in 0..MaxLogins, k \in 0..MaxLogins :
               [r EXCEPT !.token = n, !.pending = k] \in L!Records
         /\ \A n \in 0..MaxLogins : [r EXCEPT !.token = n] \in L!Records
  BY DEF L!Records

(* What Load and Update start from is a record, and one whose client goes  *)
(* with its issuer.                                                        *)
LEMMA StoredIs ==
  ASSUME LoginInv
  PROVE  /\ L!Stored \in L!Records /\ ClientIs(L!Stored)
         /\ L!Stored.pending \notin landed /\ L!Stored.pending <= begun
         /\ L!Stored.pending # 0 \/ L!Stored.token # 0 => L!Stored = record /\ record # None
<1>1. CASE record = None
  <2>1. L!Stored = [issuer |-> None, client |-> None, pending |-> 0, token |-> 0]
    BY <1>1 DEF L!Stored, L!Blank
  <2>2. L!Stored \in L!Records
    BY <2>1, LoginAssumption DEF L!Records
  <2>. QED  BY <1>1, <2>1, <2>2, LoginAssumption
            DEF LoginInv, LoginTypes, HandOfLogin, ClientIs
<1>2. CASE record # None
  BY <1>2 DEF L!Stored, LoginInv, LoginTypes, StoredLogin
<1>. QED  BY <1>1, <1>2

(* Nothing is stored and nobody logs in where it starts.                   *)
LEMMA LoginInit == L!Init => LoginInv
<1> SUFFICES ASSUME L!Init PROVE LoginInv
  OBVIOUS
<1>1. L!Blank \in L!Records
  BY LoginAssumption DEF L!Blank, L!Records
<1>. QED
  BY <1>1, LoginAssumption
  DEF L!Init, L!Idle, LoginInv, LoginTypes, HandOfLogin, StoredLogin

(* Every step of logins, logouts and requests keeps a client with its      *)
(* issuer and a finished login finished.                                   *)
LEMMA LoginKept ==
  ASSUME LoginInv, L!Next
  PROVE  LoginInv'
<1> USE LoginAssumption
<1>a. /\ LoginTypes /\ HandOfLogin /\ StoredLogin
  BY DEF LoginInv
<1>b. /\ L!Stored \in L!Records /\ ClientIs(L!Stored)
      /\ L!Stored.pending \notin landed /\ L!Stored.pending <= begun
      /\ L!Stored.pending # 0 \/ L!Stored.token # 0 => L!Stored = record /\ record # None
  BY StoredIs
<1>1. CASE L!Move
  BY <1>1, <1>a DEF L!Move, LoginInv, LoginTypes, HandOfLogin, StoredLogin
<1>2. CASE L!BeginLogin
  <2>1. /\ begun < MaxLogins /\ begun' = begun + 1 /\ held' = "begin" /\ seen' = L!Stored
        /\ UNCHANGED <<resource, moves, record, requests, landed, dropped>>
    BY <1>2 DEF L!BeginLogin
  <2>2. /\ begun' \in 0..MaxLogins /\ landed \subseteq 1..begun' /\ begun' \notin landed
        /\ begun' \in 1..MaxLogins
    BY <2>1, <1>a DEF LoginTypes, HandOfLogin
  <2>3. LoginTypes'
    BY <2>1, <2>2, <1>a, <1>b DEF LoginTypes
  <2>4. HandOfLogin'
    BY <2>1, <2>2, <1>a, <1>b DEF HandOfLogin, ClientIs
  <2>5. StoredLogin'
    <3>1. record # None => record.pending \in Nat
      BY <1>a DEF LoginTypes, L!Records
    <3>2. begun \in Nat /\ begun' = begun + 1
      BY <2>1, <1>a DEF LoginTypes
    <3>. QED  BY <2>1, <3>1, <3>2, <1>a DEF StoredLogin, ClientIs
  <2>. QED  BY <2>3, <2>4, <2>5 DEF LoginInv
<1>3. CASE L!Discover
  <2> DEFINE client == IF L!IssuerChanged(seen.issuer) THEN None ELSE seen.client
  <2>1. /\ held = "begin" /\ held' = "discovered"
        /\ seen' = [seen EXCEPT !.issuer = resource, !.client = client]
        /\ UNCHANGED <<resource, moves, record, begun, requests, landed, dropped>>
    BY <1>3 DEF L!Discover
  <2>2. seen \in L!Records /\ resource \in Issuers /\ ClientIs(seen)
    BY <2>1, <1>a DEF LoginTypes, HandOfLogin
  <2>3. client \in Issuers \cup {None} /\ (client # None => client = resource)
    BY <2>2, RecordsOf DEF L!IssuerChanged, ClientIs
  <2>4. /\ seen' \in L!Records /\ seen'.issuer = resource /\ seen'.client = client
        /\ seen'.pending = seen.pending
    BY <2>1, <2>2, <2>3, RecordsOf DEF L!Records
  <2> HIDE DEF client
  <2>5. LoginTypes'
    BY <2>1, <2>4, <1>a DEF LoginTypes
  <2>6. HandOfLogin'
    BY <2>1, <2>2, <2>3, <2>4, <1>a DEF HandOfLogin, ClientIs
  <2>7. StoredLogin'
    BY <2>1, <1>a DEF StoredLogin, ClientIs
  <2>. QED  BY <2>5, <2>6, <2>7 DEF LoginInv
<1>4. CASE L!Offer
  <2> DEFINE client == IF seen.client = None THEN seen.issuer ELSE seen.client
  <2>1. /\ held = "discovered" /\ held' = "free"
        /\ record' = [seen EXCEPT !.client = client, !.pending = begun]
        /\ UNCHANGED <<resource, moves, begun, seen, requests, landed, dropped>>
    BY <1>4 DEF L!Offer
  <2>2. /\ seen \in L!Records /\ ClientIs(seen) /\ begun \in 1..MaxLogins
        /\ begun \notin landed
    BY <2>1, <1>a DEF LoginTypes, HandOfLogin
  <2>3. client \in Issuers \cup {None} /\ client = seen.issuer
    BY <2>2, RecordsOf DEF ClientIs
  <2>4. /\ record' \in L!Records /\ record'.issuer = seen.issuer
        /\ record'.client = client /\ record'.pending = begun
    <3>1. begun \in 0..MaxLogins
      BY <2>2
    <3>. QED  BY <2>1, <2>2, <2>3, <3>1 DEF L!Records
  <2> HIDE DEF client
  <2>5. LoginTypes'
    BY <2>1, <2>4, <1>a DEF LoginTypes
  <2>6. HandOfLogin'
    BY <2>1, <1>a DEF HandOfLogin, ClientIs
  <2>7. StoredLogin'
    BY <2>1, <2>2, <2>3, <2>4 DEF StoredLogin, ClientIs
  <2>. QED  BY <2>5, <2>6, <2>7 DEF LoginInv
<1>5. CASE L!CompleteLogin
  <2>1. /\ L!Stored.pending # 0 /\ held' = "exchange" /\ seen' = record
        /\ UNCHANGED <<resource, moves, record, begun, requests, landed, dropped>>
    BY <1>5 DEF L!CompleteLogin
  <2>2. /\ seen' = L!Stored /\ L!Stored.pending \in 1..begun
    <3>1. L!Stored.pending \in Nat /\ begun \in Nat
      BY <1>a, <1>b DEF LoginTypes, L!Records
    <3>. QED  BY <2>1, <3>1, <1>b
  <2>3. LoginTypes'
    BY <2>1, <2>2, <1>a, <1>b DEF LoginTypes
  <2>4. HandOfLogin'
    BY <2>1, <2>2, <1>a, <1>b DEF HandOfLogin, ClientIs
  <2>5. StoredLogin'
    BY <2>1, <1>a DEF StoredLogin, ClientIs
  <2>. QED  BY <2>3, <2>4, <2>5 DEF LoginInv
<1>6. CASE L!Exchanged
  <2>1. /\ held = "exchange" /\ held' = "free"
        /\ record' = [seen EXCEPT !.token = seen.pending, !.pending = 0]
        /\ landed' = landed \cup {seen.pending}
        /\ UNCHANGED <<resource, moves, begun, seen, requests, dropped>>
    BY <1>6 DEF L!Exchanged, L!Completed
  <2>2. /\ seen \in L!Records /\ ClientIs(seen) /\ seen.pending \in 1..begun
        /\ seen.pending \in 0..MaxLogins
    BY <2>1, <1>a, RecordsOf DEF LoginTypes, HandOfLogin
  <2>3. /\ record' \in L!Records /\ record'.issuer = seen.issuer
        /\ record'.client = seen.client /\ record'.pending = 0
    <3>0. 0 \in 0..MaxLogins
      OBVIOUS
    <3>1. record' \in L!Records
      <4> DEFINE n == seen.pending
                 done == [seen EXCEPT !.token = n, !.pending = 0]
      <4>1. n \in 0..MaxLogins /\ record' = done
        BY <2>1, <2>2
      <4> HIDE DEF n
      <4>2. done \in L!Records
        BY <2>2, <3>0, <4>1 DEF L!Records
      <4>. QED  BY <4>1, <4>2
    <3>2. DOMAIN seen = {"issuer", "client", "pending", "token"}
      BY <2>2 DEF L!Records
    <3>. QED  BY <2>1, <3>1, <3>2
  <2>4. landed' \subseteq 1..begun
    BY <2>1, <2>2, <1>a DEF HandOfLogin
  <2>5. LoginTypes'
    BY <2>1, <2>3, <1>a DEF LoginTypes
  <2>6. HandOfLogin'
    BY <2>1, <2>4 DEF HandOfLogin
  <2>7. StoredLogin'
    <3>1. begun \in Nat
      BY <1>a DEF LoginTypes
    <3>2. record'.pending \notin landed' /\ record'.pending <= begun'
      BY <2>1, <2>3, <2>4, <3>1
    <3>. QED  BY <2>2, <2>3, <3>2 DEF StoredLogin, ClientIs
  <2>. QED  BY <2>5, <2>6, <2>7 DEF LoginInv
<1>7. CASE L!LoginFails
  BY <1>7, <1>a DEF L!LoginFails, LoginInv, LoginTypes, HandOfLogin, StoredLogin, ClientIs
<1>8. CASE L!Logout
  BY <1>8, <1>a DEF L!Logout, LoginInv, LoginTypes, HandOfLogin, StoredLogin, ClientIs
<1>9. CASE L!Restart
  <2>1. L!Blank \in L!Records
    BY DEF L!Blank, L!Records
  <2>2. LoginTypes'
    BY <1>9, <2>1, <1>a DEF L!Restart, L!Idle, LoginTypes
  <2>3. HandOfLogin' /\ StoredLogin'
    BY <1>9, <1>a DEF L!Restart, HandOfLogin, StoredLogin, ClientIs
  <2>. QED  BY <2>2, <2>3 DEF LoginInv
<1>10. ASSUME NEW r \in Requests, L!Request(r) PROVE LoginInv'
  <2>1. /\ L!Stored.token # 0
        /\ requests' = [requests EXCEPT ![r] = [at |-> "renewing", seen |-> record]]
        /\ UNCHANGED <<resource, moves, record, begun, held, seen, landed, dropped>>
    BY <1>10 DEF L!Request
  <2>2. LoginTypes'
    BY <2>1, <1>a, <1>b DEF LoginTypes
  <2>3. HandOfLogin' /\ StoredLogin'
    BY <2>1, <1>a DEF HandOfLogin, StoredLogin, ClientIs
  <2>. QED  BY <2>2, <2>3 DEF LoginInv
<1>11. ASSUME NEW r \in Requests, L!WriteBack(r) PROVE LoginInv'
  <2> DEFINE token == requests[r].seen.token
  <2>1. /\ record' = [L!Stored EXCEPT !.token = token]
        /\ requests' = [requests EXCEPT ![r] = L!Idle]
        /\ UNCHANGED <<resource, moves, begun, held, seen, landed, dropped>>
    BY <1>11 DEF L!WriteBack, L!TokenOnly
  <2>2. requests[r].seen \in L!Records
    BY <1>11, <1>a DEF LoginTypes
  <2>3. token \in 0..MaxLogins
    BY <2>2, RecordsOf
  <2> HIDE DEF token
  <2>4. /\ record' \in L!Records /\ record'.issuer = L!Stored.issuer
        /\ record'.client = L!Stored.client /\ record'.pending = L!Stored.pending
    BY <2>1, <2>3, <1>b, RecordsOf DEF L!Records
  <2>5. L!Idle \in [at : {"new", "renewing"}, seen : L!Records]
    BY DEF L!Idle, L!Blank, L!Records
  <2>6. LoginTypes'
    BY <2>1, <2>4, <2>5, <1>a DEF LoginTypes
  <2>7. HandOfLogin'
    BY <2>1, <1>a DEF HandOfLogin, ClientIs
  <2>8. StoredLogin'
    BY <2>1, <2>4, <1>b DEF StoredLogin, ClientIs
  <2>. QED  BY <2>6, <2>7, <2>8 DEF LoginInv
<1>12. ASSUME NEW r \in Requests, L!RenewFails(r) PROVE LoginInv'
  <2>1. L!Idle \in [at : {"new", "renewing"}, seen : L!Records]
    BY DEF L!Idle, L!Blank, L!Records
  <2>. QED
    BY <1>12, <2>1, <1>a
    DEF L!RenewFails, LoginInv, LoginTypes, HandOfLogin, StoredLogin, ClientIs
<1>. QED
  BY <1>1, <1>2, <1>3, <1>4, <1>5, <1>6, <1>7, <1>8, <1>9, <1>10, <1>11, <1>12
  DEF L!Next

(* A step that leaves the login's variables alone keeps it.                *)
LEMMA LoginStays == LoginInv /\ UNCHANGED loginVars => LoginInv'
  BY DEF loginVars, LoginInv, LoginTypes, HandOfLogin, StoredLogin, ClientIs,
         L!Records

(* The invariant has the types, and what is promised of a login.           *)
LEMMA LoginMeans == LoginInv => L!TypeOK /\ L!ClientIsIssuers /\ L!SpentOnce
<1> SUFFICES ASSUME LoginInv PROVE L!TypeOK /\ L!ClientIsIssuers /\ L!SpentOnce
  OBVIOUS
<1>1. L!TypeOK
  <2>1. landed \subseteq 1..MaxLogins
    BY LoginAssumption DEF LoginInv, LoginTypes, HandOfLogin
  <2>. QED  BY <2>1 DEF LoginInv, LoginTypes, L!TypeOK
<1>2. L!ClientIsIssuers /\ L!SpentOnce
  BY DEF LoginInv, StoredLogin, ClientIs, L!ClientIsIssuers, L!SpentOnce
<1>. QED  BY <1>1, <1>2

-----------------------------------------------------------------------------
(* The Google grant                                                        *)

GrantTypes ==
    /\ expected \in {None, Own} /\ googleBegun \in 0..GoogleMaxLogins
    /\ outs \in 0..MaxOuts
    /\ googleGrant \in [who : G!Identities \cup {None}, fresh : BOOLEAN,
                        email : G!Identities \cup {None}, gen : Nat,
                        pending : 0..GoogleMaxLogins]
    /\ mutex \in {"free", "login"} \cup Borrowers
    /\ login \in [at : {"idle", "exchanged"}, who : G!Identities \cup {None},
                  before : 0..MaxOuts]
    /\ borrows \in [Borrowers -> [at : {"new", "unverified", "verifying", "ready",
                                        "refused", "failed", "done"},
                                  who : G!Identities \cup {None}]]
    /\ connected \in BOOLEAN /\ googleLanded \in BOOLEAN
    /\ sentAs \subseteq G!Identities

(* The login that is exchanged holds the mutex, as does the call that      *)
(* verifies the identity of a grant.                                       *)
MutexIsHeld ==
    /\ login.at = "exchanged" => mutex = "login"
    /\ \A c \in Borrowers : borrows[c].at = "verifying" => mutex = c

(* Nobody disconnects while a login is exchanged, and what is exchanged or *)
(* borrowed is somebody's.                                                 *)
GrantInHand ==
    /\ login.at = "exchanged" => login.before = outs /\ login.who \in G!Identities
    /\ \A c \in Borrowers :
          borrows[c].at \in {"unverified", "verifying", "ready"} =>
              borrows[c].who \in G!Identities
    /\ ~googleLanded

GoogleInv == GrantTypes /\ MutexIsHeld /\ GrantInHand

(* A call is set where it is and keeps its token, or borrows one.          *)
LEMMA BorrowsOf ==
  ASSUME GrantTypes, NEW c \in Borrowers,
         NEW k \in {"new", "unverified", "verifying", "ready", "refused", "failed", "done"},
         borrows' = [borrows EXCEPT ![c].at = k]
  PROVE  /\ borrows' \in [Borrowers -> [at : {"new", "unverified", "verifying", "ready",
                                             "refused", "failed", "done"},
                                       who : G!Identities \cup {None}]]
         /\ borrows'[c].at = k /\ borrows'[c].who = borrows[c].who
         /\ \A d \in Borrowers \ {c} : borrows'[d] = borrows[d]
  BY DEF GrantTypes

(* A call writes the token it used into the grant, and nothing else.       *)
LEMMA WrittenBack ==
  ASSUME GrantTypes, NEW c \in Borrowers, borrows[c].who \in G!Identities,
         googleGrant' = G!WriteBack(c)
  PROVE  /\ googleGrant' \in [who : G!Identities \cup {None}, fresh : BOOLEAN,
                              email : G!Identities \cup {None}, gen : Nat,
                              pending : 0..GoogleMaxLogins]
         /\ googleGrant'.gen = googleGrant.gen
  BY DEF GrantTypes, G!WriteBack

(* A grant that was there before has no identity and no number.            *)
LEMMA GoogleInit == G!Init => GoogleInv
<1> SUFFICES ASSUME G!Init PROVE GoogleInv
  OBVIOUS
<1> USE GoogleAssumption
<1>1. /\ googleGrant \in {G!Empty} \cup {[G!Empty EXCEPT !.who = i] : i \in G!Identities}
      /\ expected \in {None, Own} /\ googleBegun = 0 /\ outs = 0
      /\ mutex = "free" /\ login = G!NoLogin
      /\ borrows = [c \in Borrowers |-> [at |-> "new", who |-> None]]
      /\ connected = (googleGrant.who # None) /\ googleLanded = FALSE /\ sentAs = {}
  BY DEF G!Init
<1>2. googleGrant \in [who : G!Identities \cup {None}, fresh : BOOLEAN,
                       email : G!Identities \cup {None}, gen : Nat,
                       pending : 0..GoogleMaxLogins]
  <2>1. G!Empty \in [who : G!Identities \cup {None}, fresh : BOOLEAN,
                     email : G!Identities \cup {None}, gen : Nat,
                     pending : 0..GoogleMaxLogins]
    BY DEF G!Empty
  <2>2. CASE googleGrant = G!Empty
    BY <2>1, <2>2
  <2>3. ASSUME NEW i \in G!Identities, googleGrant = [G!Empty EXCEPT !.who = i]
        PROVE  googleGrant \in [who : G!Identities \cup {None}, fresh : BOOLEAN,
                                email : G!Identities \cup {None}, gen : Nat,
                                pending : 0..GoogleMaxLogins]
    BY <2>1, <2>3
  <2>. QED  BY <1>1, <2>2, <2>3
<1>3. connected \in BOOLEAN
  BY <1>1
<1>4. login.at = "idle" /\ login \in [at : {"idle", "exchanged"},
                                      who : G!Identities \cup {None}, before : 0..MaxOuts]
  BY <1>1 DEF G!NoLogin
<1>5. GrantTypes
  <2>1. borrows \in [Borrowers -> [at : {"new", "unverified", "verifying", "ready",
                                         "refused", "failed", "done"},
                                   who : G!Identities \cup {None}]]
    BY <1>1
  <2>2. sentAs \subseteq G!Identities /\ googleLanded \in BOOLEAN
    BY <1>1
  <2>. QED  BY <1>1, <1>2, <1>3, <1>4, <2>1, <2>2 DEF GrantTypes
<1>6. MutexIsHeld /\ GrantInHand
  BY <1>1, <1>4 DEF MutexIsHeld, GrantInHand
<1>. QED  BY <1>5, <1>6 DEF GoogleInv

(* Every step of logins, disconnects and calls keeps the mutex with who    *)
(* holds it, and its number with the connection.                           *)
LEMMA GoogleKept ==
  ASSUME GoogleInv, G!Next
  PROVE  GoogleInv' /\ G!NumberGoesUp
<1> USE GoogleAssumption
<1>a. GrantTypes /\ MutexIsHeld /\ GrantInHand
  BY DEF GoogleInv
<1>b. "login" \notin Borrowers /\ "free" \notin Borrowers
  OBVIOUS
<1>c. /\ googleGrant.gen \in Nat /\ outs \in Nat
      /\ DOMAIN googleGrant = {"who", "fresh", "email", "gen", "pending"}
  BY <1>a DEF GrantTypes
<1>n. G!NoLogin.at = "idle" /\ G!NoLogin \in [at : {"idle", "exchanged"},
                                      who : G!Identities \cup {None}, before : 0..MaxOuts]
  BY DEF G!NoLogin
<1>1. CASE G!BeginLogin
  <2>1. /\ googleBegun < GoogleMaxLogins /\ googleBegun' = googleBegun + 1
        /\ googleGrant' = [googleGrant EXCEPT !.pending = googleBegun + 1]
        /\ UNCHANGED <<expected, outs, mutex, login, borrows, connected, googleLanded, sentAs>>
    BY <1>1 DEF G!BeginLogin, G!history
  <2>2. googleBegun + 1 \in 0..GoogleMaxLogins
    BY <2>1, <1>a DEF GrantTypes
  <2>3. GrantTypes'
    BY <2>1, <2>2, <1>a DEF GrantTypes
  <2>4. MutexIsHeld' /\ GrantInHand'
    BY <2>1, <1>a DEF MutexIsHeld, GrantInHand
  <2>5. G!NumberGoesUp
    BY <2>1, <1>c DEF G!NumberGoesUp
  <2>. QED  BY <2>3, <2>4, <2>5 DEF GoogleInv
<1>2. CASE G!CompleteLogin
  <2>1. PICK i \in G!Identities :
           login' = [at |-> "exchanged", who |-> i, before |-> outs]
    BY <1>2 DEF G!CompleteLogin
  <2>2. /\ mutex = "free" /\ mutex' = "login"
        /\ UNCHANGED <<expected, googleGrant, googleBegun, outs, borrows, connected,
                       googleLanded, sentAs>>
    BY <1>2 DEF G!CompleteLogin, G!history
  <2>3. GrantTypes'
    BY <2>1, <2>2, <1>a DEF GrantTypes
  <2>4. MutexIsHeld'
    BY <2>1, <2>2, <1>a, <1>b DEF MutexIsHeld
  <2>5. GrantInHand'
    BY <2>1, <2>2, <1>a DEF GrantInHand
  <2>6. G!NumberGoesUp
    BY <2>2, <1>c DEF G!NumberGoesUp
  <2>. QED  BY <2>3, <2>4, <2>5, <2>6 DEF GoogleInv
<1>3. CASE G!RefuseLogin \/ G!WrongAccount
  <2>1. /\ login.at = "exchanged" /\ login' = G!NoLogin /\ mutex' = "free"
        /\ googleGrant' \in {googleGrant, [googleGrant EXCEPT !.pending = 0]}
        /\ UNCHANGED <<expected, googleBegun, outs, borrows, connected, googleLanded, sentAs>>
    BY <1>3 DEF G!RefuseLogin, G!WrongAccount, G!history
  <2>2. /\ googleGrant' \in [who : G!Identities \cup {None}, fresh : BOOLEAN,
                             email : G!Identities \cup {None}, gen : Nat,
                             pending : 0..GoogleMaxLogins]
        /\ googleGrant'.gen = googleGrant.gen
    BY <2>1, <1>a DEF GrantTypes
  <2>3. GrantTypes'
    BY <2>1, <2>2, <1>n, <1>a DEF GrantTypes
  <2>4. MutexIsHeld' /\ GrantInHand'
    BY <2>1, <1>n, <1>a, <1>b DEF MutexIsHeld, GrantInHand
  <2>5. G!NumberGoesUp
    BY <2>1, <2>2, <1>c DEF G!NumberGoesUp
  <2>. QED  BY <2>3, <2>4, <2>5 DEF GoogleInv
<1>4. CASE G!Connect
  <2>1. /\ login.at = "exchanged" /\ login' = G!NoLogin /\ mutex' = "free"
        /\ googleGrant' = [who |-> login.who, fresh |-> TRUE, email |-> login.who,
                           gen |-> googleGrant.gen + 1, pending |-> 0]
        /\ connected' = TRUE
        /\ googleLanded' = (googleLanded \/ login.before # outs)
        /\ UNCHANGED <<expected, googleBegun, outs, borrows, sentAs>>
    BY <1>4 DEF G!Connect
  <2>2. googleLanded' = FALSE
    BY <2>1, <1>a DEF GrantInHand
  <2>3. googleGrant.gen + 1 \in Nat /\ login.who \in G!Identities
    BY <2>1, <1>a, <1>c DEF GrantInHand
  <2>4. GrantTypes'
    BY <2>1, <2>2, <2>3, <1>n, <1>a DEF GrantTypes
  <2>5. MutexIsHeld' /\ GrantInHand'
    BY <2>1, <2>2, <1>n, <1>a, <1>b DEF MutexIsHeld, GrantInHand
  <2>6. G!NumberGoesUp
    <3>1. googleGrant'.gen = googleGrant.gen + 1
      BY <2>1
    <3>. QED  BY <3>1, <1>c DEF G!NumberGoesUp
  <2>. QED  BY <2>4, <2>5, <2>6 DEF GoogleInv
<1>5. CASE G!Logout
  <2>1. /\ mutex = "free" /\ outs < MaxOuts /\ outs' = outs + 1
        /\ googleGrant' = [G!Empty EXCEPT !.gen = googleGrant.gen + 1]
        /\ connected' = FALSE
        /\ UNCHANGED <<expected, googleBegun, mutex, login, borrows, googleLanded, sentAs>>
    BY <1>5 DEF G!Logout, G!MayLogout, G!Disconnected
  <2>2. googleGrant.gen + 1 \in Nat /\ outs + 1 \in 0..MaxOuts
    BY <2>1, <1>a, <1>c DEF GrantTypes
  <2>3. /\ googleGrant' \in [who : G!Identities \cup {None}, fresh : BOOLEAN,
                             email : G!Identities \cup {None}, gen : Nat,
                             pending : 0..GoogleMaxLogins]
        /\ googleGrant'.gen = googleGrant.gen + 1
    <3> DEFINE n == googleGrant.gen + 1
    <3>1. n \in Nat /\ googleGrant' = [G!Empty EXCEPT !.gen = n]
      BY <2>1, <2>2
    <3> HIDE DEF n
    <3>e. G!Empty \in [who : G!Identities \cup {None}, fresh : BOOLEAN,
                       email : G!Identities \cup {None}, gen : Nat,
                       pending : 0..GoogleMaxLogins]
      BY DEF G!Empty
    <3>2. /\ googleGrant' \in [who : G!Identities \cup {None}, fresh : BOOLEAN,
                               email : G!Identities \cup {None}, gen : Nat,
                               pending : 0..GoogleMaxLogins]
          /\ googleGrant'.gen = n
      BY <3>1, <3>e
    <3>. QED  BY <3>2 DEF n
  <2>4. GrantTypes'
    BY <2>1, <2>2, <2>3, <1>a DEF GrantTypes
  <2>5. MutexIsHeld' /\ GrantInHand'
    BY <2>1, <1>a DEF MutexIsHeld, GrantInHand
  <2>6. G!NumberGoesUp
    BY <2>3, <1>c DEF G!NumberGoesUp
  <2>. QED  BY <2>4, <2>5, <2>6 DEF GoogleInv
<1>6. CASE G!Expire
  <2>1. /\ googleGrant' = [googleGrant EXCEPT !.fresh = FALSE]
        /\ UNCHANGED <<expected, googleBegun, outs, mutex, login, borrows, connected,
                       googleLanded, sentAs>>
    BY <1>6 DEF G!Expire, G!history
  <2>2. GrantTypes'
    BY <2>1, <1>a DEF GrantTypes
  <2>3. MutexIsHeld' /\ GrantInHand'
    BY <2>1, <1>a DEF MutexIsHeld, GrantInHand
  <2>4. G!NumberGoesUp
    BY <2>1, <1>c DEF G!NumberGoesUp
  <2>. QED  BY <2>2, <2>3, <2>4 DEF GoogleInv
<1>7. ASSUME NEW c \in Borrowers, G!Borrow(c) PROVE GoogleInv' /\ G!NumberGoesUp
  <2>1. PICK k \in {"unverified", "ready"} :
           borrows' = [borrows EXCEPT ![c] = [at |-> k, who |-> googleGrant.who]]
    BY <1>7 DEF G!Borrow
  <2>2. /\ googleGrant.who # None
        /\ UNCHANGED <<expected, googleGrant, googleBegun, outs, mutex, login, connected,
                       googleLanded, sentAs>>
    BY <1>7 DEF G!Borrow, G!history
  <2>3. googleGrant.who \in G!Identities
    BY <2>2, <1>a DEF GrantTypes
  <2>4. GrantTypes'
    BY <2>1, <2>2, <2>3, <1>a DEF GrantTypes
  <2>5. MutexIsHeld' /\ GrantInHand'
    BY <2>1, <2>2, <2>3, <1>a DEF MutexIsHeld, GrantInHand, GrantTypes
  <2>6. G!NumberGoesUp
    BY <2>2, <1>c DEF G!NumberGoesUp
  <2>. QED  BY <2>4, <2>5, <2>6 DEF GoogleInv
<1>8. ASSUME NEW c \in Borrowers, G!Verify(c) PROVE GoogleInv' /\ G!NumberGoesUp
  <2>1. /\ borrows[c].at = "unverified" /\ mutex = "free" /\ mutex' = c
        /\ googleGrant' = G!WriteBack(c)
        /\ borrows' = [borrows EXCEPT ![c].at = "verifying"]
        /\ UNCHANGED <<expected, googleBegun, outs, login, connected, googleLanded, sentAs>>
    BY <1>8 DEF G!Verify, G!history
  <2>2. borrows[c].who \in G!Identities
    BY <2>1, <1>a DEF GrantInHand
  <2>3. /\ googleGrant' \in [who : G!Identities \cup {None}, fresh : BOOLEAN,
                             email : G!Identities \cup {None}, gen : Nat,
                             pending : 0..GoogleMaxLogins]
        /\ googleGrant'.gen = googleGrant.gen
    BY <2>1, <2>2, <1>a, WrittenBack
  <2>4. /\ borrows' \in [Borrowers -> [at : {"new", "unverified", "verifying", "ready",
                                             "refused", "failed", "done"},
                                       who : G!Identities \cup {None}]]
        /\ borrows'[c].at = "verifying" /\ borrows'[c].who = borrows[c].who
        /\ \A d \in Borrowers \ {c} : borrows'[d] = borrows[d]
    BY <2>1, <1>a, BorrowsOf
  <2>5. GrantTypes'
    BY <2>1, <2>3, <2>4, <1>a DEF GrantTypes
  <2>6. MutexIsHeld' /\ GrantInHand'
    BY <2>1, <2>2, <2>4, <1>a, <1>b DEF MutexIsHeld, GrantInHand
  <2>7. G!NumberGoesUp
    BY <2>1, <2>3, <1>c DEF G!NumberGoesUp
  <2>. QED  BY <2>5, <2>6, <2>7 DEF GoogleInv
<1>9. ASSUME NEW c \in Borrowers, G!Verified(c) PROVE GoogleInv' /\ G!NumberGoesUp
  <2>1. /\ borrows[c].at = "verifying" /\ mutex' = "free"
        /\ UNCHANGED <<expected, googleBegun, outs, login, connected, googleLanded, sentAs>>
    BY <1>9 DEF G!Verified, G!history
  <2>2. mutex = c /\ borrows[c].who \in G!Identities
    BY <2>1, <1>a DEF MutexIsHeld, GrantInHand
  <2>3. PICK k \in {"refused", "ready"} : borrows' = [borrows EXCEPT ![c].at = k]
    BY <1>9 DEF G!Verified
  <2>4. \/ googleGrant' = googleGrant
        \/ googleGrant' = [googleGrant EXCEPT !.email = borrows[c].who]
    BY <1>9 DEF G!Verified
  <2>5. /\ googleGrant' \in [who : G!Identities \cup {None}, fresh : BOOLEAN,
                             email : G!Identities \cup {None}, gen : Nat,
                             pending : 0..GoogleMaxLogins]
        /\ googleGrant'.gen = googleGrant.gen
    BY <2>2, <2>4, <1>a DEF GrantTypes
  <2>6. /\ borrows' \in [Borrowers -> [at : {"new", "unverified", "verifying", "ready",
                                             "refused", "failed", "done"},
                                       who : G!Identities \cup {None}]]
        /\ borrows'[c].at = k /\ borrows'[c].who = borrows[c].who
        /\ \A d \in Borrowers \ {c} : borrows'[d] = borrows[d]
    BY <2>3, <1>a, BorrowsOf
  <2>7. GrantTypes'
    BY <2>1, <2>5, <2>6, <1>a DEF GrantTypes
  <2>8. MutexIsHeld' /\ GrantInHand'
    BY <2>1, <2>2, <2>6, <1>a, <1>b DEF MutexIsHeld, GrantInHand
  <2>9. G!NumberGoesUp
    BY <2>1, <2>5, <1>c DEF G!NumberGoesUp
  <2>. QED  BY <2>7, <2>8, <2>9 DEF GoogleInv
<1>10. ASSUME NEW c \in Borrowers, G!Send(c) PROVE GoogleInv' /\ G!NumberGoesUp
  <2>1. /\ borrows[c].at = "ready"
        /\ googleGrant' = G!WriteBack(c)
        /\ borrows' = [borrows EXCEPT ![c].at = "done"]
        /\ sentAs' = sentAs \cup {borrows[c].who}
        /\ UNCHANGED <<expected, googleBegun, outs, mutex, login, connected, googleLanded>>
    BY <1>10 DEF G!Send
  <2>2. borrows[c].who \in G!Identities
    BY <2>1, <1>a DEF GrantInHand
  <2>3. /\ googleGrant' \in [who : G!Identities \cup {None}, fresh : BOOLEAN,
                             email : G!Identities \cup {None}, gen : Nat,
                             pending : 0..GoogleMaxLogins]
        /\ googleGrant'.gen = googleGrant.gen
    BY <2>1, <2>2, <1>a, WrittenBack
  <2>4. /\ borrows' \in [Borrowers -> [at : {"new", "unverified", "verifying", "ready",
                                             "refused", "failed", "done"},
                                       who : G!Identities \cup {None}]]
        /\ borrows'[c].at = "done" /\ borrows'[c].who = borrows[c].who
        /\ \A d \in Borrowers \ {c} : borrows'[d] = borrows[d]
    BY <2>1, <1>a, BorrowsOf
  <2>5. GrantTypes'
    BY <2>1, <2>2, <2>3, <2>4, <1>a DEF GrantTypes
  <2>6. MutexIsHeld' /\ GrantInHand'
    BY <2>1, <2>4, <1>a DEF MutexIsHeld, GrantInHand
  <2>7. G!NumberGoesUp
    BY <2>1, <2>3, <1>c DEF G!NumberGoesUp
  <2>. QED  BY <2>5, <2>6, <2>7 DEF GoogleInv
<1>11. ASSUME NEW c \in Borrowers, G!Fail(c) PROVE GoogleInv' /\ G!NumberGoesUp
  <2>1. /\ mutex' = IF borrows[c].at = "verifying" THEN "free" ELSE mutex
        /\ borrows' = [borrows EXCEPT ![c].at = "failed"]
        /\ UNCHANGED <<expected, googleGrant, googleBegun, outs, login, connected,
                       googleLanded, sentAs>>
    BY <1>11 DEF G!Fail, G!history
  <2>2. /\ borrows' \in [Borrowers -> [at : {"new", "unverified", "verifying", "ready",
                                             "refused", "failed", "done"},
                                       who : G!Identities \cup {None}]]
        /\ borrows'[c].at = "failed" /\ borrows'[c].who = borrows[c].who
        /\ \A d \in Borrowers \ {c} : borrows'[d] = borrows[d]
    BY <2>1, <1>a, BorrowsOf
  <2>3. GrantTypes'
    BY <2>1, <2>2, <1>a DEF GrantTypes
  <2>4. MutexIsHeld'
    BY <2>1, <2>2, <1>a, <1>b DEF MutexIsHeld
  <2>5. GrantInHand'
    BY <2>1, <2>2, <1>a DEF GrantInHand
  <2>6. G!NumberGoesUp
    BY <2>1, <1>c DEF G!NumberGoesUp
  <2>. QED  BY <2>3, <2>4, <2>5, <2>6 DEF GoogleInv
<1>. QED
  BY <1>1, <1>2, <1>3, <1>4, <1>5, <1>6, <1>7, <1>8, <1>9, <1>10, <1>11
  DEF G!Next

(* A step that leaves the grant's variables alone keeps it.                *)
LEMMA GoogleStays == GoogleInv /\ UNCHANGED googleVars => GoogleInv'
  BY DEF googleVars, GoogleInv, GrantTypes, MutexIsHeld, GrantInHand

(* The invariant has the types, and that no login lands late.              *)
LEMMA GoogleMeans == GoogleInv => G!TypeOK /\ G!NoLateLogin
  BY DEF GoogleInv, GrantTypes, GrantInHand, G!TypeOK, G!NoLateLogin

-----------------------------------------------------------------------------
(* Calendar events                                                         *)

CallsSeen == [event : E!Events \cup {None}, time : E!Times, zone : {"same", "away"},
              tell : BOOLEAN]

(* A call that answers has read the event; one that moves it tells as many *)
(* as the event had when it could be read.                                 *)
ReadFirst ==
    \A c \in Calls :
        /\ step[c] = "responding" => calendarSeen[c].event # None
        /\ step[c] = "moving" /\ calendarSeen[c].event # None =>
              calendarSeen[c].tell = E!HasGuests(calendarSeen[c].event)

CalendarInv == E!TypeOK /\ ReadFirst

(* The guests are told a time, whoever they are.                           *)
LEMMA ToldTimes ==
  ASSUME NEW e \in E!Events, heard \in [Guests -> E!Times]
  PROVE  E!Told(e) \in [Guests -> E!Times]
  BY DEF E!Events, E!Told

(* An event stays one when its time, its zone or its guests are set.       *)
LEMMA EventsOf ==
  ASSUME NEW e \in E!Events
  PROVE  /\ e.time \in E!Times /\ e.guests \in [Guests -> E!Lists]
         /\ \A t \in E!Times : [e EXCEPT !.time = t] \in E!Events
         /\ \A t \in E!Times, z \in {"home", "away"} :
               [e EXCEPT !.time = t, !.zone = z] \in E!Events
         /\ \A l \in [Guests -> E!Lists] : [e EXCEPT !.guests = l] \in E!Events
         /\ \A g \in Guests, v \in E!Lists : [e EXCEPT !.guests[g] = v] \in E!Events
  BY DEF E!Events

(* What a call has seen is set field by field.                             *)
LEMMA SeenOf ==
  ASSUME E!TypeOK, NEW c \in Calls, NEW row \in CallsSeen,
         calendarSeen' = [calendarSeen EXCEPT ![c] = row]
  PROVE  /\ calendarSeen' \in [Calls -> CallsSeen]
         /\ calendarSeen'[c] = row
         /\ \A d \in Calls \ {c} : calendarSeen'[d] = calendarSeen[d]
  BY DEF E!TypeOK, CallsSeen

(* A call goes from one place to the next, alone.                          *)
LEMMA StepOf ==
  ASSUME E!TypeOK, NEW c \in Calls, NEW k \in E!Steps,
         step' = [step EXCEPT ![c] = k]
  PROVE  /\ step' \in [Calls -> E!Steps] /\ step'[c] = k
         /\ \A d \in Calls \ {c} : step'[d] = step[d]
  BY DEF E!TypeOK

(* The event is there, and no call has read it.                            *)
LEMMA CalendarInit == E!Init => CalendarInv
<1> SUFFICES ASSUME E!Init PROVE CalendarInv
  OBVIOUS
<1> USE CalendarAssumption
<1>1. event \in E!Events
  <2>1. PICK invited \in SUBSET Guests :
           event = [time |-> 0, zone |-> "home",
                    guests |-> [g \in Guests |-> IF g \in invited THEN "needsAction" ELSE "no"]]
    BY DEF E!Init
  <2>. QED  BY <2>1 DEF E!Events, E!Times, E!Lists, E!Replies
<1>2. /\ heard \in [Guests -> E!Times] /\ others \in 0..MaxReplies
      /\ full \subseteq Shared /\ unreadable \subseteq Shared
      /\ offered \in {"unknown", "free", "busy"}
  BY DEF E!Init, E!Times
<1>3. /\ step \in [Calls -> E!Steps] /\ \A c \in Calls : step[c] = "idle"
  BY DEF E!Init, E!Steps
<1>4. calendarSeen \in [Calls -> CallsSeen]
  <2>1. E!Nothing \in CallsSeen
    BY DEF E!Nothing, CallsSeen, E!Times
  <2>. QED  BY <2>1 DEF E!Init
<1>5. E!TypeOK
  BY <1>1, <1>2, <1>3, <1>4 DEF E!TypeOK, CallsSeen
<1>. QED  BY <1>3, <1>5 DEF CalendarInv, ReadFirst

(* Whatever becomes of the event, it and what its guests know keep their   *)
(* types, and the calls have what they have read.                          *)
LEMMA EventChanges ==
  ASSUME CalendarInv, event' \in E!Events \cup {None},
         heard' \in [Guests -> E!Times], others' \in 0..MaxReplies,
         offered' \in {"unknown", "free", "busy"},
         UNCHANGED <<calendarSeen, full, unreadable>>,
         \/ UNCHANGED step
         \/ \E c \in Calls, k \in {"done", "failed"} : step' = [step EXCEPT ![c] = k]
  PROVE  CalendarInv'
<1>1. /\ step' \in [Calls -> E!Steps]
      /\ \A d \in Calls : step'[d] = step[d] \/ step'[d] \in {"done", "failed"}
  <2>1. CASE UNCHANGED step
    BY <2>1 DEF CalendarInv, E!TypeOK
  <2>2. ASSUME NEW c \in Calls, NEW k \in {"done", "failed"},
               step' = [step EXCEPT ![c] = k]
        PROVE  /\ step' \in [Calls -> E!Steps]
               /\ \A d \in Calls : step'[d] = step[d] \/ step'[d] \in {"done", "failed"}
    BY <2>2, StepOf DEF CalendarInv, E!Steps
  <2>. QED  BY <2>1, <2>2
<1>2. E!TypeOK'
  BY <1>1 DEF CalendarInv, E!TypeOK
<1>3. ReadFirst'
  BY <1>1 DEF CalendarInv, ReadFirst, E!HasGuests, E!Invited
<1>. QED  BY <1>2, <1>3 DEF CalendarInv

(* Every step of Google, its guests and the calls keeps what a call has    *)
(* read.                                                                   *)
LEMMA CalendarKept ==
  ASSUME CalendarInv, E!Next
  PROVE  CalendarInv'
<1> USE CalendarAssumption
<1>a. /\ event \in E!Events \cup {None} /\ heard \in [Guests -> E!Times]
      /\ others \in 0..MaxReplies /\ offered \in {"unknown", "free", "busy"}
      /\ calendarSeen \in [Calls -> CallsSeen] /\ step \in [Calls -> E!Steps]
  BY DEF CalendarInv, E!TypeOK, CallsSeen
<1>b. "needsAction" \in E!Lists /\ "no" \in E!Lists
  BY DEF E!Lists, E!Replies
<1>1. ASSUME NEW g \in Guests, NEW reply \in E!Replies, E!Reply(g, reply)
      PROVE  CalendarInv'
  <2>1. /\ event # None /\ event' = [event EXCEPT !.guests[g] = reply]
        /\ others < MaxReplies /\ others' = others + 1
        /\ UNCHANGED <<heard, step, calendarSeen, full, unreadable, offered>>
    BY <1>1 DEF E!Reply, E!calendarVars
  <2>2. event' \in E!Events
    BY <2>1, <1>a, EventsOf DEF E!Lists
  <2>3. others' \in 0..MaxReplies
    BY <2>1, <1>a
  <2>. QED  BY <2>1, <2>2, <2>3, <1>a, EventChanges
<1>2. CASE E!ChangedInGoogle
  <2>1. /\ event # None /\ others < MaxReplies /\ others' = others + 1
        /\ heard' = E!Told(event')
        /\ UNCHANGED <<step, calendarSeen, full, unreadable, offered>>
    BY <1>2 DEF E!ChangedInGoogle, E!calendarVars
  <2>2. event \in E!Events
    BY <2>1, <1>a
  <2>3. event' \in E!Events
    <3>1. ASSUME NEW g \in Guests, NEW v \in {"needsAction", "no"},
                 event' = [event EXCEPT !.guests[g] = v]
          PROVE  event' \in E!Events
      BY <2>2, <3>1, <1>b, EventsOf
    <3>2. ASSUME event.time < MaxTime, event' = [event EXCEPT !.time = @ + 1]
          PROVE  event' \in E!Events
      <4> DEFINE t == event.time + 1
      <4>1. t \in E!Times /\ event' = [event EXCEPT !.time = t]
        <5>1. event.time \in 0..MaxTime
          BY <2>2, EventsOf DEF E!Times
        <5>2. DOMAIN event = {"time", "zone", "guests"}
          BY <2>2 DEF E!Events
        <5>3. t \in E!Times
          BY <3>2, <5>1 DEF E!Times
        <5>. QED  BY <3>2, <5>2, <5>3
      <4> HIDE DEF t
      <4>. QED  BY <4>1, <2>2, EventsOf
    <3>. QED  BY <1>2, <3>1, <3>2 DEF E!ChangedInGoogle, E!Invited
  <2>4. heard' \in [Guests -> E!Times]
    BY <2>1, <2>3, <1>a, ToldTimes
  <2>5. others' \in 0..MaxReplies
    BY <2>1, <1>a
  <2>. QED  BY <2>1, <2>3, <2>4, <2>5, <1>a, EventChanges
<1>3. ASSUME NEW c \in Calls, E!ReadToRespond(c) PROVE CalendarInv'
  <2>1. /\ event # None
        /\ UNCHANGED <<event, heard, others, full, unreadable, offered>>
    BY <1>3 DEF E!ReadToRespond, E!calendarVars
  <2>2. CASE step' = [step EXCEPT ![c] = "failed"] /\ UNCHANGED calendarSeen
    BY <2>1, <2>2, <1>a, EventChanges
  <2>3. CASE /\ step' = [step EXCEPT ![c] = "responding"]
             /\ calendarSeen' = [calendarSeen EXCEPT ![c].event = event]
    <3> DEFINE row == [calendarSeen[c] EXCEPT !.event = event]
    <3>1. /\ row \in CallsSeen /\ row.event = event
          /\ calendarSeen' = [calendarSeen EXCEPT ![c] = row]
      BY <2>3, <1>a DEF CallsSeen
    <3> HIDE DEF row
    <3>2. /\ calendarSeen' \in [Calls -> CallsSeen] /\ calendarSeen'[c].event = event
          /\ \A d \in Calls \ {c} : calendarSeen'[d] = calendarSeen[d]
      BY <3>1, SeenOf DEF CalendarInv
    <3>3. /\ step' \in [Calls -> E!Steps] /\ step'[c] = "responding"
          /\ \A d \in Calls \ {c} : step'[d] = step[d]
      BY <2>3, StepOf DEF CalendarInv, E!Steps
    <3>4. E!TypeOK'
      BY <2>1, <3>2, <3>3 DEF CalendarInv, E!TypeOK, CallsSeen
    <3>5. ReadFirst'
      BY <2>1, <3>2, <3>3 DEF CalendarInv, ReadFirst, E!HasGuests, E!Invited
    <3>. QED  BY <3>4, <3>5 DEF CalendarInv
  <2>. QED  BY <1>3, <2>2, <2>3 DEF E!ReadToRespond, E!Goes
<1>4. ASSUME NEW c \in Calls, E!ReadToZone(c) \/ E!Move(c) PROVE CalendarInv'
  <2>1. /\ step' = [step EXCEPT ![c] = "telling"]
        /\ UNCHANGED <<event, heard, others, full, unreadable, offered>>
    BY <1>4 DEF E!ReadToZone, E!Move, E!Goes, E!calendarVars
  <2>2. PICK row \in CallsSeen : calendarSeen' = [calendarSeen EXCEPT ![c] = row]
    <3>1. CASE E!ReadToZone(c)
      <4> DEFINE t == event.time
                 row == [calendarSeen[c] EXCEPT !.time = t, !.zone = "away"]
      <4>1. t \in E!Times
        BY <3>1, <1>a, EventsOf DEF E!ReadToZone
      <4>2. calendarSeen' = [calendarSeen EXCEPT ![c] = row]
        BY <3>1, <1>a DEF E!ReadToZone
      <4> HIDE DEF t
      <4>3. row \in CallsSeen
        BY <4>1, <1>a DEF CallsSeen
      <4>. QED  BY <4>2, <4>3
    <3>2. CASE E!Move(c)
      <4>1. PICK t \in E!Times : calendarSeen' = [calendarSeen EXCEPT ![c].time = t]
        BY <3>2 DEF E!Move
      <4>2. [calendarSeen[c] EXCEPT !.time = t] \in CallsSeen
        BY <4>1, <1>a DEF CallsSeen
      <4>. QED  BY <4>1, <4>2, <1>a
    <3>. QED  BY <1>4, <3>1, <3>2
  <2>3. /\ calendarSeen' \in [Calls -> CallsSeen]
        /\ \A d \in Calls \ {c} : calendarSeen'[d] = calendarSeen[d]
    BY <2>2, SeenOf DEF CalendarInv
  <2>4. /\ step' \in [Calls -> E!Steps] /\ step'[c] = "telling"
        /\ \A d \in Calls \ {c} : step'[d] = step[d]
    BY <2>1, StepOf DEF CalendarInv, E!Steps
  <2>5. E!TypeOK'
    BY <2>1, <2>3, <2>4 DEF CalendarInv, E!TypeOK, CallsSeen
  <2>6. ReadFirst'
    BY <2>1, <2>3, <2>4 DEF CalendarInv, ReadFirst, E!HasGuests, E!Invited
  <2>. QED  BY <2>5, <2>6 DEF CalendarInv
<1>5. ASSUME NEW c \in Calls, E!CountGuests(c) PROVE CalendarInv'
  <2>1. /\ step' = [step EXCEPT ![c] = "moving"]
        /\ UNCHANGED <<event, heard, others, full, unreadable, offered>>
    BY <1>5 DEF E!CountGuests, E!Goes, E!calendarVars
  <2>2. PICK b \in BOOLEAN, e \in E!Events \cup {None} :
           /\ calendarSeen' = [calendarSeen EXCEPT ![c].tell = b, ![c].event = e]
           /\ e # None => b = E!HasGuests(e)
    <3>1. CASE event # None /\ calendarSeen' = [calendarSeen EXCEPT
                  ![c].tell = E!HasGuests(event), ![c].event = event]
      <4> DEFINE b == E!HasGuests(event)
      <4>1. b \in BOOLEAN
        BY Zenon DEF E!HasGuests
      <4>2. /\ calendarSeen' = [calendarSeen EXCEPT ![c].tell = b, ![c].event = event]
            /\ b = E!HasGuests(event)
        BY <3>1, Zenon
      <4> HIDE DEF b
      <4>. QED  BY <4>1, <4>2, <1>a, Zenon
    <3>2. CASE calendarSeen' = [calendarSeen EXCEPT ![c].tell = FALSE, ![c].event = None]
      BY <3>2
    <3>. QED  BY <1>5, <3>1, <3>2 DEF E!CountGuests
  <2> DEFINE row == [calendarSeen[c] EXCEPT !.tell = b, !.event = e]
  <2>3. /\ row \in CallsSeen /\ row.event = e /\ row.tell = b
        /\ calendarSeen' = [calendarSeen EXCEPT ![c] = row]
    BY <2>2, <1>a DEF CallsSeen
  <2> HIDE DEF row
  <2>4. /\ calendarSeen' \in [Calls -> CallsSeen] /\ calendarSeen'[c].event = e
        /\ calendarSeen'[c].tell = b
        /\ \A d \in Calls \ {c} : calendarSeen'[d] = calendarSeen[d]
    BY <2>3, SeenOf DEF CalendarInv
  <2>5. /\ step' \in [Calls -> E!Steps] /\ step'[c] = "moving"
        /\ \A d \in Calls \ {c} : step'[d] = step[d]
    BY <2>1, StepOf DEF CalendarInv, E!Steps
  <2>6. E!TypeOK'
    BY <2>1, <2>4, <2>5 DEF CalendarInv, E!TypeOK, CallsSeen
  <2>7. ReadFirst'
    <3>1. calendarSeen'[c].event # None =>
             calendarSeen'[c].tell = E!HasGuests(calendarSeen'[c].event)
      BY <2>2, <2>4
    <3>2. \A d \in Calls \ {c} :
             /\ step[d] = "responding" => calendarSeen[d].event # None
             /\ step[d] = "moving" /\ calendarSeen[d].event # None =>
                   calendarSeen[d].tell = E!HasGuests(calendarSeen[d].event)
      BY DEF CalendarInv, ReadFirst
    <3>. QED  BY <2>4, <2>5, <3>1, <3>2 DEF ReadFirst, E!HasGuests, E!Invited
  <2>. QED  BY <2>6, <2>7 DEF CalendarInv
<1>6. ASSUME NEW c \in Calls, E!PatchTime(c) PROVE CalendarInv'
  <2> DEFINE t == calendarSeen[c].time
             z == IF calendarSeen[c].zone = "away" THEN "away" ELSE event.zone
  <2>1. /\ event # None /\ step' = [step EXCEPT ![c] = "done"]
        /\ event' = [event EXCEPT !.time = t, !.zone = z]
        /\ heard' = IF calendarSeen[c].tell THEN E!Told(event') ELSE heard
        /\ UNCHANGED <<calendarSeen, others, full, unreadable, offered>>
    BY <1>6 DEF E!PatchTime, E!Goes, E!calendarVars
  <2>2. t \in E!Times /\ z \in {"home", "away"} /\ event \in E!Events
    BY <2>1, <1>a DEF CallsSeen, E!Events
  <2> HIDE DEF t, z
  <2>3. event' \in E!Events
    BY <2>1, <2>2, EventsOf
  <2>4. heard' \in [Guests -> E!Times]
    BY <2>1, <2>3, <1>a, ToldTimes
  <2>. QED  BY <2>1, <2>3, <2>4, <1>a, EventChanges
<1>7. ASSUME NEW c \in Calls, E!Delete(c) PROVE CalendarInv'
  <2>1. /\ step' = [step EXCEPT ![c] = "done"] /\ event' = None
        /\ UNCHANGED <<heard, calendarSeen, others, full, unreadable, offered>>
    BY <1>7 DEF E!Delete, E!Goes, E!calendarVars
  <2>. QED  BY <2>1, <1>a, EventChanges
<1>8. ASSUME NEW c \in Calls, E!CallFails(c) PROVE CalendarInv'
  <2>1. /\ step' = [step EXCEPT ![c] = "failed"]
        /\ UNCHANGED <<event, heard, calendarSeen, others, full, unreadable, offered>>
    BY <1>8 DEF E!CallFails, E!calendarVars
  <2>. QED  BY <2>1, <1>a, EventChanges
<1>9. ASSUME NEW c \in Calls, NEW s \in {"accepted", "declined"}, E!PatchReply(c, s)
      PROVE  CalendarInv'
  <2> DEFINE list == [calendarSeen[c].event.guests EXCEPT ![Self] = s]
  <2>1. /\ step[c] = "responding" /\ step' = [step EXCEPT ![c] = "done"]
        /\ event # None /\ event' = [event EXCEPT !.guests = list]
        /\ heard' = E!Told(event')
        /\ UNCHANGED <<calendarSeen, others, full, unreadable, offered>>
    BY <1>9 DEF E!PatchReply, E!Goes, E!calendarVars, E!Answered
  <2>2. calendarSeen[c].event \in E!Events
    BY <2>1, <1>a DEF CalendarInv, ReadFirst, CallsSeen
  <2>3. list \in [Guests -> E!Lists]
    BY <2>2, EventsOf DEF E!Lists, E!Replies
  <2> HIDE DEF list
  <2>4. event' \in E!Events
    BY <2>1, <2>3, <1>a, EventsOf
  <2>5. heard' \in [Guests -> E!Times]
    BY <2>1, <2>4, <1>a, ToldTimes
  <2>. QED  BY <2>1, <2>4, <2>5, <1>a, EventChanges
<1>10. ASSUME NEW c \in Calls, NEW invited \in SUBSET Guests, E!SetGuests(c, invited)
       PROVE  CalendarInv'
  <2> DEFINE list == [g \in Guests |-> IF g \in invited THEN "needsAction" ELSE "no"]
  <2>1. /\ step' = [step EXCEPT ![c] = "done"]
        /\ event # None /\ event' = [event EXCEPT !.guests = list]
        /\ heard' = E!Told(event')
        /\ UNCHANGED <<calendarSeen, others, full, unreadable, offered>>
    BY <1>10 DEF E!SetGuests, E!Goes, E!calendarVars
  <2>2. list \in [Guests -> E!Lists]
    BY <1>b
  <2> HIDE DEF list
  <2>3. event' \in E!Events
    BY <2>1, <2>2, <1>a, EventsOf
  <2>4. heard' \in [Guests -> E!Times]
    BY <2>1, <2>3, <1>a, ToldTimes
  <2>. QED  BY <2>1, <2>3, <2>4, <1>a, EventChanges
<1>11. ASSUME NEW c \in Calls, NEW invited \in SUBSET Guests, E!Create(c, invited)
       PROVE  CalendarInv'
  <2> DEFINE list == [g \in Guests |-> IF g \in invited THEN "needsAction" ELSE "no"]
  <2>1. /\ step' = [step EXCEPT ![c] = "done"]
        /\ UNCHANGED <<calendarSeen, others, full, unreadable, offered>>
    BY <1>11 DEF E!Create, E!Goes, E!calendarVars
  <2>2. PICK t \in E!Times : /\ event' = [time |-> t, zone |-> "home", guests |-> list]
                             /\ heard' = E!Told(event')
    BY <1>11 DEF E!Create
  <2>3. list \in [Guests -> E!Lists]
    BY <1>b
  <2> HIDE DEF list
  <2>4. event' \in E!Events
    BY <2>2, <2>3 DEF E!Events
  <2>5. heard' \in [Guests -> E!Times]
    BY <2>2, <2>4, <1>a, ToldTimes
  <2>. QED  BY <2>1, <2>4, <2>5, <1>a, EventChanges
<1>12. ASSUME NEW c \in Calls, E!FreeBusy(c, Shared) PROVE CalendarInv'
  <2>1. /\ step' = [step EXCEPT ![c] = "done"] /\ offered' \in {"free", "busy"}
        /\ UNCHANGED <<event, heard, calendarSeen, others, full, unreadable>>
    BY <1>12 DEF E!FreeBusy, E!Goes
  <2>. QED  BY <2>1, <1>a, EventChanges
<1>. QED
  BY <1>1, <1>2, <1>3, <1>4, <1>5, <1>6, <1>7, <1>8, <1>9, <1>10, <1>11, <1>12
  DEF E!Next

(* A step that leaves the calendar's variables alone keeps it.             *)
LEMMA CalendarStays == CalendarInv /\ UNCHANGED calendarVars => CalendarInv'
  BY DEF calendarVars, CalendarInv, E!TypeOK, ReadFirst, E!HasGuests, E!Invited

(* An answer written back is the list as it was read with the account's    *)
(* own entry set.                                                          *)
LEMMA AnswersOnly ==
  ASSUME CalendarInv
  PROVE  E!AnswersForItself
<1> SUFFICES ASSUME NEW c \in Calls, NEW s \in E!Replies, E!PatchReply(c, s),
                    calendarSeen[c].event.guests = event.guests,
                    NEW g \in Guests \ {Self}
             PROVE  event'.guests[g] = event.guests[g]
  BY DEF E!AnswersForItself
<1>1. /\ event # None
      /\ event' = [event EXCEPT !.guests = [event.guests EXCEPT ![Self] = s]]
  BY DEF E!PatchReply, E!Answered
<1>2. event \in E!Events
  BY <1>1 DEF CalendarInv, E!TypeOK
<1>3. event.guests \in [Guests -> E!Lists] /\ DOMAIN event = {"time", "zone", "guests"}
  BY <1>2 DEF E!Events
<1>. QED  BY <1>1, <1>3

(* A move tells whoever is still invited, unless nobody was.               *)
LEMMA MovesAreTold ==
  ASSUME CalendarInv
  PROVE  E!TellsTheGuests
<1> SUFFICES ASSUME NEW c \in Calls, E!PatchTime(c), calendarSeen[c].event # None,
                    E!Invited(event) = E!Invited(calendarSeen[c].event),
                    NEW g \in E!Invited(event)'
             PROVE  heard'[g] = event'.time
  BY DEF E!TellsTheGuests, E!Invited
<1> DEFINE t == calendarSeen[c].time
           z == IF calendarSeen[c].zone = "away" THEN "away" ELSE event.zone
<1>1. /\ event # None /\ step[c] = "moving"
      /\ event' = [event EXCEPT !.time = t, !.zone = z]
      /\ heard' = IF calendarSeen[c].tell THEN E!Told(event') ELSE heard
  BY DEF E!PatchTime, E!Goes
<1>2. event \in E!Events
  BY <1>1 DEF CalendarInv, E!TypeOK
<1> HIDE DEF t, z
<1>3. event'.guests = event.guests
  BY <1>1, <1>2 DEF E!Events
<1>4. E!Invited(event)' = E!Invited(event)
  BY <1>3 DEF E!Invited
<1>5. E!HasGuests(calendarSeen[c].event)
  BY <1>4 DEF E!HasGuests
<1>6. calendarSeen[c].tell
  BY <1>1, <1>5 DEF CalendarInv, ReadFirst
<1>7. heard' = E!Told(event')
  BY <1>1, <1>6
<1>8. g \in Guests /\ g \in E!Invited(event')
  BY <1>4 DEF E!Invited
<1>. QED  BY <1>7, <1>8 DEF E!Told

-----------------------------------------------------------------------------
(* Telegram                                                                *)

UpdateEvents == [id : T!Updates, parts : Seq(T!Updates)]
Albums == [id : Photos, parts : Seq(Photos)]
Places == {"held", "arrived", "read", "chosen", "failed", "acked", "done"}

TelegramTypes ==
    /\ at \in [T!Updates -> Places]
    /\ lost \in 0..MaxLost /\ fired \in Nat /\ timer \in BOOLEAN
    /\ album \in Albums \cup {None}
    /\ inbox \in Seq(UpdateEvents) /\ Len(inbox) <= QueueSize
    /\ processed \subseteq T!Updates /\ given \in Seq(T!Updates)
    /\ telegramDropped \subseteq Photos
    /\ asks \in [Questions -> {"none", "sending", "asked", "failed", "refused"}]
    /\ shown \subseteq Questions /\ late \subseteq shown /\ answered \subseteq shown
    /\ pending \in Questions \cup {None}
    /\ tapped \in [Taps -> Questions \cup {None}]

(* A question that is on its way to the chat, or in it, waits unless it is *)
(* too old or answered; what is shown has been asked, and what a tap is on *)
(* has been shown.                                                         *)
QuestionWaits ==
    /\ \A q \in Questions :
          asks[q] \in {"sending", "asked"} /\ q \notin late \cup answered => pending = q
    /\ \A q \in Questions :
          /\ asks[q] = "none" => q \notin shown
          /\ asks[q] = "asked" => q \in shown
          /\ q \in late => asks[q] = "asked"
    /\ pending # None => asks[pending] # "none" /\ pending \notin answered
    /\ \A u \in Taps : /\ tapped[u] # None => tapped[u] \in shown
                       /\ at[u] # "held" => tapped[u] # None

(* The taps that have taken their question, wherever their choice is: not  *)
(* yet in the queue, in it, or with a turn.                                *)
Chosen == {u \in Taps : at[u] = "chosen"}
Queued == {i \in 1..Len(inbox) : inbox[i].id \in Taps}
Handed == {i \in 1..Len(given) : given[i] \in Taps}
OfQueued(i) == tapped[inbox[i].id]
OfHanded(i) == tapped[given[i]]

(* Each has answered its question, and no two of them the same one.        *)
OneTapEach ==
    /\ \A u \in Chosen : tapped[u] \in answered
    /\ \A i \in Queued : OfQueued(i) \in answered
    /\ \A i \in Handed : OfHanded(i) \in answered
    /\ \A u, v \in Chosen : tapped[u] = tapped[v] => u = v
    /\ \A u \in Chosen, i \in Queued : tapped[u] # OfQueued(i)
    /\ \A u \in Chosen, i \in Handed : tapped[u] # OfHanded(i)
    /\ \A i, j \in Queued : OfQueued(i) = OfQueued(j) => i = j
    /\ \A i \in Queued, j \in Handed : OfQueued(i) # OfHanded(j)
    /\ \A i, j \in Handed : OfHanded(i) = OfHanded(j) => i = j

(* An event of a tap is the tap; any other has none in it.                 *)
PartsOfTaps ==
    \A i \in 1..Len(inbox) :
        IF inbox[i].id \in Taps THEN inbox[i].parts = <<inbox[i].id>>
        ELSE \A k \in 1..Len(inbox[i].parts) : inbox[i].parts[k] \notin Taps

TelegramInv ==
    TelegramTypes /\ QuestionWaits /\ OneTapEach /\ PartsOfTaps /\ T!AlbumEnds

(* An update goes to its next place, alone.                                *)
LEMMA AtOf ==
  ASSUME at \in [T!Updates -> Places], NEW u \in T!Updates, NEW k \in Places,
         at' = [at EXCEPT ![u] = k]
  PROVE  /\ at' \in [T!Updates -> Places] /\ at'[u] = k
         /\ \A v \in T!Updates \ {u} : at'[v] = at[v]
         /\ Chosen' \subseteq Chosen \cup {u}
         /\ k # "chosen" => Chosen' = Chosen \ {u}
<1>1. /\ at' \in [T!Updates -> Places] /\ at'[u] = k
      /\ \A v \in T!Updates \ {u} : at'[v] = at[v]
  OBVIOUS
<1>. QED  BY <1>1 DEF Chosen, T!Updates

(* Where no choice is made or moves, each question keeps its one tap.      *)
LEMMA TapsKept ==
  ASSUME OneTapEach, UNCHANGED <<inbox, given>>, Chosen' \subseteq Chosen,
         \A u \in Taps : tapped[u] \in answered => tapped'[u] = tapped[u],
         answered \subseteq answered'
  PROVE  OneTapEach'
<1>1. Queued' = Queued /\ Handed' = Handed
  BY DEF Queued, Handed
<1>2. \A u \in Chosen : u \in Taps /\ tapped[u] \in answered /\ tapped'[u] = tapped[u]
  BY DEF Chosen, OneTapEach
<1>3. \A i \in Queued : OfQueued(i) \in answered /\ OfQueued(i)' = OfQueued(i)
  BY DEF OneTapEach, Queued, OfQueued
<1>4. \A i \in Handed : OfHanded(i) \in answered /\ OfHanded(i)' = OfHanded(i)
  BY DEF OneTapEach, Handed, OfHanded
<1>. QED  BY <1>1, <1>2, <1>3, <1>4 DEF OneTapEach

(* An event is put in the queue: a tap's when it has taken its question,   *)
(* and then it is no longer on its way there.                              *)
LEMMA TapsQueued ==
  ASSUME OneTapEach, PartsOfTaps, inbox \in Seq(UpdateEvents),
         NEW e \in UpdateEvents, inbox' = Append(inbox, e),
         UNCHANGED <<given, tapped, answered>>,
         Chosen' \subseteq Chosen,
         e.id \in Taps => e.id \in Chosen /\ e.id \notin Chosen' /\ e.parts = <<e.id>>,
         e.id \notin Taps => \A k \in 1..Len(e.parts) : e.parts[k] \notin Taps
  PROVE  OneTapEach' /\ PartsOfTaps'
<1>n. PICK n \in Nat : n = Len(inbox) + 1
  OBVIOUS
<1>1. /\ Len(inbox) \in Nat /\ Len(inbox') = n /\ inbox'[n] = e
      /\ \A i \in 1..Len(inbox) : inbox'[i] = inbox[i] /\ i # n
  BY <1>n
<1>2. 1..Len(inbox') = 1..Len(inbox) \cup {n} /\ n \notin 1..Len(inbox)
  BY <1>1, <1>n
<1>3. /\ n \notin Queued
      /\ Queued' = Queued \cup (IF e.id \in Taps THEN {n} ELSE {})
      /\ \A i \in Queued : OfQueued(i)' = OfQueued(i) /\ OfQueued(i) \in answered
  BY <1>1, <1>2 DEF Queued, OfQueued, OneTapEach
<1>4. OfQueued(n)' = tapped[e.id]
  BY <1>1 DEF OfQueued
<1>5. Handed' = Handed /\ \A i \in Handed : OfHanded(i)' = OfHanded(i)
  BY DEF Handed, OfHanded
<1>6. OneTapEach'
  <2>1. CASE e.id \notin Taps
    <3>1. Queued' = Queued
      BY <2>1, <1>3
    <3>. QED  BY <3>1, <1>3, <1>5 DEF OneTapEach
  <2>2. CASE e.id \in Taps
    <3>1. Queued' = Queued \cup {n}
      BY <2>2, <1>3
    <3>2. /\ e.id \in Chosen /\ tapped[e.id] \in answered
          /\ \A u \in Chosen' : u \in Chosen /\ tapped[u] # tapped[e.id]
          /\ \A i \in Queued : OfQueued(i) # tapped[e.id]
          /\ \A i \in Handed : OfHanded(i) # tapped[e.id]
      BY <2>2 DEF OneTapEach
    <3>. QED  BY <3>1, <3>2, <1>3, <1>4, <1>5 DEF OneTapEach
  <2>. QED  BY <2>1, <2>2
<1>7. PartsOfTaps'
  BY <1>1, <1>2 DEF PartsOfTaps
<1>. QED  BY <1>6, <1>7

(* The event that is handled leaves the queue; its parts reach a turn, or  *)
(* nothing does.                                                           *)
LEMMA TapsHanded ==
  ASSUME OneTapEach, PartsOfTaps, inbox \in Seq(UpdateEvents), inbox # << >>,
         given \in Seq(T!Updates), inbox' = Tail(inbox),
         given' \in {given, given \o Head(inbox).parts},
         UNCHANGED <<at, tapped, answered>>
  PROVE  OneTapEach' /\ PartsOfTaps'
<1> DEFINE e == inbox[1]
<1>n. PICK n \in Nat : n = Len(given)
  OBVIOUS
<1>1. /\ Head(inbox) = e /\ e \in UpdateEvents /\ 1 \in 1..Len(inbox)
      /\ Len(inbox) \in Nat /\ Len(inbox') = Len(inbox) - 1
      /\ \A i \in 1..Len(inbox') : inbox'[i] = inbox[i + 1] /\ i + 1 \in 1..Len(inbox) /\ i + 1 # 1
  OBVIOUS
<1>2. Chosen' = Chosen
  BY DEF Chosen
<1>3. /\ \A i \in Queued' : /\ i + 1 \in Queued /\ i + 1 # 1 /\ i \in Nat
                            /\ OfQueued(i)' = OfQueued(i + 1)
  BY <1>1 DEF Queued, OfQueued
<1>4. PartsOfTaps'
  BY <1>1 DEF PartsOfTaps
<1>5. e.parts \in Seq(T!Updates) /\ Len(e.parts) \in Nat /\ n \in Nat
  BY <1>1 DEF UpdateEvents
<1>6. /\ \A i \in Handed : OfHanded(i) = tapped[given[i]] /\ i \in 1..n /\ given[i] \in Taps
      /\ e.id \in Taps => 1 \in Queued /\ OfQueued(1) = tapped[e.id]
  BY <1>1, <1>n DEF Handed, OfHanded, Queued, OfQueued
<1> HIDE DEF e
<1>7. CASE given' = given
  <2>1. Handed' = Handed /\ \A i \in Handed : OfHanded(i)' = OfHanded(i)
    BY <1>7 DEF Handed, OfHanded
  <2>. QED  BY <1>2, <1>3, <1>4, <2>1 DEF OneTapEach
<1>8. CASE given' = given \o e.parts /\ e.id \notin Taps
  <2>1. \A k \in 1..Len(e.parts) : e.parts[k] \notin Taps
    BY <1>1, <1>8 DEF PartsOfTaps, e
  <2>2. /\ Len(given') = n + Len(e.parts)
        /\ \A i \in 1..n : given'[i] = given[i] /\ i \in 1..Len(given')
        /\ \A i \in 1..Len(given') : i \notin 1..n =>
              i - n \in 1..Len(e.parts) /\ given'[i] = e.parts[i - n]
    BY ONLY <1>8, <1>5, <1>n
  <2>3. Handed' = Handed
    BY <2>1, <2>2, <1>n DEF Handed
  <2>4. \A i \in Handed : OfHanded(i)' = OfHanded(i)
    BY <2>2, <1>6 DEF OfHanded
  <2>. QED  BY <1>2, <1>3, <1>4, <2>3, <2>4 DEF OneTapEach
<1>9. CASE given' = given \o e.parts /\ e.id \in Taps
  <2>1. e.parts = <<e.id>>
    BY <1>1, <1>9 DEF PartsOfTaps, e
  <2>2. /\ Len(given') = n + 1 /\ given'[n + 1] = e.id
        /\ \A i \in 1..n : given'[i] = given[i] /\ i \in 1..Len(given') /\ i # n + 1
        /\ 1..Len(given') = 1..n \cup {n + 1}
    BY <1>9, <1>5, <1>n, <2>1
  <2>3. Handed' = Handed \cup {n + 1} /\ n + 1 \notin Handed
    BY <2>2, <1>9, <1>6, <1>n DEF Handed
  <2>4. /\ \A i \in Handed : OfHanded(i)' = OfHanded(i)
        /\ OfHanded(n + 1)' = tapped[e.id]
    BY <2>2, <1>6 DEF OfHanded
  <2>5. /\ tapped[e.id] \in answered
        /\ \A u \in Chosen : tapped[u] # tapped[e.id]
        /\ \A i \in Queued : i # 1 => OfQueued(i) # tapped[e.id]
        /\ \A i \in Handed : OfHanded(i) # tapped[e.id]
    BY <1>6, <1>9 DEF OneTapEach
  <2>. QED  BY <1>2, <1>3, <1>4, <2>3, <2>4, <2>5 DEF OneTapEach
<1>. QED  BY <1>1, <1>7, <1>8, <1>9

(* A step that only moves an update, not to where its question is taken.   *)
UpdateMoved(u, k) ==
    /\ at' = [at EXCEPT ![u] = k] /\ k # "chosen"
    /\ at[u] # "held" \/ k = "held"
    /\ lost' \in 0..MaxLost /\ telegramDropped' \subseteq Photos
    /\ UNCHANGED <<album, timer, fired, inbox, processed, given, asks, shown,
                   late, pending, answered, tapped>>

(* It keeps the invariant.                                                 *)
LEMMA UpdateMoves ==
  ASSUME TelegramInv, NEW u \in T!Updates, NEW k \in Places, UpdateMoved(u, k)
  PROVE  TelegramInv'
<1>a. TelegramTypes /\ QuestionWaits /\ OneTapEach /\ PartsOfTaps /\ T!AlbumEnds
  BY DEF TelegramInv
<1>b. /\ at' = [at EXCEPT ![u] = k] /\ k # "chosen" /\ (at[u] # "held" \/ k = "held")
      /\ lost' \in 0..MaxLost /\ telegramDropped' \subseteq Photos
      /\ UNCHANGED <<album, timer, fired, inbox, processed, given, asks, shown,
                     late, pending, answered, tapped>>
  BY DEF UpdateMoved
<1>1. at \in [T!Updates -> Places]
  BY <1>a DEF TelegramTypes
<1>2. /\ at' \in [T!Updates -> Places] /\ at'[u] = k
      /\ \A v \in T!Updates \ {u} : at'[v] = at[v]
      /\ Chosen' \subseteq Chosen
  BY <1>b, <1>1, AtOf
<1>3. TelegramTypes'
  BY <1>b, <1>2, <1>a DEF TelegramTypes
<1>4. QuestionWaits'
  <2>1. \A v \in Taps : at'[v] # "held" => at[v] # "held"
    BY <1>b, <1>2 DEF T!Updates
  <2>. QED  BY <1>b, <2>1, <1>a DEF QuestionWaits
<1>5. OneTapEach'
  BY <1>b, <1>2, <1>a, TapsKept
<1>6. PartsOfTaps' /\ T!AlbumEnds'
  BY <1>b, <1>a DEF PartsOfTaps, T!AlbumEnds
<1>. QED  BY <1>3, <1>4, <1>5, <1>6 DEF TelegramInv

(* A step of a question, the window or the album that leaves the queue and *)
(* the updates as they are keeps each question's one tap.                  *)
LEMMA TapsRest ==
  ASSUME TelegramInv, UNCHANGED <<at, inbox, given, tapped, answered>>
  PROVE  OneTapEach' /\ PartsOfTaps'
<1>1. Chosen' \subseteq Chosen
  BY DEF Chosen
<1>2. OneTapEach'
  BY <1>1, TapsKept DEF TelegramInv
<1>3. PartsOfTaps'
  BY DEF TelegramInv, PartsOfTaps
<1>. QED  BY <1>2, <1>3

(* Nothing has been sent, asked or gathered where it starts.               *)
LEMMA TelegramInit == T!Init => TelegramInv
<1> SUFFICES ASSUME T!Init PROVE TelegramInv
  OBVIOUS
<1> USE TelegramAssumption
<1>1. /\ at = [u \in T!Updates |-> "held"] /\ lost = 0
      /\ album = None /\ timer = FALSE /\ fired = 0
      /\ inbox = << >> /\ processed = {} /\ given = << >> /\ telegramDropped = {}
      /\ asks = [q \in Questions |-> "none"] /\ shown = {} /\ late = {}
      /\ pending = None /\ answered = {} /\ tapped = [u \in Taps |-> None]
  BY DEF T!Init
<1>2. TelegramTypes
  <2>1. at \in [T!Updates -> Places] /\ lost \in 0..MaxLost /\ fired \in Nat
    BY <1>1 DEF Places
  <2>2. album \in Albums \cup {None} /\ processed \subseteq T!Updates
        /\ telegramDropped \subseteq Photos
    BY <1>1
  <2>3. /\ inbox \in Seq(UpdateEvents) /\ Len(inbox) <= QueueSize
        /\ given \in Seq(T!Updates)
    BY <1>1
  <2>4. /\ asks \in [Questions -> {"none", "sending", "asked", "failed", "refused"}]
        /\ shown \subseteq Questions /\ late \subseteq shown /\ answered \subseteq shown
        /\ pending \in Questions \cup {None}
        /\ tapped \in [Taps -> Questions \cup {None}]
    BY <1>1
  <2>5. timer \in BOOLEAN
    BY <1>1, Zenon
  <2>. QED  BY <2>1, <2>2, <2>3, <2>4, <2>5 DEF TelegramTypes
<1>3. QuestionWaits
  BY <1>1 DEF QuestionWaits, T!Updates
<1>4. Chosen = {} /\ Queued = {} /\ Handed = {}
  BY <1>1 DEF Chosen, Queued, Handed, T!Updates
<1>5. OneTapEach
  BY <1>4 DEF OneTapEach
<1>6. PartsOfTaps /\ T!AlbumEnds
  BY <1>1 DEF PartsOfTaps, T!AlbumEnds
<1>. QED  BY <1>2, <1>3, <1>5, <1>6 DEF TelegramInv

(* Every step of the webhook, the album, the queue and the questions keeps *)
(* a question with its one tap.                                            *)
LEMMA TelegramKept ==
  ASSUME TelegramInv, T!Next
  PROVE  TelegramInv'
<1> USE TelegramAssumption
<1>a. TelegramTypes /\ QuestionWaits /\ OneTapEach /\ PartsOfTaps /\ T!AlbumEnds
  BY DEF TelegramInv
<1>b. /\ at \in [T!Updates -> Places] /\ inbox \in Seq(UpdateEvents)
      /\ Len(inbox) <= QueueSize /\ given \in Seq(T!Updates)
      /\ lost \in 0..MaxLost /\ telegramDropped \subseteq Photos
      /\ album \in Albums \cup {None} /\ fired \in Nat
      /\ pending \in Questions \cup {None}
  BY <1>a DEF TelegramTypes
<1>p. {"arrived", "acked", "chosen"} \subseteq Places
  BY DEF Places
<1>c. Photos \subseteq T!Updates /\ Texts \subseteq T!Updates /\ Taps \subseteq T!Updates
  BY DEF T!Updates
<1>1. ASSUME NEW u \in T!Updates, T!Arrive(u) PROVE TelegramInv'
  <2>1. /\ at[u] = "held" /\ at' = [at EXCEPT ![u] = "arrived"]
        /\ UNCHANGED <<lost, album, timer, fired, inbox, processed, given, telegramDropped,
                       asks, shown, late, pending, answered>>
    BY <1>1 DEF T!Arrive, T!albums, T!events, T!questions
  <2>2. /\ at' \in [T!Updates -> Places] /\ at'[u] = "arrived"
        /\ \A v \in T!Updates \ {u} : at'[v] = at[v]
        /\ Chosen' \subseteq Chosen
    BY ONLY <2>1, <1>b, <1>p, AtOf
  <2>3. \/ u \in Taps /\ tapped[u] = None /\ \E q \in shown : tapped' = [tapped EXCEPT ![u] = q]
        \/ (u \in Taps => tapped[u] # None) /\ tapped' = tapped
    BY <1>1 DEF T!Arrive
  <2>4. /\ tapped' \in [Taps -> Questions \cup {None}]
        /\ \A v \in Taps : /\ tapped[v] # None => tapped'[v] = tapped[v]
                           /\ tapped'[v] # None => tapped[v] # None \/ tapped'[v] \in shown
                           /\ v = u => tapped'[v] # None
    BY <2>3, <1>a DEF TelegramTypes
  <2>5. TelegramTypes'
    BY <2>1, <2>2, <2>4, <1>a DEF TelegramTypes
  <2>6. QuestionWaits'
    BY <2>1, <2>2, <2>4, <1>a, <1>c DEF QuestionWaits
  <2>7. \A v \in Taps : tapped[v] \in answered => tapped'[v] = tapped[v]
    BY <2>4, <1>a DEF TelegramTypes
  <2>8. OneTapEach'
    BY <2>1, <2>2, <2>7, <1>a, TapsKept
  <2>9. PartsOfTaps' /\ T!AlbumEnds'
    BY <2>1, <1>a DEF PartsOfTaps, T!AlbumEnds
  <2>. QED  BY <2>5, <2>6, <2>8, <2>9 DEF TelegramInv
<1>2. ASSUME NEW u \in T!Updates, T!Say(u) \/ T!Choose(u) PROVE TelegramInv'
  <2> DEFINE e == [id |-> u, parts |-> <<u>>]
  <2>1. /\ \/ at[u] # "held" /\ T!Sink(u, e)
           \/ at' = [at EXCEPT ![u] = "acked"] /\ UNCHANGED inbox
        /\ UNCHANGED <<lost, album, timer, fired, processed, given, telegramDropped,
                       asks, shown, late, pending, answered, tapped>>
        /\ u \in Taps => u \in Chosen
    BY <1>2 DEF T!Say, T!Choose, T!albums, T!questions, Chosen
  <2>2. at[u] # "held"
    BY <1>2 DEF T!Say, T!Choose
  <2>3. CASE UNCHANGED inbox
    <3>1. PICK k \in {"acked", "failed"} : at' = [at EXCEPT ![u] = k]
      BY <2>1, <2>3, <1>b DEF T!Sink, T!Enqueued
    <3>2. UpdateMoved(u, k) /\ k \in Places
      BY <2>1, <2>2, <2>3, <3>1, <1>b DEF UpdateMoved, Places
    <3>. QED  BY <3>2, UpdateMoves
  <2>4. CASE /\ Len(inbox) < QueueSize /\ inbox' = Append(inbox, e)
             /\ at' = [at EXCEPT ![u] = "acked"]
    <3>1. e \in UpdateEvents /\ e.id = u /\ e.parts = <<u>>
      BY DEF UpdateEvents
    <3> HIDE DEF e
    <3>2. /\ at' \in [T!Updates -> Places] /\ at'[u] = "acked"
          /\ \A v \in T!Updates \ {u} : at'[v] = at[v]
          /\ Chosen' = Chosen \ {u}
      BY ONLY <2>4, <1>b, <1>p, AtOf
    <3>3. inbox' \in Seq(UpdateEvents) /\ Len(inbox') <= QueueSize
      BY <2>4, <3>1, <1>b
    <3>4. e.id \notin Taps => \A i \in 1..Len(e.parts) : e.parts[i] \notin Taps
      BY <3>1
    <3>5. OneTapEach' /\ PartsOfTaps'
      BY <2>1, <2>4, <3>1, <3>2, <3>4, <1>a, <1>b, TapsQueued
    <3>6. TelegramTypes'
      BY <2>1, <3>2, <3>3, <1>a DEF TelegramTypes
    <3>7. QuestionWaits'
      BY <2>1, <2>2, <3>2, <1>a, <1>c DEF QuestionWaits
    <3>8. T!AlbumEnds'
      BY <2>1, <1>a DEF T!AlbumEnds
    <3>. QED  BY <3>5, <3>6, <3>7, <3>8 DEF TelegramInv
  <2>. QED  BY <2>1, <2>3, <2>4 DEF T!Sink, T!Enqueued
<1>3. ASSUME NEW u \in T!Updates,
             T!Download(u) \/ T!Unreadable(u) \/ T!Acknowledge(u) \/ T!Retry(u)
      PROVE  TelegramInv'
  <2>1. /\ UNCHANGED <<album, timer, fired, inbox, processed, given, asks, shown, late,
                       pending, answered, tapped>>
        /\ lost' \in {lost, lost + 1} /\ (lost' # lost => lost < MaxLost)
    BY <1>3 DEF T!Download, T!Unreadable, T!Acknowledge, T!Retry, T!albums, T!events, T!questions
  <2>2. lost' \in 0..MaxLost
    BY <2>1, <1>b
  <2>3. telegramDropped' \subseteq Photos
    BY <1>3, <1>b DEF T!Download, T!Unreadable, T!Acknowledge, T!Retry
  <2>4. PICK k \in {"read", "acked", "done", "held"} :
           at' = [at EXCEPT ![u] = k] /\ at[u] # "held"
    BY <1>3 DEF T!Download, T!Unreadable, T!Acknowledge, T!Retry
  <2>5. UpdateMoved(u, k) /\ k \in Places
    BY <2>1, <2>2, <2>3, <2>4 DEF UpdateMoved, Places
  <2>. QED  BY <2>5, UpdateMoves
<1>4. ASSUME NEW u \in T!Updates, T!AddToAlbum(u) PROVE TelegramInv'
  <2>1. /\ u \in Photos /\ at[u] = "read" /\ album' = T!Gathered(u) /\ timer' = TRUE
        /\ at' = [at EXCEPT ![u] = "acked"]
        /\ UNCHANGED <<lost, fired, inbox, processed, given, telegramDropped,
                       asks, shown, late, pending, answered, tapped>>
    BY <1>4 DEF T!AddToAlbum, T!events, T!questions
  <2>2. album' \in Albums
    <3>1. CASE album = None
      BY <2>1, <3>1 DEF T!Gathered, Albums
    <3>2. CASE album # None
      <4> DEFINE parts == Append(album.parts, u)
      <4>1. album \in Albums /\ album.parts \in Seq(Photos)
        BY <3>2, <1>b DEF Albums
      <4>2. parts \in Seq(Photos) /\ album' = [album EXCEPT !.parts = parts]
        BY <2>1, <3>2, <4>1 DEF T!Gathered
      <4> HIDE DEF parts
      <4>. QED  BY <4>1, <4>2 DEF Albums
    <3>. QED  BY <3>1, <3>2
  <2>3. /\ at' \in [T!Updates -> Places] /\ at'[u] = "acked"
        /\ \A v \in T!Updates \ {u} : at'[v] = at[v]
        /\ Chosen' \subseteq Chosen
    BY ONLY <2>1, <1>b, <1>p, AtOf
  <2>4. timer' \in BOOLEAN
    BY <2>1
  <2>5. TelegramTypes'
    BY <2>1, <2>2, <2>3, <2>4, <1>a DEF TelegramTypes
  <2>6. QuestionWaits'
    BY <2>1, <2>3, <1>a, <1>c DEF QuestionWaits
  <2>7. OneTapEach'
    BY <2>1, <2>3, <1>a, TapsKept
  <2>8. PartsOfTaps' /\ T!AlbumEnds'
    BY <2>1, <1>a DEF PartsOfTaps, T!AlbumEnds
  <2>. QED  BY <2>5, <2>6, <2>7, <2>8 DEF TelegramInv
<1>5. ASSUME NEW u \in T!Updates, T!Resolve(u) PROVE TelegramInv'
  <2>1. /\ u \in Taps /\ at[u] = "arrived"
        /\ UNCHANGED <<lost, album, timer, fired, inbox, processed, given, telegramDropped,
                       asks, shown, late, tapped>>
    BY <1>5 DEF T!Resolve, T!albums, T!events
  <2>2. /\ pending = None => T!Waiting = None
        /\ T!Waiting = pending \/ (T!Waiting = None /\ pending \in late)
    BY DEF T!Waiting
  <2>3. /\ T!AlbumEnds' /\ PartsOfTaps'
    BY <2>1, <1>a DEF T!AlbumEnds, PartsOfTaps
  <2>4. CASE /\ pending' = T!Waiting /\ at' = [at EXCEPT ![u] = "acked"]
             /\ answered' = answered
    <3>1. /\ at' \in [T!Updates -> Places] /\ at'[u] = "acked"
          /\ \A v \in T!Updates \ {u} : at'[v] = at[v]
          /\ Chosen' \subseteq Chosen
      BY ONLY <2>4, <1>b, <1>p, AtOf
    <3>2. pending' \in Questions \cup {None}
      BY <2>2, <2>4, <1>b
    <3>3. TelegramTypes'
      BY <2>1, <2>4, <3>1, <3>2, <1>a DEF TelegramTypes
    <3>4. QuestionWaits'
      BY <2>1, <2>2, <2>4, <3>1, <1>a, <1>c DEF QuestionWaits
    <3>5. OneTapEach'
      BY <2>1, <2>4, <3>1, <1>a, TapsKept
    <3>. QED  BY <2>3, <3>3, <3>4, <3>5 DEF TelegramInv
  <2>5. CASE /\ T!Waiting = tapped[u] /\ pending' = None
             /\ at' = [at EXCEPT ![u] = "chosen"]
             /\ answered' = answered \cup {tapped[u]}
    <3>1. /\ at' \in [T!Updates -> Places] /\ at'[u] = "chosen"
          /\ \A v \in T!Updates \ {u} : at'[v] = at[v]
          /\ Chosen' \subseteq Chosen \cup {u}
      BY ONLY <2>5, <1>b, <1>p, AtOf
    <3>2. tapped[u] # None /\ tapped[u] \in shown /\ tapped[u] = pending
          /\ tapped[u] \notin answered /\ tapped[u] \in Questions
      BY <2>1, <2>2, <2>5, <1>a DEF QuestionWaits, TelegramTypes
    <3>3. TelegramTypes'
      BY <2>1, <2>5, <3>1, <3>2, <1>a DEF TelegramTypes
    <3>4. QuestionWaits'
      BY <2>1, <2>5, <3>1, <3>2, <1>a, <1>c DEF QuestionWaits
    <3>5. Queued' = Queued /\ Handed' = Handed
      BY <2>1 DEF Queued, Handed
    <3>6. /\ \A i \in Queued : OfQueued(i)' = OfQueued(i) /\ OfQueued(i) \in answered
          /\ \A i \in Handed : OfHanded(i)' = OfHanded(i) /\ OfHanded(i) \in answered
          /\ \A v \in Chosen : tapped[v] \in answered
      BY <2>1, <1>a DEF OfQueued, OfHanded, OneTapEach
    <3>7. OneTapEach'
      BY <2>1, <2>5, <3>1, <3>2, <3>5, <3>6, <1>a DEF OneTapEach
    <3>. QED  BY <2>3, <3>3, <3>4, <3>7 DEF TelegramInv
  <2>. QED  BY <1>5, <2>4, <2>5 DEF T!Resolve, T!Consumed
<1>6. CASE T!WindowEnds
  <2>1. /\ timer' = FALSE /\ fired' = fired + 1
        /\ UNCHANGED <<at, lost, album, inbox, processed, given, telegramDropped,
                       asks, shown, late, pending, answered, tapped>>
    BY <1>6 DEF T!WindowEnds, T!events, T!questions
  <2>2. timer' \in BOOLEAN /\ fired' \in Nat /\ fired' > 0
    <3>1. fired \in Nat /\ fired' = fired + 1
      BY <2>1, <1>b
    <3>2. timer' \in BOOLEAN
      BY <2>1
    <3>. QED  BY <3>1, <3>2
  <2>3. TelegramTypes'
    BY <2>1, <2>2, <1>a DEF TelegramTypes
  <2>4. QuestionWaits' /\ T!AlbumEnds'
    BY <2>1, <2>2, <1>a DEF QuestionWaits, T!AlbumEnds
  <2>5. OneTapEach' /\ PartsOfTaps'
    BY <2>1, TapsRest
  <2>. QED  BY <2>3, <2>4, <2>5 DEF TelegramInv
<1>7. CASE T!FlushAlbum
  <2>1. /\ fired > 0 /\ fired' = fired - 1 /\ album' = None
        /\ UNCHANGED <<at, lost, timer, processed, given,
                       asks, shown, late, pending, answered, tapped>>
    BY <1>7 DEF T!FlushAlbum, T!questions
  <2>2. fired' \in Nat
    BY <2>1, <1>b
  <2>3. telegramDropped' \subseteq Photos
    <3>1. CASE album = None
      BY <1>7, <3>1, <1>b DEF T!FlushAlbum
    <3>2. CASE album # None
      <4>1. album.parts \in Seq(Photos)
        BY <3>2, <1>b DEF Albums
      <4>2. \A i \in DOMAIN album.parts : album.parts[i] \in Photos
        BY <4>1
      <4>. QED  BY <1>7, <4>2, <1>b DEF T!FlushAlbum
    <3>. QED  BY <3>1, <3>2
  <2>4. /\ inbox' \in Seq(UpdateEvents) /\ Len(inbox') <= QueueSize
        /\ OneTapEach' /\ PartsOfTaps'
    <3>1. CASE UNCHANGED inbox
      BY <2>1, <3>1, <1>b, TapsRest
    <3>2. CASE album # None /\ Len(inbox) < QueueSize /\ inbox' = Append(inbox, album)
      <4>1. album.parts \in Seq(Photos) /\ album.id \in Photos /\ album \in Albums
        BY <3>2, <1>b DEF Albums
      <4>2. \A i \in 1..Len(album.parts) : album.parts[i] \in Photos
        BY <4>1
      <4>3. album.parts \in Seq(T!Updates)
        BY <4>1, <1>c
      <4>4. album \in UpdateEvents /\ album.id \notin Taps
        BY <4>1, <4>3, <1>c DEF UpdateEvents, Albums
      <4>5. \A i \in 1..Len(album.parts) : album.parts[i] \notin Taps
        BY <4>2
      <4>6. Chosen' \subseteq Chosen
        BY <2>1 DEF Chosen
      <4>7. OneTapEach' /\ PartsOfTaps'
        BY <2>1, <3>2, <4>4, <4>5, <4>6, <1>a, <1>b, TapsQueued
      <4>8. inbox' \in Seq(UpdateEvents) /\ Len(inbox') <= QueueSize
        BY <3>2, <4>4, <1>b
      <4>. QED  BY <4>7, <4>8
    <3>. QED  BY <1>7, <3>1, <3>2 DEF T!FlushAlbum, T!Enqueued
  <2>5. TelegramTypes'
    BY <2>1, <2>2, <2>3, <2>4, <1>a DEF TelegramTypes
  <2>6. QuestionWaits' /\ T!AlbumEnds'
    BY <2>1, <1>a DEF QuestionWaits, T!AlbumEnds
  <2>. QED  BY <2>4, <2>5, <2>6 DEF TelegramInv
<1>8. CASE T!Handle
  <2> DEFINE e == Head(inbox)
  <2>1. /\ inbox # << >> /\ inbox' = Tail(inbox)
        /\ processed' = processed \cup {e.id}
        /\ given' = IF e.id \in processed THEN given ELSE given \o e.parts
        /\ UNCHANGED <<at, lost, album, timer, fired, telegramDropped,
                       asks, shown, late, pending, answered, tapped>>
    BY <1>8 DEF T!Handle, T!albums, T!questions
  <2>2. e \in UpdateEvents /\ inbox' \in Seq(UpdateEvents) /\ Len(inbox') <= QueueSize
    BY <2>1, <1>b
  <2>3. given' \in {given, given \o Head(inbox).parts}
    BY <2>1
  <2>4. OneTapEach' /\ PartsOfTaps'
    BY <2>1, <2>3, <1>a, <1>b, TapsHanded
  <2> HIDE DEF e
  <2>5. e.id \in T!Updates /\ e.parts \in Seq(T!Updates)
    BY <2>2 DEF UpdateEvents
  <2>6. given' \in Seq(T!Updates) /\ processed' \subseteq T!Updates
    BY <2>1, <2>5, <1>b, <1>a DEF TelegramTypes
  <2>7. TelegramTypes'
    BY <2>1, <2>2, <2>6, <1>a DEF TelegramTypes
  <2>8. QuestionWaits' /\ T!AlbumEnds'
    BY <2>1, <1>a DEF QuestionWaits, T!AlbumEnds
  <2>. QED  BY <2>4, <2>7, <2>8 DEF TelegramInv
<1>9. ASSUME NEW q \in Questions, T!Ask(q) PROVE TelegramInv'
  <2>1. /\ asks[q] = "none"
        /\ UNCHANGED <<at, lost, album, timer, fired, inbox, processed, given, telegramDropped,
                       shown, late, answered, tapped>>
    BY <1>9 DEF T!Ask, T!albums, T!events
  <2>2. OneTapEach' /\ PartsOfTaps'
    BY <2>1, TapsRest
  <2>3. /\ pending = None => T!Waiting = None
        /\ T!Waiting = pending \/ (T!Waiting = None /\ pending \in late)
    BY DEF T!Waiting
  <2>4. q \notin shown /\ q \notin answered /\ q \notin late
    BY <2>1, <1>a DEF QuestionWaits, TelegramTypes
  <2>5. CASE T!Waiting = None /\ asks' = [asks EXCEPT ![q] = "sending"] /\ pending' = q
    <3>1. /\ asks' \in [Questions -> {"none", "sending", "asked", "failed", "refused"}]
          /\ asks'[q] = "sending" /\ \A r \in Questions \ {q} : asks'[r] = asks[r]
      BY <2>5, <1>a DEF TelegramTypes
    <3>2. TelegramTypes'
      BY <2>1, <2>5, <3>1, <1>a DEF TelegramTypes
    <3>3. QuestionWaits'
      BY <2>1, <2>3, <2>4, <2>5, <3>1, <1>a DEF QuestionWaits
    <3>4. T!AlbumEnds'
      BY <2>1, <1>a DEF T!AlbumEnds
    <3>. QED  BY <2>2, <3>2, <3>3, <3>4 DEF TelegramInv
  <2>6. CASE T!Waiting # None /\ asks' = [asks EXCEPT ![q] = "refused"] /\ pending' = T!Waiting
    <3>1. /\ asks' \in [Questions -> {"none", "sending", "asked", "failed", "refused"}]
          /\ asks'[q] = "refused" /\ \A r \in Questions \ {q} : asks'[r] = asks[r]
      BY <2>6, <1>a DEF TelegramTypes
    <3>2. pending' = pending
      BY <2>3, <2>6
    <3>3. TelegramTypes'
      BY <2>1, <3>1, <3>2, <1>a DEF TelegramTypes
    <3>4. QuestionWaits'
      <4>1. \A r \in Questions :
               /\ asks'[r] \in {"sending", "asked"} => r # q /\ asks'[r] = asks[r]
               /\ asks'[r] = "none" => r # q /\ asks[r] = "none"
               /\ asks[r] = "asked" => r # q /\ asks'[r] = "asked"
        BY <2>1, <3>1
      <4>2. pending # None => asks'[pending] # "none"
        BY <2>1, <3>1, <1>a, <1>b DEF QuestionWaits
      <4>. QED  BY <2>1, <3>2, <4>1, <4>2, <1>a DEF QuestionWaits, TelegramTypes
    <3>5. T!AlbumEnds'
      BY <2>1, <1>a DEF T!AlbumEnds
    <3>. QED  BY <2>2, <3>3, <3>4, <3>5 DEF TelegramInv
  <2>. QED  BY <1>9, <2>5, <2>6 DEF T!Ask
<1>10. ASSUME NEW q \in Questions, T!Show(q) PROVE TelegramInv'
  <2>1. /\ asks[q] = "sending" /\ shown' = shown \cup {q}
        /\ UNCHANGED <<at, lost, album, timer, fired, inbox, processed, given, telegramDropped,
                       asks, late, pending, answered, tapped>>
    BY <1>10 DEF T!Show, T!albums, T!events
  <2>2. OneTapEach' /\ PartsOfTaps'
    BY <2>1, TapsRest
  <2>3. TelegramTypes'
    BY <2>1, <1>a DEF TelegramTypes
  <2>4. QuestionWaits' /\ T!AlbumEnds'
    BY <2>1, <1>a DEF QuestionWaits, T!AlbumEnds
  <2>. QED  BY <2>2, <2>3, <2>4 DEF TelegramInv
<1>11. ASSUME NEW q \in Questions, T!Asked(q) PROVE TelegramInv'
  <2>1. /\ asks[q] = "sending"
        /\ UNCHANGED <<at, lost, album, timer, fired, inbox, processed, given, telegramDropped,
                       shown, late, answered, tapped>>
    BY <1>11 DEF T!Asked, T!albums, T!events
  <2>2. OneTapEach' /\ PartsOfTaps' /\ T!AlbumEnds'
    BY <2>1, TapsRest, <1>a DEF T!AlbumEnds
  <2>3. PICK k \in {"asked", "failed"} :
          /\ asks' = [asks EXCEPT ![q] = k]
          /\ k = "asked" => q \in shown /\ pending' = pending
          /\ k = "failed" => pending' = IF pending = q THEN None ELSE pending
    BY <1>11 DEF T!Asked, T!Withdrawn
  <2>4. /\ asks' \in [Questions -> {"none", "sending", "asked", "failed", "refused"}]
        /\ asks'[q] = k /\ \A r \in Questions \ {q} : asks'[r] = asks[r]
    BY <2>3, <1>a DEF TelegramTypes
  <2>5. pending' \in Questions \cup {None}
    BY <2>3, <1>b
  <2>6. TelegramTypes'
    BY <2>1, <2>4, <2>5, <1>a DEF TelegramTypes
  <2>7. QuestionWaits'
    BY <2>1, <2>3, <2>4, <1>a, <1>b DEF QuestionWaits
  <2>. QED  BY <2>2, <2>6, <2>7 DEF TelegramInv
<1>12. ASSUME NEW q \in Questions, T!Expire(q) PROVE TelegramInv'
  <2>1. /\ asks[q] = "asked" /\ late' = late \cup {q}
        /\ UNCHANGED <<at, lost, album, timer, fired, inbox, processed, given, telegramDropped,
                       asks, shown, pending, answered, tapped>>
    BY <1>12 DEF T!Expire, T!albums, T!events
  <2>2. OneTapEach' /\ PartsOfTaps'
    BY <2>1, TapsRest
  <2>3. TelegramTypes'
    BY <2>1, <1>a DEF TelegramTypes, QuestionWaits
  <2>4. QuestionWaits' /\ T!AlbumEnds'
    BY <2>1, <1>a DEF QuestionWaits, T!AlbumEnds
  <2>. QED  BY <2>2, <2>3, <2>4 DEF TelegramInv
<1>. QED
  BY <1>1, <1>2, <1>3, <1>4, <1>5, <1>6, <1>7, <1>8, <1>9, <1>10, <1>11, <1>12
  DEF T!Next

(* A step that leaves Telegram's variables alone keeps it.                 *)
LEMMA TelegramStays == TelegramInv /\ UNCHANGED telegramVars => TelegramInv'
<1> SUFFICES ASSUME TelegramInv, UNCHANGED telegramVars PROVE TelegramInv'
  OBVIOUS
<1>1. UNCHANGED <<at, lost, album, timer, fired, inbox, processed, given, telegramDropped,
                  asks, shown, late, pending, answered, tapped>>
  BY DEF telegramVars
<1>2. OneTapEach' /\ PartsOfTaps'
  BY <1>1, TapsRest
<1>. QED  BY <1>1, <1>2 DEF TelegramInv, TelegramTypes, QuestionWaits, T!AlbumEnds

(* The taps on a question that reached a turn are one at most.             *)
LEMMA OneAnswer == TelegramInv => T!AnsweredOnce
<1> SUFFICES ASSUME TelegramInv, NEW q \in Questions
             PROVE  Cardinality({i \in DOMAIN given : given[i] \in Taps /\ tapped[given[i]] = q}) <= 1
  BY DEF T!AnsweredOnce, T!Cardinality, Cardinality
<1> DEFINE answers == {i \in DOMAIN given : given[i] \in Taps /\ tapped[given[i]] = q}
<1>1. DOMAIN given = 1..Len(given)
  BY DEF TelegramInv, TelegramTypes
<1>2. \A i, j \in answers : i = j
  BY <1>1 DEF TelegramInv, OneTapEach, Handed, OfHanded
<1> HIDE DEF answers
<1>3. ASSUME answers = {} PROVE Cardinality(answers) <= 1
  <2>1. Cardinality(answers) = 0
    BY <1>3, FS_EmptySet
  <2>. QED  BY <2>1
<1>4. ASSUME NEW i \in answers PROVE Cardinality(answers) <= 1
  <2>1. answers = {i}
    BY <1>2, <1>4
  <2>. QED  BY <2>1, FS_Singleton
<1>. QED  BY <1>3, <1>4 DEF answers

(* The invariant has the types, and what is promised of questions and      *)
(* albums.                                                                 *)
LEMMA TelegramMeans ==
  TelegramInv => T!TypeOK /\ T!AnsweredOnce /\ T!QuestionKept /\ T!AlbumEnds
<1> SUFFICES ASSUME TelegramInv PROVE T!TypeOK /\ T!QuestionKept /\ T!AlbumEnds
  BY OneAnswer
<1>1. album = None \/ (album.id \in Photos /\ T!Parts(album) \subseteq Photos)
  <2> SUFFICES ASSUME album # None PROVE album.id \in Photos /\ T!Parts(album) \subseteq Photos
    OBVIOUS
  <2>1. album.id \in Photos /\ album.parts \in Seq(Photos)
    BY DEF TelegramInv, TelegramTypes, Albums
  <2>. QED  BY <2>1 DEF T!Parts
<1>2. T!Reached \subseteq T!Updates
  BY DEF TelegramInv, TelegramTypes, T!Reached
<1>3. T!TypeOK
  BY <1>1, <1>2 DEF TelegramInv, TelegramTypes, Places, T!TypeOK
<1>4. T!QuestionKept /\ T!AlbumEnds
  BY DEF TelegramInv, QuestionWaits, T!QuestionKept
<1>. QED  BY <1>3, <1>4

-----------------------------------------------------------------------------
(* Discord                                                                 *)

LineRows == [from : Users \cup {None}, says : {"text", "link", None},
             at : {"new", "arrived", "seen", "lost", "ignored", "taken", "noticed"}]
DmEvents == [owner : Members, dm : Users]
DmTurns == [owner : Members, dm : Users, at : {"working", "sending", "failed"},
            line : BOOLEAN, left : 0..Chunks]

DiscordTypes ==
    /\ linked \in [Members -> Users \cup {None}] /\ tokens \subseteq Members
    /\ links \in 0..MaxLinks /\ windows \in 0..MaxWindows
    /\ kinds \in [Users -> {"unseen", "dm"}] /\ denied \subseteq Users
    /\ lines \in [Lines -> LineRows]
    /\ \A l \in Lines : lines[l].at # "new" => lines[l].from \in Users
    /\ waiting \in Seq(DmEvents) /\ Len(waiting) <= RoomFor
    /\ turn \in DmTurns \cup {None}
    /\ strangers \subseteq Users

DiscordInv == DiscordTypes /\ D!OnlyItsOwner

(* Nobody is linked and nothing is written where it starts.                *)
LEMMA DiscordInit == D!Init => DiscordInv
<1> SUFFICES ASSUME D!Init PROVE DiscordInv
  OBVIOUS
<1> USE DiscordAssumption
<1>1. /\ linked \in [Members -> Users \cup {None}] /\ tokens \subseteq Members
      /\ links \in 0..MaxLinks /\ windows \in 0..MaxWindows
      /\ kinds \in [Users -> {"unseen", "dm"}] /\ denied \subseteq Users
      /\ turn \in DmTurns \cup {None} /\ strangers \subseteq Users
  BY DEF D!Init
<1>2. lines \in [Lines -> LineRows] /\ \A l \in Lines : lines[l].at = "new"
  BY DEF D!Init, LineRows
<1>3. waiting \in Seq(DmEvents) /\ Len(waiting) <= RoomFor
  <2>1. waiting = << >>
    BY DEF D!Init
  <2>. QED  BY <2>1
<1>4. D!OnlyItsOwner
  BY DEF D!Init, D!OnlyItsOwner
<1>. QED  BY <1>1, <1>2, <1>3, <1>4 DEF DiscordInv, DiscordTypes

(* A line that was written goes to another place and stays somebody's.     *)
LEMMA LineOf ==
  ASSUME DiscordTypes, NEW l \in Lines, lines[l].at # "new",
         NEW k \in {"seen", "lost", "ignored", "taken", "noticed"},
         lines' = [lines EXCEPT ![l].at = k]
  PROVE  /\ lines' \in [Lines -> LineRows]
         /\ \A m \in Lines : lines'[m].at # "new" => lines'[m].from \in Users
<1>b. lines \in [Lines -> LineRows]
  BY DEF DiscordTypes
<1>r. [lines[l] EXCEPT !.at = k] \in LineRows
  BY <1>b DEF LineRows
<1>1. lines' \in [Lines -> LineRows]
  BY ONLY <1>b, <1>r, lines' = [lines EXCEPT ![l].at = k]
<1>2. /\ lines'[l].from = lines[l].from
      /\ \A m \in Lines \ {l} : lines'[m] = lines[m]
  BY DEF DiscordTypes, LineRows
<1>. QED  BY <1>1, <1>2 DEF DiscordTypes

(* Every step of the directory, the intake and a turn keeps what a turn    *)
(* delivers with the account's own user.                                   *)
LEMMA DiscordKept ==
  ASSUME DiscordInv, D!Next
  PROVE  DiscordInv'
<1> USE DiscordAssumption
<1>a. DiscordTypes /\ D!OnlyItsOwner
  BY DEF DiscordInv
<1>t. turn # None =>
        /\ turn \in DmTurns /\ turn.owner \in Members /\ turn.dm \in Users
        /\ turn.line \in BOOLEAN /\ turn.left \in 0..Chunks
        /\ \A v \in {"working", "sending", "failed"} : [turn EXCEPT !.at = v] \in DmTurns
        /\ [turn EXCEPT !.line = TRUE] \in DmTurns
        /\ \A v \in {"working", "sending", "failed"}, n \in 0..Chunks :
              [turn EXCEPT !.at = v, !.left = n] \in DmTurns
        /\ \A n \in 0..Chunks : [turn EXCEPT !.left = n] \in DmTurns
  BY <1>a DEF DiscordTypes, DmTurns
<1>1. ASSUME NEW a \in Members, D!Issue(a) PROVE DiscordInv'
  BY <1>1, <1>a DEF D!Issue, D!intake, D!output, DiscordInv, DiscordTypes, D!OnlyItsOwner
<1>2. ASSUME NEW a \in Members, D!Unlink(a) PROVE DiscordInv'
  BY <1>2, <1>a DEF D!Unlink, D!intake, D!output, DiscordInv, DiscordTypes, D!OnlyItsOwner
<1>3. ASSUME NEW l \in Lines, D!Write(l) PROVE DiscordInv'
  <2>1. PICK u \in Users, says \in {"text", "link"} :
           lines' = [lines EXCEPT ![l] = [from |-> u, says |-> says, at |-> "arrived"]]
    BY <1>3 DEF D!Write
  <2>2. UNCHANGED <<linked, tokens, links, kinds, denied, windows, waiting, turn, began, strangers>>
    BY <1>3 DEF D!Write, D!directory, D!intake, D!output
  <2>3. lines' \in [Lines -> LineRows]
    BY <2>1, <1>a DEF DiscordTypes, LineRows
  <2>4. \A m \in Lines : lines'[m].at # "new" => lines'[m].from \in Users
    BY <2>1, <1>a DEF DiscordTypes
  <2>. QED  BY <2>2, <2>3, <2>4, <1>a DEF DiscordInv, DiscordTypes, D!OnlyItsOwner
<1>4. ASSUME NEW l \in Lines, D!LookUp(l) PROVE DiscordInv'
  <2>1. /\ lines[l].at = "arrived"
        /\ UNCHANGED <<linked, tokens, links, denied, windows, waiting, turn, began, strangers>>
    BY <1>4 DEF D!LookUp, D!directory, D!output
  <2>2. lines[l].from \in Users
    BY <2>1, <1>a DEF DiscordTypes
  <2>3. kinds' \in [Users -> {"unseen", "dm"}]
    BY <1>4, <2>2, <1>a DEF D!LookUp, DiscordTypes
  <2>4. PICK k \in {"seen", "lost", "ignored"} : lines' = [lines EXCEPT ![l].at = k]
    BY <1>4 DEF D!LookUp
  <2>5. /\ lines' \in [Lines -> LineRows]
        /\ \A m \in Lines : lines'[m].at # "new" => lines'[m].from \in Users
    BY <2>1, <2>4, <1>a, LineOf
  <2>. QED  BY <2>1, <2>3, <2>5, <1>a DEF DiscordInv, DiscordTypes, D!OnlyItsOwner
<1>5. ASSUME NEW l \in Lines, D!Accept(l) PROVE DiscordInv'
  <2>1. /\ lines[l].at = "seen"
        /\ UNCHANGED <<linked, tokens, links, kinds, denied, windows, turn, began, strangers>>
    BY <1>5 DEF D!Accept, D!directory, D!intake, D!output
  <2>2. lines[l].from \in Users
    BY <2>1, <1>a DEF DiscordTypes
  <2>3. PICK a \in Members :
           IF Len(waiting) < RoomFor
           THEN /\ waiting' = Append(waiting, [owner |-> a, dm |-> lines[l].from])
                /\ lines' = [lines EXCEPT ![l].at = "taken"]
           ELSE lines' = [lines EXCEPT ![l].at = "lost"] /\ UNCHANGED waiting
    BY <1>5 DEF D!Accept, D!Done, D!AccountOf
  <2>4. PICK k \in {"taken", "lost"} : lines' = [lines EXCEPT ![l].at = k]
    BY <2>3
  <2>5. /\ lines' \in [Lines -> LineRows]
        /\ \A m \in Lines : lines'[m].at # "new" => lines'[m].from \in Users
    BY <2>1, <2>4, <1>a, LineOf
  <2>6. waiting' \in Seq(DmEvents) /\ Len(waiting') <= RoomFor
    <3> DEFINE e == [owner |-> a, dm |-> lines[l].from]
    <3>1. e \in DmEvents
      BY <2>2 DEF DmEvents
    <3>2. waiting \in Seq(DmEvents) /\ Len(waiting) <= RoomFor
      BY <1>a DEF DiscordTypes
    <3>3. waiting' = waiting \/ (Len(waiting) < RoomFor /\ waiting' = Append(waiting, e))
      BY <2>3
    <3> HIDE DEF e
    <3>. QED  BY <3>1, <3>2, <3>3
  <2>. QED  BY <2>1, <2>5, <2>6, <1>a DEF DiscordInv, DiscordTypes, D!OnlyItsOwner
<1>6. ASSUME NEW l \in Lines, D!AlreadyLinked(l) PROVE DiscordInv'
  <2>1. /\ lines[l].at = "seen" /\ lines' = [lines EXCEPT ![l].at = "noticed"]
        /\ UNCHANGED <<linked, tokens, links, kinds, denied, windows, waiting, turn, began, strangers>>
    BY <1>6 DEF D!AlreadyLinked, D!Done, D!directory, D!intake, D!output
  <2>2. /\ lines' \in [Lines -> LineRows]
        /\ \A m \in Lines : lines'[m].at # "new" => lines'[m].from \in Users
    BY <2>1, <1>a, LineOf
  <2>. QED  BY <2>1, <2>2, <1>a DEF DiscordInv, DiscordTypes, D!OnlyItsOwner
<1>7. ASSUME NEW l \in Lines, D!Redeem(l) PROVE DiscordInv'
  <2>1. /\ lines[l].at = "seen" /\ lines' = [lines EXCEPT ![l].at = "noticed"]
        /\ UNCHANGED <<links, kinds, denied, windows, waiting, turn, began, strangers>>
    BY <1>7 DEF D!Redeem, D!Done, D!intake, D!output
  <2>2. lines[l].from \in Users
    BY <2>1, <1>a DEF DiscordTypes
  <2>3. linked' \in [Members -> Users \cup {None}] /\ tokens' \subseteq Members
    BY <1>7, <2>2, <1>a DEF D!Redeem, DiscordTypes
  <2>4. /\ lines' \in [Lines -> LineRows]
        /\ \A m \in Lines : lines'[m].at # "new" => lines'[m].from \in Users
    BY <2>1, <1>a, LineOf
  <2>. QED  BY <2>1, <2>3, <2>4, <1>a DEF DiscordInv, DiscordTypes, D!OnlyItsOwner
<1>8. ASSUME NEW l \in Lines, D!Deny(l) PROVE DiscordInv'
  <2>1. /\ lines[l].at = "seen"
        /\ UNCHANGED <<linked, tokens, links, kinds, windows, waiting, turn, began, strangers>>
    BY <1>8 DEF D!Deny, D!directory, D!output
  <2>2. lines[l].from \in Users
    BY <2>1, <1>a DEF DiscordTypes
  <2>3. denied' \subseteq Users
    BY <1>8, <2>2, <1>a DEF D!Deny, DiscordTypes
  <2>4. PICK k \in {"ignored", "noticed"} : lines' = [lines EXCEPT ![l].at = k]
    BY <1>8 DEF D!Deny, D!Done
  <2>5. /\ lines' \in [Lines -> LineRows]
        /\ \A m \in Lines : lines'[m].at # "new" => lines'[m].from \in Users
    BY <2>1, <2>4, <1>a, LineOf
  <2>. QED  BY <2>1, <2>3, <2>5, <1>a DEF DiscordInv, DiscordTypes, D!OnlyItsOwner
<1>9. ASSUME NEW u \in Users, D!WindowEnds(u) PROVE DiscordInv'
  BY <1>9, <1>a DEF D!WindowEnds, D!directory, D!output, DiscordInv, DiscordTypes, D!OnlyItsOwner
<1>10. CASE D!Start
  <2> DEFINE e == Head(waiting)
  <2>1. /\ waiting # << >> /\ waiting' = Tail(waiting)
        /\ turn' = [owner |-> e.owner, dm |-> e.dm, at |-> "working", line |-> FALSE, left |-> 0]
        /\ UNCHANGED <<linked, tokens, links, kinds, denied, windows, lines, began, strangers>>
    BY <1>10 DEF D!Start, D!directory, D!intake, D!output
  <2>2. waiting \in Seq(DmEvents) /\ Len(waiting) <= RoomFor
    BY <1>a DEF DiscordTypes
  <2>3. e \in DmEvents /\ waiting' \in Seq(DmEvents) /\ Len(waiting') <= RoomFor
    BY <2>1, <2>2
  <2> HIDE DEF e
  <2>4. turn' \in DmTurns
    BY <2>1, <2>3 DEF DmTurns, DmEvents
  <2>. QED  BY <2>1, <2>3, <2>4, <1>a DEF DiscordInv, DiscordTypes, D!OnlyItsOwner
<1>11. CASE D!Progress
  <2>1. /\ turn # None
        /\ UNCHANGED <<linked, tokens, links, kinds, denied, windows, lines, waiting, strangers>>
    BY <1>11 DEF D!Progress, D!directory, D!intake
  <2>2. turn' \in DmTurns
    BY <1>11, <2>1, <1>t DEF D!Progress
  <2>3. D!OnlyItsOwner'
    BY <1>11, <1>a DEF D!Progress, D!Begun, D!ToItsDm, D!OnlyItsOwner
  <2>. QED  BY <2>1, <2>2, <2>3, <1>a DEF DiscordInv, DiscordTypes
<1>12. CASE D!Reply
  <2>1. /\ turn # None
        /\ UNCHANGED <<linked, tokens, links, kinds, denied, windows, lines, waiting, strangers>>
    BY <1>12 DEF D!Reply, D!directory, D!intake
  <2>2. turn' \in DmTurns
    <3>1. Chunks \in 0..Chunks
      OBVIOUS
    <3>. QED  BY <1>12, <2>1, <3>1, <1>t DEF D!Reply
  <2>3. D!OnlyItsOwner'
    BY <1>12, <1>a DEF D!Reply, D!Begun, D!ToItsDm, D!OnlyItsOwner
  <2>. QED  BY <2>1, <2>2, <2>3, <1>a DEF DiscordInv, DiscordTypes
<1>13. CASE D!SendChunk
  <2> DEFINE n == turn.left - 1
  <2>1. /\ turn # None /\ turn.left > 0
        /\ UNCHANGED <<linked, tokens, links, kinds, denied, windows, lines, waiting, began>>
    BY <1>13 DEF D!SendChunk, D!directory, D!intake
  <2>2. /\ n \in 0..Chunks
        /\ DOMAIN turn = {"owner", "dm", "at", "line", "left"}
    <3>1. turn.left \in 0..Chunks /\ turn \in DmTurns
      BY <2>1, <1>t
    <3>2. n \in 0..Chunks
      BY <2>1, <3>1
    <3>. QED  BY <3>1, <3>2 DEF DmTurns
  <2>3. turn' = [turn EXCEPT !.left = n] \/ turn' = [turn EXCEPT !.at = "failed"]
    BY <1>13, <2>2 DEF D!SendChunk
  <2> HIDE DEF n
  <2>4. turn' \in DmTurns
    BY <2>1, <2>2, <2>3, <1>t
  <2>5. strangers' \subseteq Users
    BY <1>13, <2>1, <1>t, <1>a DEF D!SendChunk, DiscordTypes
  <2>. QED  BY <2>1, <2>4, <2>5, <1>a DEF DiscordInv, DiscordTypes, D!OnlyItsOwner
<1>14. CASE D!Finish
  <2>1. /\ turn' = None
        /\ UNCHANGED <<linked, tokens, links, kinds, denied, windows, lines, waiting, strangers>>
    BY <1>14 DEF D!Finish, D!directory, D!intake
  <2>2. D!OnlyItsOwner'
    BY <1>14, <1>a DEF D!Finish, D!Begun, D!ToItsDm, D!OnlyItsOwner
  <2>. QED  BY <2>1, <2>2, <1>a DEF DiscordInv, DiscordTypes
<1>. QED
  BY <1>1, <1>2, <1>3, <1>4, <1>5, <1>6, <1>7, <1>8, <1>9, <1>10, <1>11, <1>12,
     <1>13, <1>14
  DEF D!Next

(* A step that leaves Discord's variables alone keeps it.                  *)
LEMMA DiscordStays == DiscordInv /\ UNCHANGED discordVars => DiscordInv'
  BY DEF discordVars, DiscordInv, DiscordTypes, D!OnlyItsOwner

(* The invariant has the types, and what is promised of direct messages.   *)
LEMMA DiscordMeans == DiscordInv => D!TypeOK /\ D!OnlyItsOwner /\ D!NobodyIsShutOut
  BY DEF DiscordInv, DiscordTypes, D!TypeOK, D!NobodyIsShutOut, DmTurns

-----------------------------------------------------------------------------
(* Menus                                                                   *)

MenuRows == [message : Nat, kind : U!Kinds, fresh : BOOLEAN]
PressPlaces == U!Kinds \cup {"new", "acting", "failing", "answered"}
PressRows == [at : PressPlaces, menu : Nat, was : MenuRows \cup {None}]

MenuTypes ==
    /\ drawn \in 0..MaxMenus /\ changes \in 0..MaxChanges
    /\ opened \in Nat /\ opened <= drawn
    /\ opening \in BOOLEAN /\ able \in BOOLEAN
    /\ approval \in {"normal", "strict", "auto"}
    /\ menus \in [DOMAIN menus -> MenuRows] /\ DOMAIN menus \subseteq 1..drawn
    /\ redraws \in [1..drawn -> Nat]
    /\ presses \in [Presses -> PressRows]

(* A tap that is not answered holds the menu it has taken.                 *)
Holding(p) == presses[p].at \notin {"new", "answered"}

(* It holds it alone: the menu is out of the registry, has not been        *)
(* redrawn, and no other tap has it.                                       *)
HeldAlone ==
    /\ \A p \in Presses :
          /\ presses[p].at = "new" => presses[p].was = None
          /\ Holding(p) =>
                /\ presses[p].was \in MenuRows
                /\ presses[p].menu \in (1..drawn) \ DOMAIN menus
                /\ redraws[presses[p].menu] = 0
    /\ \A p, q \in Presses :
          Holding(p) /\ Holding(q) /\ presses[p].menu = presses[q].menu => p = q

RedrawnOnce ==
    /\ \A i \in DOMAIN redraws : redraws[i] <= 1
    /\ \A i \in DOMAIN menus : redraws[i] = 0

MenusInv == MenuTypes /\ HeldAlone /\ RedrawnOnce /\ U!AutoWasConfirmed

(* Only the menu that warns of it offers the auto mode.                    *)
LEMMA AutoIsOffered ==
  ASSUME NEW sort, "auto" \in U!Sets(sort)
  PROVE  sort = "confirm-auto"
  BY DEF U!Sets

(* A press is set where it is.                                             *)
LEMMA PressOf ==
  ASSUME MenuTypes, NEW p \in Presses, NEW k \in PressPlaces,
         presses' = [presses EXCEPT ![p].at = k]
  PROVE  /\ presses' \in [Presses -> PressRows]
         /\ presses'[p].at = k /\ presses'[p].menu = presses[p].menu
         /\ presses'[p].was = presses[p].was
         /\ \A q \in Presses \ {p} : presses'[q] = presses[q]
  BY DEF MenuTypes, PressRows

(* Nothing is drawn where it starts.                                       *)
LEMMA MenusInit == U!Init => MenusInv
<1> SUFFICES ASSUME U!Init PROVE MenusInv
  OBVIOUS
<1> USE MenusAssumption
<1>1. /\ menus = << >> /\ drawn = 0 /\ opened = 0 /\ opening = FALSE
      /\ redraws = << >> /\ able = TRUE /\ approval = "normal" /\ changes = 0
      /\ presses = [p \in Presses |-> [at |-> "new", menu |-> 0, was |-> None]]
  BY DEF U!Init
<1>2. /\ DOMAIN menus = {} /\ menus \in [{} -> MenuRows]
      /\ redraws \in [1..0 -> Nat] /\ DOMAIN redraws = {}
  BY <1>1
<1>3. presses \in [Presses -> PressRows] /\ \A p \in Presses : presses[p].at = "new" /\ presses[p].was = None
  BY <1>1 DEF PressRows, PressPlaces
<1>4. MenuTypes
  <2>1. DOMAIN menus \subseteq 1..drawn /\ redraws \in [1..drawn -> Nat]
    BY <1>1, <1>2
  <2>2. menus \in [DOMAIN menus -> MenuRows]
    BY <1>2
  <2>3. /\ drawn \in 0..MaxMenus /\ changes \in 0..MaxChanges
        /\ opened \in Nat /\ opened <= drawn
        /\ approval \in {"normal", "strict", "auto"}
    <3>1. drawn = 0 /\ opened = 0 /\ approval = "normal" /\ changes = 0
      BY <1>1
    <3>2. 0 \in 0..MaxMenus /\ 0 \in 0..MaxChanges
      OBVIOUS
    <3>. QED  BY <3>1, <3>2
  <2>4. opening \in BOOLEAN /\ able \in BOOLEAN
    BY <1>1, Zenon
  <2>. QED  BY <1>3, <2>1, <2>2, <2>3, <2>4 DEF MenuTypes
<1>5. HeldAlone
  BY <1>3 DEF HeldAlone, Holding
<1>6. RedrawnOnce /\ U!AutoWasConfirmed
  BY <1>1, <1>2 DEF RedrawnOnce, U!AutoWasConfirmed
<1>. QED  BY <1>4, <1>5, <1>6 DEF MenusInv

(* A step that only moves a press, to a place where it holds its menu if   *)
(* it did, or that changes a setting.                                      *)
PressMoved(p) ==
    /\ presses' \in [Presses -> PressRows]
    /\ presses'[p].at = "answered" \/ (Holding(p) /\ presses'[p].at # "new")
    /\ presses'[p].menu = presses[p].menu /\ presses'[p].was = presses[p].was
    /\ \A q \in Presses \ {p} : presses'[q] = presses[q]
    /\ UNCHANGED <<menus, drawn, opened, opening, redraws, able, changes>>
    /\ approval' \in {"normal", "strict", "auto"}
    /\ approval' = "auto" /\ approval # "auto" =>
          presses[p].was # None /\ presses[p].was.kind = "confirm-auto"

(* It keeps the invariant.                                                 *)
LEMMA PressMoves ==
  ASSUME MenusInv, NEW p \in Presses, PressMoved(p)
  PROVE  MenusInv'
<1> USE DEF PressMoved
<1>a. MenuTypes /\ HeldAlone /\ RedrawnOnce /\ U!AutoWasConfirmed
  BY DEF MenusInv
<1>2. MenuTypes'
  BY <1>a DEF MenuTypes
<1>3. /\ Holding(p)' => Holding(p)
      /\ \A q \in Presses \ {p} : Holding(q)' = Holding(q)
  BY DEF Holding
<1>4. presses'[p].at # "new"
  OBVIOUS
<1>5. HeldAlone'
  BY <1>3, <1>4, <1>a DEF HeldAlone
<1>6. RedrawnOnce'
  BY <1>a DEF RedrawnOnce
<1>7. U!AutoWasConfirmed'
  <2>1. \A q \in Presses : presses'[q].was = presses[q].was
    OBVIOUS
  <2>. QED  BY <2>1, <1>a DEF U!AutoWasConfirmed
<1>. QED  BY <1>2, <1>5, <1>6, <1>7 DEF MenusInv

(* Every step of the menus keeps a drawn menu with the one tap that has it *)
(* and the auto mode with the menu that warned of it.                      *)
LEMMA MenusKept ==
  ASSUME MenusInv, U!Next
  PROVE  MenusInv'
<1> USE MenusAssumption
<1>a. MenuTypes /\ HeldAlone /\ RedrawnOnce /\ U!AutoWasConfirmed
  BY DEF MenusInv
<1>b. /\ drawn \in Nat /\ opened \in Nat
      /\ DOMAIN redraws = 1..drawn /\ \A i \in 1..drawn : redraws[i] \in 0..1
  BY <1>a DEF MenuTypes, RedrawnOnce
<1>1. CASE U!OpenMenu
  BY <1>1, <1>a DEF U!OpenMenu, MenusInv, MenuTypes, HeldAlone, Holding, RedrawnOnce, U!AutoWasConfirmed
<1>2. CASE U!DrawMenu
  <2>1. /\ opening' = FALSE /\ UNCHANGED <<presses, able, approval, changes>>
    BY <1>2 DEF U!DrawMenu
  <2>2. CASE UNCHANGED <<menus, drawn, opened, redraws>>
    BY <2>1, <2>2, <1>a DEF MenusInv, MenuTypes, HeldAlone, Holding, RedrawnOnce, U!AutoWasConfirmed
  <2>3. ASSUME NEW sort \in {"menu", "settings"}, U!Show(sort, opened + 1),
               opened' = opened + 1,
               redraws' = [i \in 1..drawn + 1 |-> IF i <= drawn THEN redraws[i] ELSE 0]
        PROVE  MenusInv'
    <3>1. /\ drawn < MaxMenus /\ drawn' = drawn + 1
          /\ menus' = [i \in {drawn + 1} |->
                          [message |-> opened + 1, kind |-> sort, fresh |-> TRUE]]
      BY <2>3 DEF U!Show
    <3>2. /\ DOMAIN menus' = {drawn + 1} /\ menus' \in [{drawn + 1} -> MenuRows]
      BY <3>1, <1>b DEF MenuRows, U!Kinds
    <3>3. /\ redraws' \in [1..drawn' -> 0..1] /\ redraws'[drawn + 1] = 0
          /\ \A i \in 1..drawn : redraws'[i] = redraws[i] /\ i # drawn + 1 /\ i \in 1..drawn'
      BY <2>3, <3>1, <1>b
    <3>4. MenuTypes'
      <4>1. drawn' \in 0..MaxMenus /\ opened' \in Nat /\ opened' <= drawn'
        BY <2>3, <3>1, <1>a DEF MenuTypes
      <4>2. DOMAIN menus' \subseteq 1..drawn'
        BY <3>1, <3>2, <1>b
      <4>3. redraws' \in [1..drawn' -> Nat]
        BY <3>3
      <4>. QED  BY <2>1, <3>2, <4>1, <4>2, <4>3, <1>a DEF MenuTypes
    <3>5. HeldAlone'
      BY <2>1, <3>2, <3>3, <1>a DEF HeldAlone, Holding
    <3>6. RedrawnOnce'
      BY <3>2, <3>3 DEF RedrawnOnce
    <3>7. U!AutoWasConfirmed'
      BY <2>1, <1>a DEF U!AutoWasConfirmed
    <3>. QED  BY <3>4, <3>5, <3>6, <3>7 DEF MenusInv
  <2>. QED  BY <1>2, <2>2, <2>3 DEF U!DrawMenu
<1>3. ASSUME NEW i \in 1..MaxMenus, U!Expire(i) PROVE MenusInv'
  <2>1. /\ i \in DOMAIN menus /\ menus' = [menus EXCEPT ![i].fresh = FALSE]
        /\ UNCHANGED <<drawn, opened, opening, presses, redraws, able, approval, changes>>
    BY <1>3 DEF U!Expire
  <2>2. DOMAIN menus' = DOMAIN menus /\ menus' \in [DOMAIN menus -> MenuRows]
    BY <2>1, <1>a DEF MenuTypes, MenuRows
  <2>3. MenuTypes'
    BY <2>1, <2>2, <1>a DEF MenuTypes
  <2>4. HeldAlone' /\ RedrawnOnce' /\ U!AutoWasConfirmed'
    BY <2>1, <2>2, <1>a DEF HeldAlone, Holding, RedrawnOnce, U!AutoWasConfirmed
  <2>. QED  BY <2>3, <2>4 DEF MenusInv
<1>4. ASSUME NEW p \in Presses, NEW i \in 1..MaxMenus, U!Press(p, i) PROVE MenusInv'
  <2> DEFINE k == IF menus[i].fresh THEN "acting" ELSE "answered"
             row == [at |-> k, menu |-> i, was |-> menus[i]]
  <2>1. /\ presses[p].at = "new" /\ i \in DOMAIN menus
        /\ menus' = [j \in DOMAIN menus \ {i} |-> menus[j]]
        /\ presses' = [presses EXCEPT ![p] = row]
        /\ UNCHANGED <<drawn, opened, opening, redraws, able, approval, changes>>
    BY <1>4 DEF U!Press, U!Taken, U!Without
  <2>2. menus[i] \in MenuRows /\ k \in {"acting", "answered"} /\ k \in PressPlaces
    BY <2>1, <1>a DEF MenuTypes, PressPlaces
  <2>3. row \in PressRows /\ row.at = k /\ row.menu = i /\ row.was = menus[i]
    BY <2>2 DEF PressRows
  <2> HIDE DEF k, row
  <2>4. /\ presses' \in [Presses -> PressRows] /\ presses'[p].at = k
        /\ presses'[p].menu = i /\ presses'[p].was = menus[i]
        /\ \A q \in Presses \ {p} : presses'[q] = presses[q]
    BY <2>1, <2>3, <1>a DEF MenuTypes
  <2>5. /\ DOMAIN menus' = DOMAIN menus \ {i} /\ menus' \in [DOMAIN menus' -> MenuRows]
    BY <2>1, <1>a DEF MenuTypes
  <2>6. MenuTypes'
    BY <2>1, <2>4, <2>5, <1>a DEF MenuTypes
  <2>7. HeldAlone'
    <3>1. redraws[i] = 0 /\ i \in 1..drawn
      BY <2>1, <1>a DEF RedrawnOnce, MenuTypes
    <3>2. \A q \in Presses \ {p} : Holding(q)' = Holding(q) /\ (Holding(q) => presses[q].menu # i)
      BY <2>1, <2>4, <1>a DEF Holding, HeldAlone
    <3>3. presses'[p].at # "new" /\ presses'[p].was \in MenuRows
          /\ presses'[p].menu \in (1..drawn') \ DOMAIN menus' /\ redraws'[presses'[p].menu] = 0
      BY <2>1, <2>2, <2>4, <2>5, <3>1
    <3>4. \A q \in Presses :
             /\ presses'[q].at = "new" => presses'[q].was = None
             /\ Holding(q)' =>
                /\ presses'[q].was \in MenuRows
                /\ presses'[q].menu \in (1..drawn') \ DOMAIN menus'
                /\ redraws'[presses'[q].menu] = 0
      BY <2>1, <2>4, <2>5, <3>2, <3>3, <1>a DEF HeldAlone
    <3>5. \A q, r \in Presses :
             Holding(q)' /\ Holding(r)' /\ presses'[q].menu = presses'[r].menu => q = r
      BY <2>4, <3>2, <1>a DEF HeldAlone
    <3>. QED  BY <3>4, <3>5 DEF HeldAlone
  <2>8. RedrawnOnce'
    BY <2>1, <2>5, <1>a DEF RedrawnOnce
  <2>9. U!AutoWasConfirmed'
    <3>1. \A q \in Presses : presses[q].was # None => q # p
      BY <2>1, <1>a DEF HeldAlone
    <3>. QED  BY <2>1, <2>4, <3>1, <1>a DEF U!AutoWasConfirmed
  <2>. QED  BY <2>6, <2>7, <2>8, <2>9 DEF MenusInv
<1>5. ASSUME NEW p \in Presses, NEW sort \in U!Kinds, U!Open(p, sort) PROVE MenusInv'
  <2>1. /\ presses[p].at = "acting" /\ presses' = [presses EXCEPT ![p].at = sort]
        /\ UNCHANGED <<menus, drawn, opened, opening, redraws, able, approval, changes>>
    BY <1>5 DEF U!Open, U!registry
  <2>2. Holding(p) /\ sort \in PressPlaces /\ sort # "new"
    BY <2>1 DEF Holding, PressPlaces, U!Kinds
  <2>3. approval' \in {"normal", "strict", "auto"}
    BY <2>1, <1>a DEF MenuTypes
  <2>m. /\ presses' \in [Presses -> PressRows]
        /\ presses'[p].at = sort /\ presses'[p].menu = presses[p].menu
        /\ presses'[p].was = presses[p].was
        /\ \A q \in Presses \ {p} : presses'[q] = presses[q]
    BY <2>1, <2>2, <1>a, PressOf
  <2>n. PressMoved(p)
    BY <2>1, <2>2, <2>3, <2>m DEF PressMoved
  <2>. QED  BY <2>n, PressMoves
<1>6. ASSUME NEW p \in Presses, U!PressNothing(p) PROVE MenusInv'
  <2>1. /\ presses' = [presses EXCEPT ![p].at = "answered"]
        /\ UNCHANGED <<menus, drawn, opened, opening, redraws, able, approval, changes>>
    BY <1>6 DEF U!PressNothing, U!registry
  <2>2. "answered" \in PressPlaces /\ approval' \in {"normal", "strict", "auto"}
    BY <2>1, <1>a DEF MenuTypes, PressPlaces
  <2>m. /\ presses' \in [Presses -> PressRows]
        /\ presses'[p].at = "answered" /\ presses'[p].menu = presses[p].menu
        /\ presses'[p].was = presses[p].was
        /\ \A q \in Presses \ {p} : presses'[q] = presses[q]
    BY <2>1, <2>2, <1>a, PressOf
  <2>n. PressMoved(p)
    BY <2>1, <2>2, <2>m DEF PressMoved
  <2>. QED  BY <2>n, PressMoves
<1>7. ASSUME NEW p \in Presses, U!Set(p) PROVE MenusInv'
  <2>1. /\ presses[p].at = "acting"
        /\ UNCHANGED <<menus, drawn, opened, opening, redraws, able, changes>>
    BY <1>7 DEF U!Set, U!registry
  <2>2. /\ Holding(p) /\ {"failing", "settings"} \subseteq PressPlaces
        /\ presses[p].was \in MenuRows
    BY <2>1, <1>a DEF Holding, PressPlaces, U!Kinds, HeldAlone
  <2>3. presses[p].was # None
    BY <2>2 DEF MenuRows
  <2>4. PICK setting \in U!Sets(presses[p].was.kind) :
          IF setting = "effort" /\ ~able
          THEN presses' = [presses EXCEPT ![p].at = "failing"] /\ UNCHANGED approval
          ELSE /\ presses' = [presses EXCEPT ![p].at = "settings"]
               /\ approval' = IF setting \in {"normal", "strict", "auto"} THEN setting ELSE approval
    BY <1>7 DEF U!Set
  <2>5. approval' \in {"normal", "strict", "auto"}
    BY <2>4, <1>a DEF MenuTypes
  <2>6. approval' = "auto" => approval = "auto" \/ presses[p].was.kind = "confirm-auto"
    BY <2>4, AutoIsOffered
  <2>7. PICK k \in {"failing", "settings"} : presses' = [presses EXCEPT ![p].at = k]
    BY <2>4
  <2>m. /\ presses' \in [Presses -> PressRows]
        /\ presses'[p].at = k /\ presses'[p].menu = presses[p].menu
        /\ presses'[p].was = presses[p].was
        /\ \A q \in Presses \ {p} : presses'[q] = presses[q]
    BY <2>7, <2>2, <1>a, PressOf
  <2>n. PressMoved(p)
    BY <2>1, <2>2, <2>3, <2>5, <2>6, <2>7, <2>m DEF PressMoved
  <2>. QED  BY <2>n, PressMoves
<1>8. ASSUME NEW p \in Presses, U!Redraw(p) PROVE MenusInv'
  <2>1. /\ U!Drawing(p) /\ U!Show(presses[p].at, presses[p].was.message)
        /\ redraws' = [i \in 1..drawn + 1 |->
              IF i > drawn THEN 0 ELSE IF i = presses[p].menu THEN redraws[i] + 1 ELSE redraws[i]]
        /\ presses' = [presses EXCEPT ![p].at = "answered"]
        /\ UNCHANGED <<opened, opening, able, approval, changes>>
    BY <1>8 DEF U!Redraw
  <2>2. /\ Holding(p) /\ presses[p].at \in U!Kinds /\ presses[p].was \in MenuRows
        /\ presses[p].menu \in 1..drawn /\ redraws[presses[p].menu] = 0
    BY <2>1, <1>a DEF U!Drawing, Holding, MenuTypes, PressRows, PressPlaces, HeldAlone
  <2>3. /\ drawn < MaxMenus /\ drawn' = drawn + 1
        /\ menus' = [i \in {drawn + 1} |-> [message |-> presses[p].was.message,
                                            kind |-> presses[p].at, fresh |-> TRUE]]
    BY <2>1 DEF U!Show
  <2>4. /\ DOMAIN menus' = {drawn + 1} /\ menus' \in [{drawn + 1} -> MenuRows]
    BY <2>2, <2>3 DEF MenuRows
  <2>5. /\ redraws' \in [1..drawn' -> 0..1] /\ redraws'[drawn + 1] = 0
        /\ \A i \in 1..drawn : /\ i # presses[p].menu => redraws'[i] = redraws[i]
                               /\ i # drawn + 1 /\ i \in 1..drawn'
    BY <2>1, <2>2, <2>3, <1>b
  <2>6. /\ presses' \in [Presses -> PressRows]
        /\ presses'[p].at = "answered" /\ presses'[p].menu = presses[p].menu
        /\ presses'[p].was = presses[p].was
        /\ \A q \in Presses \ {p} : presses'[q] = presses[q]
    BY <2>1, <1>a, PressOf DEF PressPlaces
  <2>7. MenuTypes'
    <3>1. drawn' \in 0..MaxMenus /\ opened' \in Nat /\ opened' <= drawn'
      BY <2>1, <2>3, <1>a DEF MenuTypes
    <3>2. DOMAIN menus' \subseteq 1..drawn'
      BY <2>3, <2>4, <1>b
    <3>3. redraws' \in [1..drawn' -> Nat]
      BY <2>5
    <3>. QED  BY <2>1, <2>4, <2>6, <3>1, <3>2, <3>3, <1>a DEF MenuTypes
  <2>8. HeldAlone'
    <3>1. \A q \in Presses \ {p} :
             /\ Holding(q)' = Holding(q)
             /\ Holding(q) => presses[q].menu # presses[p].menu /\ presses[q].menu \in 1..drawn
                              /\ redraws[presses[q].menu] = 0
      BY <2>2, <2>6, <1>a DEF Holding, HeldAlone
    <3>2. ~Holding(p)' /\ presses'[p].at # "new"
      BY <2>6 DEF Holding
    <3>3. \A q \in Presses :
             /\ presses'[q].at = "new" => presses'[q].was = None
             /\ Holding(q)' =>
                /\ presses'[q].was \in MenuRows
                /\ presses'[q].menu \in (1..drawn') \ DOMAIN menus'
                /\ redraws'[presses'[q].menu] = 0
      BY <2>4, <2>5, <2>6, <3>1, <3>2, <1>a DEF HeldAlone
    <3>4. \A q, r \in Presses :
             Holding(q)' /\ Holding(r)' /\ presses'[q].menu = presses'[r].menu => q = r
      BY <2>6, <3>1, <3>2, <1>a DEF HeldAlone
    <3>. QED  BY <3>3, <3>4 DEF HeldAlone
  <2>9. RedrawnOnce'
    BY <2>4, <2>5 DEF RedrawnOnce
  <2>10. U!AutoWasConfirmed'
    <3>1. \A q \in Presses : presses'[q].was = presses[q].was
      BY <2>6
    <3>. QED  BY <2>1, <3>1, <1>a DEF U!AutoWasConfirmed
  <2>. QED  BY <2>7, <2>8, <2>9, <2>10 DEF MenusInv
<1>9. ASSUME NEW p \in Presses, U!EditFails(p) PROVE MenusInv'
  <2>1. /\ U!Drawing(p) /\ presses' = [presses EXCEPT ![p].at = "failing"]
        /\ UNCHANGED <<menus, drawn, opened, opening, redraws, able, approval, changes>>
    BY <1>9 DEF U!EditFails, U!registry
  <2>2. Holding(p) /\ "failing" \in PressPlaces /\ approval' \in {"normal", "strict", "auto"}
    BY <2>1, <1>a DEF Holding, U!Drawing, MenuTypes, PressPlaces
  <2>m. /\ presses' \in [Presses -> PressRows]
        /\ presses'[p].at = "failing" /\ presses'[p].menu = presses[p].menu
        /\ presses'[p].was = presses[p].was
        /\ \A q \in Presses \ {p} : presses'[q] = presses[q]
    BY <2>1, <2>2, <1>a, PressOf
  <2>n. PressMoved(p)
    BY <2>1, <2>2, <2>m DEF PressMoved
  <2>. QED  BY <2>n, PressMoves
<1>10. ASSUME NEW p \in Presses, U!PutBack(p) PROVE MenusInv'
  <2> DEFINE m == presses[p].menu
  <2>1. /\ presses[p].at = "failing"
        /\ menus' = [i \in DOMAIN menus \cup {m} |-> IF i = m THEN presses[p].was ELSE menus[i]]
        /\ presses' = [presses EXCEPT ![p].at = "answered"]
        /\ UNCHANGED <<drawn, opened, opening, redraws, able, approval, changes>>
    BY <1>10 DEF U!PutBack
  <2>2. /\ Holding(p) /\ presses[p].was \in MenuRows
        /\ m \in 1..drawn /\ redraws[m] = 0
    BY <2>1, <1>a DEF Holding, HeldAlone
  <2> HIDE DEF m
  <2>3. /\ DOMAIN menus' = DOMAIN menus \cup {m} /\ menus' \in [DOMAIN menus' -> MenuRows]
    BY <2>1, <2>2, <1>a DEF MenuTypes
  <2>4. /\ presses' \in [Presses -> PressRows]
        /\ presses'[p].at = "answered" /\ presses'[p].menu = presses[p].menu
        /\ presses'[p].was = presses[p].was
        /\ \A q \in Presses \ {p} : presses'[q] = presses[q]
    BY <2>1, <1>a, PressOf DEF PressPlaces
  <2>5. MenuTypes'
    BY <2>1, <2>2, <2>3, <2>4, <1>a DEF MenuTypes
  <2>6. HeldAlone'
    <3>1. \A q \in Presses \ {p} :
             /\ Holding(q)' = Holding(q)
             /\ Holding(q) => presses[q].menu # m
      BY <2>2, <2>4, <1>a DEF Holding, HeldAlone, m
    <3>2. ~Holding(p)' /\ presses'[p].at # "new"
      BY <2>4 DEF Holding
    <3>3. \A q \in Presses :
             /\ presses'[q].at = "new" => presses'[q].was = None
             /\ Holding(q)' =>
                /\ presses'[q].was \in MenuRows
                /\ presses'[q].menu \in (1..drawn') \ DOMAIN menus'
                /\ redraws'[presses'[q].menu] = 0
      BY <2>1, <2>3, <2>4, <3>1, <3>2, <1>a DEF HeldAlone
    <3>4. \A q, r \in Presses :
             Holding(q)' /\ Holding(r)' /\ presses'[q].menu = presses'[r].menu => q = r
      BY <2>4, <3>1, <3>2, <1>a DEF HeldAlone
    <3>. QED  BY <3>3, <3>4 DEF HeldAlone
  <2>7. RedrawnOnce'
    BY <2>1, <2>2, <2>3, <1>a DEF RedrawnOnce
  <2>8. U!AutoWasConfirmed'
    <3>1. \A q \in Presses : presses'[q].was = presses[q].was
      BY <2>4
    <3>. QED  BY <2>1, <3>1, <1>a DEF U!AutoWasConfirmed
  <2>. QED  BY <2>5, <2>6, <2>7, <2>8 DEF MenusInv
<1>11. CASE U!ModelChanges
  <2>1. /\ changes < MaxChanges /\ changes' = changes + 1 /\ able' = ~able
        /\ UNCHANGED <<menus, drawn, opened, opening, redraws, presses, approval>>
    BY <1>11 DEF U!ModelChanges, U!registry
  <2>2. changes' \in 0..MaxChanges
    BY <2>1, <1>a DEF MenuTypes
  <2>3. able' \in BOOLEAN
    BY <2>1, Zenon
  <2>4. MenuTypes'
    BY <2>1, <2>2, <2>3, <1>a DEF MenuTypes
  <2>5. HeldAlone' /\ RedrawnOnce' /\ U!AutoWasConfirmed'
    BY <2>1, <1>a DEF HeldAlone, Holding, RedrawnOnce, U!AutoWasConfirmed
  <2>. QED  BY <2>4, <2>5 DEF MenusInv
<1>12. CASE U!Restart
  <2>1. /\ changes < MaxChanges /\ changes' = changes + 1
        /\ menus' = << >> /\ opening' = FALSE
        /\ presses' = [p \in Presses |->
             IF presses[p].at = "new" THEN presses[p] ELSE [presses[p] EXCEPT !.at = "answered"]]
        /\ UNCHANGED <<drawn, opened, redraws, able, approval>>
    BY <1>12 DEF U!Restart
  <2>2. changes' \in 0..MaxChanges
    BY <2>1, <1>a DEF MenuTypes
  <2>3. DOMAIN menus' = {} /\ menus' \in [{} -> MenuRows]
    BY <2>1
  <2>4. /\ presses' \in [Presses -> PressRows]
        /\ \A p \in Presses : /\ presses'[p].was = presses[p].was
                              /\ presses'[p].at \in {"new", "answered"}
                              /\ presses'[p].at = "new" => presses[p].at = "new"
    BY <2>1, <1>a DEF MenuTypes, PressRows, PressPlaces
  <2>5. MenuTypes'
    BY <2>1, <2>2, <2>3, <2>4, <1>a DEF MenuTypes
  <2>6. HeldAlone'
    BY <2>4, <1>a DEF HeldAlone, Holding
  <2>7. RedrawnOnce'
    BY <2>1, <2>3, <1>a DEF RedrawnOnce
  <2>8. U!AutoWasConfirmed'
    BY <2>1, <2>4, <1>a DEF U!AutoWasConfirmed
  <2>. QED  BY <2>5, <2>6, <2>7, <2>8 DEF MenusInv
<1>. QED
  BY <1>1, <1>2, <1>3, <1>4, <1>5, <1>6, <1>7, <1>8, <1>9, <1>10, <1>11, <1>12
  DEF U!Next

(* A step that leaves the menus' variables alone keeps it.                 *)
LEMMA MenusStays == MenusInv /\ UNCHANGED menusVars => MenusInv'
  BY DEF menusVars, MenusInv, MenuTypes, HeldAlone, Holding, RedrawnOnce,
         U!AutoWasConfirmed

(* The invariant has the types, and what is promised of the menus.         *)
LEMMA MenusMean == MenusInv => U!TypeOK /\ U!OneRedraw /\ U!AutoWasConfirmed
  BY DEF MenusInv, MenuTypes, RedrawnOnce, U!TypeOK, U!OneRedraw

-----------------------------------------------------------------------------
(* The outside world                                                       *)

SumInv ==
    /\ focus \in {"servers", "login", "google", "calendar", "telegram", "discord", "menus"}
    /\ focus = "servers" => IInv
    /\ focus = "login" => LoginInv
    /\ focus = "google" => GoogleInv
    /\ focus = "calendar" => CalendarInv
    /\ focus = "telegram" => TelegramInv
    /\ focus = "discord" => DiscordInv
    /\ focus = "menus" => MenusInv

(* A step is one of the component that the behaviour is about, or leaves   *)
(* it alone.                                                               *)
LEMMA StepOfFocus ==
  ASSUME [SumNext]_sumVars
  PROVE  /\ focus' = focus
         /\ focus = "servers" => [Next]_vars
         /\ focus = "login" => L!Next \/ UNCHANGED loginVars
         /\ focus = "google" => G!Next \/ UNCHANGED googleVars
         /\ focus = "calendar" => E!Next \/ UNCHANGED calendarVars
         /\ focus = "telegram" => T!Next \/ UNCHANGED telegramVars
         /\ focus = "discord" => D!Next \/ UNCHANGED discordVars
         /\ focus = "menus" => U!Next \/ UNCHANGED menusVars
<1>1. CASE UNCHANGED sumVars
  <2>1. UNCHANGED <<focus, serversVars, loginVars, googleVars, calendarVars,
                    telegramVars, discordVars, menusVars>>
    BY <1>1 DEF sumVars
  <2>2. UNCHANGED serversVars => UNCHANGED vars
    <3> SUFFICES ASSUME UNCHANGED serversVars PROVE UNCHANGED vars
      OBVIOUS
    <3>1. /\ UNCHANGED session /\ UNCHANGED status /\ UNCHANGED reload
          /\ UNCHANGED tools /\ UNCHANGED protected /\ UNCHANGED failures
          /\ UNCHANGED cooldown /\ UNCHANGED grant /\ UNCHANGED repairing
          /\ UNCHANGED minted /\ UNCHANGED open /\ UNCHANGED early
          /\ UNCHANGED pc /\ UNCHANGED kind /\ UNCHANGED found
          /\ UNCHANGED outcome /\ UNCHANGED snapshot /\ UNCHANGED ungated
          /\ UNCHANGED calling /\ UNCHANGED approved /\ UNCHANGED calls
      BY DEF serversVars
    <3>2. /\ UNCHANGED catalogVars /\ UNCHANGED breakerVars /\ UNCHANGED sessionVars
          /\ UNCHANGED repairVars /\ UNCHANGED turnVars
      BY <3>1 DEF catalogVars, breakerVars, sessionVars, repairVars, turnVars
    <3>. QED  BY <3>1, <3>2 DEF vars
  <2>. QED  BY <2>1, <2>2
<1>2. CASE SumNext
  BY <1>2 DEF SumNext, ServersStep, LoginStep, GoogleStep, CalendarStep,
              TelegramStep, DiscordStep, MenusStep
<1>. QED  BY <1>1, <1>2

(* The invariant holds at first, whatever the behaviour is about,          *)
LEMMA SumInitInv == SumInit => SumInv
<1> SUFFICES ASSUME SumInit PROVE SumInv
  OBVIOUS
<1>1. /\ focus \in {"servers", "login", "google", "calendar", "telegram", "discord", "menus"}
      /\ focus = "servers" => Init
      /\ focus = "login" => L!Init
      /\ focus = "google" => G!Init
      /\ focus = "calendar" => E!Init
      /\ focus = "telegram" => T!Init
      /\ focus = "discord" => D!Init
      /\ focus = "menus" => U!Init
  BY DEF SumInit
<1>. QED
  BY <1>1, InitInv, LoginInit, GoogleInit, CalendarInit, TelegramInit,
     DiscordInit, MenusInit DEF SumInv

(* and every step keeps it.                                                *)
LEMMA SumStep == SumInv /\ [SumNext]_sumVars => SumInv'
<1> SUFFICES ASSUME SumInv, [SumNext]_sumVars PROVE SumInv'
  OBVIOUS
<1>0. focus' = focus /\ focus \in {"servers", "login", "google", "calendar", "telegram", "discord", "menus"}
  BY StepOfFocus DEF SumInv
<1>1. CASE focus = "servers"
  <2>1. IInv'
    BY <1>1, StepOfFocus, TypeStep, RestStep DEF SumInv, IInv, Rest
  <2>. QED  BY <1>0, <1>1, <2>1 DEF SumInv
<1>2. CASE focus = "login"
  <2>1. LoginInv'
    BY <1>2, StepOfFocus, LoginKept, LoginStays DEF SumInv
  <2>. QED  BY <1>0, <1>2, <2>1 DEF SumInv
<1>3. CASE focus = "google"
  <2>1. GoogleInv'
    BY <1>3, StepOfFocus, GoogleKept, GoogleStays DEF SumInv
  <2>. QED  BY <1>0, <1>3, <2>1 DEF SumInv
<1>4. CASE focus = "calendar"
  <2>1. CalendarInv'
    BY <1>4, StepOfFocus, CalendarKept, CalendarStays DEF SumInv
  <2>. QED  BY <1>0, <1>4, <2>1 DEF SumInv
<1>5. CASE focus = "telegram"
  <2>1. TelegramInv'
    BY <1>5, StepOfFocus, TelegramKept, TelegramStays DEF SumInv
  <2>. QED  BY <1>0, <1>5, <2>1 DEF SumInv
<1>6. CASE focus = "discord"
  <2>1. DiscordInv'
    BY <1>6, StepOfFocus, DiscordKept, DiscordStays DEF SumInv
  <2>. QED  BY <1>0, <1>6, <2>1 DEF SumInv
<1>7. CASE focus = "menus"
  <2>1. MenusInv'
    BY <1>7, StepOfFocus, MenusKept, MenusStays DEF SumInv
  <2>. QED  BY <1>0, <1>7, <2>1 DEF SumInv
<1>. QED
  BY <1>0, <1>1, <1>2, <1>3, <1>4, <1>5, <1>6, <1>7

(* Whatever the behaviour is about, its invariant holds at every state.    *)
THEOREM SumInductive == SumSpec => []SumInv
<1>. QED  BY SumInitInv, SumStep, PTL DEF SumSpec

(* Every variable of the component at hand keeps its type, for any number  *)
(* of servers, logins, calls, guests, updates, users and menus.            *)
THEOREM SumTyped == SumSpec => []SumTypeOK
<1>1. SumInv => SumTypeOK
  BY LoginMeans, GoogleMeans, TelegramMeans, DiscordMeans, MenusMean
  DEF SumInv, SumTypeOK, IInv, CalendarInv
<1>. QED  BY <1>1, SumInductive, PTL

(* The client of a login is the one its authorization server registered,   *)
(* and a finished login stays finished, whatever requests, logouts and     *)
(* moves of the server happen meanwhile, for any number of them.           *)
THEOREM LoginsAlwaysSafe == SumSpec => []LoginsSafe
<1>1. SumInv => LoginsSafe
  BY LoginMeans DEF SumInv, LoginsSafe
<1>. QED  BY <1>1, SumInductive, PTL

(* What a step of the grant may never do.                                  *)
LEMMA GrantStepSafe ==
  SumInv /\ [SumNext]_sumVars => [focus = "google" => G!NumberGoesUp]_sumVars
<1> SUFFICES ASSUME SumInv, [SumNext]_sumVars, focus = "google",
                    ~UNCHANGED sumVars
             PROVE  G!NumberGoesUp
  OBVIOUS
<1>1. G!Next /\ GoogleInv
  BY DEF SumInv, SumNext, ServersStep, LoginStep, GoogleStep, CalendarStep,
         TelegramStep, DiscordStep, MenusStep
<1>. QED  BY <1>1, GoogleKept

(* No login in progress lands over a disconnect, since it holds the mutex, *)
(* and the number of the connection goes up whenever the grant is replaced *)
(* or dropped, for any number of calls that borrow it.                     *)
THEOREM GrantAlwaysSafe == SumSpec => GrantSafe
<1>1. SumInv => (focus = "google" => G!NoLateLogin)
  BY GoogleMeans DEF SumInv
<1>. QED
  BY <1>1, GrantStepSafe, SumInductive, PTL DEF SumSpec, GrantSafe

(* What a step of the calendar may never do.                               *)
LEMMA GuestsStepSafe ==
  SumInv /\ [SumNext]_sumVars
    => [focus = "calendar" => E!AnswersForItself /\ E!TellsTheGuests]_sumVars
<1> SUFFICES ASSUME SumInv, [SumNext]_sumVars, focus = "calendar"
             PROVE  E!AnswersForItself /\ E!TellsTheGuests
  OBVIOUS
<1>1. CalendarInv
  BY DEF SumInv
<1>. QED  BY <1>1, AnswersOnly, MovesAreTold

(* An answer changes no other guest's, and a move is told to the guests    *)
(* the event has, for any number of guests and of calls at once.           *)
THEOREM GuestsAlwaysSafe == SumSpec => GuestsSafe
<1>. QED
  BY GuestsStepSafe, SumInductive, PTL DEF SumSpec, GuestsSafe

(* A question is answered once and waits until it is, however often a tap  *)
(* is delivered and however many are handled at once, and an open album is *)
(* on its way out.                                                         *)
THEOREM TelegramAlwaysSafe == SumSpec => []TelegramSafe
<1>1. SumInv => TelegramSafe
  BY TelegramMeans DEF SumInv, TelegramSafe
<1>. QED  BY <1>1, SumInductive, PTL

(* No delivery is started into a direct message that is not, then, the     *)
(* account's own, and no user is shut out, for any number of accounts,     *)
(* users and messages.                                                     *)
THEOREM DiscordAlwaysSafe == SumSpec => []DiscordSafe
<1>1. SumInv => DiscordSafe
  BY DiscordMeans DEF SumInv, DiscordSafe
<1>. QED  BY <1>1, SumInductive, PTL

(* A drawn menu is spent by one tap, and the auto mode is set only by one  *)
(* on the menu that warns of it, for any number of taps and menus.         *)
THEOREM MenusAlwaysSafe == SumSpec => []MenusSafe
<1>1. SumInv => MenusSafe
  BY MenusMean DEF SumInv, MenusSafe
<1>. QED  BY <1>1, SumInductive, PTL
=============================================================================

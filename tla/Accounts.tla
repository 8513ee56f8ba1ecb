------------------------------- MODULE Accounts -------------------------------
(***************************************************************************)
(* Accounts and the ways in (panel/account_auth.go, accounts.go,           *)
(* login_link.go, identity_link.go, bootstrap/login.go and                 *)
(* identity_link.go, storage/sqlite/account_auth.go, sessions.go and       *)
(* identity_links.go).  Membership is in config.yaml, credentials,         *)
(* sessions and links are rows of eggy.db; a request reads one, works      *)
(* outside every lock, and commits under the lock of the config and in a   *)
(* transaction of the database.  A request may fail between two steps and  *)
(* the daemon may restart.                                                 *)
(***************************************************************************)
EXTENDS Naturals, FiniteSets

CONSTANTS
    Ids,         \* usernames
    Senders,     \* verified Telegram senders
    Reqs,        \* requests that run at the same time
    MaxStarts,   \* bound on requests and restarts
    None

VARIABLES
    member,      \* config.yaml: None, or the linked sender or 0, of each id
    auth,        \* account_auth: None, or [gen, pw, retired]
    session,     \* sessions: [id, gen, pw or link it was issued for]
    webLink,     \* web_login_links: None or [n, gen, sender], one per account
    idLink,      \* identity_links: None, "open" or "claimed", one per account
    req,         \* the requests that run
    people,      \* how many people an id was given to
    starts

accountVars == <<member, auth, session, webLink, idLink, req, people, starts>>

Row(gen, pw, retired) == [gen |-> gen, pw |-> pw, retired |-> retired]
Live(id) == auth[id] # None /\ ~auth[id].retired
Idle == [op |-> None]

Init ==
    /\ member \in [Ids -> {None, 0} \cup Senders] /\ \E id \in Ids : member[id] # None
    /\ \A i, j \in Ids : member[i] = member[j] /\ member[i] \in Senders => i = j
    /\ auth = [id \in Ids |-> IF member[id] = None THEN None ELSE Row(1, 0, FALSE)]
    /\ session = {}
    /\ webLink = [id \in Ids |-> None] /\ idLink = [id \in Ids |-> None]
    /\ req = [r \in Reqs |-> Idle]
    /\ people = [id \in Ids |-> IF member[id] = None THEN 0 ELSE 1]
    /\ starts = 0

Begins(r, job) ==
    /\ req[r] = Idle /\ starts < MaxStarts
    /\ starts' = starts + 1
    /\ req' = [req EXCEPT ![r] = job]

At(r, op) == req[r].op = op
Goes(r, job) == req' = [req EXCEPT ![r] = job] /\ UNCHANGED starts
Ends(r) == Goes(r, Idle)

-----------------------------------------------------------------------------
(* The rows: every change of a credential advances its generation and      *)
(* drops what was issued for the one before (advanceGeneration)            *)

RevokeIssued(id) ==
    /\ session' = {s \in session : s.id # id}
    /\ webLink' = [webLink EXCEPT ![id] = None]

Advances(id, pw, retired) ==
    /\ auth' = [auth EXCEPT ![id] = Row(auth[id].gen + 1, pw, retired)]
    /\ RevokeIssued(id)

(* Faulty: the row is looked up by its id alone.                           *)
MayInsertForId(id, gen) == Live(id)

(* insertAuthenticatedSessionTx, SetAccountPassword: only while the row is *)
(* at the generation that was verified, and live.                          *)
MayInsert(id, gen) == Live(id) /\ auth[id].gen = gen

Issue(id, gen, by) ==
    session' = session \cup {[id |-> id, gen |-> gen, by |-> by]}

-----------------------------------------------------------------------------
(* Password login and change: the record is read and the password verified *)
(* outside the lock, the row is written under it                           *)

LoginVerify(r, id) ==
    /\ Live(id) /\ auth[id].pw # 0 /\ member[id] # None
    /\ Begins(r, [op |-> "login", id |-> id, gen |-> auth[id].gen, pw |-> auth[id].pw])
    /\ UNCHANGED <<member, auth, session, webLink, idLink, people>>

LoginCommit(r) ==
    /\ At(r, "login")
    /\ IF member[req[r].id] # None /\ MayInsert(req[r].id, req[r].gen)
       THEN Issue(req[r].id, req[r].gen, <<"password", req[r].pw>>)
       ELSE UNCHANGED session
    /\ Ends(r)
    /\ UNCHANGED <<member, auth, webLink, idLink, people>>

ChangeVerify(r, id) ==
    /\ Live(id)
    /\ Begins(r, [op |-> "change", id |-> id, gen |-> auth[id].gen])
    /\ UNCHANGED <<member, auth, session, webLink, idLink, people>>

SetAccountPassword(r) ==
    IF MayInsert(req[r].id, req[r].gen)
    THEN Advances(req[r].id, auth[req[r].id].gen + 1, FALSE)
    ELSE UNCHANGED <<auth, session, webLink>>

ChangeCommit(r) ==
    /\ At(r, "change")
    /\ IF member[req[r].id] # None THEN SetAccountPassword(r)
       ELSE UNCHANGED <<auth, session, webLink>>
    /\ Ends(r)
    /\ UNCHANGED <<member, idLink, people>>

RevokeSessions(id) ==
    /\ starts < MaxStarts /\ starts' = starts + 1
    /\ member[id] # None /\ Live(id)
    /\ Advances(id, auth[id].pw, FALSE)
    /\ UNCHANGED <<member, idLink, req, people>>

Logout(s) ==
    /\ session' = session \ {s}
    /\ UNCHANGED <<member, auth, webLink, idLink, req, people, starts>>

-----------------------------------------------------------------------------
(* A person is added: the membership, under the lock and only for an id no *)
(* row uses, then the row and the password, each on its own                *)

AddAccount(r, id) ==
    /\ member[id] = None /\ auth[id] = None
    /\ Begins(r, [op |-> "register", id |-> id])
    /\ member' = [member EXCEPT ![id] = 0]
    /\ people' = [people EXCEPT ![id] = @ + 1]
    /\ UNCHANGED <<auth, session, webLink, idLink>>

RegisterAccountAuth(r) ==
    /\ At(r, "register")
    /\ auth' = IF auth[req[r].id] = None THEN [auth EXCEPT ![req[r].id] = Row(1, 0, FALSE)] ELSE auth
    /\ Goes(r, [op |-> "read", id |-> req[r].id])
    /\ UNCHANGED <<member, session, webLink, idLink, people>>

(* A row that was retired meanwhile leaves the account pending (Fails).    *)
ReadRegistered(r) ==
    /\ At(r, "read") /\ Live(req[r].id)
    /\ Goes(r, [op |-> "set", id |-> req[r].id, gen |-> auth[req[r].id].gen])
    /\ UNCHANGED <<member, auth, session, webLink, idLink, people>>

SetFirstPassword(r) ==
    /\ At(r, "set")
    /\ SetAccountPassword(r)
    /\ Ends(r)
    /\ UNCHANGED <<member, idLink, people>>

(* A person is removed: out of the config, and then the row is retired.    *)
RemoveAccount(r, id) ==
    /\ member[id] # None /\ \E other \in Ids \ {id} : member[other] # None
    /\ Begins(r, [op |-> "retire", id |-> id])
    /\ member' = [member EXCEPT ![id] = None]
    /\ UNCHANGED <<auth, session, webLink, idLink, people>>

(* An id without a row is not an error, and nothing is written for it.     *)
RetireAccountAuth(r) ==
    /\ At(r, "retire")
    /\ IF auth[req[r].id] = None THEN UNCHANGED <<auth, session, webLink>>
       ELSE Advances(req[r].id, 0, TRUE)
    /\ Goes(r, [op |-> "unpair", id |-> req[r].id])
    /\ UNCHANGED <<member, idLink, people>>

-----------------------------------------------------------------------------
(* /web: a link for the sender that is mapped to the account, and its      *)
(* redemption                                                              *)

AskLink(r, id) ==
    /\ member[id] \in Senders
    /\ Begins(r, [op |-> "mint", id |-> id, sender |-> member[id], n |-> starts + 1])
    /\ UNCHANGED <<member, auth, session, webLink, idLink, people>>

(* Under the lock: the mapping and the generation as they are now.         *)
MintLink(r) ==
    /\ At(r, "mint")
    /\ webLink' = IF member[req[r].id] = req[r].sender /\ Live(req[r].id)
                  THEN [webLink EXCEPT ![req[r].id] = [n |-> req[r].n, sender |-> req[r].sender,
                                                       gen |-> auth[req[r].id].gen]]
                  ELSE webLink
    /\ Ends(r)
    /\ UNCHANGED <<member, auth, session, idLink, people>>

LinkExpires(id) ==
    /\ webLink[id] # None /\ webLink' = [webLink EXCEPT ![id] = None]
    /\ UNCHANGED <<member, auth, session, idLink, req, people, starts>>

ReadLink(r, id) ==
    /\ webLink[id] # None
    /\ Begins(r, [op |-> "redeem", id |-> id, link |-> webLink[id]])
    /\ UNCHANGED <<member, auth, session, webLink, idLink, people>>

(* RedeemWebLoginLink: what is deleted is the link that was read.          *)
StillThere(r) == webLink[req[r].id] = req[r].link

RedeemLink(r) ==
    /\ At(r, "redeem")
    /\ LET id == req[r].id  link == req[r].link IN
       IF member[id] = link.sender /\ StillThere(r) /\ MayInsert(id, link.gen)
       THEN /\ webLink' = [webLink EXCEPT ![id] = None]
            /\ Issue(id, link.gen, <<"link", link.n, r>>)
       ELSE UNCHANGED <<webLink, session>>
    /\ Ends(r)
    /\ UNCHANGED <<member, auth, idLink, people>>

-----------------------------------------------------------------------------
(* Identity links, under the mutex of their coordinator: a token is made   *)
(* in the panel, claimed from a chat, bound in the config, and finished    *)

Redeeming == \E r \in Reqs : req[r].op \in {"bind", "finish"}

CreateIdentityLink(id) ==
    /\ starts < MaxStarts /\ starts' = starts + 1
    /\ ~Redeeming /\ member[id] # None /\ idLink[id] # "claimed"
    /\ idLink' = [idLink EXCEPT ![id] = "open"]
    /\ UNCHANGED <<member, auth, session, webLink, req, people>>

IdentityLinkExpires(id) ==
    /\ ~Redeeming /\ idLink[id] = "open"
    /\ idLink' = [idLink EXCEPT ![id] = None]
    /\ UNCHANGED <<member, auth, session, webLink, req, people, starts>>

ClaimIdentityLink(r, id, sender) ==
    /\ ~Redeeming /\ idLink[id] = "open"
    /\ Begins(r, [op |-> "bind", id |-> id, sender |-> sender])
    /\ idLink' = [idLink EXCEPT ![id] = "claimed"]
    /\ UNCHANGED <<member, auth, session, webLink, people>>

MayLink(id, sender) ==
    /\ member[id] \in {0, sender}
    /\ \A other \in Ids \ {id} : member[other] # sender

LinkTelegramAccount(r) ==
    /\ At(r, "bind")
    /\ LET id == req[r].id  bound == MayLink(id, req[r].sender) IN
       /\ member' = IF bound THEN [member EXCEPT ![id] = req[r].sender] ELSE member
       /\ Goes(r, [op |-> "finish", id |-> id, bound |-> bound])
    /\ UNCHANGED <<auth, session, webLink, idLink, people>>

FinishIdentityLink(r) ==
    /\ At(r, "finish")
    /\ idLink' = [idLink EXCEPT ![req[r].id] = IF req[r].bound THEN None ELSE "open"]
    /\ Ends(r)
    /\ UNCHANGED <<member, auth, session, webLink, people>>

Unlink(r, id) ==
    /\ member[id] \in Senders
    /\ Begins(r, [op |-> "unpair", id |-> id])
    /\ member' = [member EXCEPT ![id] = 0]
    /\ UNCHANGED <<auth, session, webLink, idLink, people>>

DeleteIdentityLinks(r) ==
    /\ At(r, "unpair") /\ ~Redeeming
    /\ idLink' = [idLink EXCEPT ![req[r].id] = IF @ = "open" THEN None ELSE @]
    /\ Ends(r)
    /\ UNCHANGED <<member, auth, session, webLink, people>>

-----------------------------------------------------------------------------
(* The guard, a step that fails, and a restart                             *)

(* resolveAccountSession revokes on sight what a removed account has.      *)
SeeRemoved(s) ==
    /\ s \in session /\ (member[s.id] = None \/ ~Live(s.id))
    /\ session' = {t \in session : t.id # s.id}
    /\ UNCHANGED <<member, auth, webLink, idLink, req, people, starts>>

(* The store refuses the next step, and the request ends there.            *)
Fails(r) ==
    /\ req[r].op \notin {None, "bind"}
    /\ Ends(r)
    /\ UNCHANGED <<member, auth, session, webLink, idLink, people>>

(* The daemon dies; reconcileAccountAuth, before anything is served:       *)
(* configured ids get a row and removed ones are retired.                  *)
Restart ==
    LET gone == {id \in Ids : Live(id) /\ member[id] = None} IN
    /\ starts < MaxStarts /\ starts' = starts + 1
    /\ req' = [r \in Reqs |-> Idle]
    /\ auth' = [id \in Ids |->
                  IF id \in gone THEN Row(auth[id].gen + 1, 0, TRUE)
                  ELSE IF auth[id] = None /\ member[id] # None THEN Row(1, 0, FALSE)
                  ELSE auth[id]]
    /\ session' = {s \in session : s.id \notin gone}
    /\ webLink' = [id \in Ids |-> IF id \in gone THEN None ELSE webLink[id]]
    /\ UNCHANGED <<member, idLink, people>>

Next ==
    \/ \E r \in Reqs, id \in Ids :
         \/ LoginVerify(r, id) \/ ChangeVerify(r, id) \/ AddAccount(r, id)
         \/ RemoveAccount(r, id) \/ AskLink(r, id) \/ ReadLink(r, id) \/ Unlink(r, id)
         \/ \E sender \in Senders : ClaimIdentityLink(r, id, sender)
    \/ \E id \in Ids : RevokeSessions(id) \/ LinkExpires(id) \/ CreateIdentityLink(id)
                          \/ IdentityLinkExpires(id)
    \/ \E r \in Reqs :
         \/ LoginCommit(r) \/ ChangeCommit(r) \/ RegisterAccountAuth(r)
         \/ ReadRegistered(r) \/ SetFirstPassword(r) \/ RetireAccountAuth(r)
         \/ MintLink(r) \/ RedeemLink(r) \/ LinkTelegramAccount(r)
         \/ FinishIdentityLink(r) \/ DeleteIdentityLinks(r) \/ Fails(r)
    \/ \E s \in session : Logout(s) \/ SeeRemoved(s)
    \/ Restart

Spec == Init /\ [][Next]_accountVars

-----------------------------------------------------------------------------
(* Types of the rows.                                                      *)
TypeOK ==
    /\ member \in [Ids -> {None, 0} \cup Senders]
    /\ \A id \in Ids : auth[id] # None =>
         auth[id].gen \in Nat /\ auth[id].pw \in Nat /\ auth[id].retired \in BOOLEAN
    /\ \A s \in session : s.id \in Ids /\ s.gen \in Nat
    /\ \A id \in Ids : webLink[id] # None => webLink[id].sender \in Senders
    /\ idLink \in [Ids -> {None, "open", "claimed"}]

(* What was issued is of the credential as it is: no session and no link   *)
(* of a password that was changed, of sessions that were revoked or of a   *)
(* removed person is left or comes back, whatever request had read the row *)
(* before that.                                                            *)
IssuedIsCurrent ==
    /\ \A s \in session : Live(s.id) /\ s.gen = auth[s.id].gen
    /\ \A id \in Ids : webLink[id] # None => Live(id) /\ webLink[id].gen = auth[id].gen

(* A link signs in one browser: two requests that read it at the same time *)
(* get one session between them, and while it is there it has given none.  *)
LinkSignsInOnce ==
    \A s \in session : s.by[1] = "link" =>
        /\ \A t \in session : t.by[1] = "link" /\ t.by[2] = s.by[2] => t = s
        /\ \A id \in Ids : webLink[id] # None => webLink[id].n # s.by[2]
=============================================================================

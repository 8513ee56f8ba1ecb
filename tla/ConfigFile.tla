----------------------------- MODULE ConfigFile -----------------------------
(***************************************************************************)
(* config.yaml: the setters every surface calls (config/config_mutate.go,  *)
(* accounts.go), the rules a document must pass (config_validate.go), and  *)
(* the locked read, edit, validate and rename by which it is written.      *)
(*                                                                         *)
(* Of the document only what the rules relate is kept: who the accounts    *)
(* are, the Telegram switch, the heartbeat, Google, the models and one MCP *)
(* server.  Two processes may write; either may die between any two steps. *)
(***************************************************************************)
EXTENDS Naturals, FiniteSets

CONSTANTS
    Ids,        \* account ids
    Senders,    \* Telegram senders
    Aliases,    \* model aliases; Default is agent.default_model
    Default,
    Providers,
    Tools,      \* tools of the MCP server
    Writers,    \* processes and requests that write
    MaxWrites,  \* bound on writes
    None

VARIABLES
    file,       \* config.yaml
    env,        \* the secrets the environment holds
    lock,       \* who holds the file lock, or None
    job,        \* where each writer is, what it loaded and what it will write
    text,       \* the document as the raw editor last read it, or None
    setter,     \* the last write was a setter's
    writes

cfgVars == <<file, env, lock, job, text, setter, writes>>

(* One sender stands for "no Telegram". *)
NoSender == None
AccountMode(c) == c.owner = None
AccountsOf(c) == {i \in Ids : c.accounts[i] # None}
SenderOf(c, i) == c.accounts[i].sender

TelegramEnabled(c) ==
    IF c.telegram # "unset" THEN c.telegram = "on"
    ELSE IF AccountMode(c) THEN \E i \in AccountsOf(c) : SenderOf(c, i) # NoSender
    ELSE c.owner.sender # NoSender

-----------------------------------------------------------------------------
(* What Validate asks of a document. *)

ValidAccounts(c) ==
    IF AccountMode(c)
    THEN /\ c.password \in AccountsOf(c)
         /\ c.migration \in AccountsOf(c) \cup {None}
         /\ \A i, j \in AccountsOf(c) :
                SenderOf(c, i) = SenderOf(c, j) => i = j \/ SenderOf(c, i) = NoSender
         /\ c.google.on => c.google.email
    ELSE c.telegram = "on" => c.owner.sender # NoSender

Named(c) == {a \in Aliases : c.aliases[a] # None}

ValidProviders(c) ==
    /\ Default \in Named(c)
    /\ \A a \in Named(c) :
        /\ c.providers[c.aliases[a].provider] # None
        /\ c.aliases[a].routed => c.providers[c.aliases[a].provider] = "openrouter"
    /\ c.image # None =>
        /\ c.image \in Named(c)
        /\ c.providers[c.aliases[c.image].provider] = "openrouter"

ValidMCP(c) ==
    c.server # None => c.server.gated \cap c.server.exclude = {}

Valid(c) == ValidAccounts(c) /\ ValidProviders(c) /\ ValidMCP(c)

(* validateSecrets: what LoadConfig asks besides. *)
SecretsPresent(c) ==
    /\ TelegramEnabled(c) => "telegram" \in env
    /\ AccountMode(c) \/ c.google.on => "key" \in env
    /\ c.server # None /\ c.server.enabled =>
        /\ c.server.auth = "bearer-env" => "bearer" \in env
        /\ c.server.auth = "oauth" => "key" \in env

Loads(c) == Valid(c) /\ SecretsPresent(c)

-----------------------------------------------------------------------------
(* The setters: each is the set of documents it may make of c, none if it  *)
(* refuses or has nothing to change.                                       *)

If(guard, c) == IF guard THEN {c} ELSE {}

SetSender(c, i, s) == [c EXCEPT !.accounts[i] = [sender |-> s]]

LinkTelegramAccount(c, i, s) ==
    If(/\ TelegramEnabled(c) /\ i \in AccountsOf(c)
       /\ \A j \in AccountsOf(c) \ {i} : SenderOf(c, j) # s
       /\ SenderOf(c, i) \in {NoSender, s},
       SetSender(c, i, s))

UnlinkTelegramAccount(c, i) ==
    If(i \in AccountsOf(c) /\ SenderOf(c, i) # NoSender, SetSender(c, i, NoSender))

AddAccount(c, i, s) ==
    If(AccountMode(c) /\ i \notin AccountsOf(c), SetSender(c, i, s))

EditAccount(c, i, s) == If(i \in AccountsOf(c), SetSender(c, i, s))

RemoveAccount(c, i) ==
    If(/\ i \in AccountsOf(c) /\ AccountsOf(c) # {i} /\ c.password # i,
       [c EXCEPT !.accounts[i] = None,
                 !.migration = IF @ = i THEN None ELSE @])

SetMigrationOwner(c, i) ==
    If(i \in AccountsOf(c) /\ AccountMode(c), [c EXCEPT !.migration = i])

(* A single owner becomes a list of accounts, in one write. *)
ConvertToAccounts(c, accounts, password, migration) ==
    LET new == [c EXCEPT !.owner = None, !.telegram = "unset",
                         !.accounts = accounts, !.password = password,
                         !.migration = migration]
    IN If(~AccountMode(c) /\ (c.heartbeat => TelegramEnabled(new)), new)

SetTelegramEnabled(c, on) == {[c EXCEPT !.telegram = IF on THEN "on" ELSE "off"]}

SetHeartbeat(c, on) ==
    If(on => TelegramEnabled(c), [c EXCEPT !.heartbeat = on])

SetGoogle(c, on) == {[c EXCEPT !.google.on = on]}
SetExpectedGoogleEmail(c, given) == {[c EXCEPT !.google.email = given]}

SetProvider(c, p, kind) == {[c EXCEPT !.providers[p] = kind]}

SetModelAlias(c, a, p, routed) ==
    {[c EXCEPT !.aliases[a] = [provider |-> p, routed |-> routed]]}

SetImageModel(c, a) == {[c EXCEPT !.image = a]}

RemoveModelAlias(c, a) ==
    If(a \in Named(c) /\ c.image # a, [c EXCEPT !.aliases[a] = None])

(* catalog, listed and seen are for the properties: the server came from a *)
(* plugin, the owner wrote an include list by hand, and the tools the      *)
(* owner saw at the last review.                                           *)
Server(auth, review) ==
    [auth |-> auth, stdio |-> FALSE, enabled |-> FALSE, review |-> review,
     include |-> {}, exclude |-> {}, gated |-> {},
     catalog |-> review, listed |-> FALSE, seen |-> {}]

SetMCPServer(c, auth, enabled) ==
    LET server == IF c.server = None THEN Server(auth, FALSE) ELSE c.server
    IN If(~server.stdio /\ ~(enabled /\ server.review),
          [c EXCEPT !.server = [server EXCEPT !.auth = auth, !.enabled = enabled]])

SetMCPServerEnabled(c, enabled) ==
    If(c.server # None /\ ~(enabled /\ c.server.review),
       [c EXCEPT !.server.enabled = enabled])

RemoveMCPServer(c) == If(c.server # None, [c EXCEPT !.server = None])

AddMCPServerDisabled(c) ==
    If(c.server = None, [c EXCEPT !.server = Server("oauth", TRUE)])

(* What a review allows: never wider than the include list that is there. *)
Allowed(server, reviewed) ==
    {t \in reviewed \ server.exclude : server.include = {} \/ t \in server.include}

SetMCPServerApproval(c, enabled, gated, reviewed) ==
    LET server == c.server
        allowed == Allowed(server, reviewed)
        kept == [server EXCEPT !.enabled = enabled, !.gated = gated \cap allowed]
    IN If(/\ server # None /\ ~server.stdio /\ gated \subseteq reviewed
          /\ enabled => allowed # {},
          [c EXCEPT !.server =
              IF enabled THEN [kept EXCEPT !.include = allowed, !.review = FALSE,
                                           !.seen = reviewed]
              ELSE kept])

Bools == BOOLEAN
SomeSender == Senders \cup {NoSender}

(* Every document that some setter, called from some surface, makes of c.  *)
(* The panel lets Telegram be switched on only if its secrets are there.   *)
AccountEdits(c) ==
    UNION ({LinkTelegramAccount(c, i, s) : i \in Ids, s \in Senders}
      \cup {UnlinkTelegramAccount(c, i) : i \in Ids}
      \cup {AddAccount(c, i, s) : i \in Ids, s \in SomeSender}
      \cup {EditAccount(c, i, s) : i \in Ids, s \in SomeSender}
      \cup {RemoveAccount(c, i) : i \in Ids}
      \cup {SetMigrationOwner(c, i) : i \in Ids}
      \cup {ConvertToAccounts(c, [j \in Ids |-> IF j = i THEN [sender |-> s] ELSE None], i, i)
                : i \in Ids, s \in SomeSender}
      \cup {SetTelegramEnabled(c, on) : on \in {b \in Bools : b => "telegram" \in env}}
      \cup {SetHeartbeat(c, on) : on \in Bools})

ModelEdits(c) ==
    UNION ({SetGoogle(c, on) : on \in Bools}
      \cup {SetExpectedGoogleEmail(c, given) : given \in Bools}
      \cup {SetProvider(c, p, kind) : p \in Providers, kind \in {"openrouter", "other"}}
      \cup {SetModelAlias(c, a, p, r) : a \in Aliases, p \in Providers, r \in Bools}
      \cup {SetImageModel(c, a) : a \in Aliases \cup {None}}
      \cup {RemoveModelAlias(c, a) : a \in Aliases})

ServerEdits(c) ==
    UNION ({SetMCPServer(c, auth, on) : auth \in {"oauth", "bearer-env"}, on \in Bools}
      \cup {SetMCPServerEnabled(c, on) : on \in Bools}
      \cup {RemoveMCPServer(c), AddMCPServerDisabled(c)}
      \cup (IF c.server = None THEN {}
            ELSE {SetMCPServerApproval(c, on, gated, reviewed) :
                    on \in Bools, gated \in SUBSET Tools, reviewed \in SUBSET Tools}))

Edited(c) == AccountEdits(c) \cup ModelEdits(c) \cup ServerEdits(c)

-----------------------------------------------------------------------------
(* The first document: a single owner, or accounts. *)

Legacy(s) ==
    [owner |-> [sender |-> s], accounts |-> [i \in Ids |-> None],
     password |-> None, migration |-> None, telegram |-> "unset",
     heartbeat |-> FALSE, google |-> [on |-> FALSE, email |-> FALSE],
     providers |-> [p \in Providers |-> "openrouter"],
     aliases |-> [a \in Aliases |->
        IF a = Default THEN [provider |-> CHOOSE p \in Providers : TRUE, routed |-> FALSE]
        ELSE None],
     image |-> None, server |-> None]

WithAccounts(i, s) ==
    [Legacy(None) EXCEPT !.owner = None, !.password = i,
                         !.accounts[i] = [sender |-> s]]

ByHand == [Server("oauth", FALSE) EXCEPT !.include = Tools, !.listed = TRUE]

Idle == [pc |-> "idle", base |-> None, new |-> None]

Init ==
    /\ \E s \in SomeSender, i \in Ids :
        file \in {Legacy(s), WithAccounts(i, s),
                  [Legacy(s) EXCEPT !.server = [Server("oauth", FALSE) EXCEPT !.stdio = TRUE]],
                  [Legacy(s) EXCEPT !.server = ByHand]}
    /\ env \in {{"key"}, {"key", "telegram", "bearer"}}
    /\ Loads(file)
    /\ lock = None
    /\ job = [w \in Writers |-> Idle]
    /\ text = None /\ setter = FALSE /\ writes = 0

Goes(w, j) == job' = [job EXCEPT ![w] = j]

(* filelock.With, then LoadDocument. *)
Lock(w) ==
    /\ job[w].pc = "idle" /\ lock = None /\ writes < MaxWrites
    /\ lock' = w
    /\ Goes(w, [Idle EXCEPT !.pc = "locked"])
    /\ UNCHANGED <<file, env, text, setter, writes>>

(* Defect: the document is loaded before the lock is taken. *)
LoadUnlocked(w) ==
    /\ job[w].pc = "idle" /\ writes < MaxWrites
    /\ Goes(w, [pc |-> "loaded", base |-> file, new |-> None])
    /\ UNCHANGED <<file, env, lock, text, setter, writes>>

Load(w) ==
    /\ job[w].pc = "locked"
    /\ Goes(w, [pc |-> "loaded", base |-> file, new |-> None])
    /\ UNCHANGED <<file, env, lock, text, setter, writes>>

(* apply and Validate; what is refused is not written. *)
Apply(w) ==
    /\ job[w].pc = "loaded"
    /\ \E new \in Edited(job[w].base) :
        /\ Valid(new)
        /\ Goes(w, [job[w] EXCEPT !.pc = "staged", !.new = new])
    /\ UNCHANGED <<file, env, lock, text, setter, writes>>

Refuse(w) ==
    /\ job[w].pc \in {"locked", "loaded", "staged"}
    /\ lock' = None
    /\ Goes(w, Idle)
    /\ UNCHANGED <<file, env, text, setter, writes>>

(* writeFileAtomic: the rename is the write. *)
Rename(w) ==
    /\ job[w].pc = "staged"
    /\ file' = job[w].new
    /\ setter' = (job[w].base # None)
    /\ writes' = writes + 1
    /\ lock' = None
    /\ Goes(w, Idle)
    /\ UNCHANGED <<env, text>>

(* The raw editor shows the document without the lock. *)
ReadConfigText ==
    /\ text = None
    /\ text' = file
    /\ UNCHANGED <<file, env, lock, job, setter, writes>>

(* ReplaceConfig: the text as it was read, with a change to it, written as *)
(* it stands if LoadConfig takes it.                                       *)
ReplaceConfig(w) ==
    /\ job[w].pc = "locked" /\ text # None
    /\ \E new \in {text} \cup SetHeartbeat(text, TRUE) \cup SetGoogle(text, TRUE) :
        /\ Loads(new)
        /\ Goes(w, [pc |-> "staged", base |-> None, new |-> new])
    /\ text' = None
    /\ UNCHANGED <<file, env, lock, setter, writes>>

(* A process dies: the kernel frees its lock. *)
Crash ==
    /\ lock # None
    /\ Goes(lock, Idle)
    /\ lock' = None
    /\ UNCHANGED <<file, env, text, setter, writes>>

Next ==
    \/ \E w \in Writers :
        \/ Lock(w) \/ Load(w) \/ Apply(w) \/ Refuse(w) \/ Rename(w)
        \/ ReplaceConfig(w)
    \/ ReadConfigText
    \/ Crash

Spec == Init /\ [][Next]_cfgVars

-----------------------------------------------------------------------------
(* Properties *)

TypeOK ==
    /\ Valid(file)
    /\ lock \in Writers \cup {None}
    /\ \A w \in Writers : job[w].pc # "idle" => lock = w
    /\ setter \in BOOLEAN /\ writes \in 0..MaxWrites

(* A setter never writes over what another writer has written since it     *)
(* loaded the document.                                                    *)
NothingOverwritten ==
    \A w \in Writers :
        job[w].pc = "staged" /\ job[w].base # None => job[w].base = file

(* A server that came from a marketplace plugin runs only after a review,  *)
(* and with no tool the owner has not seen in one, whatever edits, removals*)
(* and restored texts lie in between.                                      *)
OnlyReviewedTools ==
    file.server # None /\ file.server.catalog /\ file.server.enabled =>
        file.server.include # {} /\ file.server.include \subseteq file.server.seen
=============================================================================

------------------------------ MODULE Cutover ------------------------------
(***************************************************************************)
(* The offline cutover from Google Sign-In to local accounts               *)
(* (cmd/eggyd/migrate_login.go, config/local_accounts.go and the auth half *)
(* of storage/sqlite): it backs up config.yaml and eggy.db, upgrades the   *)
(* database, rewrites the config, and records its phase in the database,   *)
(* so that a run that dies resumes where it stopped.                       *)
(*                                                                         *)
(* Between two runs the owner may edit the config, put the backup back or  *)
(* move a backup aside; the daemon starts only when both sides agree.      *)
(***************************************************************************)
EXTENDS Naturals, FiniteSets

CONSTANTS
    Accounts,      \* the accounts --password-account may name
    MaxRuns, MaxOwnerSteps, MaxLogins,
    None

VARIABLES
    document,      \* config.yaml: its text, the login shape, the binding
    configCopy,    \* the backup of config.yaml, or None
    database,      \* eggy.db: version, marker, credential rows; or None
    databaseCopy,  \* the backup of eggy.db: None, "partial", "before", "after"
    logins,        \* the sessions: Google, or the number of a local login
    run,           \* the command that runs: its step, account and plan
    daemon,        \* eggyd serves
    source,        \* the document the last rewrite started from
    upgraded,      \* a run of the command has upgraded the database
    issued, runs, ownerSteps

cutoverVars == <<document, configCopy, database, databaseCopy, logins, run, daemon,
                 source, upgraded, issued, runs, ownerSteps>>

LocalAuthVersion == 10
Google == 0

Documents == [text : 0 .. MaxOwnerSteps, local : BOOLEAN, bound : Accounts \cup {None}]
Markers == [phase : {"prepared", "database_ready", "complete"}, digest : Documents]

Init ==
    /\ document \in {d \in Documents : d.text = 0 /\ d.bound = None /\ ~d.local}
    /\ configCopy = None /\ databaseCopy = None
    /\ database \in {None, [version |-> 9, marker |-> None, rows |-> {}]}
    /\ logins = IF database = None THEN {} ELSE {Google}
    /\ run = None /\ daemon = FALSE /\ source = None /\ upgraded = FALSE
    /\ issued = 0 /\ runs = 0 /\ ownerSteps = 0

At(pc) == run # None /\ run.pc = pc
Goes(pc) == run' = [run EXCEPT !.pc = pc]
Ends == run' = None
Counters == UNCHANGED <<issued, runs, ownerSteps>>

-----------------------------------------------------------------------------
(* The owner, between two runs of either program, and the daemon           *)

Idle == run = None /\ ~daemon /\ ownerSteps < MaxOwnerSteps /\ ownerSteps' = ownerSteps + 1

(* The owner may write the new shape by hand as well.                      *)
EditConfig(local, bound) ==
    /\ Idle /\ (bound # None => local)
    /\ document' = [text |-> ownerSteps + 1, local |-> local, bound |-> bound]
    /\ UNCHANGED <<configCopy, database, databaseCopy, logins, run, daemon, source, upgraded, issued, runs>>

RestoreConfig ==
    /\ Idle /\ configCopy # None
    /\ document' = configCopy
    /\ UNCHANGED <<configCopy, database, databaseCopy, logins, run, daemon, source, upgraded, issued, runs>>

(* The copy that an interrupted VACUUM INTO left is moved aside, or a      *)
(* whole one, which then is kept somewhere else.                           *)
MoveAside ==
    /\ Idle /\ databaseCopy = "partial"
    /\ databaseCopy' = None
    /\ UNCHANGED <<document, configCopy, database, logins, run, daemon, source, upgraded, issued, runs>>

(* requireLocalLoginShape and requireLocalLoginCutover: a config in the    *)
(* old shape, a database stamped before local auth and a cutover that is   *)
(* not complete are refused; a fresh database is stamped.                  *)
CutoverDone ==
    /\ database.version >= LocalAuthVersion
    /\ database.marker # None => database.marker.phase = "complete"

StartDaemon ==
    /\ run = None /\ ~daemon /\ document.local
    /\ \/ database = None
          /\ database' = [version |-> LocalAuthVersion, marker |-> None, rows |-> Accounts]
       \/ /\ database # None
          /\ CutoverDone
          /\ database' = [database EXCEPT !.rows = Accounts]
    /\ daemon' = TRUE
    /\ UNCHANGED <<document, configCopy, databaseCopy, logins, run, source, upgraded>> /\ Counters

StopDaemon ==
    /\ daemon /\ daemon' = FALSE
    /\ UNCHANGED <<document, configCopy, database, databaseCopy, logins, run, source, upgraded>> /\ Counters

Login ==
    /\ daemon /\ issued < MaxLogins
    /\ issued' = issued + 1 /\ logins' = logins \cup {issued + 1}
    /\ UNCHANGED <<document, configCopy, database, databaseCopy, run, daemon, source, upgraded, runs, ownerSteps>>

-----------------------------------------------------------------------------
(* eggyd --migrate-local-login --password-account a                        *)

(* PrepareLocalAccounts: what the rewrite would write must load, and a     *)
(* binding that is there must be the one named.                            *)
Preflight(a) == document.bound \in {None, a}

Rewritten(d, a) == [d EXCEPT !.local = TRUE, !.bound = a]

MigrateLocalLogin(a) ==
    /\ run = None /\ ~daemon /\ runs < MaxRuns
    /\ Preflight(a)
    /\ runs' = runs + 1
    /\ run' = [pc |-> IF database = None THEN "config" ELSE "marker",
               account |-> a, digest |-> document]
    /\ UNCHANGED <<document, configCopy, database, databaseCopy, logins, daemon, source,
                   upgraded, issued, ownerSteps>>

(* The command dies, is stopped, or refuses to go on.                      *)
Interrupted ==
    /\ run # None /\ Ends
    /\ UNCHANGED <<document, configCopy, database, databaseCopy, logins, daemon, source, upgraded>> /\ Counters

Record(phase) == database' = [database EXCEPT !.marker.phase = phase]
Nothing == UNCHANGED <<document, configCopy, databaseCopy, logins, daemon, source, upgraded>> /\ Counters

(* Copies without a marker are somebody else's: refused (Interrupted).     *)
NewMarker ==
    /\ At("marker") /\ database.marker = None
    /\ configCopy = None /\ databaseCopy = None
    /\ database' = [database EXCEPT !.marker = [phase |-> "prepared", digest |-> run.digest]]
    /\ Goes("resume")
    /\ Nothing

OldMarker ==
    /\ At("marker") /\ database.marker # None
    /\ Goes("resume")
    /\ Nothing /\ UNCHANGED database

(* A config that was edited since the marker was written is not the one    *)
(* the marker describes: refused (Interrupted).                            *)
SameConfig == run.digest = database.marker.digest

Resume ==
    /\ At("resume")
    /\ \/ database.marker.phase = "prepared" /\ SameConfig /\ Goes("copyConfig")
       \/ database.marker.phase = "database_ready" /\ Goes("config")
       \/ database.marker.phase = "complete" /\ Goes("config")
    /\ database' = IF database.marker.phase = "database_ready"
                   THEN [database EXCEPT !.rows = Accounts] ELSE database
    /\ Nothing

(* ensureConfigBackup: linked in place, so that it is there whole or not,  *)
(* and never over another; one that is there must match the digest.        *)
EnsureConfigBackup ==
    /\ At("copyConfig")
    /\ \/ configCopy # None /\ UNCHANGED configCopy
       \/ configCopy = None /\ configCopy' = document
    /\ configCopy' = database.marker.digest
    /\ Goes("copyDatabase")
    /\ UNCHANGED <<document, database, databaseCopy, logins, daemon, source, upgraded>> /\ Counters

(* VACUUM INTO writes the copy in place: one that died on the way is       *)
(* refused by the integrity check.                                         *)
BackupBegins ==
    /\ At("copyDatabase") /\ databaseCopy = None
    /\ databaseCopy' = "partial" /\ Goes("vacuum")
    /\ UNCHANGED <<document, configCopy, database, logins, daemon, source, upgraded>> /\ Counters

BackupEnds ==
    /\ At("vacuum")
    /\ databaseCopy' = IF database.version < LocalAuthVersion THEN "before" ELSE "after"
    /\ Goes("verify")
    /\ UNCHANGED <<document, configCopy, database, logins, daemon, source, upgraded>> /\ Counters

(* Faulty: a copy that is there is trusted.                                *)
BackupThere == databaseCopy # None

VerifyDatabaseBackup == databaseCopy = "before"

EnsureDatabaseBackup ==
    /\ \/ At("copyDatabase") /\ databaseCopy # None
       \/ At("verify")
    /\ VerifyDatabaseBackup
    /\ Goes("database")
    /\ Nothing /\ UNCHANGED database

(* MigrateLocalAuth: once, in one transaction that clears every session    *)
(* issued under the old login and stamps the version.                      *)
MigrateLocalAuth ==
    IF database.version >= LocalAuthVersion THEN UNCHANGED <<database, logins, upgraded>>
    ELSE /\ database' = [database EXCEPT !.version = LocalAuthVersion]
         /\ logins' = {} /\ upgraded' = TRUE

UpgradeDatabase ==
    /\ At("database")
    /\ MigrateLocalAuth
    /\ Goes("seed")
    /\ UNCHANGED <<document, configCopy, databaseCopy, daemon, source>> /\ Counters

SeedAccountAuth ==
    /\ At("seed")
    /\ database' = [database EXCEPT !.rows = Accounts]
    /\ Goes("ready")
    /\ Nothing

DatabaseReady ==
    /\ At("ready") /\ Record("database_ready") /\ Goes("config") /\ Nothing

(* MigrateLocalAccounts, under the lock of the config: the document as it  *)
(* is now is prepared again and rewritten; and the marker after it.        *)
MigrateLocalAccounts ==
    /\ At("config") /\ Preflight(run.account)
    /\ document' = Rewritten(document, run.account)
    /\ source' = IF document.local THEN source ELSE document
    /\ IF database = None \/ database.marker.phase = "complete" THEN Ends ELSE Goes("done")
    /\ UNCHANGED <<configCopy, database, databaseCopy, logins, daemon, upgraded>> /\ Counters

Complete == At("done") /\ Record("complete") /\ Ends /\ Nothing

Next ==
    \/ \E local \in BOOLEAN, bound \in Accounts \cup {None} : EditConfig(local, bound)
    \/ RestoreConfig \/ MoveAside
    \/ StartDaemon \/ StopDaemon \/ Login
    \/ \E a \in Accounts : MigrateLocalLogin(a)
    \/ Interrupted \/ NewMarker \/ OldMarker \/ Resume
    \/ EnsureConfigBackup \/ BackupBegins \/ BackupEnds \/ EnsureDatabaseBackup
    \/ UpgradeDatabase \/ SeedAccountAuth \/ DatabaseReady
    \/ MigrateLocalAccounts \/ Complete

Spec == Init /\ [][Next]_cutoverVars

-----------------------------------------------------------------------------
(* Types of the state of one home.                                         *)
TypeOK ==
    /\ document \in Documents /\ configCopy \in Documents \cup {None}
    /\ database # None => /\ database.version \in {9, LocalAuthVersion}
                          /\ database.marker \in Markers \cup {None}
                          /\ database.rows \subseteq Accounts
    /\ databaseCopy \in {None, "partial", "before", "after"}
    /\ logins \subseteq {Google} \cup (1 .. MaxLogins)
    /\ daemon \in BOOLEAN

(* Nothing of an existing home is changed before there is a way back: once *)
(* the sessions are cleared, and the config is rewritten after that, both  *)
(* copies are whole and of before the cutover, whatever run died where.    *)
WayBack == upgraded => configCopy = database.marker.digest /\ databaseCopy = "before"

(* Nobody is signed out twice: a session that a local login got is never   *)
(* cleared by a rerun, and no session from before the cutover is left when *)
(* the daemon serves.                                                      *)
SignedOutOnce ==
    /\ 1 .. issued \subseteq logins
    /\ daemon => Google \notin logins /\ document.local
                   /\ database.rows = Accounts
=============================================================================

# A verification development of eggy

eggy is a personal assistant: one daemon (`cmd/eggyd`) serves the accounts of a
household over chat channels and a web panel, runs an LLM agent with tools for
them, asks them before it does what needs consent, runs scheduled jobs and a
heartbeat, and lets extensions run coding agents, install skill packs and keep
finances. This directory holds TLA+ specifications of the parts of it in which
order, failure and concurrency decide whether it is correct, the TLC
configurations that check them on small instances, and TLAPS proofs of the most
important theorems for every value of the constants.

Paths below are relative to `src/internal/` unless they start with `src/`.

## 1. The system

| Component | State it keeps | Operations | Interacts with |
|---|---|---|---|
| Admission, `core/services/turns.go` | map of entries per (account, conversation); per entry a FIFO of waiters, the active turn (generation, steerable, stopping, inbox), a preparing flag and a reference count | `Admit`, `Pending`, `Release`, `Stop`, `Active` | called by every turn; `/stop` from any surface |
| Turn run, `core/turns/run.go` | the input, the steers returned, the outcome | `run`: command, admit, prepare, loop, record, deliver, follow up | admission, agent loop, conversation store, channels |
| Agent loop, `core/agent/loop.go`, `compaction.go` | the live window of a turn | one step: boundary, steers, fit, model call, tool calls | model, tools, admission's inbox |
| Model settings, `core/services/agent_runtime.go`, `commands`, `panel/agent.go` | the alias and effort of an account, the catalogue of models | switch, add, test | every turn, the model client |
| Approvals, `core/services/approval_service.go`, `approval_gate.go`, `core/turns/approval.go` | approvals and the approval mode, in the account's state | `Request`, `Decide`, `Authorize`, `ExecuteApproved`, `SetMode` | gated tools, taps on surfaces, Google's generation |
| State store, `storage/sqlite/state.go` | a versioned state per account | `Load`, `Update` (compare-and-set) | approvals, dispatcher, model settings |
| Scheduler, `schedule/local/scheduler.go` | rows of `schedules` (enabled, next, last and pending run) | `Due`, `Complete`, `Fail`, `Disable`, `Recover`, `Add`, `Cancel` | the daemon's minute tick |
| Dispatcher, `core/services/dispatcher.go` | ledger of processed events, with a retention | `Handle` | scheduler, webhooks, channels |
| Daemon, `bootstrap/run.go`, `events.go`, `heartbeat.go`; supervisor, `src/cmd/eggyd/main.go` | event queue of 64, single-shot clock, restart request, setup and safe mode | start, tick, publish, drain, restart | everything |
| Web chat, `channel/webchat`, `panel/chat.go` | subscribers with bounded buffers; a browser's pane | send, stream, keep alive, revoke, reload | turn run, sessions |
| Telegram, `channel/telegram`, `commands/menu.go` | albums with timers, questions with buttons, drawn menus | webhook, album, ask, tap, redraw | event queue, turn run, settings |
| Discord, `channel/discord` | known direct messages, the progress line of a turn | receive, deliver | configuration's links, turn run |
| MCP client, `mcp/manager.go`, `oauth.go` | a server's session, catalogue, breakers; its OAuth record | connect, repair, refresh, call; login, exchange, renew, logout | tools of a turn |
| Google, `google` | one sealed grant with tokens, identity and number; calendar calls | login, exchange, disconnect, borrow, verify; respond, move | approvals, guests' calendars |
| Coding-agent runs, `extensions/agentrunner` | rows of runs with a status and a revision, cancel functions, the workspace of a coding turn | start, execute, ask and answer, cancel, publish, reconcile; read, edit, check | sandbox, git, GitHub, account state |
| Marketplace, `extensions/marketplace`; skills, `skills/store.go` | an item's install record, written skills and servers; a skill's files | install, update, remove, resync; create, replace, repair | configuration, MCP client |
| Repository workspaces, `core/services/repo` | the checkout a thread is bound to | open, replace, close, destroy, reap | threads, panel |
| Accounts, `auth`, `panel`, `storage/sqlite` | members, credentials, sessions, login and identity links | set up, sign in, change, reset, remove, link | panel, channels, configuration |
| Configuration, `config` | `config.yaml` | locked read, edit, validate, atomic write; first file, upgrades | panel, daemon, commands |
| Home, `home`, `storage/sqlite`; cutover, `src/cmd/eggyd/migrate_login.go` | the files and rows of an older eggy; the phase of the cutover | import, name an owner, move documents; back up, upgrade, rewrite, resume | start of the daemon |
| Finance, `extensions/finance` | the ledger of an account | add, edit, delete, report | tool, panel |
| Documents, `context/markdown`; traces, `core/services/trace.go` | an account's Markdown documents; the traces of its turns | edit, replace; begin, step, complete, prune | turns, panel |

What is hard in it:

* *Concurrency.* Each inbound message, tap, `/stop`, scheduled job, heartbeat and
  panel request is a goroutine. Messages of one conversation meet in the
  admission; everything of one account meets in the versioned state store, where
  the loser of a race gets a version conflict at one of several places. Files
  are shared with the owner's editor and with commands in other processes.
* *Two-phase decisions.* Admission decides under a lock, prepares without it and
  publishes under it again; approvals read a generation, load, update and only
  then run a tool; jobs are claimed, run and acknowledged in three transactions;
  a log-in verifies a password and inserts its session later; an OAuth login
  waits for the owner between its two halves.
* *Failure.* The daemon is restarted by its supervisor after a crash. What a run
  left behind (claims, ledger entries, consumed approvals, half-replaced skills,
  half-migrated homes) is found by the next.
* *The outside world.* Telegram calls again until it is answered, GitHub's answer
  to a push that was made may be lost, guests answer an invitation while Eggy
  does, an MCP server moves to another authorization server.
* *Order and progress.* Steers that come too late become follow-ups; waiters are
  woken only by whoever leaves; a claim that nobody ends silences its job; a
  clock that nobody arms again silences the heartbeat.

The hazards are listed in `PROJECT.json` under `hazards`, each at its line, with
the property that covers it or the reason why none does. What makes each
component correct is stated beside its runs in section 3.

## 2. The modules

Each component is a module with its own variables, `Init`, actions and `Next`.
The MC modules put components that share no state side by side in one run (see
section 3); `TurnRun` composes with `Conversations`, which `ActiveTurns` refines.

| MC module | Components |
|---|---|
| `MCActiveTurns` | `ActiveTurns` against `Conversations` |
| `MCTurns` | `TurnRun`, `ActiveTurns`, `Schedules`, `Daemon`, `WebChat`, `Window`, `Settings` |
| `MCCode` | `AgentRuns`, `CodingTurn`, `Installs`, `SkillFiles`, `Workspaces` |
| `MCChannels` | `McpServers`, `McpLogin`, `Google`, `CalendarEvents`, `Telegram`, `Discord`, `Menus` |
| `MCHome` | `Approvals`, `ConfigFile`, `ConfigBoot`, `HomeMigration`, `Cutover`, `Accounts`, `Finance`, `Documents`, `Traces` |

### Conversations: what admission promises

`Conversations.tla` is the abstract specification. A conversation has at most
one running execution and an inbox. A call asks, and is refused, begins an
execution if there is none, or joins the one that is taking steers. The owner
reads the inbox any number of times, ends the execution and gets back what it
has not read; a stop makes the execution take no more. It does not know about
locks, entries, queues or generations.

### ActiveTurns: admission as it is coded

`ActiveTurns.tla` models `services.ActiveTurns`. Every critical section is one
action, in the order of the code, so all interleavings of the goroutines are
those of the actions.

| Variable | Code |
|---|---|
| `entries` | `ActiveTurns.entries`; `None` for a missing key |
| `heap`, `fresh` | the `turnEntry` values by address. A key that was dropped and is used again takes a fresh address while old callers still hold the old one |
| `pc`, `entry`, `owner`, `generation`, `granted` | the program counter and locals of each `Admit`, the `ready` channel of its waiter |
| `drained`, `returned` | what `Pending` and `Release` have returned to an owner |
| `stopPc`, `stopEntry` | each `/stop` |

`StoreAndGrant` is the end of every `entry.mu` section: store the entry and grant
the next waiter if it may go. `prepare` is everything between `DecideOwner` and
the publication. `Release` is called twice by every turn, as in `turns.run`.
Cancelling a context, an error of `prepare` and `/stop` may come at any point the
code looks at them.

### TurnRun, Window, Settings: one turn

`TurnRun.tla` models `turns.Service.run` over `Conversations` (INSTANCE): the
command short cut, admission, the refusal of unsupported parts, the agent loop's
step boundaries (`ctx.Err`, then the inbox, then the model), its runaway guard,
recording and delivery, and the follow-up turn made of steers that were never
read, which goes through the same admission and may join yet another turn. A
message is named by the call that brought it; `carried` is the input of a call,
`log` the conversation's stored messages, in order.

`Window.tla` is what the loop holds in one turn: a live window of messages known
by their sizes, folded into a summary when it passes its budget, clamped when
that is not enough, retried after the provider refuses it, with steers joining at
step boundaries. `Settings.tla` is one account's choice of model and effort, its
writers on four surfaces and a turn that reads the alias, builds the model and
reads the effort in separate steps.

### Approvals: consent over a versioned store

`Approvals.tla` models one account. `current` holds the writers whose loaded
version is still the store's: `Loads` adds one, every commit empties it, and a
writer that is not in it meets `ErrStateVersionConflict`. Calls, taps and mode
changes interleave freely, with expiry, reconnects of the shared integration and
a crash of the daemon between any two steps. The tap that decides an approval is
the one that goes on to authorize it, so a status other than approved cannot meet
`Authorize`; its check for that is not an action.

### Schedules and Daemon: what runs by itself

`Schedules.tla` models the scheduler's rows, the daemon's tick that claims due jobs
and hands them to workers, the dispatcher's ledger, and the acknowledgement, with
a daemon that dies and is restarted, acknowledgements the store does not take,
cancellations, accounts that are removed from the configuration, and other
writers of the account's state that make the ledger's compare-and-set fail.

`Daemon.tla` models the process around it: setup mode until the configuration is
complete, safe mode after a start that failed, the loop over a bounded queue of
events and a single-shot heartbeat clock that its consumer arms again (or defers
while a turn is active, outside the hours, or paced), and the restart that drains
what runs, closes the stores and starts over from the `config.yaml` of that moment.

### AgentRuns and CodingTurn: coding runs and their pull requests

`AgentRuns.tla` models the rows of one account's runs over their revision
compare-and-set (`current` holds the actors whose copy is the stored row), the
owner's operations (`Start` in its two halves, `Cancel`, `Answer`,
`DisconnectPAT`, `SetRepositoryEnabled`, `Delete`, `Credentials.Set` and
`Refresh`), each split where it reads and writes, and the one worker: recovery
at the start of the daemon, expiry, taking the oldest queued run, cloning, the
coding turn (one step), and publication stage by stage, with GitHub's branches
and pull requests as state of their own. A push or a pull request may fail
before or after it was made. The daemon dies anywhere; a write of a row, a probe
or an announcement may fail (`WorkerError`), which ends the drain and leaves the
row. `pc` is where the worker is, `duty` whether it reconciles or drains. Loading
and saving the token in `Set` and `Disconnect` is one step each.

`CodingTurn.tla` is the coding turn itself: files as lines with their endings, reads
in pages, edits of several replacements that are matched with folded quotes and
applied from the back, checks whose findings go to the next leg, and the request
that is made of the workspace in the end.

### McpServers and McpLogin: one remote server

`McpServers.tla` models one server of `mcp.Manager` that is enabled, uses OAuth and
supports parallel calls. Sections under `Manager.mu` are one step, network calls
lie between them, and `repairing` is `repairMu`. `Boot` is `NewManager`, which
connects without `repairMu`; `Repairs` are reloads, `tools/list_changed`
notifications, probes, logins and logouts; `Turns` read the catalog, wrap its tools
(the provider in `bootstrap/app.go`) and call them through `callGate`, which may
repair the session too. `open` is the set of sessions that have not been closed,
`found` the session an actor has in hand, `outcome` what it will install. An
approved call is made in the turn that asked for it. Missing are closing at the
end of the process, previews, and collisions between servers.

`McpLogin.tla` is the grant of that server: discovery of the issuer, registration of
a client there, the redirect that comes back by the callback or by pasting, the
exchange, tokens that requests renew and write back, and logout. Logins take the
provider's mutex, requests and logouts do not.

### Google and CalendarEvents

`Google.tla` is the one grant all accounts use: its record with tokens, the
identity they were verified to belong to and the number of the connection; logins
and disconnects under a mutex, and calls that borrow the token, renew it, verify
it and write it back. `CalendarEvents.tla` is one event which guests and its owner
change at Google while a call of Eggy is between its read and its write.

### Telegram, Menus, Discord, WebChat: the channels

`Telegram.tla` is the webhook, which is called again until it is answered with a
2xx, an album gathered by a timer, questions asked with buttons, and the bounded
queue they all go to. `Menus.tla` is the registry that turns a tap into one action
and redraws the menu. `Discord.tla` is intake on a goroutine per message and the
delivery of a reply in parts, with identity links that change between any two
steps. `WebChat.tla` is the hub with its bounded buffers, the stream's handler and
its re-validation, and the pane a browser makes of history and events.

### Installs, SkillFiles, Workspaces, Documents: files with other writers

`Installs.tla` is one marketplace item between its own operations and the owner, who
edits, deletes and enables what it has written. `SkillFiles.tla` is one skill as a
flat file or a directory, replaced by staging and two renames, with deaths between
them and the listing that repairs. `Workspaces.tla` is a thread's checkout between
concurrent calls of one step, the reaper, the panel and restarts. `Documents.tla`
is one Markdown document, read and replaced under the lock of its file.

### ConfigFile, ConfigBoot, HomeMigration, Cutover: what a start finds

`ConfigFile.tla` is `config.yaml` under its setters, from two processes, with the
rules a document must pass. `ConfigBoot.tla` is where a configuration comes from and
what upgrades, defaults and writes make of it. `HomeMigration.tla` is the boot of a
home from before accounts existed. `Cutover.tla` is the offline command that moves
from Google Sign-In to local accounts, with its backups and its phase record.

### Accounts, Finance, Traces

`Accounts.tla` is membership (in the configuration), credentials, sessions and the
two kinds of link (in the database) under requests that read, work outside every
lock and commit. `Finance.tla` is the ledger with its two surfaces and the month's
page, put together from several reads. `Traces.tla` is the traces of several
accounts' turns, with retention and with turns that outlive their trace.

## 3. What the runs check

Four of the six passing runs hold several components that share no state. Their
MC module is the disjoint sum of them: `focus` is chosen in the initial state and
names the component that takes the steps, and the variables of the others stay
at rest. Such a run explores for each component exactly what a run of its own
would, and says `focus = "x" => ...` where a property is about one of them.

`active_turns` (3 inputs, 1 `/stop`, 1 conversation, 3 addresses)

* `OneOwner`: a conversation has one running execution.
* `DecisionHolds`: what a caller decided before it prepared is still so when it
  publishes, whatever `/stop`, releases and cancellations do in between.
* `EntriesSafe`: nobody who waits is forgotten when the entry is free or overtaken
  by a later waiter, an accepted steer is in exactly one place, `Active()` counts
  the executions, and whoever uses an entry has the one of the map.
* `ImplementsConversations`: it refines the abstract specification.

`turns_and_daemon` (3 messages of which one is scheduled, 2 follow-ups; 2 jobs, 2
workers, 1 crash, 1 fault; 2 events with a queue of 1, 2 edits of the configuration;
1 tab, 2 threads, a buffer of 2; windows of up to 5 steps and 3 steers; 2 models)

* `EachOnce`, `NothingLost`: a message is worked on by one turn and recorded once, a
  scheduled turn carries nothing else; and what joined a turn that ran its loop is
  in its answer or in a follow-up.
* `JobsSafe`: a claimed run is in the hands of one worker and never in nobody's, a
  job advances only past a run that was delivered, a recorded run is not handled
  again while the ledger keeps it.
* `DaemonSafe`: the single-shot clock is armed or somebody is about to arm it, no turn
  outlives the stores, no stream's channel is closed twice or sent to afterwards.
* `RequestsSafe`: what the owner said last during a turn is in its next request word
  for word, every call in a request has its results, a request fits the allowance,
  and no image goes to a model that is known not to read it.

`progress` (the same components on smaller instances, under fairness)

* `EveryMessageSettles`, `EventuallyAnswered`: every message is answered, refused or
  taken over by a follow-up; every waiter and every `/stop` gets its answer.
* `ClaimsEnd`: a claimed job is acknowledged or its acknowledgement has failed.
* `RestartHappens`: an accepted restart takes place: the drain waits for nothing that
  ends only with the daemon.
* `RevokedStreamEnds`: the stream of a revoked session closes, although nothing is
  sent on it.

`code_and_skills` (2 runs, 1 operation, 1 question, 1 upset; two files, six calls of
the edit tool, 3 calls, 3 legs; 1 skill and 1 server with 3 contents; 2 versions of
a skill, 1 crash; 2 checkouts, 2 concurrent calls, 1 restart)

* `PublishesSafely`: a run opens one pull request, a stage is recorded before its
  effect, a completed run has been announced, a run uses the token it started
  with, and what has finished stays so.
* `RunningIsWorkedOn`: a run that is stored as running is the one the worker has, so
  that it can be cancelled, unless the daemon is down; claimed of behaviours in
  which no write of a row has failed.
* `CodingSafe`: the edits of one call land where their old text was when the call
  began, a read that is followed to its end shows every line, findings reach the
  next leg, and the pull request holds the workspace.
* `InstallsSafe`: what the owner has edited or deleted of an item stays so, a server
  runs only where the owner has switched it on, and an operation that fails puts
  back what it changed.
* `SkillsSafe`: a reader never gets a skill of which a file is missing, and what an
  interrupted replacement leaves becomes the old skill or the new one.
* `BindingIsThere`: the checkout a thread is bound to is on the disk.

`outside_world` (2 turns, 2 repairs, 2 sessions of one server; 2 issuers, 3 logins, 2
requests; 2 borrowed tokens, 2 logins of Google; 2 guests, 2 calendar calls; an
album of 2 photos, 1 question with 2 taps, a queue of 1; 2 Discord users, 3 lines;
2 presses, 3 menus)

* `SessionsSafe`: a session is known to its server until it is closed, one repair
  runs at a time, a cooldown has a cause, the catalog is that of a session that
  serves it.
* `LoginsSafe`: the client a login uses is registered with its issuer, and a login is
  finished once.
* `GrantSafe`: an exchange in progress does not land over a disconnect, and the number
  of the connection goes up whenever it is replaced or dropped.
* `GuestsSafe`: an answer to an invitation changes nobody else's answer; guests hear
  of a move.
* `TelegramSafe`: a question is answered once and waits until then whatever other
  calls fail, and an open album is on its way out.
* `MenusSafe`: a drawn menu is spent by one tap, and the automatic mode is set only
  from the menu that warns of it.
* `DiscordSafe`: nothing is sent into a direct message of a user who is not, at that
  moment, the account's own; no direct message is remembered as something else.

`home_and_state` (2 calls, 2 taps, 1 mode change, 1 reconnect, 1 crash; 2 writers
of a document with 2 accounts, 2 writes; 2 starts, 2 edits; 3 boots of an old home
with 2 documents; 4 runs of the cutover, 2 steps of the owner; 2 requests on 2
accounts; 1 ledger entry in batches of 2; 2 writers of a document of 2 entries; 2
owners of traces with 2 turns)

* `ApprovalsSafe`: an approved call runs at most once, after the owner's tap, under
  the connection that `Authorize` read; a refusal retires it; a verdict is final.
* `ConfigSafe`: a setter never writes over what another writer has written since it
  loaded the document; no plugin's server runs with tools nobody reviewed; the
  first document is made once, upgrades keep its meaning, a beat is put off to the
  opening of its hours, and what the editor accepts starts.
* `HomeSafe`: a daemon that serves shows the old history to an account that exists,
  no original document is lost, none written since is replaced.
* `CutoverSafe`: nothing is changed before both backups are whole, and nobody is
  signed out twice or stays signed in from before.
* `AccountsSafe`: no session or link is left of a credential that was changed or of a
  person who was removed, and a login link signs in one browser.
* `LedgerSafe`: an entry counts the amount last stated for it in its currency, an
  error means that nothing was written, no bar of a month exceeds its scale.
* `EditsAddUp`: a document says what the calls that were carried out make of it.
* `TracesSafe`: no step or image is left without its trace, and one account's turns
  do not age another's out.

Each sum also checks `SumTypeOK`, and `active_turns` `TypeOK`.

### Bounds

Conversations do not share entries, so one key is all that interferes; three
inputs give an owner, a waiter behind it and a third that arrives when the entry
is dropped and replaced (three addresses). Three messages and two follow-ups are
the least with which a follow-up joins a turn that was itself admitted behind the
first. Two taps on two approvals give every race on one record and every conflict
between two. Two jobs and two workers give two concurrent claims, and a clock of
two ticks a run, its retention and its successor; `MaxDeliveries` bounds how often
one unrecorded run may be retried. Two coding runs are one being worked on and one
queued, waiting or finished behind it; since every recovery starts from the stored
rows alone, one crash or one error at any point is what a second would meet again,
and `OneUpset` lets a behaviour have one of a new token, the end of a mandate, a
crash and an error. A session is lost only when two that are open at a time are
installed one over the other, which four repairers (two of them turns) and two
sessions allow. Two issuers and three logins are a move between two logins and
one more after it. A queue of one is full with one event, a buffer of two drops
the third. In Telegram a behaviour has late photos or questions
(`PhotosOrQuestions`): they share nothing but the queue, which each fills alone.
Two accounts are an owner and somebody else; two requests are every race of a
log-in with a change, a reset or a removal. Two writers of a file are both sides
of every lost update, and one crash at every step is every state a recovery can
find. A cutover of four runs dies in each phase and is resumed. What a larger
instance would add was not checked.

Symmetry sets are used in safety runs only, and only over values that the initial
state and the actions treat alike. Deadlock is checked in `active_turns`, where all
must be able to finish (`Quiescent`). It is not in the sums, whose components may
stop: the owner taps no more, a counter has reached its bound, a worker without
queued runs sleeps.

### Fairness

It is stated in `MCTurns`, per component and only while the behaviour is about it.
Of the turn: each invocation's own steps, since every call it makes has a timeout
and the loop has a runaway guard; a surface need not send, cancel or stop.
`LoopReplies` is not fair by itself: a model may ask for tools until the guard ends
it. Of admission: a caller inside a section gets the lock in the end. Of the
schedules: a worker's goroutine runs on, the tick comes again and the supervisor
restarts a daemon that died. Of the daemon: each case of its loop that stays ready
is taken, and a turn ends. Of the web chat: a stream's handler runs on and its
ticker ticks. All of it is weak fairness.

### Where the code and its documentation disagree

Six runs check a sentence of the repository that the code does not keep.

* `steer_dropped`: a turn that refuses its own attachment ends with a nil error
  and its deferred `Release` drops the steers that had joined it; the comment at
  `core/turns/run.go:20` says a late steer may never disappear.
* `approval_new_identity`: the integration's generation is read before the load, the
  update and the execution; a reconnect in between is missed, although the
  documentation says that nothing approved before it runs against the new identity.
* `publication_stuck`: a run is stored as publishing before its first stage is. If the
  daemon dies in between, `continuePublish` finds no stage, does nothing and returns
  nil: the run stays in publication at every later start, cannot be cancelled
  (nothing is registered) nor deleted (it is not finished), although `worker.go:167`
  says that reconcile resumes it.
* `mcp_gate_dropped`: a turn copies the catalog and asks for the gate of each tool
  afterwards. A disconnect or a refreshed catalog in between leaves a tool that
  requires an approval ungated for the turn, although the manager says that a
  reconnect can never drop a gate.
* `home_moves`: loading a document fills in the default `data_dir` and a setter writes
  the whole document back, so a home that lay beside its configuration is looked
  for in `/data` at the next start, although `config.go:591` says it stays there.
* `runs_as_a_person`: a verification that waited for the mutex writes the token it read
  before over the record of a login that finished meanwhile, so that calls run on a
  person's token under Eggy's address, although `google/oauth.go:62` says that tools
  refuse to run on such a grant.

More that the models show and no run demonstrates. A steer's attachment is not
checked against what the model takes, as the turn's own input is. A turn may call
a model with the effort chosen for another; the request is retried without it. A
job that is cancelled after its claim still runs once. Another write of the
account's state during a scheduled turn makes the ledger's compare-and-set fail, and
the run is delivered again, although `core/events/doc.go:3` promises exactly once.
`openPR` does not look at the mandate, although the documentation says that it is
re-checked before every pull request. A pull request whose answer was lost belongs
to a run that is recorded as failed; only a crash leads to its adoption. A logout
does not wait for `repairMu`, so a reconnect in flight installs its session after
it. A failing call that ends after a disconnect turns `login_required` into
`cooldown`, and the end of that cooldown into `ready`, although `refreshStateLocked`
never overwrites a state that describes the connection. A notification that arrives
while `NewManager` connects repairs a server nobody locks: the session that loses
stays open (`early` in the model), although `applyServerLocked` says that there is no
concurrency yet. A photo whose album could not be queued is lost, which the code
accepts. Events that were accepted and not handled are forgotten at a restart, also
those that Telegram was told were taken. A stream that is too slow misses events
until the page is loaded again.

## 4. What is proved

TLC decides small instances; the theorems below hold for every value of the
constants, and between them they state every invariant and every action property
that the passing runs check, and the refinement. Each proof module extends the
module it is about (`Approvals_proofs`, `McpServers_proofs`, `ActiveTurns_proofs`) or
the sum (`MCHome_proofs`, `MCTurns_proofs`, `MCChannels_proofs`, `MCCode_proofs`; the
last begins with `AgentRuns` by itself); `FoldTheorems` has the lemmas about folds,
sums and sequences that several of them need. A sum's module
proves an invariant of each component and joins them: `SumInv` says that the
component the behaviour is about (`focus`) has its invariant, `SumInductive` that
this holds in every reachable state, and the theorem of a property needs
nothing else. In every component the argument is the same: an inductive
invariant, one lemma that `Init` gives it, one step per action that keeps it, one
lemma that it implies the property. What differs is what has to be added to the
property to make it inductive:

| Theorem | Property | What makes it inductive |
|---|---|---|
| `ApprovalsAlwaysSafe` | `ApprovalsSafe` | What a tap has been told is what the record says (`TapInv`), one tap at a time is between the consumption of an approval and its execution (`OneConsumer`), and a record that is used has its consumer (`CallInv`). A writer in `current` has the stored record in hand, so of two consumers one commits and the other meets a conflict. |
| `RunningIsAlwaysWorkedOn`, `AlwaysPublishesSafely` | `RunningIsWorkedOn`, `PublishesSafely` | The worker's place determines the row's state unless the row was cancelled first (`WorkerInv`); GitHub follows from the stage, and the stage from the state (`StageInv`); the worker's place in a publication follows from the stage on record (`PlaceInv`). |
| `SessionsAlwaysSafe` | `SessionsSafe` | Whoever has taken a session under `repairMu` finds no other to replace (`HandInv`), and `NewManager`, which does not take it, is alone but for an early notification (`BootInv`). |
| `OneOwnerAlways`, `DecisionAlwaysHolds`, `EntriesAlwaysSafe`, `Refinement` | `OneOwner`, `DecisionHolds`, `EntriesSafe`, `ImplementsConversations` | See below, **Admission**. |
| `EachOnceAlways`, `NothingLostAlways` | `EachOnce`, `NothingLost` | See below, **Turns**. |
| `RequestsAlwaysSafe` | `RequestsSafe` | See below, **Requests**. |
| `JobsAlwaysSafe` | `JobsSafe` | A worker past the ledger's check found the run absent, past the delivery it was delivered, only a live daemon has workers (`RunsAreDue`), and an entry of the ledger is a delivery (`LedgerIsTrue`). |
| `DaemonAlwaysSafe` | `DaemonSafe` | The heartbeat is at exactly one of three places (`OneBeat`); what is still deferred says what is open and what may run (`Unwound`); a stream the hub still has is open (`ChatInv`). |
| `ConfigAlwaysSafe` | `ConfigSafe` | Only who holds the lock is past idle, what it loaded is what is there, and what it will write was validated and keeps the reviews, for every edit of every setter (`ConfigInv`); what the editor took still loads after each upgrade (`BootInv`). |
| `HomeAlwaysSafe` | `HomeSafe` | Rows of before belong to nobody or to the recorded account (`HistoryInv`); a document is in one place, and what `memories` holds once the copy is said to be complete some account has (`MovedInv`). |
| `CutoverAlwaysSafe` | `CutoverSafe` | The marker and the copies at each place of a run (`RunInv`), the database's version and who can be logged in (`UpgradeInv`). |
| `AccountsAlwaysSafe` | `AccountsSafe` | The number of a link is given once: no two links, requests or sessions of different links share one (`NumbersInv`). |
| `LedgerAlwaysSafe` | `LedgerSafe` | A row's amount is that of its last statement (`FinanceInv`); whatever was written between the reads of a page, what each of them added up is a number, of which a finite set has a largest one (`PageInv`, `AddsUp`, `LargestIs`). |
| `EditsAlwaysAddUp` | `EditsAddUp` | Who holds the lock will write what its call makes of the document that is there (`DocumentsInv`). |
| `TracesAlwaysSafe` | `TracesSafe` | Turns that have not begun have no row, so the newer rows of an account only grow (`TracesInv`). |
| `LoginsAlwaysSafe` | `LoginsSafe` | Who holds the mutex has a record whose pending login is not finished (`HandOfLogin`), and so has the store (`StoredLogin`). |
| `GrantAlwaysSafe`, `GuestsAlwaysSafe` | `GrantSafe`, `GuestsSafe` | Action properties: of the types and of what the call at hand has read. |
| `TelegramAlwaysSafe`, `DiscordAlwaysSafe` | `TelegramSafe`, `DiscordSafe` | A question waits until it is answered and a tap is given to one handler; what waits in the queue comes from a linked user. |
| `MenusAlwaysSafe` | `MenusSafe` | A tap that is not answered holds its menu alone: it is out of the registry and not redrawn (`HeldAlone`). |
| `CodingAlwaysSafe` | `CodingSafe` | See below, **Edits**. |
| `InstallsAlwaysSafe` | `InstallsSafe` | A name that the owner has not touched since is as it was or has a snapshot of what it was (`SnapshotsAreTrue`); where a name is the owner's own, an act on it takes only the marker (`OwnersWorkIsSafe`). |
| `SkillsAlwaysSafe` | `SkillsSafe` | What is in each of three places at each step of a replacement, and what the next listing will therefore find (`SkillsCalm`). |
| `BindingIsAlwaysThere` | `BindingIsThere` | A closer takes a checkout off the thread before it destroys it (`CloserIsSound`), and a checkout that is still to be attached is nobody else's (`PathIsOwn`). |

`TypeCorrect` (`Approvals`, `AgentRuns`, `McpServers`, `ActiveTurns`), `SumTyped`
(`MCHome`, `MCChannels`, `MCCode`) and `TypesAlwaysOK` (`MCTurns`) state the type
invariants the runs check. `MCTurns_proofs` instantiates `ActiveTurns_proofs` for
the entries: `EntriesStepTheSame` shows that the steps are the same, action by action.

**Admission.** That a conversation has one execution rests on three facts that
hold together. *References are counted*: the entry of everybody who is inside
`Admit` or `Stop` has at least as many references as there are such callers, so it
is not idle and stays in the map (the proof counts the holders of an entry as a
finite set). *Live turns are held*: a running execution's entry is the one its
key maps to, and its active turn has the generation of exactly that call. *One
preparation at a time*: whoever is granted and not yet published is the only one
in its entry, which is `preparing`, so the turn it looked at can neither be closed
nor be stopped. `EntriesSafe` adds that a live turn is
executed by a call that holds its entry and no entry is given to two keys
(`OwnedInv`), that an entry which prepares does it for somebody (`FlagInv`), that one
which is idle and still mapped has an owner about to remove it (`ReclaimInv`), and
that the inbox of an entry without a turn is empty, so nothing that is put there is
overwritten (`InboxInv`). `Refinement` is the step simulation on top of it: the
mapping's `CHOOSE` of an owner is the one call that executes (`TurnsAreRuns`); then an
arrival is `Ask`, giving up and a failed preparation `Refuse`, publishing an owner
`Begin`, publishing a steer `Join`, `Pending` is `Read`, `Release` `End`, and a /stop that
marks a turn `Stop`. Every other step, of the queue, the grants and the counting of
references, changes nothing that `Conversations` is about (`SilentViews`).

**Turns.** `TurnInv` says where a message can be. What admission made of a call
follows from where its turn is (`PlaceInv`); an inbox has joined calls only, and a
call that joined is in one inbox, or one turn has read it or got it back
(`JoinedInv`); the turn of a conversation is the one that runs in it (`RunningInv`).
The heart is `CarriedInv`: *every message is held by exactly one call*, which is its
own, or the follow-up that it was merged into, or the follow-up of that one. A
follow-up's list is a concatenation (`FlattenSeq`) of lists that have nothing in
common, so it has each message once, however often it is merged again. `EachOnce`
then says who works on a message: a turn, the ones it has read, and what they hold;
two of them would hold it twice. `NothingLost` follows backwards: when all is done the
holder is done, and each way to be done is one the property names. The log is told
by the place of the turn that writes it (`LogInv`).

**Requests.** `WindowInv` holds between requests, too, where the window is half
folded. *Every call has its results right behind it, at all times* (`Answered`): a fold
cuts before an assistant's message, and everything before the cut goes. *The owner's
messages are in the order in which they came, and the last one is there* (`InOrder`):
those that folds moved into the steering part come first, those in the tail
after them; a fold takes the tail's beginning, so what it moves goes between, and
`boundSteering` drops the oldest and never the last. *A request is not over its
allowance*: the check that precedes it looks at the same messages, and sizes of
concatenated lists add up (`CharsOfBoth`, over `SumTakes`). That the numbers of a
flattened list are those of its parts, in order, is `FlattenHas`.

**Edits.** `CodingSafe` says that the edits of one call, spliced in one after the
other from the last to the first, make of the file what they mean together
(`AsWritten`: every covered line is replaced at the place it had before the
call). `SplicedAsWritten` proves it for every text and every list of edits that
passes the checks of the code, by induction: the spans of acceptable edits lie in
the text and do not overlap (`SpansDisjoint`), `Spliced` is a fold over them
(`SplicedFolds`), and going from the end of the text to its beginning, what is
left of the spliced text behind a line is the concatenation of what each of the
later lines became (`WrittenLineByLine`).

**Induction.** The library's induction theorems take an operator as a parameter,
which no prover here instantiates. `FoldTheorems` states what is needed in
first-order form instead, and derives it from the well-foundedness of strict
inclusion of finite sets: a set of finite subsets that is not empty has a
least one (`LeastSubset`, `LeastNat`), hence a fold of a finite set and a recursion
over 1..n exist and are unique (`FoldExists`, `FoldUnique`, `Recursion`), and a
property, given as the set of numbers that have it, holds up to n (`UpTo`). The
folds of the community modules are then a `CHOOSE` of something that exists: what a
flattened list consists of, what it has once, and in which order (`FlattenIs`,
`MembersOf`, `OnceOf`, `FlattenHas`), which places a selection of a sequence has
(`SelectionIs`), and that sums exist, are numbers and split (`SumExists`, `SumSame`,
`SumTakes`).

**Assumptions on constants.** They are named where the constants are declared and
evaluated by every run of the module: that nil is not an address, an account, a
version or a record (`NoneAssumption`, `SkillsAssumption` and others); that the
callers of admission are finitely many (`FiniteCallers`); that bounds, sizes and
limits are natural numbers (`WindowAssumption`, `WebChatAssumption`,
`SettingsAssumption` and others), that commands are texts and the alias in
config.yaml is an alias; that sets which the model puts side by side as names (taps and photos,
skills and servers, events and the heartbeat) are disjoint; that the owner's own
text, 0, is among the hashes (`InstallsAssumption`); that files are sequences of
lines, and that an edit's old text is not empty, since an empty one makes a new
file, which is another action (`CodingAssumption`). No theorem assumes a bound on
the number of actors or of steps, except where an action of the model has one as
its guard.

**Only model-checked.** The liveness properties (`EveryMessageSettles`,
`EventuallyAnswered`, `ClaimsEnd`, `RestartHappens`, `RevokedStreamEnds`): they rest on
fairness and on ENABLED, which are outside what the prover does. The runs that find
a violation have nothing to prove.

## 5. Plan

The components that keep state have their module, and what the runs check of their
safety is proved. What could come next:

1. *Turns over entries*: `TurnRun` composed with `Conversations` is checked and
   proved, and `ActiveTurns` refines `Conversations`; a composition of `TurnRun`
   with `ActiveTurns` itself would join the two.
2. *Schedules*: cron expressions as sets of times, in place of ticks.
3. *Settings*: options that are resolved together with the model they belong to,
   should the code come to do so (the hazard at `run.go:91`).

## 6. What is not modelled

Presentation and wording, images, prompts, provider encodings, HTTP routing, SQL,
git and file formats are left out unless a property is about them; parsing of cron
expressions, of YAML and of a skill's front matter is a pure function that table
tests cover. Mail, drive, contacts and web search keep no state of their own. The
sandbox, the sweep of coding directories, and the groups of a process are the
operating system's. The panel's front end is left out but for the chat pane. Chat
commands answer without a turn and are one action of `TurnRun`; those that change a
component's state are actions of its module. The throttle of log-ins and password
hashing are left out of `Accounts`. Time is abstracted to ticks in `Schedules`, to
hours of a short day in `ConfigBoot`, and to "the window has closed" elsewhere. The
status and the omissions of each component are listed in `PROJECT.json`.

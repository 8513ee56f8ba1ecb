------------------------------ MODULE MCTurns -------------------------------
(***************************************************************************)
(* What has to go on: turns, their admission, schedules, the daemon, the   *)
(* streams of the web chat, and the requests of a turn, each by itself in  *)
(* one run and under its own fairness.  A behaviour is one of the          *)
(* component that focus names; the variables of the others stay as they    *)
(* are (None, or a state that the component starts in).                    *)
(***************************************************************************)
EXTENDS TurnRun

CONSTANTS
    AdmissionCalls, Stoppers, AdmissionKeys, EntryIds,
    Jobs, Recurring, Workers, MaxTime, Retention, MaxCrashes, MaxFaults,
    MaxDeliveries,
    Events, QueueSize, MaxEdits,
    Tabs, Threads, Texts, Commands, BufferSize, MaxSends, MaxStreams,
    Preserved, BudgetChars, RecentSteps, Allowance, FoldChars, SummaryLimit,
    WindowMaxSteps, MaxSteers,
    Aliases, Default, Reasoners, Readers, Levels, Adders, MaxTurns,
    MaxRestarts

VARIABLES
    focus,   \* the component that this behaviour is about
    entries, heap, fresh, activeCount, pc, admissionKey, entry,
    admissionSteerable, admissionJoinable, granted, owner, generation,
    cancelled, admissionDrained, admissionReturned, stopPc, stopKey,
    stopEntry,
    now, row, alive, removed, ledger, current, schedulesPc, run, delivered,
    recorded, crashes, faults,
    stage, file, edits, deferred, held, asked, signalled, queue, accepted,
    working, handled, clock, wake, stream, setup,
    live, closing, chatStream, panicked, record, turn, pane, fetches,
    leaked, sends, streams,
    at, summary, steering, tail, windowSteps, steers,
    chosen, level, setting, onDisk, loaded, adds, call, cached, turns,
    restarts

A == INSTANCE ActiveTurns
       WITH Calls <- AdmissionCalls, Keys <- AdmissionKeys,
            key <- admissionKey, steerable <- admissionSteerable,
            joinable <- admissionJoinable, drained <- admissionDrained,
            returned <- admissionReturned
S == INSTANCE Schedules
       WITH pc <- schedulesPc
N == INSTANCE Daemon
C == INSTANCE WebChat
       WITH stream <- chatStream
W == INSTANCE Window
       WITH MaxSteps <- WindowMaxSteps, steps <- windowSteps
G == INSTANCE Settings

turnsVars == <<key, steerable, joinable, fate, running, taking, inbox,
               drained, returned, unsupported, phase, steps, carried,
               outcome, halted, log>>
entriesVars == <<entries, heap, fresh, activeCount, pc, admissionKey, entry,
                 admissionSteerable, admissionJoinable, granted, owner,
                 generation, cancelled, admissionDrained, admissionReturned,
                 stopPc, stopKey, stopEntry>>
schedulesVars == <<now, row, alive, removed, ledger, current, schedulesPc,
                   run, delivered, recorded, crashes, faults>>
daemonVars == <<stage, file, edits, deferred, held, asked, signalled, queue,
                accepted, working, handled, clock, wake, stream, setup>>
chatVars == <<live, closing, chatStream, panicked, record, turn, pane,
              fetches, leaked, sends, streams>>
windowVars == <<at, summary, steering, tail, windowSteps, steers>>
settingsVars == <<chosen, level, setting, onDisk, loaded, adds, call,
                  cached, turns, restarts>>

TurnsAtRest ==
    /\ Init /\ unsupported = {}
EntriesAtRest ==
    /\ A!Init /\ \A c \in AdmissionCalls : admissionSteerable[c] /\ admissionJoinable[c]
SchedulesAtRest ==
    /\ S!Init /\ \A w \in Workers : run[w][1] \in Recurring
DaemonAtRest ==
    /\ N!Init /\ file = "good"
ChatAtRest ==
    /\ C!Init /\ \A t \in Tabs : pane[t].thread = CHOOSE h \in Threads : TRUE
NoWindow ==
    /\ at = None /\ summary = None /\ steering = None /\ tail = None
    /\ windowSteps = None /\ steers = None
NoSettings ==
    /\ chosen = None /\ level = None /\ setting = None /\ onDisk = None
    /\ loaded = None /\ adds = None /\ call = None /\ cached = None
    /\ turns = None /\ restarts = None

SumInit ==
    \/ /\ focus = "turns" /\ Init
       /\ EntriesAtRest /\ SchedulesAtRest /\ DaemonAtRest
       /\ ChatAtRest /\ NoWindow /\ NoSettings
    \/ /\ focus = "entries" /\ A!Init
       /\ TurnsAtRest /\ SchedulesAtRest /\ DaemonAtRest /\ ChatAtRest
       /\ NoWindow /\ NoSettings
    \/ /\ focus = "schedules" /\ S!Init
       /\ TurnsAtRest /\ EntriesAtRest /\ DaemonAtRest /\ ChatAtRest
       /\ NoWindow /\ NoSettings
    \/ /\ focus = "daemon" /\ N!Init
       /\ TurnsAtRest /\ EntriesAtRest /\ SchedulesAtRest
       /\ ChatAtRest /\ NoWindow /\ NoSettings
    \/ /\ focus = "chat" /\ C!Init
       /\ TurnsAtRest /\ EntriesAtRest /\ SchedulesAtRest
       /\ DaemonAtRest /\ NoWindow /\ NoSettings
    \/ /\ focus = "window" /\ W!Init
       /\ TurnsAtRest /\ EntriesAtRest /\ SchedulesAtRest
       /\ DaemonAtRest /\ ChatAtRest /\ NoSettings
    \/ /\ focus = "settings" /\ G!Init
       /\ TurnsAtRest /\ EntriesAtRest /\ SchedulesAtRest
       /\ DaemonAtRest /\ ChatAtRest /\ NoWindow

TurnsStep ==
    /\ focus = "turns" /\ Next
    /\ UNCHANGED <<focus, entriesVars, schedulesVars, daemonVars, chatVars,
                   windowVars, settingsVars>>
EntriesStep ==
    /\ focus = "entries" /\ A!Next
    /\ UNCHANGED <<focus, turnsVars, schedulesVars, daemonVars, chatVars,
                   windowVars, settingsVars>>
SchedulesStep ==
    /\ focus = "schedules" /\ S!Next
    /\ UNCHANGED <<focus, turnsVars, entriesVars, daemonVars, chatVars,
                   windowVars, settingsVars>>
DaemonStep ==
    /\ focus = "daemon" /\ N!Next
    /\ UNCHANGED <<focus, turnsVars, entriesVars, schedulesVars, chatVars,
                   windowVars, settingsVars>>
ChatStep ==
    /\ focus = "chat" /\ C!Next
    /\ UNCHANGED <<focus, turnsVars, entriesVars, schedulesVars, daemonVars,
                   windowVars, settingsVars>>
WindowStep ==
    /\ focus = "window" /\ W!Next
    /\ UNCHANGED <<focus, turnsVars, entriesVars, schedulesVars, daemonVars,
                   chatVars, settingsVars>>
SettingsStep ==
    /\ focus = "settings" /\ G!Next
    /\ UNCHANGED <<focus, turnsVars, entriesVars, schedulesVars, daemonVars,
                   chatVars, windowVars>>

SumNext ==
    \/ TurnsStep
    \/ EntriesStep
    \/ SchedulesStep
    \/ DaemonStep
    \/ ChatStep
    \/ WindowStep
    \/ SettingsStep

sumVars == <<focus, turnsVars, entriesVars, schedulesVars, daemonVars,
             chatVars, windowVars, settingsVars>>

SumSpec == SumInit /\ [][SumNext]_sumVars

(***************************************************************************)
(* Each component's own fairness, while the behaviour is about it: a       *)
(* goroutine that runs goes on, and a call that is made returns.           *)
(***************************************************************************)
\* A turn that was admitted goes on: every call it makes has a timeout. Nothing
\* obliges an owner to stop it or a surface to go away.
TurnsFair ==
    \A c \in Calls :
        /\ WF_turnsVars(focus = "turns" /\ RunStep(c) /\ phase[c] # "new")
        /\ WF_turnsVars(focus = "turns" /\ c \in FollowUps /\ Admit(c))
\* A caller inside Admit, Release or Stop gets the lock in the end.
AdmissionFair ==
    /\ \A c \in AdmissionCalls : WF_entriesVars(focus = "entries" /\ A!CallProgress(c))
    /\ \A s \in Stoppers : WF_entriesVars(focus = "entries" /\ A!StopProgress(s))
\* A claimed job's goroutine runs until it returns, Run ticks once a minute and
\* the supervisor starts a daemon that died.
SchedulesFair ==
    /\ \A w \in Workers : WF_schedulesVars(focus = "schedules" /\ S!WorkerStep(w))
    /\ \A j \in Jobs :
          WF_schedulesVars(focus = "schedules" /\ \E w \in Workers : S!Claim(j, w))
    /\ WF_schedulesVars(focus = "schedules" /\ S!Restart)
\* Of the cases of the loop that stay ready each is taken, and a turn ends.
DaemonFair ==
    /\ WF_daemonVars(focus = "daemon" /\ N!Starts)
    /\ WF_daemonVars(focus = "daemon" /\ N!Open)
    /\ WF_daemonVars(focus = "daemon" /\ N!TakeEvent)
    /\ WF_daemonVars(focus = "daemon" /\ N!LoopEnds)
    /\ WF_daemonVars(focus = "daemon" /\ N!HeartbeatTick)
    /\ WF_daemonVars(focus = "daemon" /\ N!Paced)
    /\ WF_daemonVars(focus = "daemon" /\ N!Ends)
    /\ WF_daemonVars(focus = "daemon" /\ N!StreamEnds)
    /\ WF_daemonVars(focus = "daemon" /\ N!ClockFires)
    /\ WF_daemonVars(focus = "daemon" /\ N!FinishHeartbeat)
    /\ \A e \in Events : WF_daemonVars(focus = "daemon" /\ N!HandleEvent(e))
\* The handler of a stream goes on, and its ticker ticks.
ChatFair ==
    \A t \in Tabs :
        /\ WF_chatVars(focus = "chat" /\ C!Flush(t))
        /\ WF_chatVars(focus = "chat" /\ C!Register(t))
        /\ WF_chatVars(focus = "chat" /\ C!Keepalive(t))

SumFairSpec ==
    SumSpec /\ TurnsFair /\ AdmissionFair /\ SchedulesFair /\ DaemonFair /\ ChatFair

\* What the constants of the components are.
ASSUME EntriesAssumption == A!NoneAssumption /\ A!FiniteCallers

ASSUME SchedulesAssumption == S!SchedulesAssumption

ASSUME ChatAssumption == C!WebChatAssumption

ASSUME WindowAssumption == W!WindowAssumption

ASSUME SettingsAssumption == G!SettingsAssumption

ASSUME DaemonAssumption ==
    /\ Events \cap {"beat", "runner"} = {}
    /\ None \notin {"armed", "fired"}

\* Every variable of the component at hand keeps its type.
SumTypeOK ==
    /\ focus = "turns" => TypeOK
    /\ focus = "entries" => A!TypeOK
    /\ focus = "schedules" => S!TypeOK
    /\ focus = "daemon" => N!TypeOK
    /\ focus = "chat" => C!TypeOK
    /\ focus = "window" => W!TypeOK
    /\ focus = "settings" => G!TypeOK

-----------------------------------------------------------------------------
\* Every input that waits is admitted or refused in the end, and every
\* /stop is answered (services/turns.go).
EventuallyAnswered == A!EventuallyAnswered

\* A claimed run is in the hands of one worker and never in nobody's, a
\* job advances only past a run that was delivered, and a run in the
\* ledger is not handled again while it is kept there (scheduler.go,
\* dispatcher.go).
JobsSafe ==
    /\ [](S!ClaimedByOne /\ S!CompletedWasDelivered /\ S!NoOrphanedClaim)
    /\ S!NotAgainOnceRecorded

\* A job that is claimed is acknowledged in the end, or its
\* acknowledgement has failed (scheduler.go, bootstrap/run.go).
ClaimsEnd == S!ClaimsEnd

\* The heartbeat's single-shot clock is armed again by whoever consumes
\* it, nothing that runs outlives the stores, and no stream's channel is
\* closed twice or sent to afterwards (heartbeat.go, bootstrap run.go,
\* webchat hub.go).
DaemonSafe ==
    /\ focus = "daemon" => N!ClockIsKept /\ N!StoresOutliveTurns
    /\ focus = "chat" => C!NoPanic

\* A restart that is accepted happens: the drain waits for nothing that
\* only ends with the daemon (bootstrap/run.go, Run).
RestartHappens == N!RestartHappens

\* What the owner said last during a turn is in its next request word for
\* word, every call in a request has its results, a request fits the
\* model, and an image goes to no model that is known not to read it
\* (compaction.go, loop.go, run.go).
RequestsSafe ==
    /\ focus = "window" => /\ W!CorrectionIsHeard
                           /\ W!CallsHaveResults
                           /\ W!WithinAllowance
    /\ focus = "settings" => G!NotDropped

\* A session that was revoked loses its stream (panel session.go,
\* sessionRevalidator).
RevokedStreamEnds == C!RevokedStreamEnds

=============================================================================

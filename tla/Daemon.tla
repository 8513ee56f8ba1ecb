-------------------------------- MODULE Daemon --------------------------------
(***************************************************************************)
(* The life of the process (cmd/eggyd/main.go) and of the daemon it runs   *)
(* (bootstrap/run.go, events.go, heartbeat.go): start, setup mode, safe    *)
(* mode, the loop over the event queue and the heartbeat clock, and the    *)
(* restart that drains what runs, closes the stores and starts over from   *)
(* the config.yaml of that moment.                                         *)
(***************************************************************************)
EXTENDS Naturals, Sequences, FiniteSets

CONSTANTS
    Events,      \* what producers hand to Enqueue
    QueueSize,   \* the event queue (64 in NewApp)
    MaxEdits,    \* bound on the versions of config.yaml
    None

VARIABLES
    stage,       \* where the process is
    file,        \* config.yaml: None, "good", "unbuildable" or "unloadable"
    edits,
    deferred,    \* what Run has deferred and not done yet, last first
    held,        \* the stores and sessions that are open
    asked,       \* the restart channel is closed
    signalled,   \* SIGTERM
    queue,
    accepted,    \* events a producer was told are in
    working,     \* the goroutines of the workers group
    handled,
    clock,       \* the heartbeat timer: None, "armed" or "fired"
    wake,        \* heartbeatWake holds a finished beat
    stream,      \* a browser holds a chat stream open
    setup        \* the one-time token of setup mode

daemonVars == <<stage, file, edits, deferred, held, asked, signalled, queue, accepted,
                working, handled, clock, wake, stream, setup>>

Loadable == {"good", "unbuildable"}
Listening == stage \in {"opening", "running", "ending", "closing"}

Init ==
    /\ stage = "starting" /\ file \in {None, "good", "unbuildable", "unloadable"} /\ edits = 0
    /\ deferred = <<>> /\ held = {}
    /\ asked = FALSE /\ signalled = FALSE
    /\ queue = <<>> /\ accepted = {} /\ working = {} /\ handled = {}
    /\ clock = None /\ wake = FALSE /\ stream = FALSE /\ setup = "unused"

-----------------------------------------------------------------------------
(* Starting: a fresh home is set up, a failure is repaired                 *)

(* Faulty: the workers are waited for before the coding worker is told to  *)
(* stop.                                                                   *)
DefersWaitFirst == <<"workers", "runner", "mcp", "database">>

(* What Run defers before its loop, in the order in which it is undone.    *)
Defers == <<"runner", "workers", "mcp", "database">>

(* startup: LoadOrCreateConfig and NewApp, then serveApp starts Run and    *)
(* the listener.                                                           *)
Build ==
    /\ stage = "starting" /\ file = "good"
    /\ stage' = "opening"
    /\ deferred' = Defers /\ held' = {"database", "mcp"}
    /\ asked' = FALSE /\ queue' = <<>> /\ working' = {"runner"} /\ wake' = FALSE
    /\ UNCHANGED <<file, edits, signalled, accepted, handled, clock, stream, setup>>

NeedsSetup ==
    /\ stage = "starting" /\ file = None
    /\ stage' = "setup" /\ setup' = "unused"
    /\ UNCHANGED <<file, edits, deferred, held, asked, signalled, queue, accepted, working,
                   handled, clock, wake, stream>>

(* A first boot whose environment names an account writes its own config.  *)
InitializeConfig ==
    /\ stage = "starting" /\ file = None
    /\ file' \in {"good", "unbuildable", "unloadable"}
    /\ UNCHANGED <<stage, edits, deferred, held, asked, signalled, queue, accepted, working,
                   handled, clock, wake, stream, setup>>

(* Also without a config, where the home is not a fresh one.               *)
Fails ==
    /\ stage = "starting" /\ file # "good"
    /\ stage' = "safe"
    /\ UNCHANGED <<file, edits, deferred, held, asked, signalled, queue, accepted, working,
                   handled, clock, wake, stream, setup>>

(* The token is exchanged once for a session, and both end with time.      *)
ExchangeToken ==
    /\ stage = "setup" /\ setup = "unused"
    /\ setup' = "session"
    /\ UNCHANGED <<stage, file, edits, deferred, held, asked, signalled, queue, accepted,
                   working, handled, clock, wake, stream>>

SetupExpires ==
    /\ stage = "setup" /\ setup # "expired"
    /\ setup' = "expired"
    /\ UNCHANGED <<stage, file, edits, deferred, held, asked, signalled, queue, accepted,
                   working, handled, clock, wake, stream>>

(* The config of a setup is validated, and written only where none is.     *)
CompleteSetup ==
    /\ stage = "setup" /\ setup = "session" /\ file = None
    /\ file' \in Loadable /\ stage' = "starting"
    /\ UNCHANGED <<edits, deferred, held, asked, signalled, queue, accepted, working, handled,
                   clock, wake, stream, setup>>

(* The repair page saves what LoadConfig accepts; who may sign in to it is *)
(* read from the config that failed.                                       *)
Repair ==
    /\ stage = "safe" /\ file # None /\ edits < MaxEdits
    /\ file' \in Loadable /\ edits' = edits + 1 /\ stage' = "starting"
    /\ UNCHANGED <<deferred, held, asked, signalled, queue, accepted, working, handled, clock,
                   wake, stream, setup>>

(* Settings write what loads; the file can also be edited on the host.     *)
Edit ==
    /\ Listening /\ edits < MaxEdits
    /\ file' \in {"good", "unbuildable", "unloadable"} /\ edits' = edits + 1
    /\ UNCHANGED <<stage, deferred, held, asked, signalled, queue, accepted, working, handled,
                   clock, wake, stream, setup>>

-----------------------------------------------------------------------------
(* Run                                                                     *)

(* Recovery is done and the gateway opens: the loop begins, its clock one  *)
(* interval away.                                                          *)
Open ==
    /\ stage = "opening"
    /\ stage' = "running" /\ clock' = "armed"
    /\ deferred' = <<"clock", "gateway">> \o deferred /\ held' = held \cup {"gateway"}
    /\ UNCHANGED <<file, edits, asked, signalled, queue, accepted, working, handled, wake,
                   stream, setup>>

(* Recovery or the gateway fails: Run returns it, serveApp does, and the   *)
(* process ends.                                                           *)
OpenFails ==
    /\ stage = "opening"
    /\ stage' = "exited"
    /\ UNCHANGED <<file, edits, deferred, held, asked, signalled, queue, accepted, working,
                   handled, clock, wake, stream, setup>>

Enqueue(e) ==
    /\ Listening /\ e \notin accepted /\ Len(queue) < QueueSize
    /\ queue' = Append(queue, e) /\ accepted' = accepted \cup {e}
    /\ UNCHANGED <<stage, file, edits, deferred, held, asked, signalled, working, handled,
                   clock, wake, stream, setup>>

TakeEvent ==
    /\ stage = "running" /\ queue # <<>>
    /\ queue' = Tail(queue) /\ working' = working \cup {Head(queue)}
    /\ UNCHANGED <<stage, file, edits, deferred, held, asked, signalled, accepted, handled,
                   clock, wake, stream, setup>>

HandleEvent(e) ==
    /\ e \in working \cap Events
    /\ working' = working \ {e} /\ handled' = handled \cup {e}
    /\ UNCHANGED <<stage, file, edits, deferred, held, asked, signalled, queue, accepted,
                   clock, wake, stream, setup>>

(* /restart from a turn, or the button: the config is loaded first.        *)
Restart ==
    /\ Listening /\ ~asked /\ file \in Loadable
    /\ asked' = TRUE
    /\ UNCHANGED <<stage, file, edits, deferred, held, signalled, queue, accepted, working,
                   handled, clock, wake, stream, setup>>

LoopEnds ==
    /\ stage = "running" /\ asked
    /\ stage' = "ending"
    /\ UNCHANGED <<file, edits, deferred, held, asked, signalled, queue, accepted, working,
                   handled, clock, wake, stream, setup>>

(* Run unwinds: one deferred call after the other, and the one that waits  *)
(* waits for every goroutine.                                              *)
Unwind ==
    /\ stage = "ending" /\ deferred # <<>>
    /\ Head(deferred) = "workers" => working = {}
    /\ deferred' = Tail(deferred)
    /\ held' = held \ {Head(deferred)}
    /\ working' = IF Head(deferred) = "runner" THEN working \ {"runner"} ELSE working
    /\ clock' = IF Head(deferred) = "clock" THEN None ELSE clock
    /\ UNCHANGED <<stage, file, edits, asked, signalled, queue, accepted, handled, wake,
                   stream, setup>>

(* serveApp sees ErrRestart and shuts the listener down.                   *)
Returns ==
    /\ stage = "ending" /\ deferred = <<>>
    /\ stage' = "closing"
    /\ UNCHANGED <<file, edits, deferred, held, asked, signalled, queue, accepted, working,
                   handled, clock, wake, stream, setup>>

(* shutdown waits for what is in flight, and for so long.                  *)
Shutdown ==
    /\ stage = "closing" /\ ~stream
    /\ stage' = "starting"
    /\ UNCHANGED <<file, edits, deferred, held, asked, signalled, queue, accepted, working,
                   handled, clock, wake, stream, setup>>

ShutdownTimesOut ==
    /\ stage = "closing" /\ stream
    /\ stage' = "exited"
    /\ UNCHANGED <<file, edits, deferred, held, asked, signalled, queue, accepted, working,
                   handled, clock, wake, stream, setup>>

(* The platform stops the container: serveApp does not wait for Run.       *)
Signal ==
    /\ stage \notin {"exited", "starting"}
    /\ signalled' = TRUE /\ stage' = "exited"
    /\ UNCHANGED <<file, edits, deferred, held, asked, queue, accepted, working, handled,
                   clock, wake, stream, setup>>

(* A chat stream needs a session to open, and asks for it again at every   *)
(* keepalive.                                                              *)
OpenStream ==
    /\ Listening /\ "database" \in held /\ ~stream
    /\ stream' = TRUE
    /\ UNCHANGED <<stage, file, edits, deferred, held, asked, signalled, queue, accepted,
                   working, handled, clock, wake, setup>>

StreamEnds ==
    /\ stream
    /\ stream' = FALSE
    /\ UNCHANGED <<stage, file, edits, deferred, held, asked, signalled, queue, accepted,
                   working, handled, clock, wake, setup>>

-----------------------------------------------------------------------------
(* The heartbeat                                                           *)

ClockFires ==
    /\ clock = "armed" /\ clock' = "fired"
    /\ UNCHANGED <<stage, file, edits, deferred, held, asked, signalled, queue, accepted,
                   working, handled, wake, stream, setup>>

(* Faulty: a tick that is skipped leaves the clock to somebody else.       *)
SkippedAsDispatched(beats) == None

(* A dispatched beat re-arms when it has finished, a skipped one at once.  *)
AfterTick(beats) == IF beats THEN None ELSE "armed"

(* Beats only while no turn runs, within the hours and for somebody who    *)
(* has something to watch, which may not be the case either way.           *)
HeartbeatTick ==
    /\ stage = "running" /\ clock = "fired"
    /\ \E beats \in IF working \cap (Events \cup {"beat"}) = {} THEN BOOLEAN ELSE {FALSE} :
         /\ working' = IF beats THEN working \cup {"beat"} ELSE working
         /\ clock' = AfterTick(beats)
    /\ UNCHANGED <<stage, file, edits, deferred, held, asked, signalled, queue, accepted,
                   handled, wake, stream, setup>>

(* finishHeartbeat, however the beats end: blocks while the buffer is full *)
FinishHeartbeat ==
    /\ "beat" \in working /\ ~wake
    /\ working' = working \ {"beat"} /\ wake' = TRUE
    /\ UNCHANGED <<stage, file, edits, deferred, held, asked, signalled, queue, accepted,
                   handled, clock, stream, setup>>

Paced ==
    /\ stage = "running" /\ wake
    /\ wake' = FALSE /\ clock' = "armed"
    /\ UNCHANGED <<stage, file, edits, deferred, held, asked, signalled, queue, accepted,
                   working, handled, stream, setup>>

-----------------------------------------------------------------------------
Starts == Build \/ NeedsSetup \/ InitializeConfig \/ Fails
Ends == Unwind \/ Returns \/ Shutdown \/ ShutdownTimesOut

Next ==
    \/ Build \/ NeedsSetup \/ InitializeConfig \/ Fails \/ ExchangeToken \/ SetupExpires \/ CompleteSetup
    \/ Repair \/ Edit \/ Open \/ OpenFails \/ TakeEvent \/ Restart \/ LoopEnds \/ Unwind
    \/ Returns \/ Shutdown \/ ShutdownTimesOut \/ Signal \/ OpenStream \/ StreamEnds
    \/ ClockFires \/ HeartbeatTick \/ FinishHeartbeat \/ Paced
    \/ \E e \in Events : Enqueue(e) \/ HandleEvent(e)

Spec == Init /\ [][Next]_daemonVars

-----------------------------------------------------------------------------
(* Types of the daemon's state.                                            *)
TypeOK ==
    /\ stage \in {"starting", "setup", "safe", "opening", "running", "ending", "closing", "exited"}
    /\ file \in {None, "good", "unbuildable", "unloadable"}
    /\ held \subseteq {"database", "mcp", "gateway"}
    /\ working \subseteq Events \cup {"beat", "runner"}
    /\ clock \in {None, "armed", "fired"}

(* The clock is single-shot and whoever consumes it has to arm it again:   *)
(* while the loop runs the heartbeat is at exactly one place, the timer, a *)
(* beat that runs, or the wake it left, so it neither stops for good nor   *)
(* finds the buffer of one taken.                                          *)
ClockIsKept ==
    stage = "running" =>
        Cardinality({p \in {"clock", "beat", "wake"} :
                       \/ p = "clock" /\ clock # None
                       \/ p = "beat" /\ "beat" \in working
                       \/ p = "wake" /\ wake}) = 1

(* No turn, and not the coding worker, is left running over a database or  *)
(* an MCP client that Run has closed.                                      *)
StoresOutliveTurns ==
    working # {} /\ stage # "exited" => {"database", "mcp"} \subseteq held

(* A restart that was accepted happens: the drain does not wait for what   *)
(* only ends with the daemon.                                              *)
RestartHappens == (asked /\ stage = "running") ~> (stage \in {"starting", "exited"})
=============================================================================

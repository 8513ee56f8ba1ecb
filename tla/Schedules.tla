------------------------------ MODULE Schedules ------------------------------
(***************************************************************************)
(* Scheduled jobs: the claim, run and acknowledgement of a due job by the  *)
(* daemon's schedule tick (internal/bootstrap/run.go), the scheduler       *)
(* (internal/schedule/local/scheduler.go) over its rows (internal/storage/ *)
(* sqlite/schedules.go), and the dispatcher whose ledger of handled events *)
(* makes a run happen once (internal/core/services/dispatcher.go).  The    *)
(* daemon may die between any two steps.                                   *)
(*                                                                         *)
(* A run is the job and the time it was due, as in its event ID            *)
(* "schedule:" + ID + ":" + PendingRun.  Time 0 stands for the zero time.  *)
(***************************************************************************)
EXTENDS Integers, FiniteSets

CONSTANTS
    Jobs,
    Recurring,  \* the rest are one-time jobs
    Workers,    \* goroutines of App.workers that run claimed jobs
    MaxTime,    \* bound on the clock
    Retention,  \* processedEventRetention
    MaxCrashes, \* bound on deaths of the daemon
    MaxFaults,  \* bound on acknowledgements the store fails to write
    MaxDeliveries \* bound on deliveries of one run that is never recorded

SchedulesAssumption ==
    /\ Recurring \subseteq Jobs
    /\ MaxTime \in Nat /\ Retention \in Nat
    /\ MaxCrashes \in Nat /\ MaxFaults \in Nat /\ MaxDeliveries \in Nat

VARIABLES
    now,
    row,       \* the stored schedule of each job, cancelled ones included
    alive,     \* the daemon is running
    removed,   \* jobs whose account is no longer configured
    ledger,    \* State.ProcessedEvents: [run -> time handled], 0 if absent
    current,   \* workers whose loaded State.Version is still the store's
    pc,        \* where each worker is
    run,       \* the claimed run a worker has captured
    delivered, \* times each run has reached the owner
    recorded,  \* when each run was last entered in the ledger
    crashes, faults

daemonVars == <<alive, removed, crashes, faults>>
ledgerVars == <<ledger, current, recorded>>
workerVars == <<pc, run>>
vars == <<now, row, daemonVars, ledgerVars, workerVars, delivered>>

Times == 0..(MaxTime + 1)
Runs == Jobs \X Times

(* ports.Schedule; stored is FALSE once the row is deleted. *)
NewRow == [stored |-> TRUE, enabled |-> TRUE, next |-> 1, last |-> 0, pending |-> 0]

Init ==
    /\ now = 0
    /\ row = [j \in Jobs |-> NewRow]
    /\ alive = TRUE
    /\ removed = {}
    /\ ledger = [r \in Runs |-> 0]
    /\ current = {}
    /\ pc = [w \in Workers |-> "idle"]
    /\ run \in [Workers -> {<<j, 0>> : j \in Jobs}]
    /\ delivered = [r \in Runs |-> 0]
    /\ recorded = [r \in Runs |-> 0]
    /\ crashes = 0
    /\ faults = 0

Goes(w, from, to) ==
    /\ pc[w] = from
    /\ pc' = [pc EXCEPT ![w] = to]

JobOf(w) == run[w][1]
DueAt(w) == run[w][2]

-----------------------------------------------------------------------------
(* The schedule tick *)

IsDue(j) ==
    /\ row[j].stored
    /\ row[j].enabled
    /\ row[j].pending = 0
    /\ row[j].next <= now

(* Due claims a job in a transaction, and a worker takes it from there. *)
Claim(j, w) ==
    /\ alive
    /\ IsDue(j)
    /\ j \notin removed
    /\ Goes(w, "idle", "handed")
    /\ row' = [row EXCEPT ![j].pending = row[j].next]
    /\ run' = [run EXCEPT ![w] = <<j, row[j].next>>]
    /\ UNCHANGED <<now, daemonVars, ledgerVars, delivered>>

(* A job whose account is gone: Due claims it, and the tick disables it. *)
DisableRemoved(j) ==
    /\ alive
    /\ IsDue(j)
    /\ j \in removed
    /\ row' = [row EXCEPT ![j].enabled = FALSE, ![j].pending = 0]
    /\ UNCHANGED <<now, daemonVars, ledgerVars, workerVars, delivered>>

-----------------------------------------------------------------------------
(* Dispatcher.Handle *)

(* Defect: the ledger is not looked at. *)
CheckNothing(w) ==
    /\ Goes(w, "handed", "handling")
    /\ UNCHANGED <<now, row, run, daemonVars, ledgerVars, delivered>>

(* Load: an event in the ledger is not handled again. *)
CheckLedger(w) ==
    /\ Goes(w, "handed", IF ledger[run[w]] = 0 THEN "handling" ELSE "completing")
    /\ UNCHANGED <<now, row, run, daemonVars, ledgerVars, delivered>>

(* The turn has run, or the reminder was sent. *)
Deliver(w) ==
    /\ Goes(w, "handling", "delivered")
    /\ delivered[run[w]] < MaxDeliveries
    /\ delivered' = [delivered EXCEPT ![run[w]] = @ + 1]
    /\ UNCHANGED <<now, row, run, daemonVars, ledgerVars>>

(* The handler returned an error, or the store could not be read before it. *)
HandlerFails(w) ==
    /\ pc[w] \in {"handed", "handling"}
    /\ pc' = [pc EXCEPT ![w] = "failing"]
    /\ UNCHANGED <<now, row, run, daemonVars, ledgerVars, delivered>>

(* Load again, for the version and to see whether another was faster. *)
LoadLedger(w) ==
    /\ Goes(w, "delivered", IF ledger[run[w]] = 0 THEN "recording" ELSE "completing")
    /\ current' = current \cup {w}
    /\ UNCHANGED <<now, row, run, daemonVars, ledger, recorded, delivered>>

(* The compare-and-set that records the event and prunes old ones. *)
RecordEvent(w) ==
    /\ w \in current
    /\ Goes(w, "recording", "completing")
    /\ ledger' = [r \in Runs |->
                    CASE r = run[w] -> now
                      [] r # run[w] /\ ledger[r] < now - Retention -> 0
                      [] OTHER -> ledger[r]]
    /\ recorded' = [recorded EXCEPT ![run[w]] = now]
    /\ current' = {}
    /\ UNCHANGED <<now, row, run, daemonVars, delivered>>

(* ErrStateVersionConflict: the effect is done, the event counts as failed. *)
RecordConflicts(w) ==
    /\ w \notin current
    /\ Goes(w, "recording", "failing")
    /\ UNCHANGED <<now, row, run, daemonVars, ledgerVars, delivered>>

(* Any other writer of the account's state: a mode, a model, an approval. *)
OtherWrite ==
    /\ current # {}
    /\ current' = {}
    /\ UNCHANGED <<now, row, daemonVars, ledger, recorded, workerVars, delivered>>

-----------------------------------------------------------------------------
(* The acknowledgement *)

(* The pending run is still the one this worker was handed. *)
Matches(w) == row[JobOf(w)].stored /\ row[JobOf(w)].pending = DueAt(w)

(* A recurring job advances past the moment it completed. *)
CompleteRecurring(w) ==
    /\ JobOf(w) \in Recurring
    /\ Matches(w)
    /\ Goes(w, "completing", "idle")
    /\ row' = [row EXCEPT ![JobOf(w)] =
                 [@ EXCEPT !.last = DueAt(w), !.pending = 0, !.next = now + 1]]
    /\ UNCHANGED <<now, run, daemonVars, ledgerVars, delivered>>

(* A one-time job is disabled first, so a failed delete never runs it twice. *)
CompleteOnce(w) ==
    /\ JobOf(w) \notin Recurring
    /\ Matches(w)
    /\ Goes(w, "completing", "deleting")
    /\ row' = [row EXCEPT ![JobOf(w)] =
                 [@ EXCEPT !.last = DueAt(w), !.pending = 0, !.enabled = FALSE]]
    /\ UNCHANGED <<now, run, daemonVars, ledgerVars, delivered>>

RemoveFinished(w) ==
    /\ Goes(w, "deleting", "idle")
    /\ row' = [row EXCEPT ![JobOf(w)].stored = FALSE]
    /\ UNCHANGED <<now, run, daemonVars, ledgerVars, delivered>>

(* Defect: a failed run keeps its claim. *)
FailKeepsClaim(w) ==
    /\ Goes(w, "failing", "idle")
    /\ UNCHANGED <<now, row, run, daemonVars, ledgerVars, delivered>>

(* Fail releases the claim: the job is due again at the next tick. *)
Fail(w) ==
    /\ Matches(w)
    /\ Goes(w, "failing", "idle")
    /\ row' = [row EXCEPT ![JobOf(w)].pending = 0]
    /\ UNCHANGED <<now, run, daemonVars, ledgerVars, delivered>>

(* The row is gone or its claim is another's: only logged. *)
AcknowledgeMismatch(w) ==
    /\ ~Matches(w)
    /\ pc[w] \in {"completing", "failing"}
    /\ pc' = [pc EXCEPT ![w] = "idle"]
    /\ UNCHANGED <<now, row, run, daemonVars, ledgerVars, delivered>>

(* The store does not take the acknowledgement: only logged. *)
AcknowledgeFails(w) ==
    /\ faults < MaxFaults
    /\ faults' = faults + 1
    /\ pc[w] \in {"completing", "failing", "deleting"}
    /\ pc' = [pc EXCEPT ![w] = "idle"]
    /\ UNCHANGED <<now, row, run, alive, removed, crashes, ledgerVars, delivered>>

-----------------------------------------------------------------------------
(* The owner, the clock and the daemon's life *)

Cancel(j) ==
    /\ alive
    /\ row[j].stored
    /\ row' = [row EXCEPT ![j].stored = FALSE]
    /\ UNCHANGED <<now, daemonVars, ledgerVars, workerVars, delivered>>

Tick ==
    /\ now < MaxTime
    /\ now' = now + 1
    /\ UNCHANGED <<row, daemonVars, ledgerVars, workerVars, delivered>>

Crash ==
    /\ alive
    /\ crashes < MaxCrashes
    /\ crashes' = crashes + 1
    /\ alive' = FALSE
    /\ pc' = [w \in Workers |-> "idle"]
    /\ current' = {}
    /\ UNCHANGED <<now, row, run, removed, faults, ledger, recorded, delivered>>

FinishedOnce(j) ==
    /\ j \notin Recurring
    /\ ~row[j].enabled
    /\ row[j].last # 0

(* The daemon starts with the configuration of the moment and Recovers. *)
Restart ==
    /\ ~alive
    /\ alive' = TRUE
    /\ row' = [j \in Jobs |->
                 IF FinishedOnce(j) THEN [row[j] EXCEPT !.stored = FALSE]
                 ELSE [row[j] EXCEPT !.pending = 0]]
    /\ removed' \in {{}, Jobs}
    /\ UNCHANGED <<now, crashes, faults, ledgerVars, workerVars, delivered>>

WorkerStep(w) ==
    \/ CheckLedger(w)   \/ Deliver(w)           \/ HandlerFails(w)
    \/ LoadLedger(w)    \/ RecordEvent(w)       \/ RecordConflicts(w)
    \/ CompleteRecurring(w) \/ CompleteOnce(w)  \/ RemoveFinished(w)
    \/ Fail(w)          \/ AcknowledgeMismatch(w)

Next ==
    \/ \E j \in Jobs, w \in Workers : Claim(j, w)
    \/ \E j \in Jobs : DisableRemoved(j) \/ Cancel(j)
    \/ \E w \in Workers : WorkerStep(w) \/ AcknowledgeFails(w)
    \/ OtherWrite \/ Tick \/ Crash \/ Restart

Spec == Init /\ [][Next]_vars

-----------------------------------------------------------------------------
(* Properties *)

RowType == [stored : BOOLEAN, enabled : BOOLEAN, next : Times, last : Times,
            pending : Times]

WorkerPlaces == {"idle", "handed", "handling", "delivered", "recording",
                 "completing", "failing", "deleting"}

(* The types of the stored schedules, the ledger and the workers. *)
TypeOK ==
    /\ now \in 0..MaxTime
    /\ row \in [Jobs -> RowType]
    /\ alive \in BOOLEAN
    /\ removed \subseteq Jobs
    /\ ledger \in [Runs -> Times]
    /\ current \subseteq Workers
    /\ pc \in [Workers -> WorkerPlaces]
    /\ run \in [Workers -> Runs]
    /\ delivered \in [Runs -> Nat]
    /\ recorded \in [Runs -> Times]
    /\ crashes \in 0..MaxCrashes
    /\ faults \in 0..MaxFaults

(***************************************************************************)
(* "A second tick -- or a second reader -- never picks up a job already in *)
(* flight": a job that is not cancelled is in the hands of one worker at   *)
(* most, and that worker's run is the one the row says is pending.         *)
(***************************************************************************)
Acting(w) == pc[w] \notin {"idle", "deleting"}

ClaimedByOne ==
    \A w \in Workers : Acting(w) =>
        /\ row[JobOf(w)].stored => row[JobOf(w)].pending = DueAt(w)
        /\ \A v \in Workers : Acting(v) /\ JobOf(v) = JobOf(w) => v = w

(***************************************************************************)
(* The ledger survives the daemon: a run that was recorded is not          *)
(* delivered again, by whichever worker after whichever crash, until the   *)
(* retention has passed.                                                   *)
(***************************************************************************)
NotAgainOnceRecorded ==
    [][\A r \in Runs : delivered'[r] > delivered[r] =>
          recorded[r] = 0 \/ now > recorded[r] + Retention]_vars

(***************************************************************************)
(* A job's last run has reached the owner: no crash, conflict or failure   *)
(* makes a job advance past a run, or finish, without having delivered it. *)
(***************************************************************************)
CompletedWasDelivered ==
    \A j \in Jobs : row[j].last # 0 => delivered[<<j, row[j].last>>] > 0

(***************************************************************************)
(* A claim is never orphaned: while the daemon runs and the store takes    *)
(* its acknowledgements, a pending run is in some worker's hands.          *)
(***************************************************************************)
NoOrphanedClaim ==
    \A j \in Jobs :
        alive /\ faults = 0 /\ row[j].stored /\ row[j].pending # 0
        => \E w \in Workers : Acting(w) /\ run[w] = <<j, row[j].pending>>

(***************************************************************************)
(* A pending run ends: it is completed, failed and due again, cancelled,   *)
(* or cleared by the recovery of a restart.  Only an acknowledgement that  *)
(* the store did not take leaves it pending for good.                      *)
(***************************************************************************)
ClaimsEnd ==
    \A j \in Jobs : (row[j].pending # 0) ~>
        (row[j].pending = 0 \/ ~row[j].stored \/ faults > 0)
=============================================================================

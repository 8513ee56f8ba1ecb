------------------------------ MODULE AgentRuns ------------------------------
(***************************************************************************)
(* Coding-agent runs (internal/extensions/agentrunner): the rows of one    *)
(* account (storage/sqlite/ext_agentrunner.go), the owner's operations on  *)
(* them (service.go), the single worker that executes one run at a time    *)
(* (worker.go) and its publication as a branch and a pull request on       *)
(* GitHub (publish.go), with the account's token (credential.go).          *)
(*                                                                         *)
(* Every write of a row is UpdateAgentRun, which takes only a row read at  *)
(* the stored revision.  The worker keeps the row it wrote; an operation   *)
(* reads it, looks at it and writes it, with anything in between.          *)
(***************************************************************************)
EXTENDS Integers, Sequences, FiniteSets, SequencesExt

CONSTANTS
    Runs,           \* run ids; each is one start request
    Ops,            \* Cancel, Answer, DisconnectPAT, SetRepositoryEnabled,
                    \* Refresh: one operation each
    Worker,         \* Service.Run, the only worker
    NoRun,          \* no run
    MaxGeneration,  \* bound on the token's generation
    MaxQuestions,   \* bound on the questions of one run
    MaxTroubles     \* bound on deaths of the daemon and errors of the worker

ASSUME AgentRunsAssumption ==
    /\ Worker \notin Ops /\ NoRun \notin Runs
    /\ MaxGeneration \in Nat \ {0}
    /\ {MaxQuestions, MaxTroubles} \subseteq Nat

VARIABLES
    state,      \* AgentRun.State; "absent", "requested", "refused" before it
                \* is stored, "deleted" after
    created,    \* the stored runs in the order of created_at
    stage,      \* AgentRun.Stage
    cloned,     \* runs whose BaseSHA is recorded
    generation, \* AgentRun.PATGeneration
    lapsed,     \* runs whose MandateExpires has passed
    token,      \* the account's patWrapper
    enabled,    \* the repository is enabled for the account
    current,    \* actors whose copy of their run is the stored row
    pc, job,    \* where the worker is, and its run
    duty,       \* what it does next: reconcile ("resuming") or drain ("idle")
    todo,       \* what reconcile has listed and not resumed
    held,       \* the generation of the token the worker has in hand
    erred,      \* the worker has logged an error in this life of the daemon
    cancels,    \* Service.cancels
    signalled,  \* runs whose context has been cancelled
    op,         \* the owner's operations
    asked,      \* questions each run has asked
    branch,     \* runs whose branch is on GitHub
    pulls,      \* pull requests of each run on GitHub
    announced,  \* pull requests the owner has been told of
    crashes, faults

rowVars == <<state, created, stage, cloned, generation>>
ownerVars == <<lapsed, token, enabled, op>>
workerVars == <<pc, job, duty, todo, held, erred>>
signalVars == <<cancels, signalled>>
remoteVars == <<branch, pulls, announced>>
boundVars == <<asked, crashes, faults>>
vars == <<rowVars, ownerVars, current, workerVars, signalVars, remoteVars,
          boundVars>>

Finished == {"completed", "failed", "cancelled", "interrupted"}
InProgress == {"running", "publishing"}
Parked == {"queued", "waiting_for_user"}

NoOp == [kind |-> "none", at |-> "idle", run |-> NoRun,
         list |-> {}, token |-> 0]

Init ==
    /\ state = [r \in Runs |-> "absent"]
    /\ created = <<>>
    /\ stage = [r \in Runs |-> "none"]
    /\ cloned = {}
    /\ generation = [r \in Runs |-> 0]
    /\ lapsed = {}
    /\ token = [generation |-> 1, connected |-> TRUE]
    /\ enabled = TRUE
    /\ current = {}
    /\ pc = "down"
    /\ job = NoRun
    /\ duty = "resuming"
    /\ todo = {}
    /\ held = 0
    /\ erred = FALSE
    /\ cancels = {}
    /\ signalled = {}
    /\ op = [o \in Ops |-> NoOp]
    /\ asked = [r \in Runs |-> 0]
    /\ branch = {}
    /\ pulls = [r \in Runs |-> 0]
    /\ announced = {}
    /\ crashes = 0
    /\ faults = 0

About(a) == IF a = Worker THEN job ELSE op[a].run

(***************************************************************************)
(* UpdateAgentRun of run r by actor a: only a copy of the stored revision  *)
(* is written, and every other copy of r is out of date afterwards.        *)
(***************************************************************************)
Commits(a, r) ==
    /\ a \in current
    /\ current' = {x \in current : (x = a /\ a = Worker) \/ About(x) # r}

Becomes(r, s) == state' = [state EXCEPT ![r] = s]

-----------------------------------------------------------------------------
(* Start *)

(* The checks of Start, before admitMu: enabled, connected, push access. *)
AskStart(r) ==
    /\ state[r] = "absent"
    /\ enabled /\ token.connected
    /\ Becomes(r, "requested")
    /\ generation' = [generation EXCEPT ![r] = token.generation]
    /\ UNCHANGED <<created, stage, cloned, ownerVars, current, workerVars,
                   signalVars, remoteVars, boundVars>>

(* Under admitMu: one queued run at a time, then CreateAgentRun. *)
Start(r) ==
    /\ state[r] = "requested"
    /\ IF \E q \in Runs : state[q] = "queued"
       THEN Becomes(r, "refused") /\ UNCHANGED created
       ELSE Becomes(r, "queued") /\ created' = Append(created, r)
    /\ UNCHANGED <<stage, cloned, generation, ownerVars, current, workerVars,
                   signalVars, remoteVars, boundVars>>

(* The mandate of a run ends while the run is alive. *)
Lapse(r) ==
    /\ state[r] \in Parked \cup InProgress
    /\ r \notin lapsed
    /\ lapsed' = lapsed \cup {r}
    /\ UNCHANGED <<rowVars, token, enabled, op, current, workerVars,
                   signalVars, remoteVars, boundVars>>

(* Delete: the state is read inside the transaction. *)
Delete(r) ==
    /\ state[r] \in Finished
    /\ Becomes(r, "deleted")
    /\ UNCHANGED <<created, stage, cloned, generation, ownerVars, current,
                   workerVars, signalVars, remoteVars, boundVars>>

EnableRepository ==
    /\ ~enabled
    /\ enabled' = TRUE
    /\ UNCHANGED <<rowVars, lapsed, token, op, current, workerVars,
                   signalVars, remoteVars, boundVars>>

-----------------------------------------------------------------------------
(* The owner's operations *)

(* The operation returns, with an error or without. *)
Returns(o) == op' = [op EXCEPT ![o] = [NoOp EXCEPT !.at = "returned"]]

(* The end of one Cancel: of the operation, or of one run it has listed. *)
CancelReturns(o) ==
    IF op[o].kind = "cancel" THEN Returns(o)
    ELSE op' = [op EXCEPT ![o].list = @ \ {op[o].run}, ![o].at = "picking"]

BeginCancel(o, r) ==
    /\ op[o].at = "idle"
    /\ op' = [op EXCEPT ![o] = [@ EXCEPT !.kind = "cancel", !.at = "picking",
                                         !.list = {r}]]
    /\ UNCHANGED <<rowVars, lapsed, token, enabled, current, workerVars,
                   signalVars, remoteVars, boundVars>>

(* DisconnectPAT, or a disabled repository: the live runs are listed first. *)
BeginWithdraw(o, kind) ==
    /\ op[o].at = "idle"
    /\ op' = [op EXCEPT ![o] = [@ EXCEPT !.kind = kind, !.at = "picking",
                !.list = {r \in Runs : state[r] \in Parked \cup {"running"}}]]
    /\ UNCHANGED <<rowVars, lapsed, token, enabled, current, workerVars,
                   signalVars, remoteVars, boundVars>>

(* Cancel reads the run; one in progress is cancelled through its context. *)
GetInProgress(o, r) ==
    /\ op[o].at = "picking"
    /\ r \in op[o].list
    /\ state[r] \in InProgress
    /\ op' = [op EXCEPT ![o].run = r, ![o].at = "signalling"]
    /\ UNCHANGED <<rowVars, lapsed, token, enabled, current, workerVars,
                   signalVars, remoteVars, boundVars>>

(* One that is queued or waiting is cancelled in its row. *)
GetParked(o, r) ==
    /\ op[o].at = "picking"
    /\ r \in op[o].list
    /\ state[r] \in Parked
    /\ op' = [op EXCEPT ![o].run = r, ![o].at = "cancelling"]
    /\ current' = current \cup {o}
    /\ UNCHANGED <<rowVars, lapsed, token, enabled, workerVars,
                   signalVars, remoteVars, boundVars>>

(* A finished one refuses, which ends a withdrawal that listed it too. *)
GetFinished(o, r) ==
    /\ op[o].at = "picking"
    /\ r \in op[o].list
    /\ state[r] \notin InProgress \cup Parked
    /\ Returns(o)
    /\ UNCHANGED <<rowVars, lapsed, token, enabled, current, workerVars,
                   signalVars, remoteVars, boundVars>>

(* Service.cancels is looked up later, under its own lock. *)
SignalCancel(o) ==
    /\ op[o].at = "signalling"
    /\ signalled' = signalled \cup (cancels \cap {op[o].run})
    /\ CancelReturns(o)
    /\ UNCHANGED <<rowVars, lapsed, token, enabled, current, workerVars,
                   cancels, remoteVars, boundVars>>

CancelRow(o) ==
    /\ op[o].at = "cancelling"
    /\ Commits(o, op[o].run)
    /\ Becomes(op[o].run, "cancelled")
    /\ CancelReturns(o)
    /\ UNCHANGED <<created, stage, cloned, generation, lapsed, token, enabled,
                   workerVars, signalVars, remoteVars, boundVars>>

(* An error ends the operation, the withdrawal that listed the run too. *)
OpConflicts(o) ==
    /\ op[o].at \in {"cancelling", "answering"}
    /\ o \notin current
    /\ Returns(o)
    /\ UNCHANGED <<rowVars, lapsed, token, enabled, current, workerVars,
                   signalVars, remoteVars, boundVars>>

(* Every listed run is cancelled: the token, or the repository, goes. *)
Withdraw(o) ==
    /\ op[o].at = "picking"
    /\ op[o].list = {}
    /\ Returns(o)
    /\ IF op[o].kind = "disconnect"
       THEN /\ token.generation < MaxGeneration
            /\ token' = [generation |-> token.generation + 1, connected |-> FALSE]
            /\ UNCHANGED enabled
       ELSE enabled' = FALSE /\ UNCHANGED token
    /\ UNCHANGED <<rowVars, lapsed, current, workerVars, signalVars,
                   remoteVars, boundVars>>

(* Answer reads a waiting run whose mandate holds. *)
GetForAnswer(o, r) ==
    /\ op[o].at = "idle"
    /\ state[r] = "waiting_for_user"
    /\ r \notin lapsed
    /\ op' = [op EXCEPT ![o] = [@ EXCEPT !.kind = "answer", !.run = r,
                                         !.at = "answering"]]
    /\ current' = current \cup {o}
    /\ UNCHANGED <<rowVars, lapsed, token, enabled, workerVars,
                   signalVars, remoteVars, boundVars>>

(* Defect: the answered run is stored once more. *)
AnswerAgain(o) ==
    /\ op[o].at = "answering"
    /\ Commits(o, op[o].run)
    /\ Becomes(op[o].run, "queued")
    /\ created' = Append(created, op[o].run)
    /\ Returns(o)
    /\ UNCHANGED <<stage, cloned, generation, lapsed, token, enabled,
                   workerVars, signalVars, remoteVars, boundVars>>

Answer(o) ==
    /\ op[o].at = "answering"
    /\ Commits(o, op[o].run)
    /\ Becomes(op[o].run, "queued")
    /\ Returns(o)
    /\ UNCHANGED <<created, stage, cloned, generation, lapsed, token, enabled,
                   workerVars, signalVars, remoteVars, boundVars>>

(* Set: a new token, once GitHub has confirmed it. *)
SetPAT ==
    /\ token.generation < MaxGeneration
    /\ token' = [generation |-> token.generation + 1, connected |-> TRUE]
    /\ UNCHANGED <<rowVars, lapsed, enabled, op, current, workerVars,
                   signalVars, remoteVars, boundVars>>

(* Refresh loads the token and asks GitHub what it may push to. *)
LoadForRefresh(o) ==
    /\ op[o].at = "idle"
    /\ token.connected
    /\ op' = [op EXCEPT ![o] = [@ EXCEPT !.kind = "refresh", !.at = "saving",
                                         !.token = token.generation]]
    /\ UNCHANGED <<rowVars, lapsed, token, enabled, current, workerVars,
                   signalVars, remoteVars, boundVars>>

(* It stores the token again, under the generation it has loaded. *)
Refresh(o) ==
    /\ op[o].at = "saving"
    /\ token' = [generation |-> op[o].token, connected |-> TRUE]
    /\ Returns(o)
    /\ UNCHANGED <<rowVars, lapsed, enabled, current, workerVars,
                   signalVars, remoteVars, boundVars>>

-----------------------------------------------------------------------------
(* The worker *)

(* The worker writes its run, which is now in state s, and goes on. *)
WorkerWrites(s, to) ==
    /\ Commits(Worker, job)
    /\ Becomes(job, s)
    /\ pc' = to

(* The end of execute, or of one run of reconcile. *)
Leaves ==
    /\ job' = NoRun
    /\ held' = 0
    /\ cancels' = cancels \ {job}
    /\ signalled' = signalled \ {job}

(* finish: the last write of the run, whose copy is dropped with the rest. *)
Finishes(s, to) ==
    /\ Worker \in current
    /\ current' = {x \in current : About(x) # job}
    /\ Becomes(job, s)
    /\ pc' = to
    /\ Leaves

(* A step that changes nothing but where the worker is. *)
Proceeds(from, to) ==
    /\ pc = from
    /\ pc' = to
    /\ UNCHANGED <<rowVars, ownerVars, current, job, duty, todo, held, erred,
                   signalVars, remoteVars, boundVars>>

(* Defect: runs that were cut off are not looked for. *)
BootUnreconciled ==
    /\ pc = "down"
    /\ pc' = "resuming"
    /\ duty' = "resuming"
    /\ todo' = {r \in Runs : state[r] = "publishing"}
    /\ erred' = FALSE
    /\ UNCHANGED <<rowVars, ownerVars, current, job, held, signalVars,
                   remoteVars, boundVars>>

(***************************************************************************)
(* The daemon starts: reconcileStartup records every run that was cut off  *)
(* while coding, before anybody can touch one; reconcile lists the runs in *)
(* publication.                                                            *)
(***************************************************************************)
Boot ==
    /\ pc = "down"
    /\ pc' = "resuming"
    /\ duty' = "resuming"
    /\ state' = [r \in Runs |-> IF state[r] = "running" THEN "interrupted"
                                ELSE state[r]]
    /\ todo' = {r \in Runs : state[r] = "publishing"}
    /\ erred' = FALSE
    /\ UNCHANGED <<created, stage, cloned, generation, ownerVars, current, job,
                   held, signalVars, remoteVars, boundVars>>

(* reconcile takes the next run it has listed, with the token of the moment. *)
Resume(r) ==
    /\ pc = "resuming"
    /\ r \in todo
    /\ todo' = todo \ {r}
    /\ job' = r
    /\ current' = current \cup {Worker}
    /\ held' = token.generation
    /\ pc' = IF token.connected /\ token.generation = generation[r]
             THEN "continuing" ELSE "failing"
    /\ UNCHANGED <<rowVars, ownerVars, duty, erred, signalVars, remoteVars,
                   boundVars>>

EndReconcile ==
    /\ todo = {}
    /\ pc = "resuming"
    /\ pc' = "idle"
    /\ duty' = "idle"
    /\ UNCHANGED <<rowVars, ownerVars, current, job, todo, held, erred,
                   signalVars, remoteVars, boundVars>>

(* expireWaiting; a row that changes under it is left to the next wake. *)
ExpireWaiting(r) ==
    /\ pc = "idle"
    /\ state[r] = "waiting_for_user"
    /\ r \in lapsed
    /\ Becomes(r, "cancelled")
    /\ current' = {x \in current : About(x) # r}
    /\ UNCHANGED <<created, stage, cloned, generation, ownerVars, workerVars,
                   signalVars, remoteVars, boundVars>>

(* NextQueuedAgentRun: the oldest queued run. *)
TakeNext ==
    /\ pc = "idle"
    /\ \E i \in DOMAIN created :
        /\ state[created[i]] = "queued"
        /\ \A j \in 1..(i - 1) : state[created[j]] # "queued"
        /\ job' = created[i]
        /\ pc' = IF created[i] \in lapsed THEN "failing" ELSE "taken"
    /\ current' = current \cup {Worker}
    /\ UNCHANGED <<rowVars, ownerVars, duty, todo, held, erred, signalVars,
                   remoteVars, boundVars>>

(* execute registers the run's cancel function and records that it runs. *)
StartRunning ==
    /\ pc = "taken"
    /\ WorkerWrites("running", IF job \in cloned THEN "coding" ELSE "cloning")
    /\ cancels' = cancels \cup {job}
    /\ UNCHANGED <<created, stage, cloned, generation, ownerVars, job, duty,
                   todo, held, erred, signalled, remoteVars, boundVars>>

(* The token is the run's own, the clone succeeds, and its base is stored. *)
Clone ==
    /\ pc = "cloning"
    /\ job \notin signalled
    /\ token.connected /\ token.generation = generation[job]
    /\ WorkerWrites("running", "coding")
    /\ cloned' = cloned \cup {job}
    /\ UNCHANGED <<created, stage, generation, ownerVars, job, duty, todo,
                   held, erred, signalVars, remoteVars, boundVars>>

(* The coding turn asks the owner, and the run leaves the worker. *)
AskOwner ==
    /\ pc = "coding"
    /\ job \notin signalled
    /\ asked[job] < MaxQuestions
    /\ asked' = [asked EXCEPT ![job] = @ + 1]
    /\ Finishes("waiting_for_user", "idle")
    /\ UNCHANGED <<created, stage, cloned, generation, ownerVars, duty, todo,
                   erred, remoteVars, crashes, faults>>

(* Its context was cancelled, which is looked at when the turn is over. *)
CancelledByOwner ==
    /\ pc = "coding"
    /\ job \in signalled
    /\ Finishes("cancelled", "idle")
    /\ UNCHANGED <<created, stage, cloned, generation, ownerVars, duty, todo,
                   erred, remoteVars, boundVars>>

(* The daemon shuts down during the coding turn: the write outlives it. *)
Shutdown ==
    /\ pc = "coding"
    /\ crashes + faults < MaxTroubles
    /\ crashes' = crashes + 1
    /\ Becomes(job, "interrupted")
    /\ pc' = "down"
    /\ current' = {}
    /\ cancels' = {} /\ signalled' = {} /\ job' = NoRun /\ held' = 0
    /\ op' = [o \in Ops |-> IF op[o].at = "idle" THEN op[o]
                            ELSE [NoOp EXCEPT !.at = "returned"]]
    /\ UNCHANGED <<created, stage, cloned, generation, lapsed, token, enabled,
                   duty, todo, erred, remoteVars, asked, faults>>

(* The turn is over and its context was not cancelled: publish. *)
CodingDone == job \notin signalled /\ Proceeds("coding", "publish")

BeginPublish ==
    /\ pc = "publish"
    /\ WorkerWrites("publishing", "checking")
    /\ UNCHANGED <<created, stage, cloned, generation, ownerVars, job, duty,
                   todo, held, erred, signalVars, remoteVars, boundVars>>

(* The token must be the one the run was started under. *)
CheckToken ==
    /\ pc = "checking"
    /\ held' = token.generation
    /\ pc' = IF /\ token.connected /\ token.generation = generation[job]
                /\ job \notin lapsed
             THEN "committing" ELSE "failing"
    /\ UNCHANGED <<rowVars, ownerVars, current, job, duty, todo, erred,
                   signalVars, remoteVars, boundVars>>

(* The workspace does not differ: completed without a pull request. *)
NothingChanged ==
    /\ pc = "committing"
    /\ Finishes("completed", duty)
    /\ UNCHANGED <<created, stage, cloned, generation, ownerVars, duty, todo,
                   erred, remoteVars, boundVars>>

RecordCommit ==
    /\ pc = "committing"
    /\ WorkerWrites("publishing", "continuing")
    /\ stage' = [stage EXCEPT ![job] = "committed"]
    /\ UNCHANGED <<created, cloned, generation, ownerVars, job, duty, todo,
                   held, erred, signalVars, remoteVars, boundVars>>

(***************************************************************************)
(* continuePublish goes on from the recorded stage.  A run cut off before  *)
(* its commit has none, and nothing is done with it.                       *)
(***************************************************************************)
Continuation(s) ==
    CASE s = "committed"                    -> "preflight"
      [] s = "push_intended"                -> "probing"
      [] s \in {"pushed", "pr_intended"} -> "opening"
      [] s = "pr_opened"                    -> "announcing"

Continue ==
    /\ pc = "continuing"
    /\ stage[job] # "none"
    /\ Proceeds("continuing", Continuation(stage[job]))

ContinueNothing ==
    /\ pc = "continuing"
    /\ stage[job] = "none"
    /\ pc' = duty
    /\ current' = current \ {Worker}
    /\ Leaves
    /\ UNCHANGED <<rowVars, ownerVars, duty, todo, erred, remoteVars, boundVars>>

(* Was the push of before the restart made? *)
ProbeBranch ==
    Proceeds("probing", IF job \in branch THEN "landed" ELSE "preflight")

(* The push is recorded before it is made. *)
Preflight ==
    /\ pc = "preflight"
    /\ job \notin lapsed
    /\ WorkerWrites("publishing", "pushing")
    /\ stage' = [stage EXCEPT ![job] = "push_intended"]
    /\ UNCHANGED <<created, cloned, generation, ownerVars, job, duty, todo,
                   held, erred, signalVars, remoteVars, boundVars>>

(* git push; a failure may come after the branch was made. *)
Push ==
    /\ pc = "pushing"
    /\ \/ branch' = branch \cup {job} /\ pc' = "landed"
       \/ branch' \in {branch, branch \cup {job}} /\ pc' = "failing"
    /\ UNCHANGED <<rowVars, ownerVars, current, job, duty, todo, held, erred,
                   signalVars, pulls, announced, boundVars>>

RecordPushed ==
    /\ pc = "landed"
    /\ WorkerWrites("publishing", "opening")
    /\ stage' = [stage EXCEPT ![job] = "pushed"]
    /\ UNCHANGED <<created, cloned, generation, ownerVars, job, duty, todo,
                   held, erred, signalVars, remoteVars, boundVars>>

(* openPR: the pull request of before the restart is adopted ... *)
FindPR ==
    /\ Proceeds("opening", "opened")
    /\ pulls[job] > 0

(* Defect: nobody looks for the pull request of before the restart. *)
IntendPRBlindly ==
    /\ pc = "opening"
    /\ WorkerWrites("publishing", "creating")
    /\ stage' = [stage EXCEPT ![job] = "pr_intended"]
    /\ UNCHANGED <<created, cloned, generation, ownerVars, job, duty, todo,
                   held, erred, signalVars, remoteVars, boundVars>>

(* ... or none is found, and a new one is recorded before it is made. *)
IntendPR ==
    /\ pc = "opening"
    /\ pulls[job] = 0
    /\ WorkerWrites("publishing", "creating")
    /\ stage' = [stage EXCEPT ![job] = "pr_intended"]
    /\ UNCHANGED <<created, cloned, generation, ownerVars, job, duty, todo,
                   held, erred, signalVars, remoteVars, boundVars>>

(* CreatePR; a failure may come after the pull request was made. *)
CreatePR ==
    /\ pc = "creating"
    /\ \/ pulls' = [pulls EXCEPT ![job] = @ + 1] /\ pc' = "opened"
       \/ /\ pulls' \in {pulls, [pulls EXCEPT ![job] = @ + 1]}
          /\ pc' = "failing"
    /\ UNCHANGED <<rowVars, ownerVars, current, job, duty, todo, held, erred,
                   signalVars, branch, announced, boundVars>>

RecordPR ==
    /\ pc = "opened"
    /\ WorkerWrites("publishing", "announcing")
    /\ stage' = [stage EXCEPT ![job] = "pr_opened"]
    /\ UNCHANGED <<created, cloned, generation, ownerVars, job, duty, todo,
                   held, erred, signalVars, remoteVars, boundVars>>

(* deliverPR tells the owner; that it cannot is WorkerError. *)
Announce ==
    /\ pc = "announcing"
    /\ announced' = announced \cup {job}
    /\ pc' = "delivering"
    /\ UNCHANGED <<rowVars, ownerVars, current, job, duty, todo, held, erred,
                   signalVars, branch, pulls, boundVars>>

Deliver ==
    /\ pc = "delivering"
    /\ Finishes("completed", duty)
    /\ stage' = [stage EXCEPT ![job] = "delivered"]
    /\ UNCHANGED <<created, cloned, generation, ownerVars, duty, todo, erred,
                   remoteVars, boundVars>>

(***************************************************************************)
(* Whatever goes wrong in a run ends it as failed: a repository that is no *)
(* longer allowed, a clone that was cancelled or failed, another token, a  *)
(* budget, a diff with a secret in it, a lapsed mandate, a protected       *)
(* branch or one with somebody else's commits, a search for a pull request *)
(* that GitHub does not answer.                                            *)
(***************************************************************************)
Fails ==
    \E from \in {"taken", "cloning", "coding", "checking", "committing",
                 "continuing", "probing", "preflight", "opening"} :
        Proceeds(from, "failing")

(* finish records the failure. *)
FinishFailed ==
    /\ pc = "failing"
    /\ Finishes("failed", duty)
    /\ UNCHANGED <<created, stage, cloned, generation, ownerVars, duty, todo,
                   erred, remoteVars, boundVars>>

(***************************************************************************)
(* An error is logged and the row stays as it is; reconcile gives up the   *)
(* runs it has not come to, drain waits for the next wake.  It is a write  *)
(* of a row that somebody else has changed, or that the store does not     *)
(* take, a probe without an answer, an announcement that was not sent.     *)
(***************************************************************************)
WorkerError ==
    /\ pc \notin {"down", "idle", "pushing", "creating"}
    /\ \/ pc \in {"taken", "failing"} /\ Worker \notin current /\ UNCHANGED faults
       \/ (crashes + faults < MaxTroubles /\ faults' = faults + 1)
    /\ pc' = "idle"
    /\ duty' = "idle"
    /\ todo' = {}
    /\ erred' = TRUE
    /\ current' = current \ {Worker}
    /\ Leaves
    /\ UNCHANGED <<rowVars, ownerVars, remoteVars, asked, crashes>>

(* The daemon dies at any point; the owner's operations die with it. *)
Crash ==
    /\ pc # "down"
    /\ crashes + faults < MaxTroubles
    /\ crashes' = crashes + 1
    /\ pc' = "down"
    /\ current' = {}
    /\ cancels' = {} /\ signalled' = {}
    /\ todo' = {} /\ job' = NoRun /\ held' = 0
    /\ op' = [o \in Ops |-> IF op[o].at = "idle" THEN op[o]
                            ELSE [NoOp EXCEPT !.at = "returned"]]
    /\ UNCHANGED <<rowVars, lapsed, token, enabled, duty, erred, remoteVars,
                   asked, faults>>

-----------------------------------------------------------------------------

Owner ==
    \/ \E r \in Runs : AskStart(r) \/ Start(r) \/ Lapse(r) \/ Delete(r)
    \/ EnableRepository
    \/ SetPAT
    \/ \E o \in Ops :
        \/ \E r \in Runs : \/ BeginCancel(o, r) \/ GetInProgress(o, r)
                           \/ GetParked(o, r) \/ GetFinished(o, r)
                           \/ GetForAnswer(o, r)
        \/ \E kind \in {"disconnect", "disable"} : BeginWithdraw(o, kind)
        \/ SignalCancel(o) \/ CancelRow(o) \/ OpConflicts(o) \/ Withdraw(o)
        \/ Answer(o)
        \/ LoadForRefresh(o) \/ Refresh(o)

Work ==
    \/ Boot \/ EndReconcile \/ TakeNext \/ StartRunning \/ Clone
    \/ \E r \in Runs : Resume(r) \/ ExpireWaiting(r)
    \/ AskOwner \/ CancelledByOwner \/ CodingDone
    \/ BeginPublish \/ CheckToken \/ NothingChanged \/ RecordCommit
    \/ Continue \/ ContinueNothing \/ ProbeBranch \/ Preflight \/ Push \/ RecordPushed
    \/ FindPR \/ IntendPR \/ CreatePR \/ RecordPR \/ Announce \/ Deliver
    \/ Fails \/ FinishFailed \/ WorkerError

Next == Owner \/ Work \/ Shutdown \/ Crash

(* The worker runs, the daemon is started again. *)
Spec == Init /\ [][Next]_vars /\ WF_vars(Work)

-----------------------------------------------------------------------------
(* Properties *)

Stages == <<"none", "committed", "push_intended", "pushed", "pr_intended",
            "pr_opened", "delivered">>

RECORDS == [kind : {"none", "cancel", "disconnect", "disable", "answer",
                    "refresh"},
            at : {"idle", "picking", "signalling", "cancelling", "answering",
                  "saving", "returned"},
            run : Runs \cup {NoRun}, list : SUBSET Runs, token : 0..MaxGeneration]

(* Every variable has its type; a run is stored once.                      *)
TypeOK ==
    /\ state \in [Runs -> {"absent", "requested", "refused", "deleted"}
                          \cup Parked \cup InProgress \cup Finished]
    /\ Range(created) \subseteq Runs /\ IsInjective(created)
    /\ stage \in [Runs -> Range(Stages)]
    /\ cloned \subseteq Runs
    /\ generation \in [Runs -> 0..MaxGeneration]
    /\ lapsed \subseteq Runs
    /\ token \in [generation : 1..MaxGeneration, connected : BOOLEAN]
    /\ enabled \in BOOLEAN
    /\ current \subseteq Ops \cup {Worker}
    /\ pc \in {"down", "resuming", "idle", "taken", "cloning", "coding",
               "publish", "checking", "committing", "continuing", "probing",
               "preflight", "pushing", "landed", "opening", "creating",
               "opened", "announcing", "delivering", "failing"}
    /\ job \in Runs \cup {NoRun}
    /\ duty \in {"resuming", "idle"}
    /\ todo \subseteq Runs
    /\ held \in 0..MaxGeneration
    /\ erred \in BOOLEAN
    /\ cancels \subseteq Runs /\ signalled \subseteq cancels
    /\ op \in [Ops -> RECORDS]
    /\ asked \in [Runs -> 0..MaxQuestions]
    /\ branch \subseteq Runs
    /\ pulls \in [Runs -> Nat]
    /\ announced \subseteq Runs
    /\ crashes \in 0..MaxTroubles
    /\ faults \in 0..MaxTroubles

(* A run opens one pull request, whatever crash or lost answer comes       *)
(* between the request and the record of it (openPR, reconcile).           *)
OnePullRequest == \A r \in Runs : pulls[r] <= 1

StageIndex(r) == CHOOSE i \in DOMAIN Stages : Stages[i] = stage[r]

(* "Each stage is persisted before the external effect it names": no       *)
(* branch on GitHub whose push is not on record, no pull request without a *)
(* branch and a record, no announcement of one that is not recorded.       *)
StagePrecedesEffect ==
    \A r \in Runs :
        /\ r \in branch => StageIndex(r) >= 3
        /\ pulls[r] > 0 => r \in branch /\ StageIndex(r) >= 5
        /\ r \in announced => StageIndex(r) >= 6

(* A finished run stays as it is until its owner deletes it: no worker and *)
(* no owner's operation that looked at it earlier revives or relabels it.  *)
FinishedIsFinal ==
    [][\A r \in Runs : state[r] \in Finished =>
            state'[r] \in {state[r], "deleted"}]_vars

(* A run that is stored as running is the one the worker is at: no crash,  *)
(* cancellation, question or conflict leaves a row behind that nobody      *)
(* works on, nor two rows at once ("one active run").                      *)
RunningIsWorkedOn ==
    \A r \in Runs : state[r] = "running" /\ faults = 0 =>
        pc = "down" \/ (job = r /\ pc \notin {"idle", "resuming"})

(* A run that committed and completed has one pull request on its branch,  *)
(* and its owner has been told (deliverPR).                                *)
CompletedIsDelivered ==
    \A r \in Runs : state[r] = "completed" /\ stage[r] # "none" =>
        /\ stage[r] = "delivered"
        /\ r \in announced /\ pulls[r] = 1

(* Nothing is published with another token than the one the run was        *)
(* started under, also when a restart lies between (publish, reconcile).   *)
UsesItsOwnToken ==
    pc \in {"committing", "continuing", "probing", "preflight", "pushing",
           "landed", "opening", "creating", "opened", "announcing"} =>
        held = generation[job]

(* worker.go:167, "A run in publication is not touched here; reconcile     *)
(* resumes it": once a start without errors has reconciled, no run is left *)
(* in publication.                                                         *)
PublicationResumes ==
    pc = "idle" /\ ~erred => \A r \in Runs : state[r] # "publishing"

(* A publication makes one pull request, records every effect before it,   *)
(* uses no token but the run's own, and completes only when delivered; a   *)
(* finished run stays as it is (publish.go, worker.go, service.go).        *)
PublishesSafely ==
    /\ [](OnePullRequest /\ StagePrecedesEffect /\ CompletedIsDelivered
           /\ UsesItsOwnToken)
    /\ FinishedIsFinal
=============================================================================

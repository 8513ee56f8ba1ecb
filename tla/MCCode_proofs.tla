----------------------------- MODULE MCCode_proofs -----------------------------
(***************************************************************************)
(* What is proved of what works on code and on skills, for every value of  *)
(* the constants: first of AgentRuns, for any number of runs, operations   *)
(* and deaths of the daemon; then of the coding turn, installs, skill      *)
(* files and workspaces an inductive invariant each, that every step of    *)
(* the component keeps; and then, since a behaviour is one component's,    *)
(* what the run of MCCode checks.                                          *)
(***************************************************************************)
EXTENDS MCCode, FoldTheorems

-----------------------------------------------------------------------------
(* AgentRuns: its inductive invariant                                      *)

Resting == {"down", "resuming", "idle"}
CodingPlaces == {"cloning", "coding", "publish"}
PublishingPlaces ==
    {"checking", "committing", "continuing", "probing", "preflight", "pushing",
     "landed", "opening", "creating", "opened", "announcing", "delivering"}
Stored == Parked \cup InProgress \cup Finished \cup {"deleted"}

(* A run is stored once, by its start.                                     *)
CreatedInv ==
    /\ created \in Seq(Runs)
    /\ \A i \in DOMAIN created : state[created[i]] \in Stored

(* An operation whose copy is current looks at a parked run.               *)
OpInv ==
    \A o \in Ops :
        /\ o \in current =>
              /\ op[o].at \in {"cancelling", "answering"}
              /\ state[op[o].run] \in Parked
              /\ op[o].at = "answering" =>
                    state[op[o].run] = "waiting_for_user"
        /\ op[o].at \in {"signalling", "cancelling", "answering"} =>
              op[o].run \in Runs
        /\ op[o].at = "saving" => op[o].token # 0

(* The row of the worker's run is in the state that the worker gave it,    *)
(* unless it was cancelled before the worker wrote it for the first time.  *)
WorkerInv ==
    /\ pc \in Resting => job = NoRun /\ Worker \notin current
    /\ pc \notin Resting => job \in Runs
    /\ pc = "taken" /\ Worker \in current => state[job] = "queued"
    /\ pc \in CodingPlaces => Worker \in current /\ state[job] = "running"
    /\ pc \in PublishingPlaces =>
          Worker \in current /\ state[job] = "publishing"
    /\ pc = "failing" /\ Worker \in current =>
          state[job] \in {"queued", "running", "publishing"}
    /\ pc \in {"taken", "failing"} /\ Worker \notin current =>
          state[job] \in Finished \cup {"deleted"}
    /\ \A r \in todo : state[r] = "publishing" /\ r # job

(* What is on GitHub follows from the stage, and the stage from the state. *)
StageInv ==
    \A r \in Runs :
        /\ state[r] \notin {"publishing", "deleted"} \cup Finished =>
              stage[r] = "none"
        /\ state[r] = "publishing" => stage[r] # "delivered"
        /\ state[r] = "completed" => stage[r] \in {"none", "delivered"}
        /\ r \in branch => stage[r] \notin {"none", "committed"}
        /\ stage[r] \in {"pushed", "pr_intended", "pr_opened", "delivered"} =>
              r \in branch
        /\ pulls[r] <= 1
        /\ pulls[r] # 0 => stage[r] \in {"pr_intended", "pr_opened", "delivered"}
        /\ stage[r] \in {"pr_opened", "delivered"} => pulls[r] = 1
        /\ r \in announced => stage[r] \in {"pr_opened", "delivered"}
        /\ stage[r] = "delivered" => r \in announced

(* Where the worker is in a publication, the stage on record says.         *)
PlaceInv ==
    /\ pc \in {"checking", "committing"} => stage[job] = "none"
    /\ pc = "preflight" => stage[job] \in {"committed", "push_intended"}
    /\ pc \in {"probing", "pushing"} => stage[job] = "push_intended"
    /\ pc = "landed" => stage[job] = "push_intended" /\ job \in branch
    /\ pc = "opening" => stage[job] \in {"pushed", "pr_intended"}
    /\ pc = "creating" => stage[job] = "pr_intended" /\ pulls[job] = 0
    /\ pc = "opened" => stage[job] \in {"pr_intended"} /\ pulls[job] = 1
    /\ pc \in {"announcing", "delivering"} => stage[job] = "pr_opened"
    /\ pc = "delivering" => job \in announced
    /\ UsesItsOwnToken

IInv ==
    /\ TypeOK /\ CreatedInv /\ OpInv /\ WorkerInv /\ StageInv /\ PlaceInv
    /\ RunningIsWorkedOn

(* The stages by name. *)
LEMMA StageNames ==
  Range(Stages) = {"none", "committed", "push_intended", "pushed",
                   "pr_intended", "pr_opened", "delivered"}
<1>1. DOMAIN Stages = 1..7
  BY DEF Stages
<1>2. /\ Stages[1] = "none" /\ Stages[2] = "committed"
      /\ Stages[3] = "push_intended" /\ Stages[4] = "pushed"
      /\ Stages[5] = "pr_intended" /\ Stages[6] = "pr_opened"
      /\ Stages[7] = "delivered"
  BY DEF Stages
<1>3. \A i \in 1..7 : i = 1 \/ i = 2 \/ i = 3 \/ i = 4 \/ i = 5 \/ i = 6 \/ i = 7
  OBVIOUS
<1>4. Range(Stages) \subseteq {Stages[1], Stages[2], Stages[3], Stages[4],
                               Stages[5], Stages[6], Stages[7]}
  BY <1>1, <1>3 DEF Range
<1>5. {Stages[1], Stages[2], Stages[3], Stages[4],
       Stages[5], Stages[6], Stages[7]} \subseteq Range(Stages)
  BY <1>1 DEF Range
<1>. QED  BY <1>2, <1>4, <1>5

(* The operators that change an operation keep its type. *)
LEMMA OpTypes ==
  ASSUME op \in [Ops -> RECORDS], NEW o \in Ops
  PROVE  /\ Returns(o) => op' \in [Ops -> RECORDS]
         /\ CancelReturns(o) => op' \in [Ops -> RECORDS]
         /\ NoOp \in RECORDS /\ [NoOp EXCEPT !.at = "returned"] \in RECORDS
         /\ \A x \in RECORDS : [op EXCEPT ![o] = x] \in [Ops -> RECORDS]
<1>1. NoOp \in RECORDS /\ [NoOp EXCEPT !.at = "returned"] \in RECORDS
  BY AgentRunsAssumption DEF RECORDS, NoOp
<1>2. \A x \in RECORDS : [op EXCEPT ![o] = x] \in [Ops -> RECORDS]
  OBVIOUS
<1>3. [op[o] EXCEPT !.list = @ \ {op[o].run}, !.at = "picking"] \in RECORDS
  BY DEF RECORDS
<1>4. CancelReturns(o) => op' \in [Ops -> RECORDS]
  BY <1>1, <1>2, <1>3 DEF CancelReturns, Returns
<1>. QED  BY <1>1, <1>2, <1>4 DEF Returns

(* A run that is not stored yet is stored once by appending it. *)
LEMMA AppendOnce ==
  ASSUME NEW S, NEW s \in Seq(S), NEW e \in S, IsInjective(s),
         \A i \in DOMAIN s : s[i] # e
  PROVE  Range(Append(s, e)) \subseteq S /\ IsInjective(Append(s, e))
<1>1. /\ Append(s, e) \in Seq(S)
      /\ \A i \in 1..Len(s) : Append(s, e)[i] = s[i]
      /\ Append(s, e)[Len(s) + 1] = e
  OBVIOUS
<1>2. /\ DOMAIN s = 1..Len(s) /\ Len(s) \in Nat
      /\ DOMAIN Append(s, e) = 1..(Len(s) + 1)
  OBVIOUS
<1>3. \A i \in DOMAIN Append(s, e) : i \in DOMAIN s \/ i = Len(s) + 1
  BY <1>2
<1>4. \A i \in DOMAIN Append(s, e) : Append(s, e)[i] \in S
  BY <1>1, <1>2, <1>3
<1>. QED  BY <1>1, <1>2, <1>3, <1>4 DEF Range, IsInjective

(* Nothing is stored, and the daemon is down. *)
LEMMA InitInv == Init => IInv
<1> SUFFICES ASSUME Init PROVE IInv
  OBVIOUS
<1> USE AgentRunsAssumption DEF Init
<1>1. Range(created) = {} /\ IsInjective(created) /\ CreatedInv
  BY DEF Range, IsInjective, CreatedInv
<1>2. op \in [Ops -> RECORDS] /\ OpInv
  BY DEF RECORDS, NoOp, OpInv
<1>3. token \in [generation : 1..MaxGeneration, connected : BOOLEAN]
  OBVIOUS
<1>4. /\ stage \in [Runs -> Range(Stages)] /\ generation \in [Runs -> 0..MaxGeneration]
      /\ asked \in [Runs -> 0..MaxQuestions] /\ held \in 0..MaxGeneration
      /\ pulls \in [Runs -> Nat] /\ crashes \in 0..MaxTroubles /\ faults \in 0..MaxTroubles
  BY StageNames
<1>7. pc = "down" /\ job = NoRun /\ duty = "resuming" /\ state = [r \in Runs |-> "absent"]
  OBVIOUS
<1>8. /\ cloned = {} /\ lapsed = {} /\ current = {} /\ todo = {} /\ cancels = {}
      /\ signalled = {} /\ branch = {} /\ announced = {} /\ enabled = TRUE /\ erred = FALSE
  OBVIOUS
<1> HIDE DEF Init
<1>6. TypeOK
  BY <1>1, <1>2, <1>3, <1>4, <1>7, <1>8 DEF TypeOK
<1>5. WorkerInv /\ StageInv /\ PlaceInv /\ RunningIsWorkedOn
  BY DEF Init, WorkerInv, StageInv, PlaceInv, RunningIsWorkedOn, UsesItsOwnToken,
         Resting, CodingPlaces, PublishingPlaces, Finished
<1>. QED  BY <1>1, <1>2, <1>5, <1>6 DEF IInv

USE DEF rowVars, ownerVars, workerVars, signalVars, remoteVars, boundVars
-----------------------------------------------------------------------------
(* Every action keeps the types. *)
LEMMA TypeStep == IInv /\ [Next]_vars => TypeOK'
<1> SUFFICES ASSUME IInv, [Next]_vars PROVE TypeOK'
  OBVIOUS
<1> USE AgentRunsAssumption, OpTypes, StageNames
    DEF IInv, TypeOK, Becomes, Commits, WorkerWrites,
        Leaves, Finishes, Proceeds, Parked, InProgress, Finished
<1>1. ASSUME NEW r \in Runs, AskStart(r) PROVE TypeOK'
  BY <1>1 DEF AskStart
<1>2. ASSUME NEW r \in Runs, Start(r) PROVE TypeOK'
  <2>1. CASE \E q \in Runs : state[q] = "queued"
    BY <1>2, <2>1, ZenonT(40) DEF Start
  <2>2. CASE ~ \E q \in Runs : state[q] = "queued"
    <3>1. created' = Append(created, r) /\ created \in Seq(Runs)
      BY <1>2, <2>2 DEF Start, CreatedInv
    <3>2. \A i \in DOMAIN created : created[i] # r
      BY <1>2 DEF Start, CreatedInv, Stored
    <3>3. Range(Append(created, r)) \subseteq Runs /\ IsInjective(Append(created, r))
      BY <3>1, <3>2, AppendOnce
    <3>4. Range(created)' \subseteq Runs /\ IsInjective(created)'
      BY <3>1, <3>3
    <3>. QED  BY <1>2, <2>2, <3>4, ZenonT(40) DEF Start
  <2>. QED  BY <2>1, <2>2
<1>3. ASSUME NEW r \in Runs, Lapse(r) PROVE TypeOK'
  BY <1>3 DEF Lapse
<1>4. ASSUME NEW r \in Runs, Delete(r) PROVE TypeOK'
  BY <1>4 DEF Delete
<1>5. CASE EnableRepository
  BY <1>5 DEF EnableRepository
<1>6. CASE SetPAT
  BY <1>6 DEF SetPAT
<1>7. ASSUME NEW o \in Ops, NEW r \in Runs, BeginCancel(o, r) PROVE TypeOK'
  <2>1. [op[o] EXCEPT !.kind = "cancel", !.at = "picking", !.list = {r}]
            \in RECORDS
    BY <1>7 DEF BeginCancel, RECORDS
  <2>2. op' \in [Ops -> RECORDS]
    BY <1>7, <2>1 DEF BeginCancel
  <2>. QED  BY <1>7, <2>2 DEF BeginCancel
<1>8. ASSUME NEW o \in Ops, NEW r \in Runs, GetInProgress(o, r) PROVE TypeOK'
  BY <1>8 DEF GetInProgress, RECORDS
<1>9. ASSUME NEW o \in Ops, NEW r \in Runs, GetParked(o, r) PROVE TypeOK'
  BY <1>9 DEF GetParked, RECORDS
<1>10. ASSUME NEW o \in Ops, NEW r \in Runs, GetFinished(o, r) PROVE TypeOK'
  BY <1>10 DEF GetFinished
<1>11. ASSUME NEW o \in Ops, NEW r \in Runs, GetForAnswer(o, r) PROVE TypeOK'
  <2>1. [op[o] EXCEPT !.kind = "answer", !.run = r, !.at = "answering"]
            \in RECORDS
    BY <1>11 DEF GetForAnswer, RECORDS
  <2>2. op' \in [Ops -> RECORDS]
    BY <1>11, <2>1 DEF GetForAnswer
  <2>. QED  BY <1>11, <2>2 DEF GetForAnswer
<1>12. ASSUME NEW o \in Ops, NEW kind \in {"disconnect", "disable"},
       BeginWithdraw(o, kind) PROVE TypeOK'
  <2>1. [op[o] EXCEPT !.kind = kind, !.at = "picking",
             !.list = {r \in Runs : state[r] \in Parked \cup {"running"}}]
            \in RECORDS
    BY <1>12 DEF BeginWithdraw, RECORDS
  <2>2. op' \in [Ops -> RECORDS]
    BY <1>12, <2>1 DEF BeginWithdraw
  <2>. QED  BY <1>12, <2>2 DEF BeginWithdraw
<1>13. ASSUME NEW o \in Ops, SignalCancel(o) PROVE TypeOK'
  BY <1>13 DEF SignalCancel
<1>14. ASSUME NEW o \in Ops, CancelRow(o) PROVE TypeOK'
  BY <1>14, ZenonT(40) DEF CancelRow
<1>15. ASSUME NEW o \in Ops, OpConflicts(o) PROVE TypeOK'
  BY <1>15 DEF OpConflicts
<1>16. ASSUME NEW o \in Ops, Withdraw(o) PROVE TypeOK'
  <2>1. token' \in [generation : 1..MaxGeneration, connected : BOOLEAN]
    <3>1. \/ token' = token
          \/ /\ token.generation < MaxGeneration
             /\ token' = [generation |-> token.generation + 1, connected |-> FALSE]
      BY <1>16 DEF Withdraw
    <3>2. token.generation < MaxGeneration =>
            token.generation + 1 \in 1..MaxGeneration
      OBVIOUS
    <3>3. token.generation < MaxGeneration =>
            [generation |-> token.generation + 1, connected |-> FALSE]
            \in [generation : 1..MaxGeneration, connected : BOOLEAN]
      BY <3>2
    <3>. QED  BY <3>1, <3>3
  <2>. QED  BY <1>16, <2>1 DEF Withdraw
<1>17. ASSUME NEW o \in Ops, Answer(o) PROVE TypeOK'
  BY <1>17, ZenonT(40) DEF Answer
<1>18. ASSUME NEW o \in Ops, LoadForRefresh(o) PROVE TypeOK'
  <2>. token.generation \in 0..MaxGeneration
    OBVIOUS
  <2>1. [op[o] EXCEPT !.kind = "refresh", !.at = "saving",
                         !.token = token.generation]
            \in RECORDS
    BY <1>18 DEF LoadForRefresh, RECORDS
  <2>2. op' \in [Ops -> RECORDS]
    BY <1>18, <2>1 DEF LoadForRefresh
  <2>. QED  BY <1>18, <2>2 DEF LoadForRefresh
<1>19. ASSUME NEW o \in Ops, Refresh(o) PROVE TypeOK'
  BY <1>19 DEF Refresh, RECORDS, OpInv
<1>20. CASE Boot
  BY <1>20 DEF Boot
<1>21. CASE EndReconcile
  BY <1>21 DEF EndReconcile
<1>22. CASE TakeNext
  BY <1>22 DEF TakeNext, Range
<1>23. CASE StartRunning
  BY <1>23 DEF StartRunning, WorkerInv, Resting, CodingPlaces, PublishingPlaces
<1>24. CASE Clone
  BY <1>24 DEF Clone, WorkerInv, Resting, CodingPlaces, PublishingPlaces
<1>25. ASSUME NEW r \in Runs, Resume(r) PROVE TypeOK'
  BY <1>25 DEF Resume
<1>26. ASSUME NEW r \in Runs, ExpireWaiting(r) PROVE TypeOK'
  BY <1>26 DEF ExpireWaiting
<1>27. CASE AskOwner
  BY <1>27 DEF AskOwner, WorkerInv, Resting, CodingPlaces, PublishingPlaces
<1>28. CASE CancelledByOwner
  BY <1>28 DEF CancelledByOwner
<1>29. CASE CodingDone
  BY <1>29 DEF CodingDone
<1>30. CASE BeginPublish
  BY <1>30 DEF BeginPublish
<1>31. CASE CheckToken
  BY <1>31 DEF CheckToken
<1>32. CASE NothingChanged
  BY <1>32 DEF NothingChanged, WorkerInv, Resting, CodingPlaces, PublishingPlaces
<1>33. CASE RecordCommit
  BY <1>33 DEF RecordCommit, WorkerInv, Resting, CodingPlaces, PublishingPlaces
<1>34. CASE Continue
  BY <1>34 DEF Continue, WorkerInv, Resting, CodingPlaces, PublishingPlaces, StageInv, Continuation
<1>35. CASE ContinueNothing
  BY <1>35 DEF ContinueNothing
<1>36. CASE ProbeBranch
  BY <1>36 DEF ProbeBranch
<1>37. CASE Preflight
  BY <1>37 DEF Preflight, WorkerInv, Resting, CodingPlaces, PublishingPlaces
<1>38. CASE Push
  BY <1>38 DEF Push, WorkerInv, Resting, CodingPlaces, PublishingPlaces
<1>39. CASE RecordPushed
  BY <1>39 DEF RecordPushed, WorkerInv, Resting, CodingPlaces, PublishingPlaces
<1>40. CASE FindPR
  BY <1>40 DEF FindPR
<1>41. CASE IntendPR
  BY <1>41 DEF IntendPR, WorkerInv, Resting, CodingPlaces, PublishingPlaces
<1>42. CASE CreatePR
  BY <1>42 DEF CreatePR, WorkerInv, Resting, CodingPlaces, PublishingPlaces
<1>43. CASE RecordPR
  BY <1>43 DEF RecordPR, WorkerInv, Resting, CodingPlaces, PublishingPlaces
<1>44. CASE Announce
  BY <1>44 DEF Announce, WorkerInv, Resting, CodingPlaces, PublishingPlaces
<1>45. CASE Deliver
  BY <1>45 DEF Deliver, WorkerInv, Resting, CodingPlaces, PublishingPlaces
<1>46. CASE Fails
  BY <1>46 DEF Fails
<1>47. CASE FinishFailed
  BY <1>47 DEF FinishFailed, WorkerInv, Resting, CodingPlaces, PublishingPlaces
<1>48. CASE WorkerError
  BY <1>48 DEF WorkerError
<1>49. CASE Shutdown
  <2>1. op' \in [Ops -> RECORDS]
    BY <1>49 DEF Shutdown
  <2>. QED  BY <1>49, <2>1 DEF Shutdown, WorkerInv, Resting, CodingPlaces, PublishingPlaces
<1>50. CASE Crash
  BY <1>50 DEF Crash
<1>51. CASE UNCHANGED vars
  BY <1>51 DEF vars
<1> HIDE DEF IInv, TypeOK, Becomes, Commits, WorkerWrites, Leaves, Finishes, Proceeds,
             Parked, InProgress, Finished
<1>. QED
  BY <1>1, <1>2, <1>3, <1>4, <1>5, <1>6, <1>7, <1>8, <1>9, <1>10, <1>11,
        <1>12, <1>13, <1>14, <1>15, <1>16, <1>17, <1>18, <1>19, <1>20, <1>21,
        <1>22, <1>23, <1>24, <1>25, <1>26, <1>27, <1>28, <1>29, <1>30, <1>31,
        <1>32, <1>33, <1>34, <1>35, <1>36, <1>37, <1>38, <1>39, <1>40, <1>41,
        <1>42, <1>43, <1>44, <1>45, <1>46, <1>47, <1>48, <1>49, <1>50, <1>51, SMTT(90)
        DEF Next, Owner, Work

-----------------------------------------------------------------------------
(* What the operators do to the other operations. *)
LEMMA OpMoves ==
  ASSUME op \in [Ops -> RECORDS], NEW o \in Ops
  PROVE  /\ Returns(o) =>
              /\ op'[o].at = "returned"
              /\ \A p \in Ops : p # o => op'[p] = op[p]
         /\ CancelReturns(o) =>
              /\ op'[o].at \in {"returned", "picking"}
              /\ \A p \in Ops : p # o => op'[p] = op[p]
  BY DEF Returns, CancelReturns, NoOp, RECORDS

(* An operation that goes, or comes back to its list, leaves the others.   *)
LEMMA OthersKept ==
  ASSUME TypeOK, OpInv, NEW o \in Ops,
         op'[o].at \in {"idle", "picking", "returned"},
         \A p \in Ops : p # o => op'[p] = op[p],
         current' \subseteq current \ {o},
         \A p \in Ops : p \in current' => state'[op[p].run] = state[op[p].run]
  PROVE  OpInv'
  BY DEF OpInv

(* A stored run stays stored. *)
LEMMA CreatedKept ==
  ASSUME CreatedInv, UNCHANGED created,
         \A r \in Runs : state[r] \in Stored => state'[r] \in Stored
  PROVE  CreatedInv'
  BY DEF CreatedInv

(* A start that is admitted stores its run. *)
LEMMA CreatedGrows ==
  ASSUME CreatedInv, NEW r \in Runs, created' = Append(created, r),
         state'[r] \in Stored,
         \A q \in Runs : q # r => state'[q] = state[q]
  PROVE  CreatedInv'
<1>1. /\ Append(created, r) \in Seq(Runs)
      /\ \A i \in DOMAIN Append(created, r) :
            \/ Append(created, r)[i] = r
            \/ i \in DOMAIN created /\ Append(created, r)[i] = created[i]
  BY DEF CreatedInv
<1>. QED  BY <1>1 DEF CreatedInv

(* A write of somebody else takes the copy of the same run from an operation. *)
LEMMA OpKept ==
  ASSUME TypeOK, OpInv, UNCHANGED op,
         \A p \in Ops : p \in current' =>
            p \in current /\ state'[op[p].run] = state[op[p].run]
  PROVE  OpInv'
  BY DEF OpInv

(* An operation that reads a parked run has a copy that is current. *)
LEMMA OpBegins ==
  ASSUME TypeOK, OpInv, NEW o \in Ops, NEW r \in Runs, UNCHANGED state,
         op'[o].at \in {"picking", "signalling", "cancelling", "answering", "saving"},
         op'[o].at \in {"signalling", "cancelling", "answering"} => op'[o].run = r,
         op'[o].at = "cancelling" => state[r] \in Parked,
         op'[o].at = "answering" => state[r] = "waiting_for_user",
         op'[o].at = "saving" => op'[o].token # 0,
         op[o].at \in {"idle", "picking"},
         \A p \in Ops : p # o => op'[p] = op[p],
         current' = IF op'[o].at \in {"cancelling", "answering"}
                    THEN current \cup {o} ELSE current
  PROVE  OpInv'
  BY DEF OpInv, Parked

(* Every action keeps what is known of the stored rows and the operations. *)
LEMMA OwnStep == IInv /\ [Next]_vars => CreatedInv' /\ OpInv'
<1> SUFFICES ASSUME IInv, [Next]_vars PROVE CreatedInv' /\ OpInv'
  OBVIOUS
<1> USE AgentRunsAssumption
    DEF IInv, TypeOK, WorkerInv, Becomes, Commits, About, WorkerWrites,
        Leaves, Finishes, Proceeds, Parked, InProgress, Finished, Stored,
        Resting, CodingPlaces, PublishingPlaces
<1>1. ASSUME NEW r \in Runs, AskStart(r) PROVE CreatedInv' /\ OpInv'
  <2>1. CreatedInv'
    BY <1>1, CreatedKept DEF AskStart
  <2>2. OpInv'
    BY <1>1 DEF AskStart, OpInv
  <2>. QED  BY <2>1, <2>2
<1>2. ASSUME NEW r \in Runs, Start(r) PROVE CreatedInv' /\ OpInv'
  <2>1. /\ state'[r] \in {"refused", "queued"} /\ state[r] = "requested"
        /\ \A q \in Runs : q # r => state'[q] = state[q]
        /\ \/ created' = created
           \/ state'[r] = "queued" /\ created' = Append(created, r)
    BY <1>2 DEF Start
  <2>2. CreatedInv'
    BY <2>1, CreatedKept, CreatedGrows
  <2>3. OpInv'
    BY <1>2, <2>1, OpKept DEF Start, OpInv
  <2>. QED  BY <2>2, <2>3
<1>3. ASSUME NEW r \in Runs, Lapse(r) PROVE CreatedInv' /\ OpInv'
  BY <1>3, CreatedKept, OpKept DEF Lapse
<1>4. ASSUME NEW r \in Runs, Delete(r) PROVE CreatedInv' /\ OpInv'
  <2>1. CreatedInv'
    BY <1>4, CreatedKept DEF Delete
  <2>2. OpInv'
    BY <1>4 DEF Delete, OpInv
  <2>. QED  BY <2>1, <2>2
<1>5. CASE EnableRepository
  BY <1>5, CreatedKept, OpKept DEF EnableRepository
<1>6. CASE SetPAT
  BY <1>6, CreatedKept, OpKept DEF SetPAT
<1>7. ASSUME NEW o \in Ops, NEW r \in Runs, BeginCancel(o, r) PROVE CreatedInv'
       /\ OpInv'
  <2>1. CreatedInv'
    BY <1>7, CreatedKept DEF BeginCancel
  <2>2. OpInv'
    BY <1>7, OpBegins DEF BeginCancel, RECORDS
  <2>. QED  BY <2>1, <2>2
<1>8. ASSUME NEW o \in Ops, NEW r \in Runs, GetInProgress(o, r) PROVE
       CreatedInv' /\ OpInv'
  <2>1. CreatedInv'
    BY <1>8, CreatedKept DEF GetInProgress
  <2>2. OpInv'
    BY <1>8, OpBegins DEF GetInProgress, RECORDS
  <2>. QED  BY <2>1, <2>2
<1>9. ASSUME NEW o \in Ops, NEW r \in Runs, GetParked(o, r) PROVE CreatedInv'
       /\ OpInv'
  <2>1. CreatedInv'
    BY <1>9, CreatedKept DEF GetParked
  <2>2. OpInv'
    BY <1>9, OpBegins DEF GetParked, RECORDS
  <2>. QED  BY <2>1, <2>2
<1>10. ASSUME NEW o \in Ops, NEW r \in Runs, GetFinished(o, r) PROVE
       CreatedInv' /\ OpInv'
  <2>1. /\ op'[o].at \in {"picking", "returned"}
        /\ \A p \in Ops : p # o => op'[p] = op[p]
    BY <1>10, OpMoves DEF GetFinished, NoOp
  <2>2. o \notin current'
    BY <1>10 DEF GetFinished, OpInv
  <2>3. UNCHANGED state /\ current' \subseteq current
    BY <1>10, <2>1 DEF GetFinished, OpInv
  <2>4. CreatedInv'
    BY <1>10, <2>3, CreatedKept DEF GetFinished, OpInv
  <2>5. OpInv'
    BY <1>10, <2>1, <2>2, <2>3, OthersKept DEF GetFinished
  <2>. QED  BY <2>4, <2>5
<1>11. ASSUME NEW o \in Ops, NEW r \in Runs, GetForAnswer(o, r) PROVE
       CreatedInv' /\ OpInv'
  <2>1. CreatedInv'
    BY <1>11, CreatedKept DEF GetForAnswer
  <2>2. OpInv'
    BY <1>11, OpBegins DEF GetForAnswer, RECORDS
  <2>. QED  BY <2>1, <2>2
<1>12. ASSUME NEW o \in Ops, NEW kind \in {"disconnect", "disable"},
       BeginWithdraw(o, kind) PROVE CreatedInv' /\ OpInv'
  <2>1. CreatedInv'
    BY <1>12, CreatedKept DEF BeginWithdraw
  <2>2. OpInv'
    <3>1. /\ op'[o].at = "picking" /\ o \notin current
          /\ \A p \in Ops : p # o => op'[p] = op[p]
          /\ state' = state /\ current' = current
      BY <1>12 DEF BeginWithdraw, RECORDS, OpInv
    <3>. QED  BY <3>1, OthersKept
  <2>. QED  BY <2>1, <2>2
<1>13. ASSUME NEW o \in Ops, SignalCancel(o) PROVE CreatedInv' /\ OpInv'
  <2>1. /\ op'[o].at \in {"picking", "returned"}
        /\ \A p \in Ops : p # o => op'[p] = op[p]
    BY <1>13, OpMoves DEF SignalCancel, NoOp
  <2>2. o \notin current'
    BY <1>13 DEF SignalCancel, OpInv
  <2>3. UNCHANGED state /\ current' \subseteq current
    BY <1>13, <2>1 DEF SignalCancel, OpInv
  <2>4. CreatedInv'
    BY <1>13, <2>3, CreatedKept DEF SignalCancel, OpInv
  <2>5. OpInv'
    BY <1>13, <2>1, <2>2, <2>3, OthersKept DEF SignalCancel
  <2>. QED  BY <2>4, <2>5
<1>14. ASSUME NEW o \in Ops, CancelRow(o) PROVE CreatedInv' /\ OpInv'
  <2>1. /\ op'[o].at \in {"picking", "returned"}
        /\ \A p \in Ops : p # o => op'[p] = op[p]
    BY <1>14, OpMoves DEF CancelRow, NoOp
  <2>2. o \notin current'
    BY <1>14 DEF CancelRow, OpInv
  <2>3. /\ \A p \in Ops : p \in current' => state'[op[p].run] = state[op[p].run]
        /\ current' \subseteq current /\ state'[op[o].run] \in Stored
        /\ op[o].run \in Runs
        /\ \A r \in Runs : r # op[o].run => state'[r] = state[r]
    BY <1>14, <2>1 DEF CancelRow, OpInv
  <2>4. CreatedInv'
    BY <1>14, <2>3, CreatedKept DEF CancelRow, OpInv
  <2>5. OpInv'
    BY <1>14, <2>1, <2>2, <2>3, OthersKept DEF CancelRow
  <2>. QED  BY <2>4, <2>5
<1>15. ASSUME NEW o \in Ops, OpConflicts(o) PROVE CreatedInv' /\ OpInv'
  <2>1. /\ op'[o].at \in {"picking", "returned"}
        /\ \A p \in Ops : p # o => op'[p] = op[p]
    BY <1>15, OpMoves DEF OpConflicts, NoOp
  <2>2. o \notin current'
    BY <1>15 DEF OpConflicts, OpInv
  <2>3. UNCHANGED state /\ current' \subseteq current
    BY <1>15, <2>1 DEF OpConflicts, OpInv
  <2>4. CreatedInv'
    BY <1>15, <2>3, CreatedKept DEF OpConflicts, OpInv
  <2>5. OpInv'
    BY <1>15, <2>1, <2>2, <2>3, OthersKept DEF OpConflicts
  <2>. QED  BY <2>4, <2>5
<1>16. ASSUME NEW o \in Ops, Withdraw(o) PROVE CreatedInv' /\ OpInv'
  <2>1. /\ op'[o].at \in {"picking", "returned"}
        /\ \A p \in Ops : p # o => op'[p] = op[p]
    BY <1>16, OpMoves DEF Withdraw, NoOp
  <2>2. o \notin current'
    BY <1>16 DEF Withdraw, OpInv
  <2>3. UNCHANGED state /\ current' \subseteq current
    BY <1>16, <2>1 DEF Withdraw, OpInv
  <2>4. CreatedInv'
    BY <1>16, <2>3, CreatedKept DEF Withdraw, OpInv
  <2>5. OpInv'
    BY <1>16, <2>1, <2>2, <2>3, OthersKept DEF Withdraw
  <2>. QED  BY <2>4, <2>5
<1>17. ASSUME NEW o \in Ops, Answer(o) PROVE CreatedInv' /\ OpInv'
  <2>1. /\ op'[o].at \in {"picking", "returned"}
        /\ \A p \in Ops : p # o => op'[p] = op[p]
    BY <1>17, OpMoves DEF Answer, NoOp
  <2>2. o \notin current'
    BY <1>17 DEF Answer, OpInv
  <2>3. /\ \A p \in Ops : p \in current' => state'[op[p].run] = state[op[p].run]
        /\ current' \subseteq current /\ state'[op[o].run] \in Stored
        /\ op[o].run \in Runs
        /\ \A r \in Runs : r # op[o].run => state'[r] = state[r]
    BY <1>17, <2>1 DEF Answer, OpInv
  <2>4. CreatedInv'
    BY <1>17, <2>3, CreatedKept DEF Answer, OpInv
  <2>5. OpInv'
    BY <1>17, <2>1, <2>2, <2>3, OthersKept DEF Answer
  <2>. QED  BY <2>4, <2>5
<1>18. ASSUME NEW o \in Ops, LoadForRefresh(o) PROVE CreatedInv' /\ OpInv'
  <2>1. CreatedInv'
    BY <1>18, CreatedKept DEF LoadForRefresh
  <2>2. OpInv'
    BY <1>18, OpBegins DEF LoadForRefresh, RECORDS, OpInv
  <2>. QED  BY <2>1, <2>2
<1>19. ASSUME NEW o \in Ops, Refresh(o) PROVE CreatedInv' /\ OpInv'
  <2>1. /\ op'[o].at \in {"picking", "returned"}
        /\ \A p \in Ops : p # o => op'[p] = op[p]
    BY <1>19, OpMoves DEF Refresh, NoOp
  <2>2. o \notin current'
    BY <1>19 DEF Refresh, OpInv
  <2>3. UNCHANGED state /\ current' \subseteq current
    BY <1>19, <2>1 DEF Refresh, OpInv
  <2>4. CreatedInv'
    BY <1>19, <2>3, CreatedKept DEF Refresh, OpInv
  <2>5. OpInv'
    BY <1>19, <2>1, <2>2, <2>3, OthersKept DEF Refresh
  <2>. QED  BY <2>4, <2>5
<1>20. CASE Boot
  <2>1. CreatedInv'
    BY <1>20, CreatedKept DEF Boot
  <2>2. OpInv'
    BY <1>20 DEF Boot, OpInv
  <2>. QED  BY <2>1, <2>2
<1>21. CASE EndReconcile
  BY <1>21, CreatedKept, OpKept DEF EndReconcile
<1>22. CASE TakeNext
  BY <1>22, CreatedKept, OpKept DEF TakeNext
<1>23. CASE StartRunning
  BY <1>23, CreatedKept, OpKept DEF StartRunning
<1>24. CASE Clone
  BY <1>24, CreatedKept, OpKept DEF Clone
<1>25. ASSUME NEW r \in Runs, Resume(r) PROVE CreatedInv' /\ OpInv'
  BY <1>25, CreatedKept, OpKept DEF Resume
<1>26. ASSUME NEW r \in Runs, ExpireWaiting(r) PROVE CreatedInv' /\ OpInv'
  BY <1>26, CreatedKept, OpKept DEF ExpireWaiting
<1>27. CASE AskOwner
  BY <1>27, CreatedKept, OpKept DEF AskOwner
<1>28. CASE CancelledByOwner
  BY <1>28, CreatedKept, OpKept DEF CancelledByOwner
<1>29. CASE CodingDone
  BY <1>29, CreatedKept, OpKept DEF CodingDone
<1>30. CASE BeginPublish
  BY <1>30, CreatedKept, OpKept DEF BeginPublish
<1>31. CASE CheckToken
  BY <1>31, CreatedKept, OpKept DEF CheckToken
<1>32. CASE NothingChanged
  BY <1>32, CreatedKept, OpKept DEF NothingChanged
<1>33. CASE RecordCommit
  BY <1>33, CreatedKept, OpKept DEF RecordCommit
<1>34. CASE Continue
  BY <1>34, CreatedKept, OpKept DEF Continue
<1>35. CASE ContinueNothing
  BY <1>35, CreatedKept, OpKept DEF ContinueNothing
<1>36. CASE ProbeBranch
  BY <1>36, CreatedKept, OpKept DEF ProbeBranch
<1>37. CASE Preflight
  BY <1>37, CreatedKept, OpKept DEF Preflight
<1>38. CASE Push
  BY <1>38, CreatedKept, OpKept DEF Push
<1>39. CASE RecordPushed
  BY <1>39, CreatedKept, OpKept DEF RecordPushed
<1>40. CASE FindPR
  BY <1>40, CreatedKept, OpKept DEF FindPR
<1>41. CASE IntendPR
  BY <1>41, CreatedKept, OpKept DEF IntendPR
<1>42. CASE CreatePR
  BY <1>42, CreatedKept, OpKept DEF CreatePR
<1>43. CASE RecordPR
  BY <1>43, CreatedKept, OpKept DEF RecordPR
<1>44. CASE Announce
  BY <1>44, CreatedKept, OpKept DEF Announce
<1>45. CASE Deliver
  BY <1>45, CreatedKept, OpKept DEF Deliver
<1>46. CASE Fails
  BY <1>46, CreatedKept, OpKept DEF Fails
<1>47. CASE FinishFailed
  BY <1>47, CreatedKept, OpKept DEF FinishFailed
<1>48. CASE WorkerError
  BY <1>48, CreatedKept, OpKept DEF WorkerError
<1>49. CASE Shutdown
  <2>1. CreatedInv'
    BY <1>49, CreatedKept DEF Shutdown
  <2>2. OpInv'
    BY <1>49 DEF Shutdown, OpInv, NoOp
  <2>. QED  BY <2>1, <2>2
<1>50. CASE Crash
  <2>1. CreatedInv'
    BY <1>50, CreatedKept DEF Crash
  <2>2. OpInv'
    BY <1>50 DEF Crash, OpInv, NoOp
  <2>. QED  BY <2>1, <2>2
<1>51. CASE UNCHANGED vars
  BY <1>51 DEF vars, CreatedInv, OpInv
<1> HIDE
    DEF IInv, TypeOK, WorkerInv, Becomes, Commits, WorkerWrites, Leaves,
        Finishes, Proceeds
<1>. QED
  BY <1>1, <1>2, <1>3, <1>4, <1>5, <1>6, <1>7, <1>8, <1>9, <1>10, <1>11,
        <1>12, <1>13, <1>14, <1>15, <1>16, <1>17, <1>18, <1>19, <1>20, <1>21,
        <1>22, <1>23, <1>24, <1>25, <1>26, <1>27, <1>28, <1>29, <1>30, <1>31,
        <1>32, <1>33, <1>34, <1>35, <1>36, <1>37, <1>38, <1>39, <1>40, <1>41,
        <1>42, <1>43, <1>44, <1>45, <1>46, <1>47, <1>48, <1>49, <1>50, <1>51
        DEF Next, Owner, Work

(* Every action keeps the rest. *)
Rest == WorkerInv /\ StageInv /\ PlaceInv /\ RunningIsWorkedOn

(* One step for each action. *)
LEMMA RestStep == IInv /\ [Next]_vars => Rest'
<1> SUFFICES ASSUME IInv, [Next]_vars PROVE Rest'
  OBVIOUS
<1> USE AgentRunsAssumption
    DEF IInv, Rest, TypeOK, WorkerInv, StageInv, PlaceInv,
        RunningIsWorkedOn, UsesItsOwnToken, Becomes, Commits, About,
        WorkerWrites, Leaves, Finishes, Proceeds, Parked, InProgress,
        Finished, Stored, Resting, CodingPlaces, PublishingPlaces
<1>1. ASSUME NEW r \in Runs, AskStart(r) PROVE Rest'
  BY <1>1 DEF AskStart
<1>2. ASSUME NEW r \in Runs, Start(r) PROVE Rest'
  <2>1. /\ state'[r] \in {"refused", "queued"} /\ state[r] = "requested"
        /\ \A q \in Runs : q # r => state'[q] = state[q]
        /\ UNCHANGED <<pc, job, todo, current, stage, branch, pulls, announced,
                       held, generation, faults>>
    BY <1>2 DEF Start
  <2>. QED  BY <2>1
<1>3. ASSUME NEW r \in Runs, Lapse(r) PROVE Rest'
  BY <1>3 DEF Lapse
<1>4. ASSUME NEW r \in Runs, Delete(r) PROVE Rest'
  BY <1>4 DEF Delete
<1>5. CASE EnableRepository
  BY <1>5 DEF EnableRepository
<1>6. CASE SetPAT
  BY <1>6 DEF SetPAT
<1>7. ASSUME NEW o \in Ops, NEW r \in Runs, BeginCancel(o, r) PROVE Rest'
  BY <1>7 DEF BeginCancel
<1>8. ASSUME NEW o \in Ops, NEW r \in Runs, GetInProgress(o, r) PROVE Rest'
  BY <1>8 DEF GetInProgress
<1>9. ASSUME NEW o \in Ops, NEW r \in Runs, GetParked(o, r) PROVE Rest'
  BY <1>9 DEF GetParked
<1>10. ASSUME NEW o \in Ops, NEW r \in Runs, GetFinished(o, r) PROVE Rest'
  BY <1>10 DEF GetFinished
<1>11. ASSUME NEW o \in Ops, NEW r \in Runs, GetForAnswer(o, r) PROVE Rest'
  BY <1>11 DEF GetForAnswer
<1>12. ASSUME NEW o \in Ops, NEW kind \in {"disconnect", "disable"},
       BeginWithdraw(o, kind) PROVE Rest'
  BY <1>12 DEF BeginWithdraw
<1>13. ASSUME NEW o \in Ops, SignalCancel(o) PROVE Rest'
  BY <1>13 DEF SignalCancel
<1>14. ASSUME NEW o \in Ops, CancelRow(o) PROVE Rest'
  BY <1>14 DEF CancelRow, OpInv
<1>15. ASSUME NEW o \in Ops, OpConflicts(o) PROVE Rest'
  BY <1>15 DEF OpConflicts
<1>16. ASSUME NEW o \in Ops, Withdraw(o) PROVE Rest'
  BY <1>16 DEF Withdraw
<1>17. ASSUME NEW o \in Ops, Answer(o) PROVE Rest'
  BY <1>17 DEF Answer, OpInv
<1>18. ASSUME NEW o \in Ops, LoadForRefresh(o) PROVE Rest'
  BY <1>18 DEF LoadForRefresh
<1>19. ASSUME NEW o \in Ops, Refresh(o) PROVE Rest'
  BY <1>19 DEF Refresh
<1>20. CASE Boot
  BY <1>20 DEF Boot
<1>21. CASE EndReconcile
  BY <1>21 DEF EndReconcile
<1>22. CASE TakeNext
  BY <1>22, SMTT(30) DEF TakeNext, CreatedInv
<1>23. CASE StartRunning
  BY <1>23 DEF StartRunning
<1>24. CASE Clone
  BY <1>24 DEF Clone
<1>25. ASSUME NEW r \in Runs, Resume(r) PROVE Rest'
  BY <1>25 DEF Resume
<1>26. ASSUME NEW r \in Runs, ExpireWaiting(r) PROVE Rest'
  BY <1>26 DEF ExpireWaiting
<1>27. CASE AskOwner
  BY <1>27 DEF AskOwner
<1>28. CASE CancelledByOwner
  BY <1>28 DEF CancelledByOwner
<1>29. CASE CodingDone
  BY <1>29 DEF CodingDone
<1>30. CASE BeginPublish
  BY <1>30 DEF BeginPublish
<1>31. CASE CheckToken
  BY <1>31 DEF CheckToken
<1>32. CASE NothingChanged
  BY <1>32 DEF NothingChanged
<1>33. CASE RecordCommit
  BY <1>33 DEF RecordCommit
<1>34. CASE Continue
  <2>1. stage[job] \in {"committed", "push_intended", "pushed", "pr_intended",
                        "pr_opened"}
    BY <1>34, StageNames DEF Continue
  <2>. QED  BY <1>34, <2>1 DEF Continue, Continuation
<1>35. CASE ContinueNothing
  BY <1>35 DEF ContinueNothing
<1>36. CASE ProbeBranch
  BY <1>36 DEF ProbeBranch
<1>37. CASE Preflight
  BY <1>37 DEF Preflight
<1>38. CASE Push
  BY <1>38 DEF Push
<1>39. CASE RecordPushed
  BY <1>39 DEF RecordPushed
<1>40. CASE FindPR
  BY <1>40 DEF FindPR
<1>41. CASE IntendPR
  BY <1>41 DEF IntendPR
<1>42. CASE CreatePR
  BY <1>42 DEF CreatePR
<1>43. CASE RecordPR
  BY <1>43 DEF RecordPR
<1>44. CASE Announce
  BY <1>44 DEF Announce
<1>45. CASE Deliver
  BY <1>45 DEF Deliver
<1>46. CASE Fails
  BY <1>46 DEF Fails
<1>47. CASE FinishFailed
  BY <1>47 DEF FinishFailed
<1>48. CASE WorkerError
  BY <1>48 DEF WorkerError
<1>49. CASE Shutdown
  BY <1>49 DEF Shutdown
<1>50. CASE Crash
  BY <1>50 DEF Crash
<1>51. CASE UNCHANGED vars
  BY <1>51 DEF vars
<1> HIDE
    DEF IInv, Rest, TypeOK, WorkerInv, StageInv, PlaceInv,
        RunningIsWorkedOn, Becomes, Commits, WorkerWrites, Leaves, Finishes,
        Proceeds
<1>. QED
  BY <1>1, <1>2, <1>3, <1>4, <1>5, <1>6, <1>7, <1>8, <1>9, <1>10, <1>11,
        <1>12, <1>13, <1>14, <1>15, <1>16, <1>17, <1>18, <1>19, <1>20, <1>21,
        <1>22, <1>23, <1>24, <1>25, <1>26, <1>27, <1>28, <1>29, <1>30, <1>31,
        <1>32, <1>33, <1>34, <1>35, <1>36, <1>37, <1>38, <1>39, <1>40, <1>41,
        <1>42, <1>43, <1>44, <1>45, <1>46, <1>47, <1>48, <1>49, <1>50, <1>51
        DEF Next, Owner, Work

-----------------------------------------------------------------------------
(* The results *)

(* In every reachable state the rows, the worker, the operations and what  *)
(* is on GitHub fit together (worker.go, publish.go, service.go).          *)
THEOREM Inductive == Spec => []IInv
<1>1. IInv /\ [Next]_vars => IInv'
  BY TypeStep, OwnStep, RestStep DEF IInv, Rest
<1>. QED  BY InitInv, <1>1, PTL DEF Spec

(* Every variable keeps its type, and a run is stored once.                *)
THEOREM TypeCorrect == Spec => []TypeOK
<1>1. IInv => TypeOK
  BY DEF IInv
<1>. QED  BY Inductive, <1>1, PTL

(* A run that is stored as running is the one the worker is at, whatever   *)
(* crashes, cancellations, questions and conflicts come.                   *)
THEOREM RunningIsAlwaysWorkedOn == Spec => []RunningIsWorkedOn
<1>1. IInv => RunningIsWorkedOn
  BY DEF IInv
<1>. QED  BY Inductive, <1>1, PTL

(* The order of the stages, as the properties count it. *)
LEMMA StageIndices ==
  ASSUME NEW r \in Runs, stage \in [Runs -> Range(Stages)]
  PROVE  /\ stage[r] \notin {"none", "committed"} => StageIndex(r) >= 3
         /\ stage[r] \in {"pr_intended", "pr_opened", "delivered"} =>
              StageIndex(r) >= 5
         /\ stage[r] \in {"pr_opened", "delivered"} => StageIndex(r) >= 6
<1>1. DOMAIN Stages = 1..7
  BY DEF Stages
<1>2. /\ Stages[1] = "none" /\ Stages[2] = "committed"
      /\ Stages[3] = "push_intended" /\ Stages[4] = "pushed"
      /\ Stages[5] = "pr_intended" /\ Stages[6] = "pr_opened"
      /\ Stages[7] = "delivered"
  BY DEF Stages
<1>3. \E i \in DOMAIN Stages : Stages[i] = stage[r]
  BY DEF Range
<1>4. StageIndex(r) \in DOMAIN Stages /\ Stages[StageIndex(r)] = stage[r]
  BY <1>3 DEF StageIndex
<1>. QED  BY <1>1, <1>2, <1>4

(* The invariant implies what the runs check. *)
LEMMA InvImplied ==
  IInv => /\ OnePullRequest /\ StagePrecedesEffect
          /\ CompletedIsDelivered /\ UsesItsOwnToken
<1> SUFFICES ASSUME IInv
             PROVE  /\ OnePullRequest /\ StagePrecedesEffect
                    /\ CompletedIsDelivered /\ UsesItsOwnToken
  OBVIOUS
<1> USE DEF IInv
<1>1. OnePullRequest
  BY DEF StageInv, OnePullRequest
<1>2. StagePrecedesEffect
  <2> SUFFICES ASSUME NEW r \in Runs
               PROVE  /\ r \in branch => StageIndex(r) >= 3
                      /\ pulls[r] > 0 => r \in branch /\ StageIndex(r) >= 5
                      /\ r \in announced => StageIndex(r) >= 6
    BY DEF StagePrecedesEffect
  <2>1. stage \in [Runs -> Range(Stages)] /\ pulls[r] \in Nat
    BY DEF TypeOK
  <2>. QED  BY <2>1, StageIndices DEF StageInv
<1>3. CompletedIsDelivered
  BY DEF StageInv, CompletedIsDelivered
<1>4. UsesItsOwnToken
  BY DEF PlaceInv
<1>. QED  BY <1>1, <1>2, <1>3, <1>4

(* No step takes a finished run anywhere but away: a copy that is still    *)
(* current is of a run that is not finished.                               *)
LEMMA FinishedStep ==
  IInv /\ [Next]_vars =>
    \A r \in Runs : state[r] \in Finished => state'[r] \in {state[r], "deleted"}
<1> SUFFICES ASSUME IInv, [Next]_vars, NEW q \in Runs, state[q] \in Finished
             PROVE  state'[q] \in {state[q], "deleted"}
  OBVIOUS
<1> USE AgentRunsAssumption
    DEF IInv, WorkerInv, OpInv, Becomes, Commits, WorkerWrites, Finishes,
        Proceeds, Parked, Finished, Resting, CodingPlaces, PublishingPlaces
<1>1. state \in [Runs -> {"absent", "requested", "refused", "deleted"}
                         \cup Parked \cup InProgress \cup Finished]
  BY DEF TypeOK
<1>2. CASE state' = state
  BY <1>2
<1>3. ASSUME NEW r \in Runs, AskStart(r) \/ Start(r) \/ Delete(r) \/ ExpireWaiting(r)
      PROVE  state'[q] \in {state[q], "deleted"}
  BY <1>1, <1>3 DEF AskStart, Start, Delete, ExpireWaiting
<1>4. ASSUME NEW o \in Ops, CancelRow(o) \/ Answer(o)
      PROVE  state'[q] \in {state[q], "deleted"}
  BY <1>1, <1>4 DEF CancelRow, Answer
<1>5. CASE Boot
  BY <1>1, <1>5 DEF Boot
<1>6. CASE StartRunning \/ Clone \/ AskOwner \/ CancelledByOwner \/ BeginPublish
  BY <1>1, <1>6 DEF StartRunning, Clone, AskOwner, CancelledByOwner, BeginPublish
<1>7. CASE NothingChanged \/ RecordCommit \/ Preflight \/ RecordPushed
           \/ IntendPR \/ RecordPR \/ Deliver \/ FinishFailed
  BY <1>1, <1>7 DEF NothingChanged, RecordCommit, Preflight, RecordPushed,
     IntendPR, RecordPR, Deliver, FinishFailed
<1>8. CASE Shutdown
  BY <1>1, <1>8 DEF Shutdown
<1> HIDE DEF IInv, WorkerInv, OpInv, Becomes, Commits, WorkerWrites, Finishes
<1>9. ASSUME NEW r \in Runs, Lapse(r) \/ Resume(r) PROVE UNCHANGED state
  BY <1>9 DEF Lapse, Resume
<1>10. ASSUME NEW o \in Ops, NEW r \in Runs,
              \/ BeginCancel(o, r) \/ GetInProgress(o, r) \/ GetParked(o, r)
              \/ GetFinished(o, r) \/ GetForAnswer(o, r)
       PROVE  UNCHANGED state
  BY <1>10 DEF BeginCancel, GetInProgress, GetParked, GetFinished, GetForAnswer
<1>11. ASSUME NEW o \in Ops,
              \/ \E kind \in {"disconnect", "disable"} : BeginWithdraw(o, kind)
              \/ SignalCancel(o) \/ OpConflicts(o) \/ Withdraw(o)
              \/ LoadForRefresh(o) \/ Refresh(o)
       PROVE  UNCHANGED state
  BY <1>11 DEF BeginWithdraw, SignalCancel, OpConflicts, Withdraw,
     LoadForRefresh, Refresh
<1>12. ASSUME \/ EnableRepository \/ SetPAT \/ EndReconcile \/ TakeNext
              \/ CodingDone \/ CheckToken \/ Continue \/ ContinueNothing
              \/ ProbeBranch \/ Push \/ FindPR \/ CreatePR \/ Announce
              \/ Fails \/ WorkerError \/ Crash \/ UNCHANGED vars
       PROVE  UNCHANGED state
  BY <1>12 DEF EnableRepository, SetPAT, EndReconcile, TakeNext, CodingDone,
     CheckToken, Continue, ContinueNothing, ProbeBranch, Push, FindPR, CreatePR,
     Announce, Fails, WorkerError, Crash, vars
<1>. QED
  BY <1>2, <1>3, <1>4, <1>5, <1>6, <1>7, <1>8, <1>9, <1>10, <1>11, <1>12
  DEF Next, Owner, Work

(* One pull request for a run, every effect on record before it is made,   *)
(* no token but the run's own, completion only when delivered, and nothing *)
(* that revives or relabels a finished run: for any number of runs and     *)
(* operations, and whenever the daemon dies (publish.go, worker.go).       *)
THEOREM AlwaysPublishesSafely == Spec => PublishesSafely
<1>1. IInv /\ [Next]_vars =>
        [\A r \in Runs : state[r] \in Finished =>
            state'[r] \in {state[r], "deleted"}]_vars
  BY FinishedStep
<1>. QED
  BY Inductive, InvImplied, <1>1, PTL DEF Spec, PublishesSafely, FinishedIsFinal
-----------------------------------------------------------------------------
(* The coding turn                                                         *)

(* A stretch p..q of a sequence replaced by another: what is before it     *)
(* stays, and what is after it follows.                                    *)
Onward(t, q, n) == n \o SubSeq(t, q + 1, Len(t))
Replaced(t, p, q, n) == SubSeq(t, 1, p - 1) \o n \o SubSeq(t, q + 1, Len(t))

Stretch(A, t, p, q, n) ==
    t \in Seq(A) /\ p \in 1..Len(t) /\ q \in p..Len(t) /\ n \in Seq(A)

LEMMA ReplacedIs ==
  ASSUME NEW A, NEW t, NEW p, NEW q, NEW n, Stretch(A, t, p, q, n)
  PROVE  /\ Replaced(t, p, q, n) \in Seq(A)
         /\ Onward(t, q, n) \in Seq(A)
         /\ Len(Replaced(t, p, q, n)) = p - 1 + Len(n) + (Len(t) - q)
         /\ \A i \in 1..(p - 1) : Replaced(t, p, q, n)[i] = t[i]
         /\ SubSeq(Replaced(t, p, q, n), p, Len(Replaced(t, p, q, n)))
              = Onward(t, q, n)
<1>. USE DEF Stretch
<1>0. ASSUME NEW x \in Seq(A), NEW y \in Seq(A), NEW z \in Seq(A)
      PROVE  (x \o y) \o z = x \o (y \o z)
  BY ONLY JoinThree
<1>1. Len(t) \in Nat /\ Len(n) \in Nat /\ p \in Nat \ {0} /\ q \in Nat /\ p <= q
      /\ q <= Len(t)
  BY LenProperties
<1>2. PICK a : a = SubSeq(t, 1, p - 1)
  OBVIOUS
<1>3. a \in Seq(A) /\ Len(a) = p - 1 /\ \A i \in 1..(p - 1) : a[i] = t[i]
  <2>1. 1 \in 1..(Len(t) + 1) /\ p - 1 \in (1 - 1)..Len(t)
    BY <1>1
  <2>2. /\ a \in Seq(A) /\ Len(a) = p - 1 - 1 + 1
        /\ \A i \in 1..(p - 1 - 1 + 1) : a[i] = t[1 + i - 1]
    BY <2>1, <1>2, CutIs
  <2>. QED  BY <2>2, <1>1
<1>4. PICK c : c = SubSeq(t, q + 1, Len(t))
  OBVIOUS
<1>5. c \in Seq(A) /\ Len(c) = Len(t) - q
  <2>1. q + 1 \in 1..(Len(t) + 1) /\ Len(t) \in (q + 1 - 1)..Len(t)
    BY <1>1
  <2>2. c \in Seq(A) /\ Len(c) = Len(t) - (q + 1) + 1
    BY <2>1, <1>4, CutIs
  <2>. QED  BY <2>2, <1>1
<1>6. PICK z : z = n \o c
  OBVIOUS
<1>7. z \in Seq(A) /\ Len(z) = Len(n) + (Len(t) - q) /\ Len(z) \in Nat
  BY <1>1, <1>5, <1>6, JoinIs
<1>8. PICK s : s = a \o z
  OBVIOUS
<1>9. /\ s \in Seq(A) /\ Len(s) = Len(a) + Len(z)
      /\ \A i \in 1..Len(a) : s[i] = a[i]
      /\ \A i \in 1..Len(z) : s[Len(a) + i] = z[i]
  <2>1. a \in Seq(A) /\ z \in Seq(A)
    BY <1>3, <1>7
  <2>2. /\ a \o z \in Seq(A) /\ Len(a \o z) = Len(a) + Len(z)
        /\ \A i \in 1..Len(a) : (a \o z)[i] = a[i]
        /\ \A i \in 1..Len(z) : (a \o z)[Len(a) + i] = z[i]
    BY <2>1, JoinIs
  <2>. QED  BY <2>2, <1>8, Zenon
<1>10. s = (a \o n) \o c
  <2>1. a \in Seq(A) /\ n \in Seq(A) /\ c \in Seq(A)
    BY <1>1, <1>3, <1>5
  <2>2. (a \o n) \o c = a \o (n \o c)
    BY ONLY <2>1, <1>0
  <2>. QED  BY ONLY <2>2, <1>6, <1>8
<1>11. SubSeq(s, p, Len(s)) = z
  <2>1. p \in 1..(Len(s) + 1) /\ Len(s) \in (p - 1)..Len(s)
    BY <1>1, <1>3, <1>7, <1>9
  <2>2. PICK r : r = SubSeq(s, p, Len(s))
    OBVIOUS
  <2>3. /\ r \in Seq(A) /\ Len(r) = Len(s) - p + 1
        /\ \A i \in 1..(Len(s) - p + 1) : r[i] = s[p + i - 1]
    BY <2>1, <2>2, <1>9, CutIs
  <2>4. Len(r) = Len(z)
    <3>1. /\ Len(r) = Len(s) - p + 1 /\ Len(s) = Len(a) + Len(z)
          /\ Len(a) = p - 1 /\ Len(z) \in Nat /\ p \in Nat
      BY <2>3, <1>1, <1>3, <1>7, <1>9, Zenon
    <3>. QED  BY <3>1
  <2>5. ASSUME NEW i \in 1..Len(r) PROVE r[i] = z[i]
    <3>1. p + i - 1 = Len(a) + i /\ i \in 1..(Len(s) - p + 1) /\ i \in 1..Len(z)
      BY <2>3, <2>4, <1>1, <1>3, <1>7, <1>9
    <3>2. r[i] = s[p + i - 1] /\ s[Len(a) + i] = z[i]
      BY <3>1, <2>3, <1>9
    <3>. QED  BY <3>1, <3>2
  <2>. QED  BY <2>2, <2>3, <2>4, <2>5, <1>7, SeqEqual
<1>12. \A i \in 1..(p - 1) : s[i] = t[i]
  BY <1>3, <1>9
<1>13. Len(s) = p - 1 + Len(n) + (Len(t) - q)
  BY <1>1, <1>3, <1>7, <1>9
<1>14. s = Replaced(t, p, q, n) /\ z = Onward(t, q, n)
  BY <1>2, <1>4, <1>6, <1>10 DEF Replaced, Onward
<1>. QED  BY <1>7, <1>9, <1>11, <1>12, <1>13, <1>14


(* The spans of one call's edits, in a text: they lie in it and do not      *)
(* overlap.                                                                *)
Disjoint(S, text) ==
  /\ IsFiniteSet(S)
  /\ \A s \in S : /\ s.first \in 1..Len(text)
                  /\ s.last \in s.first..Len(text)
                  /\ s.new \in Seq(Texts)
  /\ \A s, o \in S : s = o \/ s.last < o.first \/ o.last < s.first

(* Of two stretches, one ends where the other begins or before: its last   *)
(* place is before the other's first.                                      *)
LEMMA Apart ==
  ASSUME NEW a, NEW b, NEW l, a \in 1..l, b \in 1..l,
         NEW m \in Nat \ {0}, NEW n \in Nat \ {0},
         a + m <= b \/ b + n <= a
  PROVE  a + m - 1 < b \/ b + n - 1 < a
<1>. QED  OBVIOUS

(* The spans of an acceptable call are so.                                 *)
LEMMA SpansDisjoint ==
  ASSUME NEW text \in Seq(Texts), NEW wanted \in EditCalls,
         C!Acceptable(text, wanted)
  PROVE  /\ Disjoint(C!Spans(text, wanted), text)
         /\ \A k \in DOMAIN wanted :
               /\ C!Found(text, wanted[k].old) \in 1..Len(text)
               /\ wanted[k].old \in Seq(Texts) /\ Len(wanted[k].old) \in Nat \ {0}
               /\ wanted[k].new \in Seq(Texts)
               /\ C!Found(text, wanted[k].old) + Len(wanted[k].old) - 1 <= Len(text)
<1>. DEFINE E == [old : Seq(Texts) \ {<<>>}, new : Seq(Texts)]
            at(k) == C!Found(text, wanted[k].old)
            span(k) == [first |-> at(k), last |-> at(k) + Len(wanted[k].old) - 1,
                        new |-> wanted[k].new]
<1>1. wanted \in Seq(E) /\ DOMAIN wanted = 1..Len(wanted) /\ Len(wanted) \in Nat
  BY CodingAssumption, LenProperties
<1>2. ASSUME NEW k \in DOMAIN wanted
      PROVE  /\ wanted[k] \in E
             /\ wanted[k].old \in Seq(Texts) /\ Len(wanted[k].old) \in Nat \ {0}
             /\ wanted[k].new \in Seq(Texts)
  <2>1. wanted[k] \in E
    BY <1>1, ElementOfSeq
  <2>. QED  BY <2>1, EmptySeq
<1>3. ASSUME NEW k \in DOMAIN wanted
      PROVE  at(k) \in 1..Len(text) /\ at(k) + Len(wanted[k].old) - 1 <= Len(text)
  <2>1. C!Candidates(text, wanted[k].old) # {}
    <3>1. C!Cardinality(C!Candidates(text, wanted[k].old)) = 1
      BY DEF C!Acceptable
    <3>2. C!Cardinality({}) = Cardinality({})
      BY DEF C!Cardinality, Cardinality
    <3>3. C!Cardinality({}) = 0
      BY <3>2, FS_EmptySet
    <3>4. SUFFICES ASSUME C!Candidates(text, wanted[k].old) = {} PROVE FALSE
      OBVIOUS
    <3>5. C!Cardinality(C!Candidates(text, wanted[k].old)) = C!Cardinality({})
      BY <3>4
    <3>. QED  BY ONLY <3>1, <3>3, <3>5
  <2>2. at(k) \in C!Candidates(text, wanted[k].old)
    BY <2>1 DEF C!Found
  <2>3. at(k) \in 1..(Len(text) - Len(wanted[k].old) + 1)
    BY <2>2 DEF C!Candidates, C!Matches
  <2>4. Len(text) \in Nat /\ Len(wanted[k].old) \in Nat \ {0}
    BY LenProperties, <1>2
  <2>5. \A a, l : \A n \in Nat \ {0} :
           l \in Nat /\ a \in 1..(l - n + 1) => a \in 1..l /\ a + n - 1 <= l
    OBVIOUS
  <2>. HIDE DEF at
  <2>. QED  BY <2>3, <2>4, <2>5
<1>4. C!Spans(text, wanted) = {span(k) : k \in DOMAIN wanted}
  BY DEF C!Spans, C!Range
<1>5. IsFiniteSet(C!Spans(text, wanted))
  <2>1. IsFiniteSet(DOMAIN wanted)
    BY <1>1, FS_Interval
  <2>. DEFINE f == [k \in DOMAIN wanted |-> span(k)]
  <2>2. f \in Surjection(DOMAIN wanted, C!Spans(text, wanted))
    BY <1>4 DEF Surjection
  <2>. HIDE DEF f
  <2>. QED  BY <2>1, <2>2, FS_Surjection
<1>6. ASSUME NEW s \in C!Spans(text, wanted)
      PROVE  /\ s.first \in 1..Len(text)
             /\ s.last \in s.first..Len(text)
             /\ s.new \in Seq(Texts)
  <2>1. PICK k \in DOMAIN wanted : s = span(k)
    BY <1>4
  <2>2. /\ s.first = at(k) /\ s.last = at(k) + Len(wanted[k].old) - 1
        /\ s.new = wanted[k].new
    BY <2>1
  <2>3. Len(text) \in Nat
    BY LenProperties
  <2>. HIDE DEF at
  <2>. QED  BY <2>2, <2>3, <1>2, <1>3
<1>7. ASSUME NEW s \in C!Spans(text, wanted), NEW o \in C!Spans(text, wanted)
      PROVE  s = o \/ s.last < o.first \/ o.last < s.first
  <2>1. PICK k \in DOMAIN wanted : s = span(k)
    BY <1>4
  <2>2. PICK j \in DOMAIN wanted : o = span(j)
    BY <1>4
  <2>3. /\ s.first = at(k) /\ s.last = at(k) + Len(wanted[k].old) - 1
        /\ o.first = at(j) /\ o.last = at(j) + Len(wanted[j].old) - 1
    BY <2>1, <2>2
  <2>4. j < k \/ k < j \/ j = k
    BY <1>1
  <2>5. CASE j = k
    BY <2>1, <2>2, <2>5
  <2>6. \A a, b \in DOMAIN wanted : a < b =>
           at(a) + Len(wanted[a].old) <= at(b) \/ at(b) + Len(wanted[b].old) <= at(a)
    BY DEF C!Acceptable
  <2>9. /\ at(k) \in 1..Len(text) /\ at(j) \in 1..Len(text)
        /\ Len(wanted[k].old) \in Nat \ {0} /\ Len(wanted[j].old) \in Nat \ {0}
    BY <1>2, <1>3
  <2>. HIDE DEF at, span
  <2>7. CASE j < k
    <3>1. \/ at(j) + Len(wanted[j].old) <= at(k)
          \/ at(k) + Len(wanted[k].old) <= at(j)
      BY <2>6, <2>7
    <3>. QED  BY ONLY <3>1, <2>9, <2>3, Apart
  <2>8. CASE k < j
    <3>1. \/ at(k) + Len(wanted[k].old) <= at(j)
          \/ at(j) + Len(wanted[j].old) <= at(k)
      BY <2>6, <2>8
    <3>. QED  BY ONLY <3>1, <2>9, <2>3, Apart
  <2>. QED  BY <2>4, <2>5, <2>7, <2>8
<1>. HIDE DEF at, span
<1>8. Disjoint(C!Spans(text, wanted), text)
  BY <1>5, <1>6, <1>7 DEF Disjoint
<1>. QED  BY <1>2, <1>3, <1>8 DEF at

(* What one splice leaves and what it puts in.                             *)
LEMMA SpliceIs ==
  ASSUME NEW t \in Seq(Texts), NEW c, c.first \in 1..Len(t),
         c.last \in c.first..Len(t), c.new \in Seq(Texts)
  PROVE  /\ C!Splice(t, c) \in Seq(Texts)
         /\ Len(C!Splice(t, c)) = c.first - 1 + Len(c.new) + (Len(t) - c.last)
         /\ \A i \in 1..(c.first - 1) : C!Splice(t, c)[i] = t[i]
         /\ SubSeq(C!Splice(t, c), c.first, Len(C!Splice(t, c)))
              = Onward(t, c.last, c.new)
<1>1. C!Splice(t, c) = Replaced(t, c.first, c.last, c.new)
  BY DEF C!Splice, Replaced
<1>2. PICK p, q, n : p = c.first /\ q = c.last /\ n = c.new
  OBVIOUS
<1>3. Stretch(Texts, t, p, q, n)
  BY <1>2 DEF Stretch
<1>4. /\ Replaced(t, p, q, n) \in Seq(Texts)
      /\ Len(Replaced(t, p, q, n)) = p - 1 + Len(n) + (Len(t) - q)
      /\ \A i \in 1..(p - 1) : Replaced(t, p, q, n)[i] = t[i]
      /\ SubSeq(Replaced(t, p, q, n), p, Len(Replaced(t, p, q, n)))
           = Onward(t, q, n)
  BY <1>3, ReplacedIs
<1>5. C!Splice(t, c) = Replaced(t, p, q, n)
  BY <1>1, <1>2
<1>. QED  BY <1>2, <1>4, <1>5

(* The first of some spans is one of them.                                 *)
LEMMA FrontMostIs ==
  ASSUME NEW text \in Seq(Texts), NEW S, Disjoint(S, text), NEW s \in SUBSET S, s # {}
  PROVE  /\ C!FrontMost(s) \in s
         /\ \A o \in s : C!FrontMost(s).first <= o.first
<1>. DEFINE T == {o.first : o \in s}
<1>1. T \subseteq Nat /\ T # {}
  BY LenProperties DEF Disjoint
<1>2. \E n \in T : \A m \in T : n <= m
  <2>. HIDE DEF T
  <2>. QED  BY <1>1, LeastNat
<1>3. \E c \in s : \A o \in s : c.first <= o.first
  BY <1>2
<1>. QED  BY <1>3 DEF C!FrontMost

(* The edits of a call, spliced from the last to the first: f is the text  *)
(* after those of some of the spans.                                       *)
Splices(f, text, S) ==
  /\ f[{}] = text
  /\ \A s \in SUBSET S : s # {} =>
        f[s] = C!Splice(f[s \ {C!FrontMost(s)}], C!FrontMost(s))
  /\ \A s \in SUBSET S :
        /\ f[s] \in Seq(Texts)
        /\ \A i \in 1..Len(text) :
              (\A o \in s : i < o.first) => i <= Len(f[s]) /\ f[s][i] = text[i]

(* There is such a function, and the edited text is what it is for all of  *)
(* the spans.                                                              *)
LEMMA SplicedFolds ==
  ASSUME NEW text \in Seq(Texts), NEW wanted, NEW S, S = C!Spans(text, wanted),
         Disjoint(S, text)
  PROVE  \E f : C!Spliced(text, wanted) = f[S] /\ Splices(f, text, S)
<1>. DEFINE c == [s \in SUBSET S |-> C!FrontMost(s)]
            U == {<<text>>}
<1>0. IsFiniteSet(S)
  BY DEF Disjoint
<1>1. \A s \in SUBSET S : s # {} => c[s] = C!FrontMost(s) /\ C!FrontMost(s) \in s
  BY FrontMostIs
<1>. DEFINE Step(x, y) == IF C!Splice(y, x) \in Seq(Texts) THEN C!Splice(y, x) ELSE text
            g == [p \in S \X Seq(Texts) |-> Step(p[1], p[2])]
<1>2. \A x \in S, y \in Seq(Texts) : g[<<x, y>>] = Step(x, y) /\ g[<<x, y>>] \in Seq(Texts)
  OBVIOUS
<1>. HIDE DEF c, g
<1>3. PICK f \in [SUBSET S -> Seq(Texts)] : FoldsTo(f, S, text, c, g)
  <2>1. \A s \in SUBSET S : s # {} => c[s] \in s
    BY <1>1
  <2>2. \A x \in S, y \in Seq(Texts) : g[<<x, y>>] \in Seq(Texts)
    BY <1>2
  <2>. QED  BY <1>0, <2>1, <2>2, FoldExists
<1>4. f[{}] = text
  BY <1>3 DEF FoldsTo
<1>5. ASSUME NEW s \in SUBSET S, s # {}
      PROVE  /\ C!FrontMost(s) \in s
             /\ f[s] = Step(C!FrontMost(s), f[s \ {C!FrontMost(s)}])
  <2>1. c[s] = C!FrontMost(s) /\ C!FrontMost(s) \in s
    BY <1>1, <1>5
  <2>2. f[s] = g[<<c[s], f[s \ {c[s]}]>>]
    BY <1>3, <1>5 DEF FoldsTo
  <2>3. PICK x \in S, r \in SUBSET S : x = c[s] /\ r = s \ {c[s]}
    BY <2>1
  <2>4. f[r] \in Seq(Texts)
    BY <1>3
  <2>5. g[<<x, f[r]>>] = Step(x, f[r])
    BY <1>2, <2>4
  <2>. HIDE DEF Step
  <2>. QED  BY <2>1, <2>2, <2>3, <2>5
<1>. HIDE DEF Step
(* What is before the spans is still as it was.                            *)
<1>. DEFINE Calm(s) == \A i \in 1..Len(text) :
                         (\A o \in s : i < o.first) => i <= Len(f[s]) /\ f[s][i] = text[i]
            T == {s \in SUBSET S : ~ (Calm(s) /\ (s # {} =>
                     f[s] = C!Splice(f[s \ {C!FrontMost(s)}], C!FrontMost(s))))}
<1>6. T = {}
  <2> SUFFICES ASSUME T # {} PROVE FALSE
    OBVIOUS
  <2>1. PICK s \in T : \A r \in T : r \subseteq s => r = s
    <3>1. T \subseteq SUBSET S
      OBVIOUS
    <3>. HIDE DEF T
    <3>. QED  BY <1>0, <3>1, LeastSubset
  <2>2. CASE s = {}
    <3>1. Calm({})
      BY <1>4, LenProperties
    <3>. HIDE DEF Calm
    <3>. QED  BY <2>2, <3>1
  <2>3. CASE s # {}
    <3>1. PICK x : x = C!FrontMost(s)
      OBVIOUS
    <3>2. x \in s /\ x \in S /\ \A o \in s : x.first <= o.first
      BY <2>3, <3>1, FrontMostIs
    <3>3. PICK r : r = s \ {x}
      OBVIOUS
    <3>4. r \in SUBSET S /\ r \notin T
      BY <2>1, <3>2, <3>3
    <3>5. Calm(r)
      BY <3>4
    <3>6. f[r] \in Seq(Texts) /\ f[s] = Step(x, f[r])
      BY <1>3, <1>5, <2>3, <3>1, <3>3, <3>4
    <3>7. \A o \in r : x.last < o.first
      BY <3>2, <3>3 DEF Disjoint
    <3>8. /\ x.first \in 1..Len(text) /\ x.last \in x.first..Len(text)
          /\ x.new \in Seq(Texts) /\ Len(text) \in Nat
      BY <3>2, LenProperties DEF Disjoint
    <3>9. x.last <= Len(f[r])
      <4>1. x.last \in 1..Len(text)
        BY <3>8
      <4>. QED  BY <3>5, <3>7, <4>1
    <3>10. x.first \in 1..Len(f[r]) /\ x.last \in x.first..Len(f[r])
      BY <3>6, <3>8, <3>9, LenProperties
    <3>11. /\ C!Splice(f[r], x) \in Seq(Texts)
           /\ Len(C!Splice(f[r], x)) = x.first - 1 + Len(x.new) + (Len(f[r]) - x.last)
           /\ \A i \in 1..(x.first - 1) : C!Splice(f[r], x)[i] = f[r][i]
      BY <3>6, <3>8, <3>10, SpliceIs
    <3>12. f[s] = C!Splice(f[r], x)
      BY <3>6, <3>11 DEF Step
    <3>13. ASSUME NEW i \in 1..Len(text), \A o \in s : i < o.first
           PROVE  i <= Len(f[s]) /\ f[s][i] = text[i]
      <4>1. i < x.first /\ \A o \in r : i < o.first
        BY <3>2, <3>3, <3>13
      <4>2. i <= Len(f[r]) /\ f[r][i] = text[i]
        BY <3>5, <4>1
      <4>3. i \in 1..(x.first - 1)
        BY <3>8, <4>1
      <4>4. Len(x.new) \in Nat /\ Len(f[r]) \in Nat
        BY <3>6, <3>8, LenProperties
      <4>5. i <= Len(f[s])
        <5>1. \A p, q, n, l : \A j \in 1..(p - 1) :
                 p \in Int /\ q \in Int /\ q <= l /\ n \in Nat /\ l \in Nat
                   => j <= p - 1 + n + (l - q)
          OBVIOUS
        <5>2. x.first \in Int /\ x.last \in Int
          BY <3>8
        <5>. QED  BY <5>1, <5>2, <3>9, <3>11, <3>12, <4>3, <4>4
      <4>. QED  BY <3>11, <3>12, <4>2, <4>3, <4>5
    <3>. QED  BY <3>1, <3>3, <3>12, <3>13
  <2>. QED  BY <2>2, <2>3
<1>7. \A s \in SUBSET S : s # {} =>
         f[s] = C!Splice(f[s \ {C!FrontMost(s)}], C!FrontMost(s))
  BY <1>6
<1>8. f = [s \in SUBSET S |-> IF s = {} THEN text
             ELSE C!Splice(f[s \ {C!FrontMost(s)}], C!FrontMost(s))]
  BY <1>3, <1>4, <1>7
<1>9. PICK k : /\ k = [s \in SUBSET S |-> IF s = {} THEN text
                         ELSE C!Splice(k[s \ {C!FrontMost(s)}], C!FrontMost(s))]
               /\ C!Spliced(text, wanted) = k[S]
  BY <1>8 DEF C!Spliced, C!MapThenFoldSet
<1>10. \A s \in SUBSET S : k[s] = f[s]
  <2>. DEFINE D == {s \in SUBSET S : k[s] # f[s]}
  <2> SUFFICES ASSUME D # {} PROVE FALSE
    OBVIOUS
  <2>1. PICK s \in D : \A r \in D : r \subseteq s => r = s
    <3>1. D \subseteq SUBSET S
      OBVIOUS
    <3>. HIDE DEF D
    <3>. QED  BY <1>0, <3>1, LeastSubset
  <2>2. s \in SUBSET S /\ k[s] # f[s]
    OBVIOUS
  <2>3. s # {}
    BY <2>2, <1>4, <1>9
  <2>4. PICK x : x = C!FrontMost(s)
    OBVIOUS
  <2>5. x \in s
    BY <1>1, <2>2, <2>3, <2>4
  <2>6. s \ {x} \notin D /\ s \ {x} \in SUBSET S
    BY <2>1, <2>2, <2>5
  <2>7. k[s \ {x}] = f[s \ {x}]
    BY <2>6
  <2>8. k[s] = C!Splice(k[s \ {x}], x) /\ f[s] = C!Splice(f[s \ {x}], x)
    BY <1>7, <1>9, <2>2, <2>3, <2>4
  <2>. QED  BY <2>2, <2>7, <2>8
<1>11. C!Spliced(text, wanted) = f[S]
  BY <1>9, <1>10
<1>12. \A s \in SUBSET S : f[s] \in Seq(Texts) /\ Calm(s)
  BY <1>3, <1>6
<1>13. Splices(f, text, S)
  BY <1>4, <1>7, <1>12 DEF Splices
<1>. QED  BY <1>11, <1>13

(* What the edits make of every line of a text: q.                         *)
LineByLine(q, S, text) ==
  /\ q \in Seq(Seq(Texts)) /\ Len(q) = Len(text)
  /\ \A s \in S : q[s.first] = s.new
  /\ \A s \in S : \A i \in 1..Len(text) : s.first < i /\ i <= s.last => q[i] = <<>>
  /\ \A i \in 1..Len(text) :
        (\A s \in S : i < s.first \/ s.last < i) => q[i] = <<text[i]>>

(* Where the span that line i is in ends, or else line i.                  *)
End(S, i) ==
  IF \E s \in S : s.first <= i /\ i <= s.last
  THEN (CHOOSE s \in S : s.first <= i /\ i <= s.last).last
  ELSE i

Later(S, i) == {s \in S : i < s.first}

(* The rest of the edited text, from where line i ends on.                 *)
Remaining(f, S, i) ==
  SubSeq(f[Later(S, i)], End(S, i) + 1, Len(f[Later(S, i)]))

(* No span goes over the end of another.                                   *)
LEMMA EndIs ==
  ASSUME NEW text \in Seq(Texts), NEW S, Disjoint(S, text), NEW i \in 0..Len(text)
  PROVE  /\ End(S, i) \in i..Len(text)
         /\ \A o \in Later(S, i) : End(S, i) < o.first
         /\ \A s \in S : s.first <= i /\ i <= s.last => End(S, i) = s.last
         /\ (\A s \in S : i < s.first \/ s.last <= i) => End(S, i) = i
<1>1. Len(text) \in Nat
  BY LenProperties
<1>2. \A s \in S : s.first \in Nat \ {0} /\ s.last \in Nat /\ s.first <= s.last
                   /\ s.last <= Len(text)
  BY <1>1 DEF Disjoint
<1>3. CASE \E s \in S : s.first <= i /\ i <= s.last
  <2>1. PICK s \in S : s.first <= i /\ i <= s.last /\ End(S, i) = s.last
    BY <1>3 DEF End
  <2>2. End(S, i) \in i..Len(text)
    BY <2>1, <1>1, <1>2
  <2>3. ASSUME NEW o \in S, i < o.first PROVE End(S, i) < o.first
    <3>1. o # s
      BY <2>1, <2>3, <1>1, <1>2
    <3>2. s.last < o.first \/ o.last < s.first
      BY <3>1 DEF Disjoint
    <3>. QED  BY <3>2, <2>1, <2>3, <1>1, <1>2
  <2>4. ASSUME NEW o \in S, o.first <= i, i <= o.last PROVE o = s
    <3>1. o = s \/ s.last < o.first \/ o.last < s.first
      BY DEF Disjoint
    <3>. QED  BY <3>1, <2>1, <2>4, <1>1, <1>2
  <2>5. (\A o \in S : i < o.first \/ o.last <= i) => End(S, i) = i
    <3>1. s.first \in Nat /\ s.last \in Nat
      BY <1>2
    <3>. QED  BY <3>1, <2>1, <1>1
  <2>. QED  BY <2>1, <2>2, <2>3, <2>4, <2>5 DEF Later
<1>4. CASE ~ \E s \in S : s.first <= i /\ i <= s.last
  <2>1. End(S, i) = i
    BY <1>4 DEF End
  <2>. QED  BY <2>1, <1>4, <1>1 DEF Later
<1>. QED  BY <1>3, <1>4

(* A line that starts a span, one inside a span and one that is in none:   *)
(* each gives what q has of it, and the rest follows.                      *)
LEMMA OneLine ==
  ASSUME NEW text \in Seq(Texts), NEW S, Disjoint(S, text),
         NEW f, Splices(f, text, S), NEW q, LineByLine(q, S, text),
         NEW i \in 1..Len(text)
  PROVE  Remaining(f, S, i - 1) = q[i] \o Remaining(f, S, i) /\ Remaining(f, S, i) \in Seq(Texts)
<1>1. Len(text) \in Nat /\ i \in 0..Len(text) /\ i - 1 \in 0..Len(text) /\ i \in Nat
  BY LenProperties
<1>2. \A s \in S : s.first \in Nat \ {0} /\ s.last \in Nat /\ s.first <= s.last
                   /\ s.last <= Len(text)
  BY <1>1 DEF Disjoint
<1>3. PICK t, e : t = f[Later(S, i)] /\ e = End(S, i)
  OBVIOUS
<1>4. /\ e \in i..Len(text)
      /\ \A o \in Later(S, i) : e < o.first
  BY <1>1, <1>3, EndIs
<1>5. t \in Seq(Texts) /\ Len(t) \in Nat
      /\ \A j \in 1..Len(text) :
            (\A o \in Later(S, i) : j < o.first) => j <= Len(t) /\ t[j] = text[j]
  <2>1. Later(S, i) \in SUBSET S
    BY DEF Later
  <2>2. t \in Seq(Texts)
        /\ \A j \in 1..Len(text) :
              (\A o \in Later(S, i) : j < o.first) => j <= Len(t) /\ t[j] = text[j]
    BY <1>3, <2>1 DEF Splices
  <2>. QED  BY <2>2, LenProperties
<1>6. e \in 1..Len(t) /\ e >= i
  <2>1. e \in 1..Len(text)
    BY <1>1, <1>4
  <2>2. e <= Len(t)
    BY <1>4, <1>5, <2>1
  <2>. QED  BY <2>1, <2>2, <1>1, <1>4, <1>5
<1>7. PICK z : z = SubSeq(t, e + 1, Len(t))
  OBVIOUS
<1>8. Remaining(f, S, i) = z
  BY <1>3, <1>7 DEF Remaining
<1>9. z \in Seq(Texts)
  <2>1. e + 1 \in 1..(Len(t) + 1) /\ Len(t) \in (e + 1 - 1)..Len(t)
    BY <1>5, <1>6
  <2>. QED  BY <2>1, <1>5, <1>7, CutIs
<1>10. CASE \E s \in S : s.first = i
  <2>1. PICK s \in S : s.first = i
    BY <1>10
  <2>2. e = s.last
    BY <2>1, <1>1, <1>2, <1>3, EndIs
  <2>3. End(S, i - 1) = i - 1
    <3>1. ASSUME NEW o \in S PROVE i - 1 < o.first \/ o.last <= i - 1
      <4>1. s = o \/ s.last < o.first \/ o.last < s.first
        BY DEF Disjoint
      <4>. QED  BY <4>1, <2>1, <1>1, <1>2
    <3>. QED  BY <3>1, <1>1, EndIs
  <2>4. \A o \in S : i - 1 < o.first <=> o = s \/ i < o.first
    <3>1. ASSUME NEW o \in S, o.first = i PROVE o = s
      <4>1. s = o \/ s.last < o.first \/ o.last < s.first
        BY DEF Disjoint
      <4>. QED  BY <4>1, <3>1, <2>1, <1>1, <1>2
    <3>. QED  BY <3>1, <2>1, <1>1, <1>2
  <2>5. PICK u : u = Later(S, i - 1)
    OBVIOUS
  <2>6. u \in SUBSET S /\ s \in u /\ u \ {s} = Later(S, i)
    <3>1. s \notin Later(S, i)
      BY <2>1, <1>1 DEF Later
    <3>. QED  BY <3>1, <2>4, <2>5 DEF Later
  <2>7. C!FrontMost(u) = s
    <3>1. C!FrontMost(u) \in u /\ \A o \in u : C!FrontMost(u).first <= o.first
      BY <2>6, FrontMostIs
    <3>2. PICK x : x = C!FrontMost(u)
      OBVIOUS
    <3>3. x \in S /\ x.first <= i /\ i - 1 < x.first
      BY <3>1, <3>2, <2>1, <2>5, <2>6 DEF Later
    <3>4. x = s \/ i < x.first
      BY <3>3, <2>4
    <3>. QED  BY <3>2, <3>3, <3>4, <1>1, <1>2
  <2>8. f[u] = C!Splice(t, s)
    BY <2>6, <2>7, <1>3 DEF Splices
  <2>9. s.first \in 1..Len(t) /\ s.last \in s.first..Len(t) /\ s.new \in Seq(Texts)
    <3>1. s.new \in Seq(Texts)
      BY DEF Disjoint
    <3>. QED  BY <3>1, <2>1, <2>2, <1>1, <1>2, <1>5, <1>6
  <2>10. SubSeq(f[u], i, Len(f[u])) = Onward(t, e, q[i])
    <3>1. SubSeq(C!Splice(t, s), s.first, Len(C!Splice(t, s))) = Onward(t, s.last, s.new)
      BY <2>9, <1>5, SpliceIs
    <3>2. q[i] = s.new
      BY <2>1 DEF LineByLine
    <3>. QED  BY <3>1, <3>2, <2>1, <2>2, <2>8
  <2>11. Remaining(f, S, i - 1) = SubSeq(f[u], i, Len(f[u]))
    <3>1. i - 1 + 1 = i
      BY <1>1
    <3>. QED  BY <3>1, <2>3, <2>5 DEF Remaining
  <2>. QED  BY <2>10, <2>11, <1>7, <1>8, <1>9 DEF Onward
<1>11. CASE ~ \E s \in S : s.first = i
  <2>1. Later(S, i - 1) = Later(S, i)
    <3>1. \A o \in S : i - 1 < o.first <=> i < o.first
      BY <1>11, <1>1, <1>2
    <3>. QED  BY <3>1 DEF Later
  <2>2. CASE \E s \in S : s.first <= i /\ i <= s.last
    <3>1. PICK s \in S : s.first <= i /\ i <= s.last
      BY <2>2
    <3>2. s.first < i /\ s.first <= i - 1 /\ i - 1 <= s.last
      BY <3>1, <1>1, <1>2, <1>11
    <3>3. End(S, i - 1) = e
      BY <3>1, <3>2, <1>1, <1>3, EndIs
    <3>4. Remaining(f, S, i - 1) = z
      BY <3>3, <2>1, <1>3, <1>7 DEF Remaining
    <3>5. q[i] = <<>>
      BY <3>1, <3>2 DEF LineByLine
    <3>6. <<>> \o z = z
      BY <1>9, ConcatEmptySeq
    <3>. QED  BY <3>4, <3>5, <3>6, <1>8, <1>9
  <2>3. CASE ~ \E s \in S : s.first <= i /\ i <= s.last
    <3>1. \A s \in S : i < s.first \/ s.last < i
      BY <2>3, <1>1, <1>2
    <3>2. End(S, i - 1) = i - 1
      <4>1. \A s \in S : i - 1 < s.first \/ s.last <= i - 1
        BY <3>1, <1>1, <1>2
      <4>. QED  BY <4>1, <1>1, EndIs
    <3>3. e = i
      <4>1. \A s \in S : i < s.first \/ s.last <= i
        BY <3>1, <1>1, <1>2
      <4>. QED  BY <4>1, <1>1, <1>3, EndIs
    <3>4. Remaining(f, S, i - 1) = SubSeq(t, i, Len(t))
      <4>1. i - 1 + 1 = i
        BY <1>1
      <4>. QED  BY <4>1, <3>2, <2>1, <1>3 DEF Remaining
    <3>5. t[i] = text[i]
      BY <3>3, <1>4, <1>5
    <3>6. SubSeq(t, i, Len(t)) = <<t[i]>> \o SubSeq(t, i + 1, Len(t))
      <4>1. i \in 1..Len(t) /\ Len(t) \in i..Len(t)
        BY <3>3, <1>1, <1>5, <1>6
      <4>. QED  BY <4>1, <1>5, SubSeqRecursiveFirst
    <3>7. q[i] = <<text[i]>>
      BY <3>1 DEF LineByLine
    <3>. QED  BY <3>3, <3>4, <3>5, <3>6, <3>7, <1>7, <1>8, <1>9
  <2>. QED  BY <2>2, <2>3
<1>. QED  BY <1>10, <1>11

(* Put together, line by line from the first, they are the edited text.    *)
LEMMA Landing ==
  ASSUME NEW text \in Seq(Texts), NEW S, Disjoint(S, text),
         NEW f, Splices(f, text, S), NEW q, LineByLine(q, S, text),
         NEW h \in [0..Len(text) -> Seq(Texts)], h[0] = <<>>,
         \A i \in 1..Len(text) : h[i] = h[i - 1] \o q[i]
  PROVE  f[S] = h[Len(text)]
<1>0. ASSUME NEW x \in Seq(Texts), NEW y \in Seq(Texts), NEW z \in Seq(Texts)
      PROVE  (x \o y) \o z = x \o (y \o z)
  BY ONLY JoinThree
<1>1. Len(text) \in Nat
  BY LenProperties
<1>2. f[S] \in Seq(Texts) /\ f[{}] = text
  BY DEF Splices
<1>3. Remaining(f, S, 0) = f[S]
  <2>1. \A s \in S : 0 < s.first
    BY <1>1 DEF Disjoint
  <2>2. End(S, 0) = 0
    <3>1. \A s \in S : 0 < s.first \/ s.last <= 0
      BY <2>1
    <3>. QED  BY <3>1, <1>1, EndIs
  <2>3. Later(S, 0) = S
    BY <2>1 DEF Later
  <2>4. Remaining(f, S, 0) = SubSeq(f[S], 1, Len(f[S]))
    <3>1. Remaining(f, S, 0) = SubSeq(f[S], 0 + 1, Len(f[S]))
      BY <2>2, <2>3 DEF Remaining
    <3>2. 0 + 1 = 1
      OBVIOUS
    <3>. QED  BY <3>1, <3>2
  <2>5. SubSeq(f[S], 1, Len(f[S])) = f[S]
    BY <1>2, SubSeqFull
  <2>. QED  BY <2>4, <2>5
<1>4. \A i \in 0..Len(text) : Remaining(f, S, i) \in Seq(Texts)
  <2>1. \A i \in 1..Len(text) : Remaining(f, S, i) \in Seq(Texts)
    BY OneLine
  <2>2. \A i \in 0..Len(text) : i = 0 \/ i \in 1..Len(text)
    BY <1>1
  <2>. QED  BY <2>1, <2>2, <1>2, <1>3
<1>5. PICK Q : Q = {i \in 0..Len(text) : f[S] = h[i] \o Remaining(f, S, i)}
  OBVIOUS
<1>6. 0 \in Q
  <2>1. <<>> \o f[S] = f[S]
    BY <1>2, ConcatEmptySeq
  <2>. QED  BY <2>1, <1>1, <1>3, <1>5
<1>7. ASSUME NEW i \in 1..Len(text), i - 1 \in Q PROVE i \in Q
  <2>1. i \in 0..Len(text) /\ i - 1 \in 0..Len(text)
    BY <1>1
  <2>2. f[S] = h[i - 1] \o Remaining(f, S, i - 1)
    BY <1>5, <1>7
  <2>3. Remaining(f, S, i - 1) = q[i] \o Remaining(f, S, i)
    BY OneLine
  <2>4. PICK a, b, c : a = h[i - 1] /\ b = q[i] /\ c = Remaining(f, S, i)
    OBVIOUS
  <2>5. a \in Seq(Texts) /\ b \in Seq(Texts) /\ c \in Seq(Texts)
    <3>1. a \in Seq(Texts)
      BY <2>1, <2>4
    <3>2. b \in Seq(Texts)
      <4>1. q \in Seq(Seq(Texts)) /\ i \in 1..Len(q)
        BY DEF LineByLine
      <4>. QED  BY <4>1, <2>4, ElementOfSeq
    <3>3. c \in Seq(Texts)
      BY <2>1, <2>4, <1>4
    <3>. QED  BY <3>1, <3>2, <3>3
  <2>6. PICK x, y, z : x = f[S] /\ y = Remaining(f, S, i - 1) /\ z = h[i]
    OBVIOUS
  <2>7. x = a \o y /\ y = b \o c /\ z = a \o b
    BY <2>2, <2>3, <2>4, <2>6
  <2>8. x = z \o c
    <3>1. (a \o b) \o c = a \o (b \o c)
      BY ONLY <2>5, <1>0
    <3>. QED  BY ONLY <2>7, <3>1
  <2>. QED  BY <2>1, <2>4, <2>6, <2>8, <1>5
<1>8. \A i \in 0..Len(text) : i \in Q
  BY <1>1, <1>6, <1>7, UpTo
<1>9. f[S] = h[Len(text)] \o Remaining(f, S, Len(text))
  <2>1. Len(text) \in Q
    BY <1>1, <1>8
  <2>. QED  BY <2>1, <1>5
<1>10. Remaining(f, S, Len(text)) = <<>>
  <2>1. Later(S, Len(text)) = {}
    <3>1. \A s \in S : ~ (Len(text) < s.first)
      BY <1>1 DEF Disjoint
    <3>. QED  BY <3>1 DEF Later
  <2>2. End(S, Len(text)) = Len(text)
    <3>1. End(S, Len(text)) \in Len(text)..Len(text)
      BY <1>1, EndIs
    <3>. QED  BY <3>1, <1>1
  <2>3. Remaining(f, S, Len(text)) = SubSeq(text, Len(text) + 1, Len(text))
    BY <2>1, <2>2, <1>2 DEF Remaining
  <2>4. SubSeq(text, Len(text) + 1, Len(text)) = <<>>
    <3>1. Len(text) + 1 \in Int /\ Len(text) \in Int /\ Len(text) < Len(text) + 1
      BY <1>1
    <3>. QED  BY <3>1, SubSeqEmpty
  <2>. QED  BY <2>3, <2>4
<1>11. h[Len(text)] \in Seq(Texts)
  BY <1>1
<1>12. h[Len(text)] \o <<>> = h[Len(text)]
  BY <1>11, ConcatEmptySeq
<1>. QED  BY <1>9, <1>10, <1>12

(* What AsWritten puts in the place of every line is what the spans say.   *)
LEMMA WrittenLineByLine ==
  ASSUME NEW text \in Seq(Texts), NEW wanted \in EditCalls,
         C!Acceptable(text, wanted)
  PROVE  \E q : /\ LineByLine(q, C!Spans(text, wanted), text)
                /\ C!AsWritten(text, wanted) = C!FlattenSeq(q)
                /\ Len(text) = 0 => q = <<>>
<1>. DEFINE S == C!Spans(text, wanted)
            at(k) == C!Found(text, wanted[k].old)
            n(k) == Len(wanted[k].old)
            span(k) == [first |-> at(k), last |-> at(k) + n(k) - 1, new |-> wanted[k].new]
            starts(i) == {k \in DOMAIN wanted : at(k) = i}
            becomes(i) == IF starts(i) # {} THEN wanted[CHOOSE k \in starts(i) : TRUE].new
                          ELSE IF C!Covers(text, wanted, i) THEN <<>> ELSE <<text[i]>>
            q == [i \in DOMAIN text |-> becomes(i)]
<1>1. /\ Disjoint(S, text)
      /\ \A k \in DOMAIN wanted :
            /\ at(k) \in 1..Len(text) /\ n(k) \in Nat \ {0}
            /\ wanted[k].new \in Seq(Texts) /\ at(k) + n(k) - 1 <= Len(text)
  BY SpansDisjoint
<1>2. S = {span(k) : k \in DOMAIN wanted}
  BY DEF C!Spans, C!Range
<1>3. Len(text) \in Nat /\ DOMAIN text = 1..Len(text)
      /\ \A i \in 1..Len(text) : text[i] \in Texts
  BY LenProperties, ElementOfSeq
<1>4. C!AsWritten(text, wanted) = C!FlattenSeq(q)
  BY DEF C!AsWritten
<1>5. \A i : C!Covers(text, wanted, i) <=> \E k \in DOMAIN wanted : i \in at(k)..(at(k) + n(k) - 1)
  BY DEF C!Covers
<1>6. \A k \in DOMAIN wanted : /\ span(k) \in S /\ span(k).first = at(k)
                              /\ span(k).last = at(k) + n(k) - 1
                              /\ span(k).new = wanted[k].new
  BY <1>2
<1>7. \A s \in S : \E k \in DOMAIN wanted : s = span(k)
  BY <1>2
<1>. HIDE DEF S, at, n, span
<1>8. \A i \in 1..Len(text) : q[i] = becomes(i)
  BY <1>3
<1>9. ASSUME NEW i \in 1..Len(text) PROVE becomes(i) \in Seq(Texts)
  <2>1. <<>> \in Seq(Texts) /\ <<text[i]>> \in Seq(Texts)
    BY <1>3
  <2>2. starts(i) # {} => wanted[CHOOSE k \in starts(i) : TRUE].new \in Seq(Texts)
    BY <1>1
  <2>. QED  BY <2>1, <2>2
<1>10. ASSUME NEW s \in S PROVE becomes(s.first) = s.new /\ s.first \in 1..Len(text)
  <2>1. PICK k \in DOMAIN wanted : s = span(k)
    BY <1>7
  <2>2. k \in starts(s.first)
    BY <2>1, <1>6
  <2>3. PICK j \in starts(s.first) : becomes(s.first) = wanted[j].new
    BY <2>2
  <2>4. span(j) \in S /\ span(j).first = s.first /\ span(j).new = wanted[j].new
    BY <2>3, <1>6
  <2>5. span(j) = s
    <3>1. PICK o \in S : o = span(j)
      BY <2>4
    <3>2. o = s \/ o.last < s.first \/ s.last < o.first
      BY <1>1 DEF Disjoint
    <3>3. /\ o.first \in Nat /\ s.first \in Nat /\ o.last \in o.first..Len(text)
          /\ s.last \in s.first..Len(text)
      BY <1>1, <1>3 DEF Disjoint
    <3>. QED  BY <3>1, <3>2, <3>3, <2>4, <1>3
  <2>6. s.first \in 1..Len(text)
    BY <1>1 DEF Disjoint
  <2>. QED  BY <2>3, <2>4, <2>5, <2>6
<1>11. ASSUME NEW s \in S, NEW i \in 1..Len(text), s.first < i, i <= s.last
       PROVE  becomes(i) = <<>>
  <2>1. starts(i) = {}
    <3> SUFFICES ASSUME NEW k \in DOMAIN wanted, at(k) = i PROVE FALSE
      OBVIOUS
    <3>1. PICK o \in S : o = span(k)
      BY <1>6
    <3>2. o.first = i
      BY <3>1, <1>6
    <3>3. o = s \/ o.last < s.first \/ s.last < o.first
      BY <1>1 DEF Disjoint
    <3>4. /\ o.first \in Nat /\ s.first \in Nat /\ o.last \in o.first..Len(text)
          /\ s.last \in s.first..Len(text)
      BY <1>1, <1>3 DEF Disjoint
    <3>. QED  BY <3>2, <3>3, <3>4, <1>11, <1>3
  <2>2. C!Covers(text, wanted, i)
    <3>1. PICK k \in DOMAIN wanted : s = span(k)
      BY <1>7
    <3>2. s.first = at(k) /\ s.last = at(k) + n(k) - 1
      BY <3>1, <1>6
    <3>3. i \in s.first..s.last
      <4>1. s.first \in Int /\ s.last \in Int
        BY <1>1, <1>3 DEF Disjoint
      <4>. QED  BY <4>1, <1>11
    <3>. QED  BY <3>2, <3>3, <1>5
  <2>. QED  BY <2>1, <2>2
<1>12. ASSUME NEW i \in 1..Len(text), \A s \in S : i < s.first \/ s.last < i
       PROVE  becomes(i) = <<text[i]>>
  <2>1. ASSUME NEW k \in DOMAIN wanted
        PROVE  ~ (i \in at(k)..(at(k) + n(k) - 1)) /\ at(k) # i
    <3>1. i < at(k) \/ at(k) + n(k) - 1 < i
      BY <1>6, <1>12
    <3>2. PICK a, b : a = at(k) /\ b = n(k)
      OBVIOUS
    <3>3. a \in Nat /\ b \in Nat \ {0} /\ i \in Nat /\ (i < a \/ a + b - 1 < i)
      BY <3>1, <3>2, <1>1, <1>3
    <3>4. ~ (i \in a..(a + b - 1)) /\ a # i
      BY <3>3
    <3>. QED  BY <3>2, <3>4
  <2>. QED  BY <2>1, <1>5
<1>. HIDE DEF becomes
<1>13. q \in Seq(Seq(Texts)) /\ Len(q) = Len(text)
  <2>1. q \in [1..Len(text) -> Seq(Texts)]
    BY <1>3, <1>9
  <2>. HIDE DEF q
  <2>. QED  BY <2>1, <1>3
<1>14. Len(text) = 0 => q = <<>>
  BY <1>13, EmptySeq
<1>. HIDE DEF q
<1>15. LineByLine(q, S, text)
  BY <1>8, <1>10, <1>11, <1>12, <1>13 DEF LineByLine
<1>. QED  BY <1>4, <1>14, <1>15 DEF S

(* The edits of an acceptable call land where their old text was when it   *)
(* began, whatever the others add or remove before it, for any texts and   *)
(* edits.                                                                  *)
LEMMA SplicedAsWritten ==
  ASSUME NEW text \in Seq(Texts), NEW wanted \in EditCalls,
         C!Acceptable(text, wanted)
  PROVE  /\ C!Spliced(text, wanted) = C!AsWritten(text, wanted)
         /\ C!Spliced(text, wanted) \in Seq(Texts)
<1>1. PICK S : S = C!Spans(text, wanted)
  OBVIOUS
<1>2. Disjoint(S, text)
  BY <1>1, SpansDisjoint
<1>3. PICK f : C!Spliced(text, wanted) = f[S] /\ Splices(f, text, S)
  BY <1>1, <1>2, SplicedFolds
<1>4. PICK q : /\ LineByLine(q, S, text)
               /\ C!AsWritten(text, wanted) = C!FlattenSeq(q)
               /\ Len(text) = 0 => q = <<>>
  BY <1>1, WrittenLineByLine
<1>5. q \in Seq(Seq(Texts)) /\ Len(q) = Len(text) /\ Len(text) \in Nat
  BY <1>4, LenProperties DEF LineByLine
<1>6. C!FlattenSeq(q) = FlattenSeq(q)
  BY DEF C!FlattenSeq, FlattenSeq
<1>7. PICK h \in [0..Len(q) -> Seq(Texts)] :
         /\ h[0] = <<>>
         /\ \A i \in 1..Len(q) : h[i] = h[i - 1] \o q[i]
         /\ Len(q) # 0 => FlattenSeq(q) = h[Len(q)]
  BY <1>5, FlattenIs
<1>8. f[S] = h[Len(text)]
  BY <1>2, <1>3, <1>4, <1>5, <1>7, Landing
<1>9. FlattenSeq(q) = h[Len(q)]
  <2>1. CASE Len(q) = 0
    <3>1. q = <<>>
      BY <2>1, <1>4, <1>5
    <3>2. FlattenSeq(q) = q
      BY <2>1 DEF FlattenSeq
    <3>. QED  BY <3>1, <3>2, <2>1, <1>7
  <2>2. CASE Len(q) # 0
    BY <2>2, <1>7
  <2>. QED  BY <2>1, <2>2
<1>. QED  BY <1>3, <1>4, <1>5, <1>6, <1>8, <1>9 DEF Splices

(* What a read shows of no lines is of no bytes,                           *)
LEMMA SizeOfNothing ==
  ASSUME NEW text, NEW start \in Nat
  PROVE  C!Size(text, start, 0) = 0
<1>1. SubSeq(text, start + 1, start + 0) = <<>>
  <2>1. start + 1 \in Int /\ start + 0 \in Int /\ start + 0 < start + 1
    OBVIOUS
  <2>. QED  BY <2>1, SubSeqEmpty
<1>2. DOMAIN <<>> = {}
  OBVIOUS
<1>. DEFINE none == [s \in SUBSET {} |-> 0]
<1>3. C!FoldLeft(LAMBDA sum, t : sum + C!Bytes(t), 0, <<>>) = 0
  <2>1. none = [s \in SUBSET {} |-> IF s = {} THEN 0
                  ELSE none[s \ {C!Max(s)}] + C!Bytes(<<>>[C!Max(s)])]
    OBVIOUS
  <2>2. PICK k : /\ k = [s \in SUBSET {} |-> IF s = {} THEN 0
                           ELSE k[s \ {C!Max(s)}] + C!Bytes(<<>>[C!Max(s)])]
                 /\ C!FoldLeft(LAMBDA sum, t : sum + C!Bytes(t), 0, <<>>) = k[{}]
    BY <2>1, <1>2 DEF C!FoldLeft, C!MapThenFoldSet
  <2>. QED  BY <2>2
<1>. QED  BY <1>1, <1>3 DEF C!Size

(* so that a read shows some lines, or none, and no more than there are.   *)
LEMMA ShownIs ==
  ASSUME NEW text \in Seq(Texts), NEW start \in Nat, start < Len(text),
         NEW limit \in 1..2
  PROVE  C!Shown(text, start, limit) \in Nat
         /\ start + C!Shown(text, start, limit) <= Len(text)
<1>. DEFINE n == {k \in 0..limit : start + k <= Len(text)
                                   /\ C!Size(text, start, k) <= PageBytes}
<1>1. Len(text) \in Nat /\ PageBytes \in Nat
  BY LenProperties, CodingAssumption
<1>2. 0 \in n
  BY <1>1, SizeOfNothing
<1>3. n \subseteq {0, 1, 2}
  OBVIOUS
<1>4. \E k \in n : \A j \in n : j <= k
  <2>. HIDE DEF n
  <2>. QED  BY <1>2, <1>3
<1>5. C!Shown(text, start, limit) \in n
  BY <1>4 DEF C!Shown
<1>. QED  BY <1>1, <1>5

(* A reader has been shown the lines up to the next one it asks for,       *)
ReadSoFar ==
  /\ reading.next = 0 => reading.seen = DOMAIN tree.main
  /\ reading.next # 0 => /\ reading.seen = 1..(reading.next - 1)
                         /\ reading.next - 1 <= Len(tree.main)

(* the notes hold the findings of the legs before this one, which the turn *)
(* was told of,                                                            *)
NotesKept ==
  /\ phase = "waiting" => notes = 1..leg /\ leg < MaxLegs
  /\ phase = "working" => told = 1..(leg - 1) /\ notes = told

(* and a pull request is the last thing a run does.                        *)
RequestIsLast ==
  /\ phase = "requested" => request.tree = tree
  /\ phase # "requested" => request = None

CodingInv == C!TypeOK /\ ReadSoFar /\ NotesKept /\ RequestIsLast

(* A file is a sequence of lines, and its texts one of texts.              *)
LEMMA TextOfIs ==
  ASSUME NEW file \in Seq(C!Lines)
  PROVE  /\ C!TextOf(file) \in Seq(Texts) /\ Len(C!TextOf(file)) = Len(file)
         /\ Len(file) \in Nat /\ DOMAIN file = 1..Len(file)
<1>1. /\ Len(file) \in Nat /\ DOMAIN file = 1..Len(file)
      /\ \A i \in 1..Len(file) : file[i] \in C!Lines
  BY LenProperties, ElementOfSeq
<1>2. \A i \in 1..Len(file) : file[i].text \in Texts
  BY <1>1 DEF C!Lines
<1>3. C!TextOf(file) \in [1..Len(file) -> Texts]
  BY <1>1, <1>2 DEF C!TextOf
<1>. QED  BY <1>1, <1>3

(* What an edit call writes is a file again, of the edited text.           *)
LEMMA RewrittenIs ==
  ASSUME NEW file \in Seq(C!Lines), NEW wanted \in EditCalls,
         C!Acceptable(C!TextOf(file), wanted)
  PROVE  /\ C!Rewritten(file, wanted) \in Seq(C!Lines)
         /\ C!TextOf(C!Rewritten(file, wanted)) = C!AsWritten(C!TextOf(file), wanted)
<1>1. PICK text : text = C!Spliced(C!TextOf(file), wanted)
  OBVIOUS
<1>2. text \in Seq(Texts) /\ text = C!AsWritten(C!TextOf(file), wanted)
  BY <1>1, TextOfIs, SplicedAsWritten
<1>3. /\ Len(text) \in Nat /\ DOMAIN text = 1..Len(text)
      /\ \A i \in 1..Len(text) : text[i] \in Texts
      /\ text = [i \in 1..Len(text) |-> text[i]]
  BY <1>2, LenProperties, ElementOfSeq
<1>4. PICK eol \in {"lf", "crlf"} : eol = C!Ending(file)
  BY DEF C!Ending
<1>5. C!Rewritten(file, wanted) = [i \in 1..Len(text) |-> [text |-> text[i], eol |-> eol]]
  BY <1>1, <1>3, <1>4 DEF C!Rewritten
<1>6. PICK w : w = C!Rewritten(file, wanted)
  OBVIOUS
<1>7. w \in [1..Len(text) -> C!Lines]
  BY <1>3, <1>4, <1>5, <1>6 DEF C!Lines
<1>8. DOMAIN w = 1..Len(text) /\ \A i \in 1..Len(text) : w[i].text = text[i]
  BY <1>5, <1>6
<1>9. C!TextOf(w) = [i \in 1..Len(text) |-> text[i]]
  BY <1>8 DEF C!TextOf
<1>10. w \in Seq(C!Lines)
  BY <1>3, <1>7
<1>. QED  BY <1>2, <1>3, <1>6, <1>9, <1>10

LEMMA CodingInit == C!Init => CodingInv
<1> SUFFICES ASSUME C!Init PROVE CodingInv
  OBVIOUS
<1>1. base \in Seq(C!Lines) /\ tree = [main |-> base, other |-> "same", ci |-> FALSE]
  BY CodingAssumption DEF C!Init
<1>2. tree.main = base /\ tree \in C!Trees
  BY <1>1 DEF C!Trees
<1>3. /\ reading = [next |-> 1, seen |-> {}] /\ reading.next = 1 /\ reading.seen = {}
      /\ leg = 1 /\ notes = {} /\ told = {} /\ codingAsked = FALSE /\ used = 0
      /\ phase = "working" /\ request = None /\ results = <<>>
  BY DEF C!Init, C!Unread
<1>4. Len(tree.main) \in Nat
  BY <1>1, <1>2, LenProperties
<1>5. ReadSoFar
  <2>1. 1..(1 - 1) = {} /\ 1 - 1 <= Len(tree.main)
    BY <1>4
  <2>. QED  BY <1>3, <2>1 DEF ReadSoFar
<1>6. NotesKept
  <2>1. 1..(1 - 1) = {}
    OBVIOUS
  <2>. QED  BY <1>3, <2>1 DEF NotesKept
<1>7. RequestIsLast
  BY <1>3 DEF RequestIsLast
<1>8. C!TypeOK
  <2>1. base \in Files
    BY DEF C!Init
  <2>2. <<>> \in Seq([check : Checks, passed : BOOLEAN])
    BY EmptySeq
  <2>3. 1 \in 1..MaxLegs /\ 0 \in 0..MaxCalls
    BY CodingAssumption
  <2>4. reading \in [next : Nat, seen : SUBSET Nat]
    BY <1>3
  <2>. QED  BY <1>2, <1>3, <2>1, <2>2, <2>3, <2>4 DEF C!TypeOK
<1>. QED  BY <1>5, <1>6, <1>7, <1>8 DEF CodingInv

(* Where the file stays and the reader reads from the start again, or      *)
(* neither changes, it has still been shown what it was.                   *)
LEMMA ReadingStays ==
  ASSUME CodingInv,
         \/ reading' = C!Unread /\ tree'.main \in Seq(C!Lines)
         \/ reading' = reading /\ tree'.main = tree.main
  PROVE  ReadSoFar'
<1>1. CASE reading' = C!Unread /\ tree'.main \in Seq(C!Lines)
  <2>1. reading'.next = 1 /\ reading'.seen = {}
    BY <1>1 DEF C!Unread
  <2>2. 1..(1 - 1) = {} /\ 1 - 1 <= Len(tree'.main)
    BY <1>1, LenProperties
  <2>. QED  BY <2>1, <2>2 DEF ReadSoFar
<1>2. CASE reading' = reading /\ tree'.main = tree.main
  BY <1>2 DEF CodingInv, ReadSoFar
<1>. QED  BY <1>1, <1>2

(* A tool call leaves the notes and the request alone.                     *)
LEMMA CallLeaves ==
  ASSUME CodingInv, C!Call,
         UNCHANGED <<base, leg, notes, codingAsked, told, phase, request>>
  PROVE  /\ NotesKept' /\ RequestIsLast' /\ used' \in 0..MaxCalls
<1>1. phase = "working" /\ phase' = "working" /\ used < MaxCalls /\ used' = used + 1
  BY DEF C!Call, C!Working
<1>2. used' \in 0..MaxCalls
  BY <1>1, CodingAssumption DEF CodingInv, C!TypeOK
<1>3. NotesKept'
  BY <1>1 DEF CodingInv, NotesKept
<1>4. RequestIsLast'
  BY <1>1 DEF CodingInv, RequestIsLast
<1>. QED  BY <1>2, <1>3, <1>4

LEMMA CodingEdits ==
  ASSUME CodingInv, NEW wanted \in EditCalls, C!EditCall(wanted)
  PROVE  /\ CodingInv'
         /\ C!TextOf(tree'.main) = C!AsWritten(C!TextOf(tree.main), wanted)
<1>1. /\ tree \in C!Trees /\ tree.main \in Seq(C!Lines)
  BY DEF CodingInv, C!TypeOK, C!Trees
<1>2. /\ C!Acceptable(C!TextOf(tree.main), wanted)
      /\ tree' = [tree EXCEPT !.main = C!Rewritten(tree.main, wanted)]
      /\ reading' = C!Unread /\ C!Call
      /\ UNCHANGED <<base, leg, notes, codingAsked, told, phase, request>>
      /\ results' = results
  BY DEF C!EditCall
<1>3. PICK w : w = C!Rewritten(tree.main, wanted)
  OBVIOUS
<1>4. w \in Seq(C!Lines) /\ C!TextOf(w) = C!AsWritten(C!TextOf(tree.main), wanted)
  BY <1>1, <1>2, <1>3, RewrittenIs
<1>5. tree' = [tree EXCEPT !.main = w]
  BY <1>2, <1>3
<1>6. tree' \in C!Trees /\ tree'.main = w
  BY <1>1, <1>4, <1>5 DEF C!Trees
<1>7. ReadSoFar'
  BY <1>2, <1>4, <1>6, ReadingStays
<1>8. NotesKept' /\ RequestIsLast' /\ used' \in 0..MaxCalls
  BY <1>2, CallLeaves
<1>9. C!TypeOK'
  <2>1. reading' \in [next : Nat, seen : SUBSET Nat]
    BY <1>2 DEF C!Unread
  <2>. QED  BY <1>2, <1>6, <1>8, <2>1 DEF CodingInv, C!TypeOK
<1>. QED  BY <1>4, <1>6, <1>7, <1>8, <1>9 DEF CodingInv

LEMMA CodingCreates ==
  ASSUME CodingInv, C!CreateFile
  PROVE  CodingInv'
<1>1. tree \in C!Trees
  BY DEF CodingInv, C!TypeOK
<1>2. /\ tree' = [tree EXCEPT !.other = "changed"]
      /\ reading' = reading /\ C!Call /\ results' = results
      /\ UNCHANGED <<base, leg, notes, codingAsked, told, phase, request>>
  BY DEF C!CreateFile
<1>3. tree' \in C!Trees /\ tree'.main = tree.main
  BY <1>1, <1>2 DEF C!Trees
<1>4. ReadSoFar'
  BY <1>2, <1>3, ReadingStays
<1>5. NotesKept' /\ RequestIsLast' /\ used' \in 0..MaxCalls
  BY <1>2, CallLeaves
<1>6. C!TypeOK'
  BY <1>2, <1>3, <1>5 DEF CodingInv, C!TypeOK
<1>. QED  BY <1>4, <1>5, <1>6 DEF CodingInv

LEMMA CodingBash ==
  ASSUME CodingInv, C!Bash
  PROVE  CodingInv'
<1>1. PICK main \in Files, other \in {"same", "changed", "gone"}, ci \in BOOLEAN :
         tree' = [main |-> main, other |-> other, ci |-> ci]
  BY DEF C!Bash
<1>2. /\ reading' = C!Unread /\ C!Call /\ results' = results
      /\ UNCHANGED <<base, leg, notes, codingAsked, told, phase, request>>
  BY DEF C!Bash
<1>3. tree' \in C!Trees /\ tree'.main \in Seq(C!Lines)
  BY <1>1, CodingAssumption DEF C!Trees
<1>4. ReadSoFar'
  BY <1>2, <1>3, ReadingStays
<1>5. NotesKept' /\ RequestIsLast' /\ used' \in 0..MaxCalls
  BY <1>2, CallLeaves
<1>6. C!TypeOK'
  <2>1. reading' \in [next : Nat, seen : SUBSET Nat]
    BY <1>2 DEF C!Unread
  <2>. QED  BY <1>2, <1>3, <1>5, <2>1 DEF CodingInv, C!TypeOK
<1>. QED  BY <1>4, <1>5, <1>6 DEF CodingInv

LEMMA CodingChecks ==
  ASSUME CodingInv, NEW c \in Checks, C!RunCheck(c)
  PROVE  CodingInv'
<1>1. PICK passed \in {C!Passes(tree), FALSE} :
         results' = Append(results, [check |-> c, passed |-> passed])
  BY DEF C!RunCheck
<1>2. /\ reading' = reading /\ C!Call /\ tree' = tree
      /\ UNCHANGED <<base, leg, notes, codingAsked, told, phase, request>>
  BY DEF C!RunCheck
<1>3. ReadSoFar'
  BY <1>2, ReadingStays
<1>4. NotesKept' /\ RequestIsLast' /\ used' \in 0..MaxCalls
  BY <1>2, CallLeaves
<1>5. results' \in Seq([check : Checks, passed : BOOLEAN])
  <2>1. passed \in BOOLEAN
    BY DEF C!Passes
  <2>2. [check |-> c, passed |-> passed] \in [check : Checks, passed : BOOLEAN]
    BY <2>1
  <2>. QED  BY <1>1, <2>2, AppendProperties DEF CodingInv, C!TypeOK
<1>6. C!TypeOK'
  BY <1>2, <1>4, <1>5 DEF CodingInv, C!TypeOK
<1>. QED  BY <1>3, <1>4, <1>6 DEF CodingInv

(* What a read shows is added to what the reader has seen.                 *)
LEMMA CodingReads ==
  ASSUME CodingInv, NEW limit \in 1..2, C!Read(limit)
  PROVE  CodingInv'
<1>1. PICK text, start, n, named :
        /\ text = C!TextOf(tree.main) /\ start = reading.next - 1
        /\ n = C!Shown(text, start, limit)
        /\ named = IF n = 0 THEN 1 ELSE n
        /\ start < Len(text)
        /\ reading' = [next |-> C!Continuation(text, start, named),
                       seen |-> reading.seen \cup (start + 1)..(start + named)]
  BY DEF C!Read
<1>2. /\ phase = "working" /\ reading.next # 0
      /\ UNCHANGED <<base, tree, results, leg, notes, codingAsked, told, used, phase,
                     request>>
  BY DEF C!Read, C!Working
<1>3. tree.main \in Seq(C!Lines) /\ reading.next \in Nat /\ reading.seen = 1..start
  BY <1>1, <1>2 DEF CodingInv, C!TypeOK, C!Trees, ReadSoFar
<1>4. text \in Seq(Texts) /\ Len(text) = Len(tree.main) /\ Len(text) \in Nat
      /\ DOMAIN tree.main = 1..Len(text)
  BY <1>1, <1>3, TextOfIs
<1>5. start \in Nat
  BY <1>1, <1>2, <1>3
<1>6. n \in Nat /\ start + n <= Len(text)
  BY <1>1, <1>4, <1>5, ShownIs
<1>7. named \in Nat \ {0} /\ start + named <= Len(text)
  BY <1>1, <1>4, <1>5, <1>6
<1>8. reading'.seen = 1..(start + named)
  <2>1. 1..start \cup (start + 1)..(start + named) = 1..(start + named)
    BY <1>5, <1>7
  <2>. QED  BY <1>1, <1>3, <2>1
<1>9. reading'.next = IF start + named < Len(text) THEN start + named + 1 ELSE 0
  BY <1>1 DEF C!Continuation
<1>10. ReadSoFar'
  <2>1. tree'.main = tree.main
    BY <1>2
  <2>2. CASE start + named < Len(text)
    <3>1. reading'.next = start + named + 1 /\ reading'.next # 0
          /\ reading'.next - 1 = start + named
      BY <1>5, <1>7, <1>9, <2>2
    <3>. QED  BY <3>1, <2>1, <2>2, <1>4, <1>5, <1>7, <1>8 DEF ReadSoFar
  <2>3. CASE ~ (start + named < Len(text))
    <3>1. start + named = Len(text) /\ reading'.next = 0
      BY <1>4, <1>5, <1>7, <1>9, <2>3
    <3>. QED  BY <3>1, <2>1, <1>4, <1>8 DEF ReadSoFar
  <2>. QED  BY <2>2, <2>3
<1>11. reading' \in [next : Nat, seen : SUBSET Nat]
  <2>1. reading'.next \in Nat /\ reading'.seen \subseteq Nat
    BY <1>4, <1>5, <1>7, <1>8, <1>9
  <2>2. DOMAIN reading' = {"next", "seen"}
        /\ reading' = [next |-> reading'.next, seen |-> reading'.seen]
    BY <1>1
  <2>. QED  BY <2>1, <2>2
<1>12. NotesKept' /\ RequestIsLast'
  BY <1>2 DEF CodingInv, NotesKept, RequestIsLast
<1>13. C!TypeOK'
  BY <1>2, <1>11 DEF CodingInv, C!TypeOK
<1>. QED  BY <1>10, <1>12, <1>13 DEF CodingInv

LEMMA CodingAsks ==
  ASSUME CodingInv, C!AskOwner \/ C!Waits \/ C!TurnFails
  PROVE  CodingInv'
<1>1. /\ phase = "working" /\ tree' = tree /\ reading' = reading
      /\ UNCHANGED <<base, results, leg, told, used, request>>
      /\ codingAsked' \in BOOLEAN
      /\ \/ phase' = "working" /\ notes' = notes
         \/ phase' = "failed" /\ notes' = notes
         \/ phase' = "waiting" /\ notes' = notes \cup {leg} /\ leg < MaxLegs
  BY DEF C!AskOwner, C!Waits, C!TurnFails, C!Working, C!Handoff, CodingInv, C!TypeOK
<1>2. leg \in 1..MaxLegs /\ MaxLegs \in Nat
  BY CodingAssumption DEF CodingInv, C!TypeOK
<1>3. notes = 1..(leg - 1)
  BY <1>1 DEF CodingInv, NotesKept
<1>4. NotesKept'
  <2>1. 1..(leg - 1) \cup {leg} = 1..leg
    BY <1>2
  <2>. QED  BY <1>1, <1>3, <2>1 DEF CodingInv, NotesKept
<1>5. ReadSoFar'
  BY <1>1, ReadingStays
<1>6. RequestIsLast'
  BY <1>1 DEF CodingInv, RequestIsLast
<1>7. C!TypeOK'
  BY <1>1, <1>2 DEF CodingInv, C!TypeOK
<1>. QED  BY <1>4, <1>5, <1>6, <1>7 DEF CodingInv

LEMMA CodingResumes ==
  ASSUME CodingInv, C!Resumes
  PROVE  CodingInv'
<1>1. /\ phase = "waiting" /\ phase' = "working" /\ leg' = leg + 1 /\ told' = notes
      /\ codingAsked' = FALSE /\ results' = <<>> /\ reading' = C!Unread
      /\ tree' = tree
      /\ UNCHANGED <<base, notes, used, request>>
  BY DEF C!Resumes
<1>2. leg \in 1..MaxLegs /\ leg < MaxLegs /\ MaxLegs \in Nat /\ notes = 1..leg
  BY <1>1, CodingAssumption DEF CodingInv, C!TypeOK, NotesKept
<1>3. NotesKept'
  BY <1>1, <1>2 DEF NotesKept
<1>4. ReadSoFar'
  <2>1. tree'.main \in Seq(C!Lines)
    BY <1>1 DEF CodingInv, C!TypeOK, C!Trees
  <2>. QED  BY <1>1, <2>1, ReadingStays
<1>5. RequestIsLast'
  BY <1>1 DEF CodingInv, RequestIsLast
<1>6. C!TypeOK'
  <2>1. reading' \in [next : Nat, seen : SUBSET Nat]
    BY <1>1 DEF C!Unread
  <2>2. results' \in Seq([check : Checks, passed : BOOLEAN])
    BY <1>1, EmptySeq
  <2>3. leg' \in 1..MaxLegs
    BY <1>1, <1>2
  <2>4. phase' \in {"working", "waiting", "completed", "failed", "requested"}
        /\ codingAsked' \in BOOLEAN
    BY <1>1
  <2>. QED  BY <1>1, <2>1, <2>2, <2>3, <2>4 DEF CodingInv, C!TypeOK
<1>. QED  BY <1>3, <1>4, <1>5, <1>6 DEF CodingInv

(* The pull request holds the workspace: what differs is applied, what     *)
(* does not is the checkout's.                                             *)
LEMMA CodingPublishes ==
  ASSUME CodingInv, C!Publish
  PROVE  CodingInv'
<1>1. PICK paths : paths = C!Changes(tree)
  OBVIOUS
<1>2. /\ phase = "working"
      /\ UNCHANGED <<base, tree, results, reading, leg, notes, codingAsked, told, used>>
      /\ \/ phase' = "failed" /\ request' = request
         \/ phase' = "completed" /\ request' = request
         \/ /\ C!Allowed(paths) /\ phase' = "requested"
            /\ request' = [tree |-> C!Applied(tree, paths), draft |-> ~C!ChecksPassed]
  BY <1>1 DEF C!Publish, C!Working
<1>3. request = None
  BY <1>2 DEF CodingInv, RequestIsLast
<1>4. tree \in C!Trees
  BY DEF CodingInv, C!TypeOK
<1>5. C!Allowed(paths) => C!Applied(tree, paths) = tree
  <2> SUFFICES ASSUME C!Allowed(paths) PROVE C!Applied(tree, paths) = tree
    OBVIOUS
  <2>1. tree = [main |-> tree.main, other |-> tree.other, ci |-> tree.ci]
    BY <1>4 DEF C!Trees
  <2>2. tree.ci = FALSE
    BY <1>1 DEF C!Allowed, C!Changes, C!Original
  <2>3. "main" \notin paths => tree.main = base
    BY <1>1 DEF C!Changes, C!Original
  <2>4. "other" \notin paths => tree.other = "same"
    BY <1>1 DEF C!Changes, C!Original
  <2>5. C!Applied(tree, paths) = [main |-> tree.main, other |-> tree.other, ci |-> tree.ci]
    BY <2>2, <2>3, <2>4 DEF C!Applied
  <2>. QED  BY <2>1, <2>5
<1>6. RequestIsLast'
  <2>1. CASE phase' = "requested"
    <3>1. request'.tree = tree'
      BY <2>1, <1>2, <1>5
    <3>. QED  BY <2>1, <3>1 DEF RequestIsLast
  <2>2. CASE phase' # "requested"
    BY <2>2, <1>2, <1>3 DEF RequestIsLast
  <2>. QED  BY <2>1, <2>2
<1>7. NotesKept'
  BY <1>2 DEF CodingInv, NotesKept
<1>8. ReadSoFar'
  BY <1>2, ReadingStays
<1>9. C!TypeOK'
  <2>1. request' \in [tree : C!Trees, draft : BOOLEAN] \cup {None}
    <3>1. PICK d \in BOOLEAN : d = ~C!ChecksPassed
      OBVIOUS
    <3>2. request' = None \/ request' = [tree |-> tree, draft |-> d]
      BY <1>2, <1>3, <1>5, <3>1
    <3>. QED  BY <3>2, <1>4
  <2>. QED  BY <1>2, <2>1 DEF CodingInv, C!TypeOK
<1>. QED  BY <1>6, <1>7, <1>8, <1>9 DEF CodingInv

(* Every step of the coding turn keeps the invariant.                      *)
LEMMA CodingKept == CodingInv /\ C!Next => CodingInv'
<1> SUFFICES ASSUME CodingInv, C!Next PROVE CodingInv'
  OBVIOUS
<1>. QED
  BY CodingEdits, CodingCreates, CodingBash, CodingChecks, CodingReads, CodingAsks,
     CodingResumes, CodingPublishes DEF C!Next

(* Nothing changes where none of the variables does.                       *)
LEMMA CodingStays ==
  ASSUME CodingInv, UNCHANGED codingVars
  PROVE  CodingInv'
<1>1. /\ base' = base /\ tree' = tree /\ results' = results /\ reading' = reading
      /\ leg' = leg /\ notes' = notes /\ codingAsked' = codingAsked /\ told' = told
      /\ used' = used /\ phase' = phase /\ request' = request
  BY DEF codingVars
<1>. QED  BY <1>1 DEF CodingInv, C!TypeOK, ReadSoFar, NotesKept, RequestIsLast

(* What the run checks follows from it.                                    *)
LEMMA CodingMeans ==
  CodingInv => /\ C!TypeOK /\ C!RequestIsTheWorkspace
               /\ C!FindingsReachTheNextLeg /\ C!ReadThrough
BY DEF CodingInv, ReadSoFar, NotesKept, RequestIsLast, C!RequestIsTheWorkspace,
       C!FindingsReachTheNextLeg, C!ReadThrough

-----------------------------------------------------------------------------
(* Installs                                                                *)

OnRecord == I!Upstream \cup {I!Deleted, I!Absent}
FileStates == {"none", "gone", "taken", "missing", "edited", "same"}
SkillActs == {"write", "release", "delete"}
ServerActs == {"add", "remove", "unplug"}
Acts == SkillActs \cup ServerActs
Snapshots == [t : I!Targets, was : I!Contents]
Operations ==
    [kind : {"install", "update", "remove"}, plan : I!Plans,
     replace : SUBSET I!Targets, pc : {"reading", "next", "undoing"} \cup Acts,
     states : [I!Targets -> FileStates], todo : SUBSET I!Targets,
     files : [I!Targets -> OnRecord], at : I!Targets \cup {None},
     undo : Seq(Snapshots)]

(* An act is on a name it is for, which has been snapshotted last; a name  *)
(* is snapshotted once, when its turn has come.                            *)
OperationIsSound ==
    /\ installsOp \in Operations
    /\ installsOp.pc = "reading" => installsOp.undo = << >>
    /\ installsOp.pc \in SkillActs => installsOp.at \in Skills
    /\ installsOp.pc \in ServerActs => installsOp.at \in Servers
    /\ installsOp.pc \in {"write", "add", "unplug"} =>
          installsOp.at \in DOMAIN installsOp.plan
    /\ installsOp.pc \in Acts =>
          installsOp.undo # << >> /\ installsOp.undo[1].t = installsOp.at
    /\ installsOp.kind = "remove" =>
          DOMAIN installsOp.plan = {} /\ installsOp.files = I!Recorded
    /\ \A i \in 1..Len(installsOp.undo) : installsOp.undo[i].t \notin installsOp.todo
    /\ \A i, j \in 1..Len(installsOp.undo) :
          installsOp.undo[i].t = installsOp.undo[j].t => i = j

InstallTypes ==
    /\ content \in [I!Targets -> I!Contents] /\ before \in [I!Targets -> I!Contents]
    /\ record \in [I!Targets -> OnRecord] /\ (~installed => record = I!Recorded)
    /\ trusted \in [I!Targets -> Hashes \cup {None}] /\ touched \subseteq I!Targets
    /\ installsOp # None => OperationIsSound

AsItWas(t) ==
    \/ content[t] = before[t]
    \/ t \in Servers /\ content[t] = [before[t] EXCEPT !.on = FALSE]

(* What the owner has not changed meanwhile is as it was unless it has a   *)
(* snapshot, and the snapshot is of what it was.                           *)
SnapshotsAreTrue ==
    \A t \in I!Targets \ touched :
        /\ (\A i \in 1..Len(installsOp.undo) : installsOp.undo[i].t # t) =>
              /\ AsItWas(t)
              /\ installsOp.pc # "undoing" => content[t] = before[t]
        /\ \A i \in 1..Len(installsOp.undo) :
              installsOp.undo[i].t = t => installsOp.undo[i].was = before[t]

(* The state of a name as it was when the operation began.                 *)
StateBefore(t) ==
    IF record[t] = I!Absent THEN "none"
    ELSE IF record[t] = I!Deleted
    THEN IF before[t] = None THEN "gone" ELSE "taken"
    ELSE IF before[t] = None THEN "missing"
    ELSE IF before[t].hash # record[t] \/ (t \in Servers /\ before[t].on)
    THEN "edited" ELSE "same"

(* What the owner has written and not given up, and what the owner has     *)
(* deleted.                                                                *)
OwnersOwn(t) == before[t] # None /\ before[t].hash = 0 /\ t \notin installsOp.replace
OwnerDropped(t) == record[t] # I!Absent /\ before[t] = None

(* A skill that the owner leaves alone meanwhile was read as it was; where *)
(* it is the owner's, an act on it takes its marker or will be refused.    *)
OwnersWorkIsSafe ==
    \A t \in Skills \ touched :
        /\ OwnersOwn(t) => content[t] # None /\ content[t].hash = 0
        /\ OwnerDropped(t) => content[t] = None
        /\ installsOp.pc \notin {"reading", "undoing"} =>
              installsOp.states[t] = StateBefore(t)
        /\ installsOp.pc \in Acts /\ installsOp.at = t =>
              /\ content[t] = before[t] /\ ~OwnerDropped(t)
              /\ OwnersOwn(t) =>
                    \/ installsOp.pc = "release"
                    \/ installsOp.pc = "write" /\ record[t] = I!Absent

InstallsInv ==
    /\ InstallTypes
    /\ I!TrustIsTheOwners
    /\ installsOp # None /\ ~damaged => SnapshotsAreTrue /\ OwnersWorkIsSafe

(* What a content is, and what is never a hash or on record.               *)
LEMMA ContentIs ==
  /\ \A c \in I!Contents : c # None =>
        c.hash \in Hashes /\ c.marked \in BOOLEAN /\ c.on \in BOOLEAN
  /\ None \in I!Contents
  /\ \A h \in Hashes, m, o \in BOOLEAN :
        /\ I!Holds(h, m, o) \in I!Contents /\ I!Holds(h, m, o) # None
        /\ I!Holds(h, m, o).hash = h /\ I!Holds(h, m, o).on = o
<1>1. \A c \in I!Contents : c # None =>
        c.hash \in Hashes /\ c.marked \in BOOLEAN /\ c.on \in BOOLEAN
  BY DEF I!Contents
<1>2. None \in I!Contents
  BY DEF I!Contents
<1>3. ASSUME NEW h \in Hashes, NEW m \in BOOLEAN, NEW o \in BOOLEAN
      PROVE  /\ I!Holds(h, m, o) \in I!Contents /\ I!Holds(h, m, o) # None
             /\ I!Holds(h, m, o).hash = h /\ I!Holds(h, m, o).on = o
  BY <1>3, InstallsAssumption DEF I!Holds, I!Contents
<1>. QED  BY <1>1, <1>2, <1>3

LEMMA SwitchedIs ==
  ASSUME NEW c \in I!Contents, c # None, NEW on \in BOOLEAN
  PROVE  /\ [c EXCEPT !.on = on] \in I!Contents /\ [c EXCEPT !.on = on] # None
         /\ [c EXCEPT !.on = on].on = on /\ [c EXCEPT !.on = on].hash = c.hash
  BY InstallsAssumption DEF I!Contents

(* The owner's hash is none of those on record.                            *)
LEMMA OwnersHash ==
  /\ 0 \notin OnRecord /\ I!Absent # I!Deleted
  /\ I!Upstream \subseteq Hashes /\ \A h \in I!Upstream : h # I!Absent /\ h # I!Deleted
  BY InstallsAssumption DEF OnRecord, I!Upstream, I!Absent, I!Deleted

(* Only the place of an operation changes.                                 *)
LEMMA OperationGoes ==
  ASSUME installsOp \in Operations, NEW p \in {"reading", "next", "undoing"} \cup Acts,
         installsOp' = [installsOp EXCEPT !.pc = p]
  PROVE  /\ installsOp' \in Operations /\ installsOp'.pc = p
         /\ installsOp'.kind = installsOp.kind /\ installsOp'.plan = installsOp.plan
         /\ installsOp'.replace = installsOp.replace /\ installsOp'.states = installsOp.states
         /\ installsOp'.todo = installsOp.todo /\ installsOp'.files = installsOp.files
         /\ installsOp'.at = installsOp.at /\ installsOp'.undo = installsOp.undo
  BY DEF Operations

(* The plan of an operation.                                               *)
LEMMA PlanIs ==
  ASSUME NEW plan \in I!Plans
  PROVE  DOMAIN plan \subseteq I!Targets /\ \A t \in DOMAIN plan : plan[t] \in I!Upstream
  BY DEF I!Plans

(* Nothing is installed where it starts.                                   *)
LEMMA InstallsInit == I!Init => InstallsInv
<1> SUFFICES ASSUME I!Init PROVE InstallsInv
  OBVIOUS
<1>1. /\ content \in [I!Targets -> {None, I!Holds(0, FALSE, FALSE)}]
      /\ record = I!Recorded /\ installed = FALSE /\ installsOp = None
      /\ trusted = [t \in I!Targets |-> None] /\ touched = {} /\ before = content
  BY DEF I!Init
<1>2. /\ I!Holds(0, FALSE, FALSE) \in I!Contents /\ None \in I!Contents
      /\ I!Holds(0, FALSE, FALSE).on = FALSE
  BY ContentIs, InstallsAssumption
<1>3. content \in [I!Targets -> I!Contents] /\ I!Recorded \in [I!Targets -> OnRecord]
  BY <1>1, <1>2 DEF I!Recorded, OnRecord
<1>4. InstallTypes
  BY <1>1, <1>3 DEF InstallTypes
<1>5. I!TrustIsTheOwners
  BY <1>1, <1>2 DEF I!TrustIsTheOwners, I!Targets
<1>. QED  BY <1>1, <1>4, <1>5 DEF InstallsInv

(* The owner changes one name,                                             *)
LEMMA OwnerPutsKeeps ==
  ASSUME InstallsInv, NEW t \in I!Targets, NEW c \in I!Contents, I!OwnerPuts(t, c)
  PROVE  InstallsInv'
<1>1. /\ content' = [content EXCEPT ![t] = c] /\ touched' = touched \cup {t}
      /\ trusted' = [trusted EXCEPT ![t] = IF c # None /\ c.on THEN c.hash ELSE None]
      /\ UNCHANGED <<record, installed, installsOp, before, damaged>>
  BY DEF I!OwnerPuts
<1>2. InstallTypes /\ I!TrustIsTheOwners
  BY DEF InstallsInv
<1>3. /\ content' \in [I!Targets -> I!Contents] /\ content'[t] = c
      /\ \A u \in I!Targets \ {t} : content'[u] = content[u]
  BY <1>1, <1>2 DEF InstallTypes
<1>4. (IF c # None /\ c.on THEN c.hash ELSE None) \in Hashes \cup {None}
  BY ContentIs
<1>5. /\ trusted' \in [I!Targets -> Hashes \cup {None}]
      /\ trusted'[t] = IF c # None /\ c.on THEN c.hash ELSE None
      /\ \A u \in I!Targets \ {t} : trusted'[u] = trusted[u]
  BY <1>1, <1>2, <1>4 DEF InstallTypes
<1>6. OperationIsSound' <=> OperationIsSound
  BY <1>1 DEF OperationIsSound
<1>7. InstallTypes'
  BY <1>1, <1>2, <1>3, <1>5, <1>6 DEF InstallTypes
<1>8. I!TrustIsTheOwners'
  BY <1>2, <1>3, <1>5 DEF I!TrustIsTheOwners, I!Targets
<1>9. ASSUME installsOp' # None, ~damaged' PROVE SnapshotsAreTrue' /\ OwnersWorkIsSafe'
  <2>1. SnapshotsAreTrue /\ OwnersWorkIsSafe
    BY <1>1, <1>9 DEF InstallsInv
  <2>2. \A u \in I!Targets \ touched' : u \in I!Targets \ touched /\ content'[u] = content[u]
    BY <1>1, <1>3
  <2>3. SnapshotsAreTrue'
    BY <1>1, <2>1, <2>2 DEF SnapshotsAreTrue, AsItWas
  <2>4. \A u \in Skills \ touched' : u \in Skills \ touched /\ content'[u] = content[u]
    BY <2>2 DEF I!Targets
  <2>5. OwnersWorkIsSafe'
    BY <1>1, <2>1, <2>4 DEF OwnersWorkIsSafe, OwnersOwn, OwnerDropped, StateBefore
  <2>. QED  BY <2>3, <2>5
<1>. QED  BY <1>7, <1>8, <1>9 DEF InstallsInv

LEMMA OwnerKeeps ==
  ASSUME InstallsInv, I!Owner
  PROVE  InstallsInv'
<1>1. PICK t \in I!Targets : I!OwnerWrites(t) \/ I!OwnerDeletes(t) \/ I!OwnerSwitches(t)
  BY DEF I!Owner
<1>2. content[t] \in I!Contents
  BY DEF InstallsInv, InstallTypes
<1>3. CASE I!OwnerWrites(t)
  <2>1. PICK m, o : /\ m = (content[t] # None /\ content[t].marked)
                    /\ o = (content[t] # None /\ content[t].on)
    OBVIOUS
  <2>2. m \in BOOLEAN /\ o \in BOOLEAN
    BY <2>1, Zenon
  <2>3. I!Holds(0, m, o) \in I!Contents
    BY <2>2, ContentIs, InstallsAssumption
  <2>. QED  BY <1>3, <2>1, <2>3, OwnerPutsKeeps DEF I!OwnerWrites
<1>4. CASE I!OwnerDeletes(t)
  BY <1>4, ContentIs, OwnerPutsKeeps DEF I!OwnerDeletes
<1>5. CASE I!OwnerSwitches(t)
  <2>1. PICK o : o = ~content[t].on
    OBVIOUS
  <2>2. o \in BOOLEAN
    BY <2>1, Zenon
  <2>3. content[t] # None /\ I!OwnerPuts(t, [content[t] EXCEPT !.on = o])
    BY <1>5, <2>1 DEF I!OwnerSwitches
  <2>4. [content[t] EXCEPT !.on = o] \in I!Contents
    BY <1>2, <2>2, <2>3, SwitchedIs
  <2>. QED  BY <2>3, <2>4, OwnerPutsKeeps
<1>. QED  BY <1>1, <1>3, <1>4, <1>5

(* an operation begins,                                                    *)
LEMMA StartsKeeps ==
  ASSUME InstallsInv, NEW kind \in {"install", "update", "remove"}, NEW plan \in I!Plans,
         NEW replace \in SUBSET I!Targets, kind = "remove" => DOMAIN plan = {},
         I!Starts(kind, plan, replace)
  PROVE  InstallsInv'
<1>1. /\ installsOp' = [kind |-> kind, plan |-> plan, replace |-> replace,
              pc |-> "reading", states |-> [t \in I!Targets |-> "none"],
              todo |-> I!Targets, files |-> I!Recorded, at |-> None, undo |-> << >>]
      /\ touched' = {} /\ before' = content
      /\ UNCHANGED <<content, record, installed, trusted, damaged>>
  BY DEF I!Starts
<1>2. InstallTypes /\ I!TrustIsTheOwners
  BY DEF InstallsInv
<1>3. I!Recorded \in [I!Targets -> OnRecord]
  BY DEF I!Recorded, OnRecord
<1>4. << >> \in Seq(Snapshots) /\ Len(<< >>) = 0
  OBVIOUS
<1>5. [t \in I!Targets |-> "none"] \in [I!Targets -> FileStates]
  BY DEF FileStates
<1>6. installsOp' \in Operations
  BY <1>1, <1>3, <1>4, <1>5 DEF Operations
<1>7. /\ installsOp'.pc = "reading" /\ installsOp'.plan = plan /\ installsOp'.kind = kind
      /\ installsOp'.files = I!Recorded
      /\ installsOp'.replace = replace
  BY <1>1
<1>8. installsOp'.undo = << >>
  BY <1>1
<1>9. OperationIsSound'
  BY <1>4, <1>6, <1>7, <1>8 DEF OperationIsSound, Acts, SkillActs, ServerActs
<1>10. InstallTypes'
  BY <1>1, <1>2, <1>9 DEF InstallTypes
<1>11. I!TrustIsTheOwners'
  BY <1>1, <1>2 DEF I!TrustIsTheOwners
<1>12. SnapshotsAreTrue'
  BY <1>1, <1>4, <1>8 DEF SnapshotsAreTrue, AsItWas
<1>13. OwnersWorkIsSafe'
  BY <1>1, <1>7 DEF OwnersWorkIsSafe, OwnersOwn, OwnerDropped, Acts, SkillActs, ServerActs
<1>. QED  BY <1>10, <1>11, <1>12, <1>13 DEF InstallsInv

LEMMA BeginsKeeps ==
  ASSUME InstallsInv,
         \/ \E plan \in I!Plans : I!Install(plan)
         \/ \E plan \in I!Plans, replace \in SUBSET Skills : I!Update(plan, replace)
         \/ \E delete \in SUBSET I!Targets : I!Remove(delete)
  PROVE  InstallsInv'
<1>1. CASE \E plan \in I!Plans : I!Install(plan)
  BY <1>1, StartsKeeps DEF I!Install
<1>2. CASE \E plan \in I!Plans, replace \in SUBSET Skills : I!Update(plan, replace)
  <2>1. SUBSET Skills \subseteq SUBSET I!Targets
    BY DEF I!Targets
  <2>. QED  BY <1>2, <2>1, StartsKeeps DEF I!Update
<1>3. CASE \E delete \in SUBSET I!Targets : I!Remove(delete)
  <2>1. << >> \in [{} -> I!Upstream] /\ DOMAIN << >> = {}
    OBVIOUS
  <2>2. << >> \in I!Plans
    BY <2>1 DEF I!Plans
  <2>3. PICK empty \in I!Plans : empty = << >>
    BY <2>2
  <2>4. DOMAIN empty = {}
    BY <2>1, <2>3
  <2>5. PICK delete \in SUBSET I!Targets : I!Starts("remove", empty, delete)
    BY <1>3, <2>3 DEF I!Remove
  <2>. QED  BY <2>4, <2>5, StartsKeeps
<1>. QED  BY <1>1, <1>2, <1>3

(* What is kept where only the operation changes.                          *)
LEMMA OnlyOperation ==
  ASSUME InstallsInv, UNCHANGED <<content, record, installed, trusted, touched, before>>,
         installsOp' # None => OperationIsSound',
         installsOp' # None /\ ~damaged' => SnapshotsAreTrue' /\ OwnersWorkIsSafe'
  PROVE  InstallsInv'
<1>1. InstallTypes'
  BY DEF InstallsInv, InstallTypes
<1>2. I!TrustIsTheOwners'
  BY DEF InstallsInv, I!TrustIsTheOwners
<1>. QED  BY <1>1, <1>2 DEF InstallsInv

(* The states are read,                                                    *)
LEMMA ReadStatesKeeps ==
  ASSUME InstallsInv, I!ReadStates
  PROVE  InstallsInv'
<1>1. /\ installsOp # None /\ installsOp.pc = "reading"
      /\ installsOp' = [installsOp EXCEPT !.pc = "next",
                          !.states = [t \in I!Targets |-> I!StateOf(t)]]
      /\ UNCHANGED <<content, record, installed, trusted, touched, before, damaged>>
  BY DEF I!ReadStates
<1>2. OperationIsSound
  BY <1>1 DEF InstallsInv, InstallTypes
<1>3. PICK states : states = [t \in I!Targets |-> I!StateOf(t)]
  OBVIOUS
<1>4. states \in [I!Targets -> FileStates]
  BY <1>3 DEF I!StateOf, FileStates
<1>5. /\ installsOp' \in Operations /\ installsOp'.pc = "next" /\ installsOp'.states = states
      /\ installsOp'.kind = installsOp.kind /\ installsOp'.plan = installsOp.plan
      /\ installsOp'.replace = installsOp.replace /\ installsOp'.todo = installsOp.todo
      /\ installsOp'.files = installsOp.files /\ installsOp'.undo = installsOp.undo
  BY <1>1, <1>2, <1>3, <1>4 DEF OperationIsSound, Operations
<1>6. OperationIsSound'
  BY <1>2, <1>5 DEF OperationIsSound, Acts, SkillActs, ServerActs
<1>7. ASSUME ~damaged' PROVE SnapshotsAreTrue' /\ OwnersWorkIsSafe'
  <2>1. SnapshotsAreTrue /\ OwnersWorkIsSafe
    BY <1>1, <1>7 DEF InstallsInv
  <2>2. SnapshotsAreTrue'
    BY <1>1, <1>5, <2>1 DEF SnapshotsAreTrue, AsItWas
  <2>3. ASSUME NEW t \in Skills \ touched PROVE states[t] = StateBefore(t)
    <3>1. t \in I!Targets
      BY DEF I!Targets
    <3>2. installsOp.undo = << >>
      BY <1>1, <1>2 DEF OperationIsSound
    <3>3. content[t] = before[t]
      BY <1>1, <2>1, <3>1, <3>2 DEF SnapshotsAreTrue
    <3>. QED  BY <1>3, <3>1, <3>3 DEF I!StateOf, StateBefore
  <2>4. OwnersWorkIsSafe'
    <3> SUFFICES ASSUME NEW t \in Skills \ touched
                 PROVE  /\ OwnersOwn(t)' => content[t] # None /\ content[t].hash = 0
                        /\ OwnerDropped(t)' => content[t] = None
                        /\ states[t] = StateBefore(t)'
      BY <1>1, <1>5 DEF OwnersWorkIsSafe, Acts, SkillActs, ServerActs
    <3>. QED
      BY <1>1, <1>5, <2>1, <2>3 DEF OwnersWorkIsSafe, OwnersOwn, OwnerDropped, StateBefore
  <2>. QED  BY <2>2, <2>4
<1>. QED  BY <1>1, <1>6, <1>7, OnlyOperation

(* The verdict on a name: an act that is for it, and its entry,            *)
LEMMA VerdictIs ==
  ASSUME OperationIsSound, record \in [I!Targets -> OnRecord], NEW t \in I!Targets
  PROVE  /\ I!Verdict(t).act \in {"none"} \cup Acts
         /\ I!Verdict(t).act \in SkillActs => t \in Skills
         /\ I!Verdict(t).act \in ServerActs => t \in Servers
         /\ I!Verdict(t).act \in {"write", "add", "unplug"} => t \in DOMAIN installsOp.plan
         /\ I!Verdict(t).file \in OnRecord
         /\ installsOp.kind = "remove" => I!Verdict(t).file = I!Absent
<1>1. /\ t \in Skills \/ t \in Servers
      /\ record[t] \in OnRecord /\ I!Absent \in OnRecord /\ I!Deleted \in OnRecord
  BY DEF I!Targets, OnRecord
<1>2. installsOp.kind = "remove" => DOMAIN installsOp.plan = {}
  BY DEF OperationIsSound
<1>3. CASE t \in DOMAIN installsOp.plan
  <2>1. installsOp.plan \in I!Plans
    BY DEF OperationIsSound, Operations
  <2>2. installsOp.plan[t] \in OnRecord
    BY <1>3, <2>1, PlanIs DEF OnRecord
  <2>3. I!Verdict(t) = I!Planned(t)
    BY <1>3 DEF I!Verdict
  <2>. QED
    BY <1>1, <1>2, <1>3, <2>2, <2>3 DEF I!Planned, I!Act, Acts, SkillActs, ServerActs
<1>4. CASE t \notin DOMAIN installsOp.plan
  <2>1. I!Verdict(t) = I!Dropped(t)
    BY <1>4 DEF I!Verdict
  <2>. QED
    BY <1>1, <2>1 DEF I!Dropped, I!Act, Acts, SkillActs, ServerActs
<1>. QED  BY <1>3, <1>4

(* and no act on the owner's work but to take its marker, or a write that  *)
(* is going to be refused.                                                 *)
LEMMA VerdictIsSafe ==
  ASSUME NEW t \in Skills, record[t] \in OnRecord, installsOp.states[t] = StateBefore(t)
  PROVE  /\ OwnersOwn(t) => \/ I!Verdict(t).act \in {"none", "release"}
                            \/ I!Verdict(t).act = "write" /\ record[t] = I!Absent
         /\ OwnerDropped(t) => I!Verdict(t).act = "none"
<1>1. OwnersOwn(t) =>
        \/ StateBefore(t) = "none" /\ record[t] = I!Absent
        \/ StateBefore(t) = "taken"
        \/ StateBefore(t) = "edited" /\ I!Kept(t)
  BY OwnersHash DEF OwnersOwn, StateBefore, I!Kept
<1>2. OwnerDropped(t) => StateBefore(t) \in {"gone", "missing"}
  BY DEF OwnerDropped, StateBefore
<1>. QED
  BY <1>1, <1>2 DEF I!Verdict, I!Planned, I!Dropped, I!Act

(* A snapshot goes in front of the others.                                 *)
LEMMA Pushed ==
  ASSUME NEW s \in Seq(Snapshots), NEW e \in Snapshots
  PROVE  /\ <<e>> \o s \in Seq(Snapshots) /\ <<e>> \o s # << >>
         /\ Len(<<e>> \o s) = Len(s) + 1 /\ (<<e>> \o s)[1] = e
         /\ \A i \in 1..Len(<<e>> \o s) : i # 1 =>
               i - 1 \in 1..Len(s) /\ (<<e>> \o s)[i] = s[i - 1]
         /\ \A i \in 1..Len(s) : (<<e>> \o s)[i + 1] = s[i]
<1>1. <<e>> \in Seq(Snapshots) /\ Len(<<e>>) = 1 /\ <<e>>[1] = e
  OBVIOUS
<1>2. /\ <<e>> \o s \in Seq(Snapshots) /\ Len(<<e>> \o s) = 1 + Len(s)
      /\ \A i \in 1..(1 + Len(s)) :
            (<<e>> \o s)[i] = IF i <= 1 THEN <<e>>[i] ELSE s[i - 1]
  BY <1>1, ConcatProperties
<1>3. Len(s) \in Nat
  OBVIOUS
<1>. QED  BY <1>1, <1>2, <1>3

(* the next name is taken,                                                 *)
LEMMA NextTargetKeeps ==
  ASSUME InstallsInv, I!NextTarget
  PROVE  InstallsInv'
<1>1. /\ installsOp # None /\ installsOp.pc = "next"
      /\ UNCHANGED <<content, record, installed, trusted, touched, before, damaged>>
  BY DEF I!NextTarget
<1>2. PICK t \in installsOp.todo :
        installsOp' = [installsOp EXCEPT !.todo = @ \ {t}, !.at = t,
                    !.files[t] = I!Verdict(t).file,
                    !.pc = IF I!Verdict(t).act = "none" THEN "next" ELSE I!Verdict(t).act,
                    !.undo = IF I!Verdict(t).act = "none" THEN @
                             ELSE <<[t |-> t, was |-> content[t]]>> \o @]
  BY DEF I!NextTarget
<1>3. /\ InstallTypes /\ OperationIsSound /\ installsOp \in Operations
      /\ t \in I!Targets
  BY <1>1, <1>2 DEF InstallsInv, InstallTypes, OperationIsSound, Operations
<1>4. PICK act, file : act = I!Verdict(t).act /\ file = I!Verdict(t).file
  OBVIOUS
<1>5. /\ act \in {"none"} \cup Acts /\ file \in OnRecord
      /\ act \in SkillActs => t \in Skills
      /\ act \in ServerActs => t \in Servers
      /\ act \in {"write", "add", "unplug"} => t \in DOMAIN installsOp.plan
      /\ installsOp.kind = "remove" => file = I!Absent
  BY <1>3, <1>4, VerdictIs DEF InstallTypes
<1>6. PICK e : e = [t |-> t, was |-> content[t]]
  OBVIOUS
<1>7. e \in Snapshots /\ e.t = t /\ e.was = content[t]
  BY <1>3, <1>6 DEF Snapshots, InstallTypes
<1>8. PICK s : s = installsOp.undo
  OBVIOUS
<1>9. s \in Seq(Snapshots) /\ installsOp.files \in [I!Targets -> OnRecord]
  BY <1>3, <1>8 DEF Operations
<1>10. PICK undo, files : /\ undo = IF act = "none" THEN s ELSE <<e>> \o s
                          /\ files = [installsOp.files EXCEPT ![t] = file]
  OBVIOUS
<1>11. undo \in Seq(Snapshots) /\ files \in [I!Targets -> OnRecord]
  BY <1>5, <1>7, <1>9, <1>10, Pushed
<1>12. installsOp' = [installsOp EXCEPT !.todo = @ \ {t}, !.at = t, !.files = files,
                    !.pc = IF act = "none" THEN "next" ELSE act, !.undo = undo]
  BY <1>2, <1>3, <1>4, <1>6, <1>8, <1>10 DEF Operations
<1>13. /\ installsOp' \in Operations /\ installsOp'.at = t
       /\ installsOp'.pc = (IF act = "none" THEN "next" ELSE act)
       /\ installsOp'.todo = installsOp.todo \ {t}
       /\ installsOp'.files = files /\ installsOp'.undo = undo
       /\ installsOp'.kind = installsOp.kind /\ installsOp'.plan = installsOp.plan
       /\ installsOp'.replace = installsOp.replace /\ installsOp'.states = installsOp.states
  BY <1>3, <1>5, <1>11, <1>12 DEF Operations
<1>14. /\ \A i \in 1..Len(s) : s[i].t \notin installsOp.todo /\ s[i].t # t
       /\ \A i, j \in 1..Len(s) : s[i].t = s[j].t => i = j
  BY <1>2, <1>3, <1>8 DEF OperationIsSound
<1>15. OperationIsSound'
  <2>1. files = I!Recorded \/ installsOp.kind # "remove"
    BY <1>3, <1>5, <1>10 DEF OperationIsSound, I!Recorded
  <2>2. CASE act = "none"
    <3>1. undo = s /\ installsOp'.pc = "next"
      BY <1>10, <1>13, <2>2
    <3>2. /\ \A i \in 1..Len(undo) : undo[i].t \notin installsOp'.todo
          /\ \A i, j \in 1..Len(undo) : undo[i].t = undo[j].t => i = j
      BY <1>13, <1>14, <3>1
    <3>. QED
      BY <1>3, <1>13, <2>1, <3>1, <3>2 DEF OperationIsSound, Acts, SkillActs, ServerActs
  <2>3. CASE act # "none"
    <3>1. undo = <<e>> \o s /\ installsOp'.pc = act
      BY <1>10, <1>13, <2>3
    <3>2. /\ undo # << >> /\ undo[1] = e
          /\ \A i \in 1..Len(undo) : i # 1 => i - 1 \in 1..Len(s) /\ undo[i] = s[i - 1]
      BY <1>7, <1>9, <3>1, Pushed
    <3>3. \A i \in 1..Len(undo) : undo[i].t \notin installsOp'.todo
      BY <1>7, <1>13, <1>14, <3>2
    <3>4. ASSUME NEW i \in 1..Len(undo), NEW j \in 1..Len(undo), undo[i].t = undo[j].t
          PROVE  i = j
      <4>1. CASE i = 1 \/ j = 1
        <5>1. \A k \in 1..Len(undo) : k # 1 => undo[k].t # t
          BY <1>14, <3>2
        <5>2. undo[1].t = t
          BY <1>7, <3>2
        <5>. QED  BY ONLY <3>4, <4>1, <5>1, <5>2
      <4>2. CASE i # 1 /\ j # 1
        <5>1. /\ i - 1 \in 1..Len(s) /\ undo[i] = s[i - 1]
              /\ j - 1 \in 1..Len(s) /\ undo[j] = s[j - 1]
          BY <3>2, <3>4, <4>2
        <5>2. s[i - 1].t = s[j - 1].t
          BY <3>4, <5>1
        <5>3. i - 1 = j - 1
          BY ONLY <1>14, <5>1, <5>2
        <5>4. i \in Int /\ j \in Int
          OBVIOUS
        <5>. QED  BY <5>3, <5>4
      <4>. QED  BY <4>1, <4>2
    <3>5. /\ act \in Acts /\ act \notin {"reading", "none", "next"}
      BY <1>5, <2>3 DEF Acts, SkillActs, ServerActs
    <3>. QED
      BY <1>3, <1>5, <1>7, <1>13, <2>1, <3>1, <3>2, <3>3, <3>4, <3>5 DEF OperationIsSound
  <2>. QED  BY <2>2, <2>3
<1>16. ASSUME ~damaged' PROVE SnapshotsAreTrue' /\ OwnersWorkIsSafe'
  <2>1. SnapshotsAreTrue /\ OwnersWorkIsSafe
    BY <1>1, <1>16 DEF InstallsInv
  <2>2. t \notin touched => content[t] = before[t]
    BY <1>1, <1>3, <1>8, <1>14, <2>1 DEF SnapshotsAreTrue
  <2>3. ASSUME NEW u \in I!Targets \ touched
        PROVE  /\ (\A i \in 1..Len(undo) : undo[i].t # u) => content[u] = before[u]
               /\ \A i \in 1..Len(undo) : undo[i].t = u => undo[i].was = before[u]
    <3>1. /\ (\A i \in 1..Len(s) : s[i].t # u) => content[u] = before[u]
          /\ \A i \in 1..Len(s) : s[i].t = u => s[i].was = before[u]
      BY <1>1, <1>8, <2>1 DEF SnapshotsAreTrue
    <3>2. CASE act = "none"
      BY <1>10, <3>1, <3>2
    <3>3. CASE act # "none"
      <4>1. undo = <<e>> \o s
        BY <1>10, <3>3
      <4>2. /\ undo[1] = e
            /\ \A i \in 1..Len(undo) : i # 1 => i - 1 \in 1..Len(s) /\ undo[i] = s[i - 1]
            /\ \A i \in 1..Len(s) : undo[i + 1] = s[i]
            /\ Len(undo) = Len(s) + 1 /\ Len(s) \in Nat
        BY <1>7, <1>9, <4>1, Pushed
      <4>3. \A i \in 1..Len(s) : i + 1 \in 1..Len(undo)
        BY <4>2
      <4>4. (\A i \in 1..Len(undo) : undo[i].t # u) => \A i \in 1..Len(s) : s[i].t # u
        BY <4>2, <4>3
      <4>5. ASSUME NEW i \in 1..Len(undo), undo[i].t = u PROVE undo[i].was = before[u]
        <5>1. CASE i = 1
          BY <1>7, <2>2, <2>3, <4>2, <4>5, <5>1
        <5>2. CASE i # 1
          BY <3>1, <4>2, <4>5, <5>2
        <5>. QED  BY <5>1, <5>2
      <4>. QED  BY <3>1, <4>4, <4>5
    <3>. QED  BY <3>2, <3>3
  <2>4. SnapshotsAreTrue'
    BY <1>1, <1>13, <2>3 DEF SnapshotsAreTrue, AsItWas
  <2>5. ASSUME NEW u \in Skills \ touched
        PROVE  /\ OwnersOwn(u)' => content[u] # None /\ content[u].hash = 0
               /\ OwnerDropped(u)' => content[u] = None
               /\ installsOp'.states[u] = StateBefore(u)'
               /\ installsOp'.pc \in Acts /\ installsOp'.at = u =>
                     /\ content[u] = before[u] /\ ~OwnerDropped(u)'
                     /\ OwnersOwn(u)' =>
                           \/ installsOp'.pc = "release"
                           \/ installsOp'.pc = "write" /\ record[u] = I!Absent
    <3>1. /\ OwnersOwn(u)' <=> OwnersOwn(u)
          /\ OwnerDropped(u)' <=> OwnerDropped(u)
          /\ StateBefore(u)' = StateBefore(u)
      BY <1>1, <1>13 DEF OwnersOwn, OwnerDropped, StateBefore
    <3>2. /\ OwnersOwn(u) => content[u] # None /\ content[u].hash = 0
          /\ OwnerDropped(u) => content[u] = None
          /\ installsOp.states[u] = StateBefore(u)
      BY <1>1, <2>1 DEF OwnersWorkIsSafe
    <3>3. record[u] \in OnRecord
      BY <1>3 DEF InstallTypes, I!Targets
    <3>4. ASSUME installsOp'.pc \in Acts, installsOp'.at = u
          PROVE  /\ content[u] = before[u] /\ ~OwnerDropped(u)
                 /\ OwnersOwn(u) =>
                       \/ installsOp'.pc = "release"
                       \/ installsOp'.pc = "write" /\ record[u] = I!Absent
      <4>1. u = t
        BY <1>13, <3>4
      <4>2. act # "none" /\ installsOp'.pc = act
        BY <1>13, <3>4 DEF Acts, SkillActs, ServerActs
      <4>. QED  BY <1>4, <2>2, <2>5, <3>2, <3>3, <4>1, <4>2, VerdictIsSafe
    <3>. QED  BY <1>13, <3>1, <3>2, <3>4
  <2>6. OwnersWorkIsSafe'
    BY <1>1, <2>5 DEF OwnersWorkIsSafe
  <2>. QED  BY <2>4, <2>6
<1>. QED  BY <1>1, <1>15, <1>16, OnlyOperation

(* an act changes the name it is on: a server stays off, and the owner's   *)
(* work stays;                                                             *)
LEMMA PutsKeeps ==
  ASSUME InstallsInv, installsOp # None, installsOp.pc \in Acts,
         NEW c \in I!Contents, NEW p \in {"next", "add"},
         p = "add" => installsOp.pc = "unplug",
         I!Puts(c, p),
         installsOp.at \in Servers => c = None \/ ~c.on,
         ~damaged /\ installsOp.at \in Skills \ touched /\ OwnersOwn(installsOp.at)
            => c # None /\ c.hash = 0
  PROVE  InstallsInv'
<1>1. /\ content' = [content EXCEPT ![installsOp.at] = c]
      /\ installsOp' = [installsOp EXCEPT !.pc = p]
      /\ UNCHANGED <<record, installed, trusted, touched, before, damaged>>
  BY DEF I!Puts
<1>2. InstallTypes /\ I!TrustIsTheOwners /\ OperationIsSound /\ installsOp \in Operations
  BY DEF InstallsInv, InstallTypes, OperationIsSound
<1>3. PICK t : t = installsOp.at
  OBVIOUS
<1>4. t \in I!Targets
  BY <1>2, <1>3 DEF OperationIsSound, Acts, I!Targets
<1>5. /\ content' \in [I!Targets -> I!Contents] /\ content'[t] = c
      /\ \A u \in I!Targets \ {t} : content'[u] = content[u]
  BY <1>1, <1>2, <1>3, <1>4 DEF InstallTypes
<1>6. /\ installsOp' \in Operations /\ installsOp'.pc = p
      /\ installsOp'.kind = installsOp.kind /\ installsOp'.plan = installsOp.plan
      /\ installsOp'.replace = installsOp.replace /\ installsOp'.states = installsOp.states
      /\ installsOp'.todo = installsOp.todo /\ installsOp'.files = installsOp.files
      /\ installsOp'.at = t /\ installsOp'.undo = installsOp.undo
  BY <1>1, <1>2, <1>3, OperationGoes DEF Acts, ServerActs
<1>7. OperationIsSound'
  BY <1>2, <1>3, <1>6 DEF OperationIsSound, Acts, SkillActs, ServerActs
<1>8. InstallTypes'
  BY <1>1, <1>2, <1>5, <1>7 DEF InstallTypes
<1>9. I!TrustIsTheOwners'
  BY <1>1, <1>2, <1>3, <1>5 DEF I!TrustIsTheOwners, I!Targets
<1>10. ASSUME ~damaged' PROVE SnapshotsAreTrue' /\ OwnersWorkIsSafe'
  <2>1. SnapshotsAreTrue /\ OwnersWorkIsSafe
    BY <1>1, <1>10 DEF InstallsInv
  <2>2. installsOp.pc # "undoing" /\ p # "undoing"
    BY DEF Acts, SkillActs, ServerActs
  <2>3. \E i \in 1..Len(installsOp.undo) : installsOp.undo[i].t = t
    <3>1. installsOp.undo \in Seq(Snapshots) /\ installsOp.undo # << >>
          /\ installsOp.undo[1].t = t
      BY <1>2, <1>3 DEF OperationIsSound, Operations
    <3>2. 1 \in 1..Len(installsOp.undo)
      BY <3>1
    <3>. QED  BY <3>1, <3>2
  <2>4. SnapshotsAreTrue'
    <3> SUFFICES ASSUME NEW u \in I!Targets \ touched
                 PROVE  /\ (\A i \in 1..Len(installsOp.undo) : installsOp.undo[i].t # u) =>
                              content'[u] = before[u]
                        /\ \A i \in 1..Len(installsOp.undo) :
                              installsOp.undo[i].t = u => installsOp.undo[i].was = before[u]
      BY <1>1, <1>6 DEF SnapshotsAreTrue, AsItWas
    <3>. QED  BY <1>5, <2>1, <2>2, <2>3 DEF SnapshotsAreTrue
  <2>5. ASSUME NEW u \in Skills \ touched
        PROVE  /\ OwnersOwn(u) => content'[u] # None /\ content'[u].hash = 0
               /\ OwnerDropped(u) => content'[u] = None
               /\ installsOp.states[u] = StateBefore(u)
               /\ ~(p \in Acts /\ t = u)
    <3>1. u \in I!Targets /\ installsOp.pc \notin {"reading", "undoing"}
      BY DEF I!Targets, Acts, SkillActs, ServerActs
    <3>2. /\ OwnersOwn(u) => content[u] # None /\ content[u].hash = 0
          /\ OwnerDropped(u) => content[u] = None
          /\ installsOp.states[u] = StateBefore(u)
          /\ u = t => ~OwnerDropped(u)
      BY <1>3, <2>1, <3>1 DEF OwnersWorkIsSafe
    <3>3. u = t /\ OwnersOwn(u) => c # None /\ c.hash = 0
      BY <1>1, <1>3, <1>10
    <3>4. p \in Acts => t \in Servers
      BY <1>2, <1>3 DEF Acts, SkillActs, ServerActs, OperationIsSound
    <3>5. ~(p \in Acts /\ t = u)
      BY <3>4, InstallsAssumption
    <3>. QED  BY <1>5, <3>1, <3>2, <3>3, <3>5
  <2>6. ASSUME NEW u \in Skills
        PROVE  /\ OwnersOwn(u)' <=> OwnersOwn(u)
               /\ OwnerDropped(u)' <=> OwnerDropped(u)
               /\ StateBefore(u)' = StateBefore(u)
    BY <1>1, <1>6 DEF OwnersOwn, OwnerDropped, StateBefore
  <2>7. OwnersWorkIsSafe'
    BY <1>1, <1>6, <2>5, <2>6 DEF OwnersWorkIsSafe
  <2>. QED  BY <2>4, <2>7
<1>. QED  BY <1>8, <1>9, <1>10 DEF InstallsInv

(* the acts on a skill: a write, which asks whose it is,                   *)
LEMMA WriteSkillKeeps ==
  ASSUME InstallsInv, I!WriteSkill
  PROVE  InstallsInv'
<1>1. PICK t, on : t = installsOp.at /\ on = (content[t] = None \/ content[t].on)
  OBVIOUS
<1>2. /\ installsOp # None /\ installsOp.pc = "write"
      /\ content[t] = None \/ I!Owned(t)
      /\ I!Puts(I!Holds(installsOp.plan[t], TRUE, on), "next")
  BY <1>1 DEF I!WriteSkill, I!At
<1>3. OperationIsSound
  BY <1>2 DEF InstallsInv, InstallTypes
<1>4. t \in Skills /\ installsOp.plan[t] \in I!Upstream /\ installsOp.pc \in Acts
  <2>1. t \in DOMAIN installsOp.plan /\ installsOp.plan \in I!Plans /\ t \in Skills
    BY <1>1, <1>2, <1>3 DEF OperationIsSound, Operations, SkillActs
  <2>. QED  BY <1>2, <2>1, PlanIs DEF Acts, SkillActs
<1>5. on \in BOOLEAN
  BY <1>1, Zenon
<1>6. I!Holds(installsOp.plan[t], TRUE, on) \in I!Contents
  BY <1>4, <1>5, ContentIs, OwnersHash
<1>7. t \notin Servers
  BY <1>4, InstallsAssumption
<1>8. ~damaged /\ t \notin touched => ~OwnersOwn(t)
  <2> SUFFICES ASSUME ~damaged, t \notin touched, OwnersOwn(t) PROVE FALSE
    OBVIOUS
  <2>1. content[t] = before[t] /\ record[t] = I!Absent
    BY <1>1, <1>2, <1>4 DEF InstallsInv, OwnersWorkIsSafe
  <2>. QED  BY <1>2, <2>1 DEF OwnersOwn, I!Owned
<1>. QED  BY <1>1, <1>2, <1>4, <1>6, <1>7, <1>8, PutsKeeps

(* a release, which leaves what it says, and a deletion;                   *)
LEMMA ReleaseSkillKeeps ==
  ASSUME InstallsInv, I!ReleaseSkill
  PROVE  InstallsInv'
<1>1. PICK t, c : t = installsOp.at /\ c = [content[t] EXCEPT !.marked = FALSE]
  OBVIOUS
<1>2. /\ installsOp # None /\ installsOp.pc = "release" /\ content[t] # None
      /\ I!Puts(c, "next")
  BY <1>1 DEF I!ReleaseSkill, I!At
<1>3. t \in Skills /\ t \in I!Targets /\ t \notin Servers /\ installsOp.pc \in Acts
  BY <1>1, <1>2, InstallsAssumption
  DEF InstallsInv, InstallTypes, OperationIsSound, Acts, SkillActs, I!Targets
<1>4. content[t] \in I!Contents
  BY <1>3 DEF InstallsInv, InstallTypes
<1>5. c \in I!Contents /\ c # None /\ c.hash = content[t].hash
  BY <1>1, <1>2, <1>4, InstallsAssumption DEF I!Contents
<1>6. ~damaged /\ t \notin touched /\ OwnersOwn(t) => content[t].hash = 0
  BY <1>2, <1>3 DEF InstallsInv, OwnersWorkIsSafe
<1>. QED  BY <1>1, <1>2, <1>3, <1>5, <1>6, PutsKeeps

LEMMA DeleteSkillKeeps ==
  ASSUME InstallsInv, I!DeleteSkill
  PROVE  InstallsInv'
<1>1. PICK t : t = installsOp.at
  OBVIOUS
<1>2. installsOp # None /\ installsOp.pc = "delete" /\ I!Puts(None, "next")
  BY DEF I!DeleteSkill, I!At
<1>3. t \in Skills /\ t \notin Servers /\ installsOp.pc \in Acts
  BY <1>1, <1>2, InstallsAssumption
  DEF InstallsInv, InstallTypes, OperationIsSound, Acts, SkillActs
<1>4. ~damaged /\ t \notin touched => ~OwnersOwn(t)
  BY <1>1, <1>2, <1>3 DEF InstallsInv, OwnersWorkIsSafe
<1>. QED  BY <1>1, <1>2, <1>3, <1>4, ContentIs, PutsKeeps

(* those on a server.                                                      *)
LEMMA ServerActsKeep ==
  ASSUME InstallsInv, I!AddServer \/ I!RemoveServer \/ I!UnplugServer
  PROVE  InstallsInv'
<1>1. PICK t : t = installsOp.at
  OBVIOUS
<1>2. installsOp # None /\ installsOp.pc \in ServerActs
  BY DEF I!AddServer, I!RemoveServer, I!UnplugServer, I!At, ServerActs
<1>3. OperationIsSound /\ t \in Servers /\ t \notin Skills /\ installsOp.pc \in Acts
  BY <1>1, <1>2, InstallsAssumption DEF InstallsInv, InstallTypes, OperationIsSound, Acts
<1>4. CASE I!AddServer
  <2>1. t \in DOMAIN installsOp.plan /\ installsOp.plan \in I!Plans
    BY <1>1, <1>3, <1>4 DEF OperationIsSound, Operations, I!AddServer, I!At
  <2>2. /\ I!Holds(installsOp.plan[t], FALSE, FALSE) \in I!Contents
        /\ I!Holds(installsOp.plan[t], FALSE, FALSE).on = FALSE
    BY <2>1, PlanIs, ContentIs, OwnersHash
  <2>3. I!Puts(I!Holds(installsOp.plan[t], FALSE, FALSE), "next")
    BY <1>1, <1>4 DEF I!AddServer
  <2>. QED  BY <1>1, <1>2, <1>3, <2>2, <2>3, PutsKeeps
<1>5. CASE I!RemoveServer
  BY <1>1, <1>2, <1>3, <1>5, ContentIs, PutsKeeps DEF I!RemoveServer
<1>6. CASE I!UnplugServer
  BY <1>1, <1>2, <1>3, <1>6, ContentIs, PutsKeeps DEF I!UnplugServer, I!At
<1>. QED  BY <1>4, <1>5, <1>6

(* The end of an operation, however it comes,                              *)
LEMMA EndsKeep ==
  ASSUME InstallsInv, I!Finish \/ I!RolledBack \/ I!Crash
  PROVE  InstallsInv'
<1>1. /\ installsOp # None /\ installsOp' = None
      /\ UNCHANGED <<content, trusted, touched, before>>
  BY DEF I!Finish, I!RolledBack, I!Crash, I!At
<1>2. InstallTypes /\ I!TrustIsTheOwners /\ OperationIsSound
  BY <1>1 DEF InstallsInv, InstallTypes
<1>3. record' \in [I!Targets -> OnRecord] /\ (~installed' => record' = I!Recorded)
  <2>1. CASE I!Finish
    <3>1. record' = installsOp.files /\ (installed' <=> installsOp.kind # "remove")
      BY <2>1 DEF I!Finish
    <3>2. /\ installsOp.files \in [I!Targets -> OnRecord]
          /\ installsOp.kind = "remove" => installsOp.files = I!Recorded
      BY <1>2 DEF OperationIsSound, Operations
    <3>. QED  BY <3>1, <3>2
  <2>2. CASE I!RolledBack \/ I!Crash
    BY <1>2, <2>2 DEF I!RolledBack, I!Crash, InstallTypes
  <2>. QED  BY <2>1, <2>2
<1>4. InstallTypes'
  BY <1>1, <1>2, <1>3 DEF InstallTypes
<1>5. I!TrustIsTheOwners'
  BY <1>1, <1>2 DEF I!TrustIsTheOwners
<1>. QED  BY <1>1, <1>4, <1>5 DEF InstallsInv

(* a failure, after which what was done is undone,                         *)
LEMMA FailsKeeps ==
  ASSUME InstallsInv, I!Fails
  PROVE  InstallsInv'
<1>1. /\ installsOp # None /\ installsOp' = [installsOp EXCEPT !.pc = "undoing"]
      /\ UNCHANGED <<content, record, installed, trusted, touched, before, damaged>>
  BY DEF I!Fails
<1>2. OperationIsSound /\ installsOp \in Operations
  BY <1>1 DEF InstallsInv, InstallTypes, OperationIsSound
<1>3. /\ installsOp' \in Operations /\ installsOp'.pc = "undoing"
      /\ installsOp'.kind = installsOp.kind /\ installsOp'.plan = installsOp.plan
      /\ installsOp'.replace = installsOp.replace /\ installsOp'.states = installsOp.states
      /\ installsOp'.todo = installsOp.todo /\ installsOp'.files = installsOp.files
      /\ installsOp'.undo = installsOp.undo
  BY <1>1, <1>2, OperationGoes
<1>4. OperationIsSound'
  BY <1>2, <1>3 DEF OperationIsSound, Acts, SkillActs, ServerActs
<1>5. ASSUME ~damaged' PROVE SnapshotsAreTrue' /\ OwnersWorkIsSafe'
  <2>1. SnapshotsAreTrue /\ OwnersWorkIsSafe
    BY <1>1, <1>5 DEF InstallsInv
  <2>2. SnapshotsAreTrue'
    BY <1>1, <1>3, <2>1 DEF SnapshotsAreTrue, AsItWas
  <2>3. OwnersWorkIsSafe'
    BY <1>1, <1>3, <2>1 DEF OwnersWorkIsSafe, OwnersOwn, OwnerDropped, Acts, SkillActs, ServerActs
  <2>. QED  BY <2>2, <2>3
<1>. QED  BY <1>1, <1>4, <1>5, OnlyOperation

(* newest first,                                                           *)
LEMMA Popped ==
  ASSUME NEW s \in Seq(Snapshots), s # << >>
  PROVE  /\ Head(s) = s[1] /\ s[1] \in Snapshots /\ 1 \in 1..Len(s)
         /\ Tail(s) \in Seq(Snapshots) /\ Len(Tail(s)) = Len(s) - 1
         /\ \A i \in 1..Len(Tail(s)) : i + 1 \in 1..Len(s) /\ Tail(s)[i] = s[i + 1]
         /\ \A i \in 1..Len(s) : i # 1 => i - 1 \in 1..Len(Tail(s)) /\ Tail(s)[i - 1] = s[i]
<1>1. /\ Len(s) \in Nat /\ Len(s) # 0 /\ s[1] \in Snapshots /\ Head(s) = s[1]
      /\ Tail(s) \in Seq(Snapshots) /\ Len(Tail(s)) = Len(s) - 1
  OBVIOUS
<1>2. \A i \in 1..Len(Tail(s)) : Tail(s)[i] = s[i + 1]
  BY <1>1
<1>3. \A i \in 1..Len(Tail(s)) : i + 1 \in 1..Len(s)
  BY <1>1
<1>4. ASSUME NEW i \in 1..Len(s), i # 1
      PROVE  i - 1 \in 1..Len(Tail(s)) /\ Tail(s)[i - 1] = s[i]
  <2>1. i - 1 \in 1..Len(Tail(s)) /\ (i - 1) + 1 = i
    BY <1>1, <1>4
  <2>. QED  BY <1>2, <2>1
<1>. QED  BY <1>1, <1>2, <1>3, <1>4

LEMMA UndoKeeps ==
  ASSUME InstallsInv, I!Undo
  PROVE  InstallsInv'
<1>1. PICK s : s = installsOp.undo
  OBVIOUS
<1>2. /\ installsOp # None /\ installsOp.pc = "undoing" /\ s # << >>
      /\ installsOp' = [installsOp EXCEPT !.undo = Tail(s)]
      /\ UNCHANGED <<record, installed, trusted, touched, before>>
  BY <1>1 DEF I!Undo, I!At
<1>3. InstallTypes /\ I!TrustIsTheOwners /\ OperationIsSound /\ installsOp \in Operations
  BY <1>2 DEF InstallsInv, InstallTypes, OperationIsSound
<1>4. s \in Seq(Snapshots)
  BY <1>1, <1>3 DEF Operations
<1>5. PICK t, was : t = s[1].t /\ was = s[1].was
  OBVIOUS
<1>6. t \in I!Targets /\ was \in I!Contents
  BY <1>2, <1>4, <1>5, Popped DEF Snapshots
<1>7. \/ content' = [content EXCEPT ![t] = I!Restored(t, was)] /\ damaged' = damaged
      \/ /\ damaged' = TRUE
         /\ \/ content' = content
            \/ t \in Servers /\ content' = [content EXCEPT ![t] = None]
  BY <1>1, <1>2, <1>4, <1>5, Popped DEF I!Undo
<1>8. /\ I!Restored(t, was) \in I!Contents
      /\ t \in Servers => I!Restored(t, was) = None \/ ~I!Restored(t, was).on
      /\ t \in Skills => I!Restored(t, was) = was
      /\ I!Restored(t, was) = was \/ (t \in Servers /\ I!Restored(t, was) = [was EXCEPT !.on = FALSE])
  <2>1. t \in Skills \/ t \in Servers
    BY <1>6 DEF I!Targets
  <2>2. was # None => /\ [was EXCEPT !.on = FALSE] \in I!Contents
                      /\ ~[was EXCEPT !.on = FALSE].on
    BY <1>6, SwitchedIs
  <2>. QED  BY <1>6, <2>1, <2>2, InstallsAssumption DEF I!Restored
<1>9. /\ content' \in [I!Targets -> I!Contents]
      /\ \A u \in I!Targets \ {t} : content'[u] = content[u]
      /\ content'[t] = content[t] \/ content'[t] = None \/ content'[t] = I!Restored(t, was)
  BY <1>3, <1>6, <1>7, <1>8, ContentIs DEF InstallTypes
<1>10. /\ installsOp' \in Operations /\ installsOp'.pc = "undoing"
       /\ installsOp'.kind = installsOp.kind /\ installsOp'.plan = installsOp.plan
       /\ installsOp'.replace = installsOp.replace
       /\ installsOp'.todo = installsOp.todo /\ installsOp'.files = installsOp.files
       /\ installsOp'.undo = Tail(s)
  <2>1. Tail(s) \in Seq(Snapshots)
    BY <1>2, <1>4, Popped
  <2>. QED  BY <1>2, <1>3, <2>1 DEF Operations
<1>11. /\ \A i \in 1..Len(Tail(s)) : i + 1 \in 1..Len(s) /\ Tail(s)[i] = s[i + 1]
       /\ \A i \in 1..Len(s) : i # 1 => i - 1 \in 1..Len(Tail(s)) /\ Tail(s)[i - 1] = s[i]
       /\ 1 \in 1..Len(s)
  BY <1>2, <1>4, Popped
<1>12. OperationIsSound'
  <2>1. \A i \in 1..Len(Tail(s)) : Tail(s)[i].t \notin installsOp.todo
    BY <1>1, <1>3, <1>11 DEF OperationIsSound
  <2>2. ASSUME NEW i \in 1..Len(Tail(s)), NEW j \in 1..Len(Tail(s)), Tail(s)[i].t = Tail(s)[j].t
        PROVE  i = j
    <3>1. i + 1 = j + 1
      BY <1>1, <1>3, <1>11, <2>2 DEF OperationIsSound
    <3>2. i \in Int /\ j \in Int
      OBVIOUS
    <3>. QED  BY <3>1, <3>2
  <2>. QED  BY <1>3, <1>10, <2>1, <2>2 DEF OperationIsSound, Acts, SkillActs, ServerActs
<1>13. InstallTypes'
  BY <1>2, <1>3, <1>9, <1>12 DEF InstallTypes
<1>14. I!TrustIsTheOwners'
  BY <1>2, <1>3, <1>8, <1>9 DEF I!TrustIsTheOwners, I!Targets
<1>15. ASSUME ~damaged' PROVE SnapshotsAreTrue' /\ OwnersWorkIsSafe'
  <2>1. ~damaged /\ content' = [content EXCEPT ![t] = I!Restored(t, was)]
    BY <1>7, <1>15
  <2>2. SnapshotsAreTrue /\ OwnersWorkIsSafe
    BY <1>2, <2>1 DEF InstallsInv
  <2>3. content'[t] = I!Restored(t, was)
    BY <1>3, <1>6, <2>1 DEF InstallTypes
  <2>4. t \notin touched => was = before[t]
    BY <1>1, <1>5, <1>6, <1>11, <2>2 DEF SnapshotsAreTrue
  <2>5. ASSUME NEW u \in I!Targets \ touched
        PROVE  /\ (\A i \in 1..Len(Tail(s)) : Tail(s)[i].t # u) => AsItWas(u)'
               /\ \A i \in 1..Len(Tail(s)) : Tail(s)[i].t = u => Tail(s)[i].was = before[u]
    <3>1. /\ (\A i \in 1..Len(s) : s[i].t # u) => AsItWas(u)
          /\ \A i \in 1..Len(s) : s[i].t = u => s[i].was = before[u]
      BY <1>1, <2>2 DEF SnapshotsAreTrue
    <3>2. ASSUME NEW i \in 1..Len(Tail(s)), Tail(s)[i].t = u
          PROVE  Tail(s)[i].was = before[u]
      BY <1>11, <3>1, <3>2
    <3>3. ASSUME \A i \in 1..Len(Tail(s)) : Tail(s)[i].t # u PROVE AsItWas(u)'
      <4>1. CASE u = t
        BY <1>2, <1>8, <2>3, <2>4, <2>5, <4>1 DEF AsItWas
      <4>2. CASE u # t
        <5>1. \A i \in 1..Len(s) : s[i].t # u
          BY <1>5, <1>11, <3>3, <4>2
        <5>. QED  BY <1>2, <1>9, <3>1, <4>2, <5>1 DEF AsItWas
      <4>. QED  BY <4>1, <4>2
    <3>. QED  BY <3>2, <3>3
  <2>6. SnapshotsAreTrue'
    BY <1>2, <1>10, <2>5 DEF SnapshotsAreTrue
  <2>7. ASSUME NEW u \in Skills \ touched
        PROVE  /\ OwnersOwn(u)' => content'[u] # None /\ content'[u].hash = 0
               /\ OwnerDropped(u)' => content'[u] = None
    <3>1. /\ OwnersOwn(u)' <=> OwnersOwn(u)
          /\ OwnerDropped(u)' <=> OwnerDropped(u)
      BY <1>2, <1>10 DEF OwnersOwn, OwnerDropped
    <3>2. CASE u = t
      <4>1. content'[u] = before[u]
        BY <1>8, <2>3, <2>4, <2>7, <3>2
      <4>. QED  BY <3>1, <4>1 DEF OwnersOwn, OwnerDropped
    <3>3. CASE u # t
      <4>1. content'[u] = content[u]
        BY <1>9, <3>3 DEF I!Targets
      <4>. QED  BY <2>2, <3>1, <4>1 DEF OwnersWorkIsSafe
    <3>. QED  BY <3>2, <3>3
  <2>8. OwnersWorkIsSafe'
    BY <1>2, <1>10, <2>7 DEF OwnersWorkIsSafe, Acts, SkillActs, ServerActs
  <2>. QED  BY <2>6, <2>8
<1>. QED  BY <1>13, <1>14, <1>15 DEF InstallsInv

(* and an item switched on or off as a whole, where no server is switched  *)
(* on.                                                                     *)
LEMMA SetDisabledKeeps ==
  ASSUME InstallsInv, NEW off \in BOOLEAN, I!SetDisabled(off)
  PROVE  InstallsInv'
<1>1. /\ installsOp = None /\ installsOp' = installsOp
      /\ UNCHANGED <<record, installed, trusted, touched, before>>
  BY DEF I!SetDisabled
<1>2. PICK some \in SUBSET {t \in I!Targets : I!Owned(t) /\ content[t] # None} :
        content' = [t \in I!Targets |->
            IF t \in some /\ (t \in Skills \/ off)
            THEN [content[t] EXCEPT !.on = ~off] ELSE content[t]]
  BY DEF I!SetDisabled
<1>3. InstallTypes /\ I!TrustIsTheOwners
  BY DEF InstallsInv
<1>4. ASSUME NEW t \in some
      PROVE  /\ t \in I!Targets /\ content[t] # None
             /\ [content[t] EXCEPT !.on = ~off] \in I!Contents
             /\ [content[t] EXCEPT !.on = ~off].on = ~off
  <2>1. t \in I!Targets /\ content[t] # None
    BY <1>2
  <2>. QED  BY <1>3, <2>1, SwitchedIs DEF InstallTypes
<1>5. content' \in [I!Targets -> I!Contents]
  BY <1>2, <1>3, <1>4 DEF InstallTypes
<1>6. \A t \in Servers : content'[t] = content[t] \/ ~content'[t].on
  BY <1>2, <1>4, InstallsAssumption DEF I!Targets
<1>7. InstallTypes'
  BY <1>1, <1>3, <1>5 DEF InstallTypes
<1>8. I!TrustIsTheOwners'
  BY <1>1, <1>3, <1>6 DEF I!TrustIsTheOwners
<1>. QED  BY <1>1, <1>7, <1>8 DEF InstallsInv

(* Nothing changes where none of the variables does.                       *)
LEMMA InstallsStay ==
  ASSUME InstallsInv, UNCHANGED installsVars
  PROVE  InstallsInv'
<1>1. /\ content' = content /\ record' = record /\ installed' = installed
      /\ installsOp' = installsOp /\ trusted' = trusted /\ touched' = touched
      /\ before' = before /\ damaged' = damaged
  BY DEF installsVars
<1>2. OperationIsSound' <=> OperationIsSound
  BY <1>1 DEF OperationIsSound
<1>3. SnapshotsAreTrue' <=> SnapshotsAreTrue
  BY <1>1 DEF SnapshotsAreTrue, AsItWas
<1>4. OwnersWorkIsSafe' <=> OwnersWorkIsSafe
  BY <1>1 DEF OwnersWorkIsSafe, OwnersOwn, OwnerDropped, StateBefore
<1>. QED  BY <1>1, <1>2, <1>3, <1>4, OnlyOperation DEF InstallsInv, InstallTypes

(* Every step keeps the invariant.                                         *)
LEMMA InstallsKept == InstallsInv /\ I!Next => InstallsInv'
<1> SUFFICES ASSUME InstallsInv, I!Next PROVE InstallsInv'
  OBVIOUS
<1>1. CASE I!Steps
  BY <1>1, ReadStatesKeeps, NextTargetKeeps, WriteSkillKeeps, ReleaseSkillKeeps,
     DeleteSkillKeeps, ServerActsKeep, EndsKeep, FailsKeeps, UndoKeeps DEF I!Steps
<1>. QED  BY <1>1, OwnerKeeps, BeginsKeeps, SetDisabledKeeps DEF I!Next

(* The invariant gives what the run checks.                                *)
LEMMA InstallsMean ==
  InstallsInv => /\ I!TypeOK /\ I!OwnersWorkKept
                 /\ I!TrustIsTheOwners /\ I!RollbackRestores
<1> SUFFICES ASSUME InstallsInv
             PROVE  I!TypeOK /\ I!OwnersWorkKept /\ I!RollbackRestores
  BY DEF InstallsInv
<1>1. I!TypeOK
  <2>1. installsOp # None =>
          installsOp.todo \subseteq I!Targets /\ installsOp.at \in I!Targets \cup {None}
    BY DEF InstallsInv, InstallTypes, OperationIsSound, Operations
  <2>. QED  BY <2>1 DEF InstallsInv, InstallTypes, I!TypeOK, OnRecord
<1>2. I!OwnersWorkKept
  BY DEF InstallsInv, OwnersWorkIsSafe, OwnersOwn, OwnerDropped, I!OwnersWorkKept
<1>3. I!RollbackRestores
  <2> SUFFICES ASSUME I!At("undoing"), installsOp.undo = << >>, ~damaged,
                      NEW t \in I!Targets \ touched
               PROVE  AsItWas(t)
    BY DEF I!RollbackRestores, AsItWas
  <2>1. \A i \in 1..Len(installsOp.undo) : installsOp.undo[i].t # t
    OBVIOUS
  <2>. QED  BY <2>1 DEF I!At, InstallsInv, SnapshotsAreTrue
<1>. QED  BY <1>1, <1>2, <1>3

-----------------------------------------------------------------------------
(* Skills                                                                  *)

SkillPlaces == {"stage", "aside", "place", "drop", "restore", "delete", "recover"}
SkillWorks ==
    [kind : {"bundle", "delete", "list"}, pc : SkillPlaces,
     from : {"dir", "flat", "none"}, copy : K!Copies \cup {None},
     was : K!Copies \cup {None}]
Replacing == {"stage", "aside", "place", "drop", "restore"}

(* An operation that replaces knows the copy it brings and, of the skill   *)
(* that it replaces, where it is and what it was.                          *)
WorkIsKnown ==
    /\ work.pc \in Replacing =>
          /\ work.copy \in K!Copies /\ work.copy.v # None
          /\ work.from # "none" <=> work.was # None
          /\ work.from = "dir" => work.was.v # None
    /\ work.pc \in {"stage", "aside"} =>
          work.from = K!Located /\ work.was = K!Current
    /\ work.pc = "aside" => work.from # "none"

SkillTypes ==
    /\ K!TypeOK
    /\ choice \in BOOLEAN /\ hasty \in BOOLEAN
    /\ work # None => work \in SkillWorks /\ WorkIsKnown

(* A copy is as the operations were told, with the switch the owner chose. *)
AsTold(c) == c \in due /\ (c # None => c.off = choice)

(* The one copy that is aside, while the skill is replaced.                *)
OldIsAside == old = IF work.from = "none" THEN {} ELSE {K!Mine}

(* What the next listing finds: a skill that is as it should be or, where  *)
(* there is none, the copy aside that will be.                             *)
WillBeRepaired ==
    /\ flat # None \/ dir # None \/ old = {} => AsTold(K!Current)
    /\ old # {} => \E o \in old :
          /\ old = {o}
          /\ flat = None /\ dir = None =>
                AsTold(o.copy) /\ (o.at = "dir" => o.copy.v # None)

(* Where nothing else was done between a crash and a listing: each place   *)
(* of an operation, and what a crash there leaves behind.                  *)
CalmAt(place) == ~hasty /\ K!At(place)
SkillsCalm ==
    /\ ~hasty => None \in {flat, dir}
    /\ ~hasty /\ (work = None \/ K!At("recover")) => WillBeRepaired
    /\ CalmAt("stage") \/ CalmAt("aside") =>
          old = {} /\ AsTold(work.was) /\ AsTold(work.copy)
    /\ CalmAt("place") \/ CalmAt("restore") =>
          /\ flat = None /\ dir = None /\ OldIsAside
          /\ AsTold(work.was) /\ AsTold(work.copy)
    /\ CalmAt("aside") \/ CalmAt("place") => skillsStage = work.copy
    /\ CalmAt("drop") =>
          flat = None /\ dir = work.copy /\ OldIsAside /\ AsTold(work.copy)
    /\ CalmAt("delete") =>
          /\ flat = None /\ old = {} /\ None \in due
          /\ dir # None =>
                /\ dir \in due /\ (dir.v # None => dir.off = choice)
                /\ dir.whole => K!Pieces(dir) \subseteq due

SkillsInv == SkillTypes /\ SkillsCalm

(* Where the skill is, and what it is.                                     *)
LEMMA CurrentIs ==
  ASSUME K!TypeOK
  PROVE  /\ K!Current \in K!Copies \cup {None}
         /\ K!Located \in {"dir", "flat", "none", "error"}
         /\ K!Located = "dir" => flat = None /\ dir # None /\ dir.v # None /\ K!Current = dir
         /\ K!Located = "flat" => flat # None /\ K!Current = flat
         /\ K!Located = "none" => flat = None /\ dir = None /\ K!Current = None
         /\ K!Located = "error" => K!Current = None /\ (flat # None \/ dir # None)
         /\ flat = None /\ dir # None /\ dir.v # None => K!Located = "dir"
         /\ flat # None /\ dir = None => K!Located = "flat"
         /\ flat = None /\ dir = None => K!Located = "none"
         /\ flat = None /\ dir # None /\ dir.v = None => K!Located = "error"
  BY DEF K!TypeOK, K!Current, K!Located, K!HasSkill

(* Pieces are copies that are not whole.                                   *)
LEMMA PiecesAre ==
  ASSUME NEW c \in K!Copies
  PROVE  /\ K!Pieces(c) \subseteq K!Copies
         /\ \A d \in K!Pieces(c) : d.v \in {None, c.v} /\ d.off = c.off /\ d.whole = FALSE
<1> SUFFICES ASSUME NEW d \in K!Pieces(c)
             PROVE  d \in K!Copies /\ d.v \in {None, c.v} /\ d.off = c.off /\ d.whole = FALSE
  OBVIOUS
<1>1. PICK v \in {None, c.v} : d = [v |-> v, off |-> c.off, whole |-> FALSE]
  BY DEF K!Pieces, K!Copy
<1>2. c.v \in Versions \cup {0, None} /\ c.off \in BOOLEAN
  BY DEF K!Copies
<1>. QED  BY <1>1, <1>2 DEF K!Copies

(* A new copy, and a skill that is written or switched.                    *)
LEMMA CopyIs ==
  ASSUME NEW v \in Versions, NEW off \in BOOLEAN
  PROVE  /\ K!Copy(v, off, TRUE) \in K!Copies
         /\ K!Copy(v, off, TRUE).v = v /\ K!Copy(v, off, TRUE).off = off
  BY DEF K!Copy, K!Copies

(* Nothing is interrupted where it starts.                                 *)
LEMMA SkillsInit == K!Init => SkillsInv
<1> SUFFICES ASSUME K!Init PROVE SkillsInv
  OBVIOUS
<1>1. /\ flat \in {None} \cup {K!Copy(0, off, TRUE) : off \in BOOLEAN}
      /\ dir \in {None} \cup {K!Copy(0, off, TRUE) : off \in BOOLEAN}
      /\ None \in {flat, dir}
      /\ skillsStage = None /\ old = {} /\ work = None /\ due = {K!Current}
      /\ hasty = FALSE
  BY DEF K!Init
<1>2. flat \in K!Copies \cup {None} /\ dir \in K!Copies \cup {None}
  <2>1. ASSUME NEW off \in BOOLEAN PROVE K!Copy(0, off, TRUE) \in K!Copies
    BY DEF K!Copy, K!Copies
  <2>. QED  BY <1>1, <2>1
<1>3. K!Current \in K!Copies \cup {None}
  BY <1>2 DEF K!Current
<1>4. K!TypeOK
  BY <1>1, <1>2, <1>3 DEF K!TypeOK
<1>5. choice = (K!Current # None /\ K!Current.off)
  BY DEF K!Init
<1>6. K!Current # None => K!Current.off \in BOOLEAN
  BY <1>3 DEF K!Copies
<1>7. choice \in BOOLEAN /\ (K!Current # None => K!Current.off = choice)
  <2>1. choice \in BOOLEAN
    BY <1>5, Zenon
  <2>2. CASE K!Current # None
    <3>1. choice = (K!Current.off)
      BY <1>5, <1>6, <2>2
    <3>. QED  BY <2>1, <3>1
  <2>. QED  BY <2>1, <2>2
<1>8. SkillTypes
  BY <1>1, <1>4, <1>7 DEF SkillTypes
<1>9. AsTold(K!Current)
  BY <1>1, <1>7 DEF AsTold
<1>. QED
  BY <1>1, <1>8, <1>9 DEF SkillsInv, SkillsCalm, WillBeRepaired, CalmAt, K!At

(* Between operations, and while nobody was hasty, the skill is as told.   *)
LEMMA CalmRest ==
  ASSUME SkillsInv, ~hasty, work = None \/ K!At("recover"), old = {}
  PROVE  None \in {flat, dir} /\ AsTold(K!Current)
  BY DEF SkillsInv, SkillsCalm, WillBeRepaired

(* An operation that is over, and one place of an operation that goes on:  *)
(* what is to be shown of the invariant there.                             *)
LEMMA RestIsCalm ==
  ASSUME SkillTypes', work' = None \/ K!At("recover")',
         ~hasty' => None \in {flat', dir'} /\ WillBeRepaired'
  PROVE  SkillsInv'
<1>1. \A p \in SkillPlaces \ {"recover"} : ~K!At(p)'
  BY DEF K!At
<1>. QED
  BY <1>1 DEF SkillsInv, SkillsCalm, CalmAt, SkillPlaces

LEMMA PlaceIsCalm ==
  ASSUME SkillTypes', work' # None, work'.pc # "recover",
         ~hasty' =>
            /\ None \in {flat', dir'}
            /\ work'.pc \in {"stage", "aside"} =>
                  old' = {} /\ AsTold(work.was)' /\ AsTold(work.copy)'
            /\ work'.pc \in {"place", "restore"} =>
                  /\ flat' = None /\ dir' = None /\ OldIsAside'
                  /\ AsTold(work.was)' /\ AsTold(work.copy)'
            /\ work'.pc \in {"aside", "place"} => skillsStage' = work'.copy
            /\ work'.pc = "drop" =>
                  flat' = None /\ dir' = work'.copy /\ OldIsAside' /\ AsTold(work.copy)'
            /\ work'.pc = "delete" =>
                  /\ flat' = None /\ old' = {} /\ None \in due'
                  /\ dir' # None =>
                        /\ dir' \in due' /\ (dir'.v # None => dir'.off = choice')
                        /\ dir'.whole => K!Pieces(dir') \subseteq due'
  PROVE  SkillsInv'
<1>1. \A p : K!At(p)' <=> work'.pc = p
  BY DEF K!At
<1>. QED
  BY <1>1 DEF SkillsInv, SkillsCalm, CalmAt

(* What is repaired where nothing is left over,                            *)
LEMMA NothingIsLeft ==
  ASSUME old' = {}, AsTold(K!Current)'
  PROVE  WillBeRepaired'
  BY DEF WillBeRepaired

(* and where a skill is in its place, whatever of an older one is aside.   *)
LEMMA SkillIsThere ==
  ASSUME flat' # None \/ dir' # None, AsTold(K!Current)', NEW o, old' \subseteq {o}
  PROVE  WillBeRepaired'
<1>1. old' = {} \/ old' = {o}
  OBVIOUS
<1>. QED  BY <1>1 DEF WillBeRepaired

(* Each operation: one file is written or switched,                        *)
LEMMA FileIsPut ==
  ASSUME SkillsInv, NEW c \in K!Copies, K!Located = "dir" => c.v # None,
         work = None, work' = None, K!Located # "error",
         K!PutFile(c), due' = {c}, hasty' = (hasty \/ K!Leftovers),
         choice' \in BOOLEAN,
         ~hasty /\ AsTold(K!Current) => c.off = choice'
  PROVE  SkillsInv'
<1>1. K!TypeOK /\ hasty \in BOOLEAN
  BY DEF SkillsInv, SkillTypes
<1>2. c # None
  BY SkillsAssumption
<1>3. /\ K!Located = "dir" => dir' = c /\ UNCHANGED <<flat, skillsStage, old>>
      /\ K!Located # "dir" => flat' = c /\ UNCHANGED <<dir, skillsStage, old>>
  BY DEF K!PutFile
<1>4. K!TypeOK'
  BY <1>1, <1>3 DEF K!TypeOK
<1>5. hasty' \in BOOLEAN
  BY Zenon
<1>6. SkillTypes'
  BY <1>4, <1>5 DEF SkillTypes
<1>7. ASSUME ~hasty' PROVE None \in {flat', dir'} /\ WillBeRepaired'
  <2>1. ~hasty /\ old = {} /\ old' = {}
    BY <1>3, <1>7 DEF K!Leftovers
  <2>2. None \in {flat, dir} /\ AsTold(K!Current) /\ c.off = choice'
    BY <2>1, CalmRest
  <2>3. CASE K!Located = "dir"
    <3>1. flat' = None /\ dir' = c
      BY <1>1, <1>3, <2>3, CurrentIs
    <3>2. K!Current' = c
      BY <1>2, <2>3, <3>1 DEF K!Current, K!Located, K!HasSkill
    <3>. QED  BY <2>1, <2>2, <3>1, <3>2, NothingIsLeft DEF AsTold
  <2>4. CASE K!Located # "dir"
    <3>1. flat' = c /\ dir' = None
      BY <1>1, <1>3, <2>2, <2>4, CurrentIs
    <3>2. K!Current' = c
      BY <1>2, <3>1 DEF K!Current, K!Located, K!HasSkill
    <3>. QED  BY <2>1, <2>2, <3>1, <3>2, NothingIsLeft DEF AsTold
  <2>. QED  BY <2>3, <2>4
<1>. QED  BY <1>6, <1>7, RestIsCalm

LEMMA WriteKeeps ==
  ASSUME SkillsInv, NEW v \in Versions, K!Write(v)
  PROVE  SkillsInv'
<1>1. PICK c : c = IF K!Current = None THEN K!Copy(v, FALSE, TRUE)
                   ELSE [K!Current EXCEPT !.v = v]
  OBVIOUS
<1>2. /\ K!Located # "error" /\ work = None /\ work' = None
      /\ K!PutFile(c) /\ due' = {c} /\ hasty' = (hasty \/ K!Leftovers)
      /\ choice' = (choice /\ K!Current # None)
  BY <1>1 DEF K!Write, K!Begins
<1>3. K!Current \in K!Copies \cup {None} /\ choice \in BOOLEAN
  BY CurrentIs DEF SkillsInv, SkillTypes
<1>4. /\ c \in K!Copies /\ c.v = v
      /\ c.off = IF K!Current = None THEN FALSE ELSE K!Current.off
  <2>1. CASE K!Current = None
    BY <1>1, <2>1, CopyIs
  <2>2. CASE K!Current # None
    BY <1>1, <1>3, <2>2 DEF K!Copies
  <2>. QED  BY <2>1, <2>2
<1>5. c.v # None
  BY <1>4, SkillsAssumption
<1>6. choice' \in BOOLEAN
  BY <1>2, Zenon
<1>7. AsTold(K!Current) => c.off = choice'
  BY <1>2, <1>3, <1>4 DEF AsTold
<1>. QED  BY <1>2, <1>4, <1>5, <1>6, <1>7, FileIsPut

LEMMA SwitchKeeps ==
  ASSUME SkillsInv, NEW off \in BOOLEAN, K!SetDisabled(off)
  PROVE  SkillsInv'
<1>1. PICK c : c = [K!Current EXCEPT !.off = off]
  OBVIOUS
<1>2. /\ K!Current # None /\ work = None /\ work' = None
      /\ K!PutFile(c) /\ due' = {c} /\ hasty' = (hasty \/ K!Leftovers)
      /\ choice' = off
  BY <1>1 DEF K!SetDisabled, K!Begins
<1>3. K!TypeOK /\ K!Current \in K!Copies
  BY <1>2, CurrentIs DEF SkillsInv, SkillTypes
<1>4. c \in K!Copies /\ c.v = K!Current.v /\ c.off = off
  BY <1>1, <1>3 DEF K!Copies
<1>5. K!Located # "error" /\ (K!Located = "dir" => c.v # None)
  BY <1>2, <1>3, <1>4, CurrentIs
<1>. QED
  BY <1>2, <1>4, <1>5, FileIsPut

(* a bundle is begun,                                                      *)
LEMMA BundleKeeps ==
  ASSUME SkillsInv, NEW v \in Versions, NEW replace, K!WriteBundle(v, replace)
  PROVE  SkillsInv'
<1>1. PICK off : off = (K!Current # None /\ K!Current.off)
  OBVIOUS
<1>2. PICK c : c = K!Copy(v, off, TRUE)
  OBVIOUS
<1>3. /\ K!Located # "error" /\ work = None
      /\ work' = [kind |-> "bundle", pc |-> "stage", from |-> K!Located,
                  copy |-> c, was |-> K!Current]
      /\ due' = due \cup {c} /\ skillsStage' \in K!Pieces(c) /\ choice' = off
      /\ hasty' = (hasty \/ K!Leftovers) /\ UNCHANGED <<flat, dir, old>>
  BY <1>1, <1>2 DEF K!WriteBundle, K!Begins
<1>4. K!TypeOK /\ K!Current \in K!Copies \cup {None}
  BY CurrentIs DEF SkillsInv, SkillTypes
<1>5. off \in BOOLEAN
  BY <1>1, Zenon
<1>6. c \in K!Copies /\ c.v # None /\ c.off = off
  BY <1>2, <1>5, CopyIs, SkillsAssumption
<1>7. /\ K!Current' = K!Current /\ K!Located' = K!Located
      /\ K!Located \in {"dir", "flat", "none"}
      /\ (K!Located = "none") <=> (K!Current = None)
      /\ K!Located = "dir" => K!Current.v # None
  <2>1. K!Current' = K!Current /\ K!Located' = K!Located
    BY <1>3 DEF K!Current, K!Located, K!HasSkill
  <2>. QED  BY <1>3, <1>4, <2>1, CurrentIs
<1>8. /\ work' \in SkillWorks /\ work' # None /\ work'.pc = "stage"
      /\ work'.copy = c /\ work'.was = K!Current /\ work'.from = K!Located
  BY <1>3, <1>4, <1>6, <1>7, SkillsAssumption DEF SkillWorks, SkillPlaces
<1>9. WorkIsKnown'
  BY <1>6, <1>7, <1>8 DEF WorkIsKnown
<1>10. K!TypeOK'
  BY <1>3, <1>4, <1>6, PiecesAre DEF K!TypeOK
<1>11. hasty' \in BOOLEAN
  BY <1>3, Zenon
<1>12. SkillTypes'
  BY <1>3, <1>5, <1>8, <1>9, <1>10, <1>11 DEF SkillTypes
<1>13. ASSUME ~hasty'
       PROVE  None \in {flat', dir'} /\ old' = {} /\ AsTold(work.was)' /\ AsTold(work.copy)'
  <2>1. ~hasty /\ old = {} /\ old' = {}
    BY <1>3, <1>13 DEF K!Leftovers
  <2>2. None \in {flat, dir} /\ AsTold(K!Current)
    BY <1>3, <2>1, CalmRest
  <2>3. K!Current # None => off = K!Current.off
    BY <1>1, <1>4 DEF K!Copies
  <2>. QED  BY <1>3, <1>6, <1>8, <2>1, <2>2, <2>3 DEF AsTold
<1>. QED  BY <1>8, <1>12, <1>13, PlaceIsCalm

(* is staged,                                                              *)
LEMMA StageKeeps ==
  ASSUME SkillsInv, K!StageTree
  PROVE  SkillsInv'
<1>1. /\ work # None /\ work.pc = "stage" /\ skillsStage' = work.copy
      /\ work' = [work EXCEPT !.pc = IF work.from = "none" THEN "place" ELSE "aside"]
      /\ UNCHANGED <<flat, dir, old, due, choice, hasty, done, skillsCrashes>>
  BY DEF K!StageTree, K!At, K!Goes, K!Known
<1>2. work \in SkillWorks /\ WorkIsKnown /\ K!TypeOK /\ choice \in BOOLEAN /\ hasty \in BOOLEAN
  BY <1>1 DEF SkillsInv, SkillTypes
<1>3. /\ work' \in SkillWorks /\ work' # None
      /\ work'.pc = IF work.from = "none" THEN "place" ELSE "aside"
      /\ work'.from = work.from /\ work'.copy = work.copy /\ work'.was = work.was
  <2>1. work' \in SkillWorks
    BY <1>1, <1>2 DEF SkillWorks, SkillPlaces
  <2>2. work' # None
    BY <2>1, SkillsAssumption DEF SkillWorks, SkillPlaces
  <2>. QED  BY <1>1, <1>2, <2>1, <2>2 DEF SkillWorks
<1>4. K!Current' = K!Current /\ K!Located' = K!Located
  BY <1>1 DEF K!Current, K!Located, K!HasSkill
<1>5. /\ work.copy \in K!Copies /\ work.copy.v # None
      /\ work.from # "none" <=> work.was # None
      /\ work.from = "dir" => work.was.v # None
      /\ work.from = K!Located /\ work.was = K!Current
  BY <1>1, <1>2 DEF WorkIsKnown, Replacing
<1>6. WorkIsKnown'
  BY <1>3, <1>4, <1>5 DEF WorkIsKnown
<1>7. K!TypeOK'
  BY <1>1, <1>2, <1>5 DEF K!TypeOK
<1>8. SkillTypes'
  BY <1>1, <1>2, <1>3, <1>6, <1>7 DEF SkillTypes
<1>9. ASSUME ~hasty'
      PROVE  /\ None \in {flat', dir'} /\ old' = {} /\ AsTold(work.was)' /\ AsTold(work.copy)'
             /\ work'.pc = "place" => flat' = None /\ dir' = None /\ OldIsAside'
  <2>1. ~hasty /\ None \in {flat, dir} /\ old = {} /\ AsTold(work.was) /\ AsTold(work.copy)
    BY <1>1, <1>9 DEF SkillsInv, SkillsCalm, CalmAt, K!At
  <2>2. work'.pc = "place" => flat = None /\ dir = None
    BY <1>2, <1>3, <1>5, CurrentIs
  <2>3. AsTold(work.was)' /\ AsTold(work.copy)'
    BY <1>1, <1>3, <2>1 DEF AsTold
  <2>4. work'.pc = "place" => OldIsAside'
    BY <1>1, <1>3, <2>1 DEF OldIsAside
  <2>. QED  BY <1>1, <2>1, <2>2, <2>3, <2>4
<1>. QED  BY <1>1, <1>3, <1>8, <1>9, PlaceIsCalm

(* or given up, with the skill as it was,                                  *)
LEMMA StageFailsKeeps ==
  ASSUME SkillsInv, K!StageFails
  PROVE  SkillsInv'
<1>1. /\ work # None /\ work.pc \in {"stage", "aside"}
      /\ skillsStage' = None /\ due' = {work.was} /\ work' = None
      /\ UNCHANGED <<flat, dir, old, choice, hasty, done, skillsCrashes>>
  BY DEF K!StageFails, K!At, K!Ends, K!Known
<1>2. work \in SkillWorks /\ WorkIsKnown /\ K!TypeOK /\ choice \in BOOLEAN /\ hasty \in BOOLEAN
  BY <1>1 DEF SkillsInv, SkillTypes
<1>3. K!Current' = K!Current /\ work.was = K!Current
  <2>1. work.was = K!Current
    BY <1>1, <1>2 DEF WorkIsKnown
  <2>. QED  BY <1>1, <2>1 DEF K!Current, K!Located, K!HasSkill
<1>4. K!Current \in K!Copies \cup {None}
  BY <1>2, CurrentIs
<1>5. SkillTypes'
  BY <1>1, <1>2, <1>3, <1>4 DEF SkillTypes, K!TypeOK
<1>6. ASSUME ~hasty' PROVE None \in {flat', dir'} /\ WillBeRepaired'
  <2>1. None \in {flat, dir} /\ old = {} /\ AsTold(work.was)
    BY <1>1, <1>6 DEF SkillsInv, SkillsCalm, CalmAt, K!At
  <2>2. AsTold(K!Current)'
    BY <1>1, <1>3, <2>1 DEF AsTold
  <2>. QED  BY <1>1, <2>1, <2>2, NothingIsLeft
<1>. QED  BY <1>1, <1>5, <1>6, RestIsCalm

(* the old skill goes aside,                                               *)
LEMMA AsideKeeps ==
  ASSUME SkillsInv, K!MoveAside
  PROVE  SkillsInv'
<1>1. /\ work # None /\ work.pc = "aside"
      /\ old' = old \cup {[at |-> work.from, copy |-> K!Current]}
      /\ IF work.from = "dir" THEN dir' = None /\ UNCHANGED flat
         ELSE flat' = None /\ UNCHANGED dir
      /\ work' = [work EXCEPT !.pc = "place"]
      /\ UNCHANGED <<skillsStage, due, choice, hasty, done, skillsCrashes>>
  BY DEF K!MoveAside, K!At, K!Goes, K!Known
<1>2. work \in SkillWorks /\ WorkIsKnown /\ K!TypeOK /\ choice \in BOOLEAN /\ hasty \in BOOLEAN
  BY <1>1 DEF SkillsInv, SkillTypes
<1>3. /\ work' \in SkillWorks /\ work' # None /\ work'.pc = "place"
      /\ work'.from = work.from /\ work'.copy = work.copy /\ work'.was = work.was
  <2>1. work' \in SkillWorks
    BY <1>1, <1>2 DEF SkillWorks, SkillPlaces
  <2>2. work' # None
    BY <2>1, SkillsAssumption DEF SkillWorks, SkillPlaces
  <2>. QED  BY <1>1, <1>2, <2>1, <2>2 DEF SkillWorks
<1>4. /\ work.copy \in K!Copies /\ work.copy.v # None
      /\ work.from # "none" /\ work.was # None
      /\ work.from = "dir" => work.was.v # None
      /\ work.from = K!Located /\ work.was = K!Current
  BY <1>1, <1>2 DEF WorkIsKnown, Replacing
<1>5. WorkIsKnown'
  BY <1>3, <1>4 DEF WorkIsKnown
<1>6. work.from \in {"dir", "flat"} /\ work.was \in K!Copies
  BY <1>2, <1>4 DEF SkillWorks
<1>7. K!TypeOK'
  BY <1>1, <1>2, <1>4, <1>6 DEF K!TypeOK
<1>8. SkillTypes'
  BY <1>1, <1>2, <1>3, <1>5, <1>7 DEF SkillTypes
<1>9. ASSUME ~hasty'
      PROVE  flat' = None /\ dir' = None /\ OldIsAside' /\ AsTold(work.was)' /\ AsTold(work.copy)'
  <2>1. None \in {flat, dir} /\ old = {} /\ AsTold(work.was) /\ AsTold(work.copy)
    BY <1>1, <1>9 DEF SkillsInv, SkillsCalm, CalmAt, K!At
  <2>2. flat' = None /\ dir' = None
    BY <1>1, <1>2, <1>4, <1>6, <2>1, CurrentIs
  <2>3. old' = {[at |-> work.from, copy |-> work.was]}
    BY <1>1, <1>4, <2>1
  <2>4. OldIsAside'
    BY <1>3, <1>4, <2>3 DEF OldIsAside, K!Mine
  <2>5. AsTold(work.was)' /\ AsTold(work.copy)'
    BY <1>1, <1>3, <2>1 DEF AsTold
  <2>. QED  BY <2>2, <2>4, <2>5
<1>10. ASSUME ~hasty' PROVE skillsStage' = work'.copy
  BY <1>1, <1>3, <1>10 DEF SkillsInv, SkillsCalm, CalmAt, K!At
<1>. QED  BY <1>3, <1>8, <1>9, <1>10, PlaceIsCalm

(* the new one takes its place,                                            *)
LEMMA PlaceKeeps ==
  ASSUME SkillsInv, K!Place
  PROVE  SkillsInv'
<1>1. /\ work # None /\ work.pc = "place" /\ dir' = skillsStage /\ skillsStage' = None
      /\ work' = [work EXCEPT !.pc = "drop"]
      /\ UNCHANGED <<flat, old, due, choice, hasty, done, skillsCrashes>>
  BY DEF K!Place, K!At, K!Goes, K!Known
<1>2. work \in SkillWorks /\ WorkIsKnown /\ K!TypeOK /\ choice \in BOOLEAN /\ hasty \in BOOLEAN
  BY <1>1 DEF SkillsInv, SkillTypes
<1>3. /\ work' \in SkillWorks /\ work' # None /\ work'.pc = "drop"
      /\ work'.from = work.from /\ work'.copy = work.copy /\ work'.was = work.was
  <2>1. work' \in SkillWorks
    BY <1>1, <1>2 DEF SkillWorks, SkillPlaces
  <2>2. work' # None
    BY <2>1, SkillsAssumption DEF SkillWorks, SkillPlaces
  <2>. QED  BY <1>1, <1>2, <2>1, <2>2 DEF SkillWorks
<1>4. WorkIsKnown'
  BY <1>1, <1>2, <1>3 DEF WorkIsKnown, Replacing
<1>5. K!TypeOK'
  BY <1>1, <1>2 DEF K!TypeOK
<1>6. SkillTypes'
  BY <1>1, <1>2, <1>3, <1>4, <1>5 DEF SkillTypes
<1>7. ASSUME ~hasty'
      PROVE  /\ flat' = None /\ dir' = work'.copy /\ OldIsAside' /\ AsTold(work.copy)'
  <2>1. flat = None /\ OldIsAside /\ AsTold(work.copy) /\ skillsStage = work.copy
    BY <1>1, <1>7 DEF SkillsInv, SkillsCalm, CalmAt, K!At
  <2>2. OldIsAside' /\ AsTold(work.copy)'
    BY <1>1, <1>3, <2>1 DEF OldIsAside, K!Mine, AsTold
  <2>. QED  BY <1>1, <1>3, <2>1, <2>2
<1>. QED  BY <1>3, <1>6, <1>7, PlaceIsCalm

(* or cannot, and the old one is to be restored,                           *)
LEMMA PlaceFailsKeeps ==
  ASSUME SkillsInv, K!PlaceFails
  PROVE  SkillsInv'
<1>1. /\ work # None /\ work.pc = "place" /\ skillsStage' = None
      /\ work' = [work EXCEPT !.pc = "restore"]
      /\ UNCHANGED <<flat, dir, old, due, choice, hasty, done, skillsCrashes>>
  BY DEF K!PlaceFails, K!At, K!Goes, K!Known
<1>2. work \in SkillWorks /\ WorkIsKnown /\ K!TypeOK /\ choice \in BOOLEAN /\ hasty \in BOOLEAN
  BY <1>1 DEF SkillsInv, SkillTypes
<1>3. /\ work' \in SkillWorks /\ work' # None /\ work'.pc = "restore"
      /\ work'.from = work.from /\ work'.copy = work.copy /\ work'.was = work.was
  <2>1. work' \in SkillWorks
    BY <1>1, <1>2 DEF SkillWorks, SkillPlaces
  <2>2. work' # None
    BY <2>1, SkillsAssumption DEF SkillWorks, SkillPlaces
  <2>. QED  BY <1>1, <1>2, <2>1, <2>2 DEF SkillWorks
<1>4. WorkIsKnown'
  BY <1>1, <1>2, <1>3 DEF WorkIsKnown, Replacing
<1>5. K!TypeOK'
  BY <1>1, <1>2 DEF K!TypeOK
<1>6. SkillTypes'
  BY <1>1, <1>2, <1>3, <1>4, <1>5 DEF SkillTypes
<1>7. ASSUME ~hasty'
      PROVE  /\ flat' = None /\ dir' = None /\ OldIsAside'
             /\ AsTold(work.was)' /\ AsTold(work.copy)'
  <2>1. flat = None /\ dir = None /\ OldIsAside /\ AsTold(work.was) /\ AsTold(work.copy)
    BY <1>1, <1>7 DEF SkillsInv, SkillsCalm, CalmAt, K!At
  <2>2. OldIsAside' /\ AsTold(work.was)' /\ AsTold(work.copy)'
    BY <1>1, <1>3, <2>1 DEF OldIsAside, K!Mine, AsTold
  <2>. QED  BY <1>1, <2>1, <2>2
<1>. QED  BY <1>3, <1>6, <1>7, PlaceIsCalm

(* is restored or stays aside,                                             *)
LEMMA RestoreKeeps ==
  ASSUME SkillsInv, K!Restore
  PROVE  SkillsInv'
<1>1. /\ work # None /\ work.pc = "restore" /\ due' = {work.was} /\ work' = None
      /\ UNCHANGED <<skillsStage, choice, hasty>>
      /\ \/ /\ work.from # "none" /\ old' = old \ {K!Mine}
            /\ IF work.from = "dir" THEN dir' = work.was /\ UNCHANGED flat
               ELSE flat' = work.was /\ UNCHANGED dir
         \/ UNCHANGED <<flat, dir, old>>
  BY DEF K!Restore, K!At, K!Ends
<1>2. work \in SkillWorks /\ WorkIsKnown /\ K!TypeOK /\ choice \in BOOLEAN /\ hasty \in BOOLEAN
  BY <1>1 DEF SkillsInv, SkillTypes
<1>3. /\ work.from # "none" <=> work.was # None
      /\ work.from = "dir" => work.was.v # None
      /\ work.was \in K!Copies \cup {None} /\ work.from \in {"dir", "flat", "none"}
  BY <1>1, <1>2 DEF WorkIsKnown, Replacing, SkillWorks
<1>4. K!TypeOK'
  BY <1>1, <1>2, <1>3 DEF K!TypeOK
<1>5. SkillTypes'
  BY <1>1, <1>2, <1>4 DEF SkillTypes
<1>6. ASSUME ~hasty' PROVE None \in {flat', dir'} /\ WillBeRepaired'
  <2>1. flat = None /\ dir = None /\ OldIsAside /\ AsTold(work.was)
    BY <1>1, <1>6 DEF SkillsInv, SkillsCalm, CalmAt, K!At
  <2>2. work.was \in due' /\ (work.was # None => work.was.off = choice')
    BY <1>1, <2>1 DEF AsTold
  <2>3. CASE /\ work.from # "none" /\ old' = old \ {K!Mine}
             /\ IF work.from = "dir" THEN dir' = work.was /\ UNCHANGED flat
                ELSE flat' = work.was /\ UNCHANGED dir
    <3>1. old' = {}
      BY <2>1, <2>3 DEF OldIsAside
    <3>2. K!Current' = work.was /\ None \in {flat', dir'}
      BY <1>3, <2>1, <2>3 DEF K!Current, K!Located, K!HasSkill
    <3>. QED  BY <2>2, <3>1, <3>2, NothingIsLeft DEF AsTold
  <2>4. CASE UNCHANGED <<flat, dir, old>>
    <3>1. CASE work.from = "none"
      <4>1. old' = {} /\ work.was = None
        BY <1>3, <2>1, <2>4, <3>1 DEF OldIsAside
      <4>2. K!Current' = None
        BY <2>1, <2>4 DEF K!Current, K!Located, K!HasSkill
      <4>. QED  BY <2>1, <2>2, <2>4, <4>1, <4>2, NothingIsLeft DEF AsTold
    <3>2. CASE work.from # "none"
      <4>1. PICK o : o = K!Mine
        OBVIOUS
      <4>2. o.at = work.from /\ o.copy = work.was
        BY <4>1 DEF K!Mine
      <4>3. old' = {o}
        BY <2>1, <2>4, <3>2, <4>1 DEF OldIsAside
      <4>4. AsTold(o.copy)'
        BY <2>2, <4>2 DEF AsTold
      <4>5. flat' = None /\ dir' = None
        BY <2>1, <2>4
      <4>6. o.at = "dir" => o.copy.v # None
        BY <1>3, <4>2
      <4>. QED  BY <4>3, <4>4, <4>5, <4>6 DEF WillBeRepaired
    <3>. QED  BY <3>1, <3>2
  <2>. QED  BY <1>1, <2>3, <2>4
<1>. QED  BY <1>1, <1>5, <1>6, RestIsCalm

(* and goes, or leaves pieces;                                             *)
LEMMA DropKeeps ==
  ASSUME SkillsInv, K!DropOld
  PROVE  SkillsInv'
<1>1. /\ work # None /\ work.pc = "drop" /\ due' = {work.copy} /\ work' = None
      /\ UNCHANGED <<flat, dir, skillsStage, choice, hasty>>
  BY DEF K!DropOld, K!At, K!Ends, K!Known
<1>2. work \in SkillWorks /\ WorkIsKnown /\ K!TypeOK /\ choice \in BOOLEAN /\ hasty \in BOOLEAN
  BY <1>1 DEF SkillsInv, SkillTypes
<1>3. /\ work.from # "none" <=> work.was # None
      /\ work.copy \in K!Copies /\ work.copy.v # None
      /\ work.was \in K!Copies \cup {None} /\ work.from \in {"dir", "flat", "none"}
  BY <1>1, <1>2 DEF WorkIsKnown, Replacing, SkillWorks
<1>4. \/ work.from = "none" /\ old' = old
      \/ old' = old \ {K!Mine}
      \/ /\ work.from # "none"
         /\ \E piece \in K!Copies : old' = (old \ {K!Mine}) \cup {[at |-> work.from, copy |-> piece]}
  <2>1. work.was # None => K!Pieces(work.was) \cup {work.was} \subseteq K!Copies
    BY <1>3, PiecesAre
  <2>. QED  BY <1>3, <2>1 DEF K!DropOld
<1>5. old' \subseteq [at : {"flat", "dir"}, copy : K!Copies]
  <2>1. old \subseteq [at : {"flat", "dir"}, copy : K!Copies]
    BY <1>2 DEF K!TypeOK
  <2>. QED  BY <1>3, <1>4, <2>1
<1>6. SkillTypes'
  BY <1>1, <1>2, <1>3, <1>5 DEF SkillTypes, K!TypeOK
<1>7. ASSUME ~hasty' PROVE None \in {flat', dir'} /\ WillBeRepaired'
  <2>1. flat = None /\ dir = work.copy /\ OldIsAside /\ AsTold(work.copy)
    BY <1>1, <1>7 DEF SkillsInv, SkillsCalm, CalmAt, K!At
  <2>2. work.copy # None
    BY <1>3, SkillsAssumption
  <2>3. K!Current' = work.copy
    BY <1>1, <1>3, <2>1, <2>2 DEF K!Current, K!Located, K!HasSkill
  <2>4. AsTold(K!Current)'
    BY <1>1, <2>1, <2>3 DEF AsTold
  <2>5. \E o : old' \subseteq {o}
    BY <1>4, <2>1 DEF OldIsAside
  <2>. QED  BY <1>1, <2>1, <2>2, <2>4, <2>5, SkillIsThere
<1>. QED  BY <1>1, <1>6, <1>7, RestIsCalm

(* a deletion, which takes the directory apart;                            *)
LEMMA DeleteKeeps ==
  ASSUME SkillsInv, K!Delete
  PROVE  SkillsInv'
<1>1. /\ work = None
      /\ work' = [kind |-> "delete", pc |-> "delete", from |-> "none",
                  copy |-> None, was |-> K!Current]
      /\ flat' = None
      /\ due' = due \cup {None} \cup (IF dir = None THEN {} ELSE K!Pieces(dir) \cup {dir})
      /\ hasty' = (hasty \/ K!Leftovers) /\ UNCHANGED <<dir, skillsStage, old, choice>>
  BY DEF K!Delete, K!Begins
<1>2. K!TypeOK /\ choice \in BOOLEAN /\ K!Current \in K!Copies \cup {None}
  BY CurrentIs DEF SkillsInv, SkillTypes
<1>3. work' \in SkillWorks /\ work' # None /\ work'.pc = "delete"
  <2>1. work' \in SkillWorks
    BY <1>1, <1>2 DEF SkillWorks, SkillPlaces
  <2>2. work' # None
    BY <2>1, SkillsAssumption DEF SkillWorks, SkillPlaces
  <2>. QED  BY <1>1, <2>1, <2>2
<1>4. WorkIsKnown'
  BY <1>3 DEF WorkIsKnown, Replacing
<1>5. dir # None => dir \in K!Copies /\ K!Pieces(dir) \subseteq K!Copies
  BY <1>2, PiecesAre DEF K!TypeOK
<1>6. due' \subseteq K!Copies \cup {None} /\ due' # {}
  BY <1>1, <1>2, <1>5 DEF K!TypeOK
<1>7. K!TypeOK'
  BY <1>1, <1>2, <1>6 DEF K!TypeOK
<1>8. hasty' \in BOOLEAN
  BY <1>1, Zenon
<1>9. SkillTypes'
  BY <1>1, <1>2, <1>3, <1>4, <1>7, <1>8 DEF SkillTypes
<1>10. ASSUME ~hasty'
       PROVE  /\ flat' = None /\ old' = {} /\ None \in due'
              /\ dir' # None =>
                    /\ dir' \in due' /\ (dir'.v # None => dir'.off = choice')
                    /\ dir'.whole => K!Pieces(dir') \subseteq due'
  <2>1. ~hasty /\ old = {} /\ old' = {}
    BY <1>1, <1>10 DEF K!Leftovers
  <2>2. None \in {flat, dir} /\ AsTold(K!Current)
    BY <1>1, <2>1, CalmRest
  <2>3. dir # None /\ dir.v # None => K!Current = dir
    BY <1>2, <2>2, CurrentIs
  <2>4. dir # None => dir \in due' /\ K!Pieces(dir) \subseteq due'
    BY <1>1
  <2>5. dir # None /\ dir.v # None => dir.off = choice
    BY <2>2, <2>3 DEF AsTold
  <2>. QED  BY <1>1, <2>1, <2>4, <2>5
<1>. QED  BY <1>3, <1>9, <1>10, PlaceIsCalm

LEMMA DeleteDirKeeps ==
  ASSUME SkillsInv, K!DeleteDir
  PROVE  SkillsInv'
<1>1. /\ work # None /\ work.pc = "delete" /\ UNCHANGED <<flat, skillsStage, old, hasty>>
      /\ \/ dir # None /\ dir.whole /\ dir' \in K!Pieces(dir) /\ UNCHANGED <<work, due, choice>>
         \/ dir' = None /\ due' = {None} /\ choice' = FALSE /\ work' = None
  BY DEF K!DeleteDir, K!At, K!Ends
<1>2. work \in SkillWorks /\ WorkIsKnown /\ K!TypeOK /\ choice \in BOOLEAN /\ hasty \in BOOLEAN
  BY <1>1 DEF SkillsInv, SkillTypes
<1>3. ~hasty => /\ flat = None /\ old = {} /\ None \in due
                /\ dir # None =>
                      /\ dir \in due /\ (dir.v # None => dir.off = choice)
                      /\ dir.whole => K!Pieces(dir) \subseteq due
  BY <1>1 DEF SkillsInv, SkillsCalm, CalmAt, K!At
<1>4. ASSUME dir # None, dir.whole, dir' \in K!Pieces(dir), UNCHANGED <<work, due, choice>>
      PROVE  SkillsInv'
  <2>1. dir \in K!Copies
    BY <1>2, <1>4 DEF K!TypeOK
  <2>2. dir' \in K!Copies /\ dir'.v \in {None, dir.v} /\ dir'.off = dir.off /\ dir'.whole = FALSE
    BY <1>4, <2>1, PiecesAre
  <2>3. K!TypeOK'
    BY <1>1, <1>2, <1>4, <2>2 DEF K!TypeOK
  <2>4. WorkIsKnown'
    BY <1>1, <1>4 DEF WorkIsKnown, Replacing
  <2>5. SkillTypes'
    BY <1>1, <1>2, <1>4, <2>3, <2>4 DEF SkillTypes
  <2>6. ASSUME ~hasty'
        PROVE  /\ flat' = None /\ old' = {} /\ None \in due'
               /\ dir' \in due' /\ (dir'.v # None => dir'.off = choice')
               /\ ~dir'.whole
    BY <1>1, <1>3, <1>4, <2>2, <2>6
  <2>7. work' # None /\ work'.pc = "delete"
    BY <1>1, <1>4
  <2>. QED  BY <2>5, <2>6, <2>7, PlaceIsCalm
<1>5. CASE dir' = None /\ due' = {None} /\ choice' = FALSE /\ work' = None
  <2>1. SkillTypes'
    BY <1>1, <1>2, <1>5 DEF SkillTypes, K!TypeOK
  <2>2. ASSUME ~hasty' PROVE None \in {flat', dir'} /\ WillBeRepaired'
    <3>1. flat' = None /\ old' = {}
      BY <1>1, <1>3, <2>2
    <3>2. K!Current' = None
      BY <1>5, <3>1 DEF K!Current, K!Located, K!HasSkill
    <3>3. AsTold(K!Current)'
      BY <1>5, <3>2 DEF AsTold
    <3>. QED  BY <3>1, <3>3, NothingIsLeft
  <2>. QED  BY <1>5, <2>1, <2>2, RestIsCalm
<1>. QED  BY <1>1, <1>4, <1>5

(* a death of the daemon, wherever it comes;                               *)
LEMMA CrashKeeps ==
  ASSUME SkillsInv, K!Crash
  PROVE  SkillsInv'
<1>1. /\ work # None /\ work' = None
      /\ UNCHANGED <<flat, dir, skillsStage, old, due, choice, hasty>>
  BY DEF K!Crash, K!Ends, K!files
<1>2. work \in SkillWorks /\ WorkIsKnown /\ K!TypeOK /\ choice \in BOOLEAN /\ hasty \in BOOLEAN
  BY <1>1 DEF SkillsInv, SkillTypes
<1>3. SkillTypes'
  BY <1>1, <1>2 DEF SkillTypes, K!TypeOK
<1>4. K!Current' = K!Current
  BY <1>1 DEF K!Current, K!Located, K!HasSkill
<1>5. ASSUME ~hasty' PROVE None \in {flat', dir'} /\ WillBeRepaired'
  <2>1. ~hasty /\ None \in {flat, dir}
    BY <1>1, <1>5 DEF SkillsInv, SkillsCalm
  <2>2. work.pc \in SkillPlaces /\ work.from \in {"dir", "flat", "none"}
    BY <1>2 DEF SkillWorks
  <2>3. CASE work.pc \in {"stage", "aside"}
    <3>1. old = {} /\ AsTold(work.was) /\ work.was = K!Current
      BY <1>1, <1>2, <2>1, <2>3 DEF SkillsInv, SkillsCalm, CalmAt, K!At, WorkIsKnown
    <3>2. AsTold(K!Current)'
      BY <1>1, <1>4, <3>1 DEF AsTold
    <3>. QED  BY <1>1, <2>1, <3>1, <3>2, NothingIsLeft
  <2>4. CASE work.pc \in {"place", "restore"}
    <3>1. flat = None /\ dir = None /\ OldIsAside /\ AsTold(work.was)
      BY <1>1, <2>1, <2>4 DEF SkillsInv, SkillsCalm, CalmAt, K!At
    <3>2. /\ work.from # "none" <=> work.was # None
          /\ work.from = "dir" => work.was.v # None
      BY <1>2, <2>4 DEF WorkIsKnown, Replacing
    <3>3. CASE work.from = "none"
      <4>1. old' = {} /\ work.was = None
        BY <1>1, <3>1, <3>2, <3>3 DEF OldIsAside
      <4>2. K!Current = None
        BY <3>1 DEF K!Current, K!Located, K!HasSkill
      <4>3. AsTold(K!Current)'
        BY <1>1, <1>4, <3>1, <4>1, <4>2 DEF AsTold
      <4>. QED  BY <1>1, <2>1, <4>1, <4>3, NothingIsLeft
    <3>4. CASE work.from # "none"
      <4>1. PICK o : o = K!Mine
        OBVIOUS
      <4>2. o.at = work.from /\ o.copy = work.was
        BY <4>1 DEF K!Mine
      <4>3. old' = {o}
        BY <1>1, <3>1, <3>4, <4>1 DEF OldIsAside
      <4>4. AsTold(o.copy)'
        BY <1>1, <3>1, <4>2 DEF AsTold
      <4>5. flat' = None /\ dir' = None
        BY <1>1, <3>1
      <4>6. o.at = "dir" => o.copy.v # None
        BY <3>2, <4>2
      <4>. QED  BY <4>3, <4>4, <4>5, <4>6 DEF WillBeRepaired
    <3>. QED  BY <3>3, <3>4
  <2>5. CASE work.pc = "drop"
    <3>1. flat = None /\ dir = work.copy /\ OldIsAside /\ AsTold(work.copy)
      BY <1>1, <2>1, <2>5 DEF SkillsInv, SkillsCalm, CalmAt, K!At
    <3>2. work.copy \in K!Copies /\ work.copy.v # None
      BY <1>2, <2>5 DEF WorkIsKnown, Replacing
    <3>3. work.copy # None
      BY <3>2, SkillsAssumption
    <3>4. K!Current = work.copy
      BY <3>1, <3>2, <3>3 DEF K!Current, K!Located, K!HasSkill
    <3>5. AsTold(K!Current)'
      BY <1>1, <1>4, <3>1, <3>4 DEF AsTold
    <3>6. \E o : old' \subseteq {o}
      BY <1>1, <3>1 DEF OldIsAside
    <3>. QED  BY <1>1, <3>1, <3>3, <3>5, <3>6, SkillIsThere
  <2>6. CASE work.pc = "delete"
    <3>1. /\ flat = None /\ old = {} /\ None \in due
          /\ dir # None => dir \in due /\ (dir.v # None => dir.off = choice)
      BY <1>1, <2>1, <2>6 DEF SkillsInv, SkillsCalm, CalmAt, K!At
    <3>2. K!Current = IF dir # None /\ dir.v # None THEN dir ELSE None
      BY <3>1 DEF K!Current, K!Located, K!HasSkill
    <3>3. AsTold(K!Current)'
      BY <1>1, <1>4, <3>1, <3>2 DEF AsTold
    <3>. QED  BY <1>1, <3>1, <3>3, NothingIsLeft
  <2>7. CASE work.pc = "recover"
    <3>1. WillBeRepaired
      BY <1>1, <2>1, <2>7 DEF SkillsInv, SkillsCalm, K!At
    <3>2. \A c : AsTold(c)' <=> AsTold(c)
      BY <1>1 DEF AsTold
    <3>3. WillBeRepaired'
      BY <1>1, <1>4, <3>1, <3>2 DEF WillBeRepaired
    <3>. QED  BY <1>1, <2>1, <3>3
  <2>. QED  BY <2>2, <2>3, <2>4, <2>5, <2>6, <2>7 DEF SkillPlaces
<1>. QED  BY <1>1, <1>3, <1>5, RestIsCalm

(* and the listing, which begins where nothing is in progress,             *)
LEMMA ListKeeps ==
  ASSUME SkillsInv, K!List
  PROVE  SkillsInv'
<1>1. /\ work = None
      /\ work' = [kind |-> "list", pc |-> "recover", from |-> "none",
                  copy |-> None, was |-> None]
      /\ UNCHANGED <<flat, dir, skillsStage, old, due, choice, hasty>>
  BY DEF K!List, K!files
<1>2. K!TypeOK /\ choice \in BOOLEAN /\ hasty \in BOOLEAN
  BY DEF SkillsInv, SkillTypes
<1>3. work' \in SkillWorks /\ work' # None /\ work'.pc = "recover"
  <2>1. work' \in SkillWorks
    BY <1>1 DEF SkillWorks, SkillPlaces
  <2>2. work' # None
    BY <2>1, SkillsAssumption DEF SkillWorks, SkillPlaces
  <2>. QED  BY <1>1, <2>1, <2>2
<1>4. WorkIsKnown'
  BY <1>3 DEF WorkIsKnown, Replacing
<1>5. SkillTypes'
  BY <1>1, <1>2, <1>3, <1>4 DEF SkillTypes, K!TypeOK
<1>6. ASSUME ~hasty' PROVE None \in {flat', dir'} /\ WillBeRepaired'
  <2>1. None \in {flat, dir} /\ WillBeRepaired
    BY <1>1, <1>6 DEF SkillsInv, SkillsCalm
  <2>2. \A c : AsTold(c)' <=> AsTold(c)
    BY <1>1 DEF AsTold
  <2>3. K!Current' = K!Current
    BY <1>1 DEF K!Current, K!Located, K!HasSkill
  <2>. QED  BY <1>1, <2>1, <2>2, <2>3 DEF WillBeRepaired
<1>. QED  BY <1>3, <1>5, <1>6, RestIsCalm DEF K!At

(* takes away what was staged,                                             *)
LEMMA RecoverStageKeeps ==
  ASSUME SkillsInv, K!RecoverStage
  PROVE  SkillsInv'
<1>1. /\ work # None /\ work.pc = "recover" /\ skillsStage' = None
      /\ UNCHANGED <<flat, dir, old, work, due, choice, hasty>>
  BY DEF K!RecoverStage, K!At, K!Known
<1>2. work \in SkillWorks /\ WorkIsKnown /\ K!TypeOK /\ choice \in BOOLEAN /\ hasty \in BOOLEAN
  BY <1>1 DEF SkillsInv, SkillTypes
<1>3. WorkIsKnown'
  BY <1>1 DEF WorkIsKnown, Replacing
<1>4. SkillTypes'
  BY <1>1, <1>2, <1>3 DEF SkillTypes, K!TypeOK
<1>5. ASSUME ~hasty' PROVE None \in {flat', dir'} /\ WillBeRepaired'
  <2>1. None \in {flat, dir} /\ WillBeRepaired
    BY <1>1, <1>5 DEF SkillsInv, SkillsCalm, K!At
  <2>2. \A c : AsTold(c)' <=> AsTold(c)
    BY <1>1 DEF AsTold
  <2>3. K!Current' = K!Current
    BY <1>1 DEF K!Current, K!Located, K!HasSkill
  <2>. QED  BY <1>1, <2>1, <2>2, <2>3 DEF WillBeRepaired
<1>. QED  BY <1>1, <1>4, <1>5, RestIsCalm DEF K!At

(* puts back what is aside where there is no skill,                        *)
LEMMA RecoverOldKeeps ==
  ASSUME SkillsInv, K!RecoverOld
  PROVE  SkillsInv'
<1>1. work # None /\ work.pc = "recover" /\ UNCHANGED <<skillsStage, work, due, choice, hasty>>
  BY DEF K!RecoverOld, K!At, K!Known
<1>2. PICK o \in old :
        /\ old' = old \ {o}
        /\ IF flat # None \/ dir # None THEN UNCHANGED <<flat, dir>>
           ELSE IF o.at = "dir" THEN dir' = o.copy /\ UNCHANGED flat
           ELSE flat' = o.copy /\ UNCHANGED dir
  BY DEF K!RecoverOld
<1>3. work \in SkillWorks /\ WorkIsKnown /\ K!TypeOK /\ choice \in BOOLEAN /\ hasty \in BOOLEAN
  BY <1>1 DEF SkillsInv, SkillTypes
<1>4. WorkIsKnown'
  BY <1>1 DEF WorkIsKnown, Replacing
<1>5. o \in [at : {"flat", "dir"}, copy : K!Copies]
  BY <1>2, <1>3 DEF K!TypeOK
<1>6. K!TypeOK'
  BY <1>1, <1>2, <1>3, <1>5 DEF K!TypeOK
<1>7. SkillTypes'
  BY <1>1, <1>3, <1>4, <1>6 DEF SkillTypes
<1>8. ASSUME ~hasty' PROVE None \in {flat', dir'} /\ WillBeRepaired'
  <2>1. None \in {flat, dir} /\ WillBeRepaired
    BY <1>1, <1>8 DEF SkillsInv, SkillsCalm, K!At
  <2>2. /\ old = {o} /\ old' = {}
        /\ flat = None /\ dir = None =>
              AsTold(o.copy) /\ (o.at = "dir" => o.copy.v # None)
    BY <1>2, <2>1 DEF WillBeRepaired
  <2>3. CASE flat # None \/ dir # None
    <3>1. flat' = flat /\ dir' = dir
      BY <1>2, <2>3
    <3>2. K!Current' = K!Current
      BY <3>1 DEF K!Current, K!Located, K!HasSkill
    <3>3. AsTold(K!Current)'
      BY <1>1, <2>1, <2>3, <3>2 DEF AsTold, WillBeRepaired
    <3>. QED  BY <2>1, <2>2, <3>1, <3>3, NothingIsLeft
  <2>4. CASE flat = None /\ dir = None
    <3>1. o.copy # None
      BY <1>5, SkillsAssumption
    <3>2. \/ flat' = None /\ dir' = o.copy /\ o.copy.v # None
          \/ dir' = None /\ flat' = o.copy
      BY <1>2, <2>2, <2>4
    <3>3. K!Current' = o.copy
      BY <3>1, <3>2 DEF K!Current, K!Located, K!HasSkill
    <3>4. AsTold(K!Current)'
      BY <1>1, <2>2, <2>4, <3>3 DEF AsTold
    <3>. QED  BY <2>2, <3>2, <3>4, NothingIsLeft
  <2>. QED  BY <2>3, <2>4
<1>. QED  BY <1>1, <1>7, <1>8, RestIsCalm DEF K!At

(* and is over where nothing is left.                                      *)
LEMMA ListedKeeps ==
  ASSUME SkillsInv, K!Listed
  PROVE  SkillsInv'
<1>1. /\ work # None /\ work.pc = "recover" /\ ~K!Leftovers /\ work' = None
      /\ due' = {K!Current}
      /\ UNCHANGED <<flat, dir, skillsStage, old, choice, hasty>>
  BY DEF K!Listed, K!At, K!Ends, K!Known, K!files
<1>2. K!TypeOK /\ choice \in BOOLEAN /\ hasty \in BOOLEAN /\ K!Current \in K!Copies \cup {None}
  BY CurrentIs DEF SkillsInv, SkillTypes
<1>3. SkillTypes'
  BY <1>1, <1>2 DEF SkillTypes, K!TypeOK
<1>4. ASSUME ~hasty' PROVE None \in {flat', dir'} /\ WillBeRepaired'
  <2>1. old = {}
    BY <1>1 DEF K!Leftovers
  <2>2. None \in {flat, dir} /\ AsTold(K!Current)
    BY <1>1, <1>4, <2>1, CalmRest DEF K!At
  <2>3. K!Current' = K!Current
    BY <1>1 DEF K!Current, K!Located, K!HasSkill
  <2>4. AsTold(K!Current)'
    BY <1>1, <2>2, <2>3 DEF AsTold
  <2>. QED  BY <1>1, <2>1, <2>2, <2>4, NothingIsLeft
<1>. QED  BY <1>1, <1>3, <1>4, RestIsCalm

(* Nothing changes where none of the variables does.                       *)
LEMMA SkillsStay ==
  ASSUME SkillsInv, UNCHANGED skillsVars
  PROVE  SkillsInv'
<1>1. /\ flat' = flat /\ dir' = dir /\ skillsStage' = skillsStage /\ old' = old
      /\ work' = work /\ due' = due /\ choice' = choice /\ hasty' = hasty
  BY DEF skillsVars
<1>2. /\ K!Current' = K!Current /\ K!Located' = K!Located
      /\ \A p : K!At(p)' <=> K!At(p)
      /\ \A c : AsTold(c)' <=> AsTold(c)
      /\ OldIsAside' <=> OldIsAside
  BY <1>1 DEF K!Current, K!Located, K!HasSkill, K!At, AsTold, OldIsAside, K!Mine
<1>3. SkillTypes'
  BY <1>1, <1>2 DEF SkillsInv, SkillTypes, K!TypeOK, WorkIsKnown
<1>4. WillBeRepaired' <=> WillBeRepaired
  BY <1>1, <1>2 DEF WillBeRepaired
<1>5. SkillsCalm'
  BY <1>1, <1>2, <1>4 DEF SkillsInv, SkillsCalm, CalmAt
<1>. QED  BY <1>3, <1>5 DEF SkillsInv

(* Every step keeps the invariant.                                         *)
LEMMA SkillsKept == SkillsInv /\ K!Next => SkillsInv'
<1> SUFFICES ASSUME SkillsInv, K!Next PROVE SkillsInv'
  OBVIOUS
<1>. QED
  BY WriteKeeps, SwitchKeeps, BundleKeeps, StageKeeps, StageFailsKeeps, AsideKeeps,
     PlaceKeeps, PlaceFailsKeeps, RestoreKeeps, DropKeeps, DeleteKeeps, DeleteDirKeeps,
     CrashKeeps, ListKeeps, RecoverStageKeeps, RecoverOldKeeps, ListedKeeps
  DEF K!Next

(* The invariant gives what the run checks.                                *)
LEMMA SkillsMean == SkillsInv => K!TypeOK /\ K!NeverHalfWritten /\ K!Recovered
<1> SUFFICES ASSUME SkillsInv PROVE K!NeverHalfWritten /\ K!Recovered
  BY DEF SkillsInv, SkillTypes
<1>1. K!TypeOK
  BY DEF SkillsInv, SkillTypes
<1>2. K!NeverHalfWritten
  <2> SUFFICES ASSUME work = None, ~hasty, K!Current # None PROVE K!Current \in due
    BY DEF K!NeverHalfWritten
  <2>1. flat # None \/ dir # None
    BY <1>1, CurrentIs
  <2>. QED  BY <2>1 DEF SkillsInv, SkillsCalm, WillBeRepaired, AsTold
<1>3. K!Recovered
  <2> SUFFICES ASSUME K!At("recover"), ~K!Leftovers, ~hasty
               PROVE  K!Current \in due /\ (K!Current # None => K!Current.off = choice)
    BY DEF K!Recovered
  <2>1. old = {}
    BY DEF K!Leftovers
  <2>. QED  BY <2>1, CalmRest DEF AsTold
<1>. QED  BY <1>2, <1>3

-----------------------------------------------------------------------------
(* Workspaces                                                              *)

WorkspaceRows ==
    [workspace : Checkouts \cup {None}, title : {"none", "owner", "exchange"},
     idle : BOOLEAN]
CloserRows ==
    [pc : {"idle", "read", "detach", "destroy", "create", "attach"},
     then : {None, "create", "idle"}, saw : Checkouts \cup {None},
     path : Checkouts \cup {None}]

WorkspaceTypes ==
    /\ disk \subseteq made /\ made \subseteq Checkouts
    /\ row = None \/ row \in WorkspaceRows
    /\ turn \in {"none", "accepted", "running"} /\ deleting \in {"no", "checked"}
    /\ calls \in [Calls -> CloserRows] /\ reaper \in CloserRows

(* Who may be closing the thread's checkout.                               *)
Closers == {calls[c] : c \in Calls} \cup {reaper}

(* Whoever closes goes on to what it was called for, saw a checkout that   *)
(* was made, and has taken it off the thread before it destroys it.        *)
CloserIsSound(p) ==
    /\ p.pc \in {"read", "detach", "destroy"} => p.then \in {"create", "idle"}
    /\ p.pc \in {"detach", "destroy"} => p.saw \in made
    /\ p.pc = "destroy" /\ W!Bound => p.saw # row.workspace

(* A checkout that is still to be attached is there, and nobody else's: it *)
(* is not another call's, not the thread's, and nobody closes it.          *)
PathIsOwn(c) ==
    calls[c].pc = "attach" =>
        /\ calls[c].path \in disk
        /\ W!Bound => calls[c].path # row.workspace
        /\ \A p \in Closers : p.pc \in {"detach", "destroy"} => p.saw # calls[c].path
        /\ \A d \in Calls \ {c} : calls[d].pc = "attach" => calls[d].path # calls[c].path

WorkspacesInv ==
    /\ WorkspaceTypes
    /\ W!BindingIsThere
    /\ \A p \in Closers : CloserIsSound(p)
    /\ \A c \in Calls : PathIsOwn(c)

(* Nothing is closed, made or bound where it starts.                       *)
LEMMA WorkspacesInit == W!Init => WorkspacesInv
<1> SUFFICES ASSUME W!Init PROVE WorkspacesInv
  OBVIOUS
<1>1. /\ row = None /\ disk = {} /\ made = {} /\ turn = "none" /\ deleting = "no"
      /\ calls = [c \in Calls |-> W!Idle] /\ reaper = W!Idle
  BY DEF W!Init
<1>2. W!Idle \in CloserRows /\ W!Idle.pc = "idle"
  BY DEF W!Idle, CloserRows
<1>3. WorkspaceTypes
  BY <1>1, <1>2 DEF WorkspaceTypes
<1>4. ~W!Bound
  BY <1>1 DEF W!Bound
<1>5. \A p \in Closers : p.pc = "idle"
  BY <1>1, <1>2 DEF Closers
<1>6. \A c \in Calls : calls[c].pc = "idle"
  BY <1>1, <1>2
<1>. QED
  BY <1>3, <1>4, <1>5, <1>6 DEF WorkspacesInv, W!BindingIsThere, CloserIsSound, PathIsOwn

(* What the thread, its messages and its turn do to each other leaves the  *)
(* checkouts alone: the thread keeps its binding or loses it.              *)
LEMMA BindingOnly ==
  ASSUME WorkspacesInv, UNCHANGED <<disk, made, calls, reaper>>,
         row' = None \/ row' \in WorkspaceRows,
         W!Bound' => W!Bound /\ row'.workspace = row.workspace,
         turn' \in {"none", "accepted", "running"}, deleting' \in {"no", "checked"}
  PROVE  WorkspacesInv'
<1>1. WorkspaceTypes'
  BY DEF WorkspacesInv, WorkspaceTypes
<1>2. W!BindingIsThere'
  BY DEF WorkspacesInv, W!BindingIsThere
<1>3. Closers' = Closers
  BY DEF Closers
<1>4. ASSUME NEW p \in Closers PROVE CloserIsSound(p)'
  BY <1>4 DEF WorkspacesInv, CloserIsSound
<1>5. ASSUME NEW c \in Calls PROVE PathIsOwn(c)'
  BY <1>3, <1>5 DEF WorkspacesInv, PathIsOwn
<1>. QED
  BY <1>1, <1>2, <1>3, <1>4, <1>5 DEF WorkspacesInv

(* The steps that touch no checkout.                                       *)
LEMMA ThreadSteps ==
  ASSUME WorkspacesInv,
         \/ W!CreateThread \/ W!Send \/ W!RenameThread \/ W!CheckDelete
         \/ W!DeleteThread \/ W!BeginTurn \/ W!EndTurn \/ W!Clock
  PROVE  WorkspacesInv'
<1>1. WorkspaceTypes
  BY DEF WorkspacesInv
<1>2. UNCHANGED <<disk, made, calls, reaper>>
  BY DEF W!CreateThread, W!Send, W!RenameThread, W!CheckDelete, W!DeleteThread,
         W!BeginTurn, W!EndTurn, W!Clock
<1>3. turn' \in {"none", "accepted", "running"} /\ deleting' \in {"no", "checked"}
  BY <1>1 DEF W!CreateThread, W!Send, W!RenameThread, W!CheckDelete, W!DeleteThread,
         W!BeginTurn, W!EndTurn, W!Clock, WorkspaceTypes
<1>4. /\ row' = None \/ row' \in WorkspaceRows
      /\ W!Bound' => W!Bound /\ row'.workspace = row.workspace
  <2>1. CASE W!CreateThread
    BY <2>1 DEF W!CreateThread, W!New, WorkspaceRows, W!Bound
  <2>2. CASE W!RenameThread
    BY <1>1, <2>2 DEF W!RenameThread, WorkspaceRows, W!Bound, WorkspaceTypes
  <2>3. CASE W!DeleteThread
    BY <2>3 DEF W!DeleteThread, W!Bound
  <2>4. CASE W!BeginTurn
    BY <1>1, <2>4 DEF W!BeginTurn, W!Written, WorkspaceRows, W!Bound, WorkspaceTypes
  <2>5. CASE W!EndTurn
    BY <1>1, <2>5 DEF W!EndTurn, WorkspaceRows, W!Bound, WorkspaceTypes
  <2>6. CASE W!Clock
    BY <1>1, <2>6 DEF W!Clock, WorkspaceRows, W!Bound, WorkspaceTypes
  <2>7. CASE W!Send \/ W!CheckDelete
    BY <1>1, <2>7 DEF W!Send, W!CheckDelete, W!Bound, WorkspaceTypes
  <2>. QED  BY <2>1, <2>2, <2>3, <2>4, <2>5, <2>6, <2>7
<1>. QED  BY <1>2, <1>3, <1>4, BindingOnly

(* What a step of a close does, with what becomes of its caller.           *)
LEMMA CloseStepDoes ==
  ASSUME WorkspacesInv, NEW p \in Closers, NEW q, W!CloseStep(p, q)
  PROVE  /\ made' = made /\ turn' = turn /\ deleting' = deleting
         /\ row' = row \/ (row' = W!Detached /\ ~W!Bound')
         /\ row' = None \/ row' \in WorkspaceRows
         /\ disk' = disk \/ (p.pc = "destroy" /\ disk' = disk \ {p.saw} /\ row' = row)
         /\ q \in CloserRows /\ q.pc # "attach"
         /\ q.pc \in {"detach", "destroy"} =>
                /\ q.then \in {"create", "idle"} /\ q.saw \in made
                /\ \/ p.pc \in {"detach", "destroy"} /\ q.saw = p.saw
                   \/ W!Bound /\ q.saw = row.workspace
         /\ q.pc = "read" => q.then \in {"create", "idle"}
         /\ q.pc = "destroy" => ~W!Bound'
<1>1. /\ WorkspaceTypes /\ CloserIsSound(p)
      /\ p \in CloserRows
  BY DEF WorkspacesInv, WorkspaceTypes, Closers
<1>2. made' = made /\ turn' = turn /\ deleting' = deleting
  BY DEF W!CloseStep
<1>3. W!Idle \in CloserRows /\ W!Idle.pc = "idle"
  BY DEF W!Idle, CloserRows
<1>4. CASE p.pc = "read" /\ q = W!Reads(p) /\ UNCHANGED <<row, disk>>
  <2>1. CASE W!Bound
    <3>1. row \in WorkspaceRows /\ row.workspace \in Checkouts \cup {None} /\ row.workspace \in made
      BY <1>1, <2>1 DEF W!Bound, WorkspaceTypes, WorkspaceRows, WorkspacesInv, W!BindingIsThere
    <3>2. q = [p EXCEPT !.pc = "detach", !.saw = row.workspace]
      BY <1>4, <2>1 DEF W!Reads, W!Steps
    <3>3. q \in CloserRows /\ q.pc = "detach" /\ q.saw = row.workspace /\ q.then = p.then
      BY <1>1, <3>1, <3>2 DEF CloserRows
    <3>4. p.then \in {"create", "idle"}
      BY <1>1, <1>4 DEF CloserIsSound
    <3>. QED  BY <1>1, <1>2, <1>4, <2>1, <3>1, <3>3, <3>4 DEF WorkspaceTypes
  <2>2. CASE ~W!Bound
    <3>1. p.then \in {"create", "idle"}
      BY <1>1, <1>4 DEF CloserIsSound
    <3>2. q = W!Idle \/ (p.then = "create" /\ q = [p EXCEPT !.pc = "create"])
      BY <1>4, <2>2, <3>1 DEF W!Reads
    <3>3. q \in CloserRows /\ q.pc \in {"idle", "create"}
      BY <1>1, <1>3, <3>2 DEF CloserRows
    <3>. QED  BY <1>1, <1>2, <1>4, <3>3 DEF WorkspaceTypes
  <2>. QED  BY <2>1, <2>2
<1>5. CASE p.pc = "detach" /\ row' = W!Detached /\ q = W!Back(p) /\ UNCHANGED disk
  <2>1. q = [p EXCEPT !.pc = "destroy"]
    BY <1>5 DEF W!Back, W!After, W!Steps
  <2>2. q \in CloserRows /\ q.pc = "destroy" /\ q.saw = p.saw /\ q.then = p.then
    BY <1>1, <2>1 DEF CloserRows
  <2>3. p.then \in {"create", "idle"} /\ p.saw \in made
    BY <1>1, <1>5 DEF CloserIsSound
  <2>4. row' = None \/ (row' \in WorkspaceRows /\ row'.workspace = None)
    BY <1>1, <1>5 DEF W!Detached, WorkspaceTypes, WorkspaceRows
  <2>5. ~W!Bound'
    BY <2>4 DEF W!Bound
  <2>. QED  BY <1>2, <1>5, <2>2, <2>3, <2>4, <2>5
<1>6. CASE p.pc = "destroy" /\ disk' = disk \ {p.saw} /\ q = W!Back(p) /\ UNCHANGED row
  <2>1. p.then \in {"create", "idle"}
    BY <1>1, <1>6 DEF CloserIsSound
  <2>2. q = W!Idle \/ (p.then = "create" /\ q = [p EXCEPT !.pc = "create"])
    BY <1>6, <2>1 DEF W!Back, W!After, W!Steps
  <2>3. q \in CloserRows /\ q.pc \in {"idle", "create"}
    BY <1>1, <1>3, <2>2 DEF CloserRows
  <2>. QED  BY <1>1, <1>2, <1>6, <2>3 DEF WorkspaceTypes
<1>. QED  BY <1>4, <1>5, <1>6 DEF W!CloseStep

(* A step of a close, whoever's it is: the other processes stay, and the   *)
(* one that closes takes the step's outcome.                               *)
LEMMA CloseStepKeeps ==
  ASSUME WorkspacesInv, NEW p \in Closers, NEW q, W!CloseStep(p, q),
         calls' \in [Calls -> CloserRows], reaper' \in CloserRows,
         Closers' \subseteq Closers \cup {q},
         \A c \in Calls : calls'[c] = calls[c] \/ calls'[c] = q
  PROVE  WorkspacesInv'
<1>1. /\ made' = made /\ turn' = turn /\ deleting' = deleting
      /\ row' = row \/ (row' = W!Detached /\ ~W!Bound')
      /\ row' = None \/ row' \in WorkspaceRows
      /\ disk' = disk \/ (p.pc = "destroy" /\ disk' = disk \ {p.saw} /\ row' = row)
      /\ q \in CloserRows /\ q.pc # "attach"
      /\ q.pc \in {"detach", "destroy"} =>
             /\ q.then \in {"create", "idle"} /\ q.saw \in made
             /\ \/ p.pc \in {"detach", "destroy"} /\ q.saw = p.saw
                \/ W!Bound /\ q.saw = row.workspace
      /\ q.pc = "read" => q.then \in {"create", "idle"}
      /\ q.pc = "destroy" => ~W!Bound'
  BY CloseStepDoes
<1>2. /\ WorkspaceTypes /\ W!BindingIsThere
      /\ \A r \in Closers : CloserIsSound(r)
      /\ \A c \in Calls : PathIsOwn(c)
  BY DEF WorkspacesInv
<1>3. W!Bound' => W!Bound /\ row' = row
  BY <1>1 DEF W!Bound
<1>4. WorkspaceTypes'
  BY <1>1, <1>2 DEF WorkspaceTypes
<1>5. W!BindingIsThere'
  <2> SUFFICES ASSUME W!Bound' PROVE row'.workspace \in disk'
    BY DEF W!BindingIsThere
  <2>1. row'.workspace \in disk /\ W!Bound /\ row' = row
    BY <1>2, <1>3 DEF W!BindingIsThere
  <2>2. p.pc = "destroy" => p.saw # row.workspace
    BY <1>2, <2>1 DEF CloserIsSound
  <2>. QED  BY <1>1, <2>1, <2>2
<1>6. ASSUME NEW r \in Closers' PROVE CloserIsSound(r)'
  <2>1. CASE r \in Closers
    BY <1>1, <1>2, <1>3, <2>1 DEF CloserIsSound
  <2>2. CASE r = q
    BY <1>1, <2>2 DEF CloserIsSound
  <2>. QED  BY <1>6, <2>1, <2>2
<1>7. ASSUME NEW c \in Calls PROVE PathIsOwn(c)'
  <2> SUFFICES ASSUME calls'[c].pc = "attach"
               PROVE  /\ calls'[c].path \in disk'
                      /\ W!Bound' => calls'[c].path # row'.workspace
                      /\ \A r \in Closers' :
                            r.pc \in {"detach", "destroy"} => r.saw # calls'[c].path
                      /\ \A d \in Calls \ {c} :
                            calls'[d].pc = "attach" => calls'[d].path # calls'[c].path
    BY DEF PathIsOwn
  <2>1. calls'[c] = calls[c]
    BY <1>1
  <2>2. /\ calls[c].path \in disk
        /\ W!Bound => calls[c].path # row.workspace
        /\ \A r \in Closers : r.pc \in {"detach", "destroy"} => r.saw # calls[c].path
        /\ \A d \in Calls \ {c} : calls[d].pc = "attach" => calls[d].path # calls[c].path
    BY <1>2, <2>1 DEF PathIsOwn
  <2>3. calls'[c].path \in disk'
    BY <1>1, <2>1, <2>2
  <2>4. W!Bound' => calls'[c].path # row'.workspace
    BY <1>3, <2>1, <2>2
  <2>5. ASSUME NEW r \in Closers', r.pc \in {"detach", "destroy"}
        PROVE  r.saw # calls'[c].path
    <3>1. CASE r \in Closers
      BY <2>1, <2>2, <2>5, <3>1
    <3>2. CASE r = q
      BY <1>1, <2>1, <2>2, <2>5, <3>2
    <3>. QED  BY <2>5, <3>1, <3>2
  <2>6. ASSUME NEW d \in Calls \ {c}, calls'[d].pc = "attach"
        PROVE  calls'[d].path # calls'[c].path
    BY <1>1, <2>1, <2>2, <2>6
  <2>. QED  BY <2>3, <2>4, <2>5, <2>6
<1>. QED
  BY <1>4, <1>5, <1>6, <1>7 DEF WorkspacesInv

(* A call or the reaper begins by reading, and touches nothing yet.        *)
LEMMA ReadsFirst ==
  ASSUME WorkspacesInv, UNCHANGED <<row, disk, made, turn, deleting>>,
         NEW q \in CloserRows, q.pc = "read", q.then \in {"create", "idle"},
         calls' \in [Calls -> CloserRows], reaper' \in CloserRows,
         Closers' \subseteq Closers \cup {q},
         \A c \in Calls : calls'[c] = calls[c] \/ calls'[c] = q
  PROVE  WorkspacesInv'
<1>1. /\ WorkspaceTypes /\ W!BindingIsThere
      /\ \A r \in Closers : CloserIsSound(r)
      /\ \A c \in Calls : PathIsOwn(c)
  BY DEF WorkspacesInv
<1>2. WorkspaceTypes' /\ W!BindingIsThere' /\ (W!Bound' <=> W!Bound)
  BY <1>1 DEF WorkspaceTypes, W!BindingIsThere, W!Bound
<1>3. ASSUME NEW r \in Closers' PROVE CloserIsSound(r)'
  BY <1>1, <1>2, <1>3 DEF CloserIsSound
<1>4. ASSUME NEW c \in Calls PROVE PathIsOwn(c)'
  <2> SUFFICES ASSUME calls'[c].pc = "attach"
               PROVE  /\ calls'[c].path \in disk'
                      /\ W!Bound' => calls'[c].path # row'.workspace
                      /\ \A r \in Closers' :
                            r.pc \in {"detach", "destroy"} => r.saw # calls'[c].path
                      /\ \A d \in Calls \ {c} :
                            calls'[d].pc = "attach" => calls'[d].path # calls'[c].path
    BY DEF PathIsOwn
  <2>1. calls'[c] = calls[c]
    OBVIOUS
  <2>2. /\ calls[c].path \in disk
        /\ W!Bound => calls[c].path # row.workspace
        /\ \A r \in Closers : r.pc \in {"detach", "destroy"} => r.saw # calls[c].path
        /\ \A d \in Calls \ {c} : calls[d].pc = "attach" => calls[d].path # calls[c].path
    BY <1>1, <2>1 DEF PathIsOwn
  <2>. QED  BY <1>2, <2>1, <2>2
<1>. QED
  BY <1>2, <1>3, <1>4 DEF WorkspacesInv

(* Each step of a call,                                                    *)
LEMMA CallStarts ==
  ASSUME WorkspacesInv, NEW c \in Calls, W!StartCall(c)
  PROVE  WorkspacesInv'
<1>1. PICK then \in {"create", "idle"} :
        calls' = [calls EXCEPT ![c] = [W!Idle EXCEPT !.pc = "read", !.then = then]]
  BY DEF W!StartCall
<1>2. PICK q : q = [W!Idle EXCEPT !.pc = "read", !.then = then]
  OBVIOUS
<1>3. q \in CloserRows /\ q.pc = "read" /\ q.then \in {"create", "idle"}
  BY <1>2 DEF W!Idle, CloserRows
<1>4. calls \in [Calls -> CloserRows] /\ reaper \in CloserRows
  BY DEF WorkspacesInv, WorkspaceTypes
<1>5. /\ calls' \in [Calls -> CloserRows]
      /\ \A d \in Calls : calls'[d] = calls[d] \/ calls'[d] = q
  BY <1>1, <1>2, <1>3, <1>4
<1>6. UNCHANGED <<row, disk, made, turn, deleting>> /\ reaper' = reaper
  BY DEF W!StartCall
<1>7. Closers' \subseteq Closers \cup {q}
  BY <1>5, <1>6 DEF Closers
<1>. QED  BY <1>3, <1>4, <1>5, <1>6, <1>7, ReadsFirst

LEMMA CallGoesOn ==
  ASSUME WorkspacesInv, NEW c \in Calls, W!CallCloses(c)
  PROVE  WorkspacesInv'
<1>1. PICK q : W!CloseStep(calls[c], q) /\ calls' = [calls EXCEPT ![c] = q]
  BY DEF W!CallCloses
<1>2. calls[c] \in Closers
  BY DEF Closers
<1>3. q \in CloserRows
  BY <1>1, <1>2, CloseStepDoes
<1>4. calls \in [Calls -> CloserRows] /\ reaper \in CloserRows /\ reaper' = reaper
  BY DEF WorkspacesInv, WorkspaceTypes, W!CallCloses
<1>5. /\ calls' \in [Calls -> CloserRows]
      /\ \A d \in Calls : calls'[d] = calls[d] \/ calls'[d] = q
  BY <1>1, <1>3, <1>4
<1>6. Closers' \subseteq Closers \cup {q}
  BY <1>4, <1>5 DEF Closers
<1>. QED  BY <1>1, <1>2, <1>4, <1>5, <1>6, CloseStepKeeps

(* of the reaper,                                                          *)
LEMMA ReaperGoesOn ==
  ASSUME WorkspacesInv, W!StartReap \/ W!Reap
  PROVE  WorkspacesInv'
<1>1. calls \in [Calls -> CloserRows] /\ reaper \in CloserRows /\ calls' = calls
  BY DEF WorkspacesInv, WorkspaceTypes, W!StartReap, W!Reap
<1>2. reaper \in Closers /\ Closers' \subseteq Closers \cup {reaper'}
  BY <1>1 DEF Closers
<1>3. CASE W!StartReap
  <2>1. reaper' \in CloserRows /\ reaper'.pc = "read" /\ reaper'.then = "idle"
    BY <1>3 DEF W!StartReap, W!Idle, CloserRows
  <2>2. UNCHANGED <<row, disk, made, turn, deleting>>
    BY <1>3 DEF W!StartReap
  <2>. QED  BY <1>1, <1>2, <2>1, <2>2, ReadsFirst
<1>4. CASE W!Reap
  <2>1. W!CloseStep(reaper, reaper')
    BY <1>4 DEF W!Reap
  <2>2. reaper' \in CloserRows
    BY <1>2, <2>1, CloseStepDoes
  <2>. QED  BY <1>1, <1>2, <2>1, <2>2, CloseStepKeeps
<1>. QED  BY <1>3, <1>4

(* of a clone, whose directory is new,                                     *)
LEMMA CloneKeeps ==
  ASSUME WorkspacesInv, NEW c \in Calls, W!Clone(c)
  PROVE  WorkspacesInv'
<1>1. /\ WorkspaceTypes /\ W!BindingIsThere
      /\ \A r \in Closers : CloserIsSound(r)
      /\ \A d \in Calls : PathIsOwn(d)
  BY DEF WorkspacesInv
<1>2. UNCHANGED <<row, messages, turn, reaper, deleting>>
  BY DEF W!Clone
<1>3. calls \in [Calls -> CloserRows] /\ reaper \in CloserRows
  BY <1>1 DEF WorkspaceTypes
<1>4. W!Bound' <=> W!Bound
  BY <1>2 DEF W!Bound
<1>5. ASSUME NEW w \in Checkouts \ made, made' = made \cup {w}, disk' = disk \cup {w},
             calls' = [calls EXCEPT ![c].pc = "attach", ![c].path = w]
      PROVE  WorkspacesInv'
  <2>1. /\ calls' \in [Calls -> CloserRows]
        /\ calls'[c].pc = "attach" /\ calls'[c].path = w
        /\ \A d \in Calls \ {c} : calls'[d] = calls[d]
    BY <1>3, <1>5 DEF CloserRows
  <2>2. WorkspaceTypes'
    BY <1>1, <1>2, <1>5, <2>1 DEF WorkspaceTypes
  <2>3. W!BindingIsThere'
    BY <1>1, <1>2, <1>4, <1>5 DEF W!BindingIsThere
  <2>4. \A r \in Closers' : r \in Closers \/ r = calls'[c]
    BY <1>2, <2>1 DEF Closers
  <2>5. ASSUME NEW r \in Closers' PROVE CloserIsSound(r)'
    BY <1>1, <1>2, <1>4, <1>5, <2>1, <2>4, <2>5 DEF CloserIsSound
  <2>6. W!Bound => row.workspace \in made
    BY <1>1 DEF WorkspaceTypes, W!BindingIsThere
  <2>7. ASSUME NEW r \in Closers', r.pc \in {"detach", "destroy"}
        PROVE  r \in Closers /\ r.saw \in made
    BY <1>1, <2>1, <2>4, <2>7 DEF CloserIsSound
  <2>8. ASSUME NEW d \in Calls \ {c}, calls'[d].pc = "attach"
        PROVE  /\ calls'[d] = calls[d] /\ calls[d].path \in disk /\ calls[d].path \in made
               /\ W!Bound => calls[d].path # row.workspace
               /\ \A r \in Closers : r.pc \in {"detach", "destroy"} => r.saw # calls[d].path
               /\ \A e \in Calls \ {d} : calls[e].pc = "attach" => calls[e].path # calls[d].path
    BY <1>1, <2>1, <2>8 DEF PathIsOwn, WorkspaceTypes
  <2>9. PathIsOwn(c)'
    BY <1>2, <1>4, <1>5, <2>1, <2>6, <2>7, <2>8 DEF PathIsOwn
  <2>10. ASSUME NEW d \in Calls \ {c} PROVE PathIsOwn(d)'
    <3> SUFFICES ASSUME calls'[d].pc = "attach"
                 PROVE  /\ calls'[d].path \in disk'
                        /\ W!Bound' => calls'[d].path # row'.workspace
                        /\ \A r \in Closers' :
                              r.pc \in {"detach", "destroy"} => r.saw # calls'[d].path
                        /\ \A e \in Calls \ {d} :
                              calls'[e].pc = "attach" => calls'[e].path # calls'[d].path
      BY DEF PathIsOwn
    <3>1. calls'[d] = calls[d] /\ calls[d].path \in disk
      BY <2>8
    <3>4. calls'[d].path \in disk'
      BY <1>5, <3>1
    <3>5. W!Bound' => calls'[d].path # row'.workspace
      BY <1>2, <1>4, <2>8
    <3>2. \A r \in Closers' : r.pc \in {"detach", "destroy"} => r.saw # calls'[d].path
      BY <2>7, <2>8
    <3>3. ASSUME NEW e \in Calls \ {d}, calls'[e].pc = "attach"
          PROVE  calls'[e].path # calls'[d].path
      <4>1. CASE e = c
        BY <1>5, <2>1, <2>8, <4>1
      <4>2. CASE e # c
        BY <2>1, <2>8, <3>3, <4>2
      <4>. QED  BY <4>1, <4>2
    <3>. QED  BY <3>2, <3>3, <3>4, <3>5
  <2>. QED  BY <2>2, <2>3, <2>5, <2>9, <2>10 DEF WorkspacesInv
<1>6. CASE calls' = [calls EXCEPT ![c] = W!Idle] /\ UNCHANGED <<made, disk>>
  <2>1. W!Idle \in CloserRows /\ W!Idle.pc = "idle"
    BY DEF W!Idle, CloserRows
  <2>2. /\ calls' \in [Calls -> CloserRows] /\ calls'[c] = W!Idle
        /\ \A d \in Calls \ {c} : calls'[d] = calls[d]
    BY <1>3, <1>6, <2>1
  <2>3. WorkspaceTypes' /\ W!BindingIsThere'
    BY <1>1, <1>2, <1>4, <1>6, <2>2 DEF WorkspaceTypes, W!BindingIsThere
  <2>4. \A r \in Closers' : r \in Closers \/ r = W!Idle
    BY <1>2, <2>2 DEF Closers
  <2>5. ASSUME NEW r \in Closers' PROVE CloserIsSound(r)'
    BY <1>1, <1>2, <1>4, <1>6, <2>1, <2>4, <2>5 DEF CloserIsSound
  <2>6. ASSUME NEW d \in Calls PROVE PathIsOwn(d)'
    BY <1>1, <1>2, <1>4, <1>6, <2>1, <2>2, <2>4, <2>6 DEF PathIsOwn
  <2>. QED  BY <2>3, <2>5, <2>6 DEF WorkspacesInv
<1>. QED  BY <1>5, <1>6 DEF W!Clone

(* of an attachment, after which the checkout is the thread's and no call's, *)
LEMMA AttachKeeps ==
  ASSUME WorkspacesInv, NEW c \in Calls, W!Attach(c)
  PROVE  WorkspacesInv'
<1>1. /\ WorkspaceTypes /\ W!BindingIsThere
      /\ \A r \in Closers : CloserIsSound(r)
      /\ \A d \in Calls : PathIsOwn(d)
  BY DEF WorkspacesInv
<1>2. UNCHANGED <<messages, made, turn, reaper, deleting>>
  BY DEF W!Attach
<1>3. calls \in [Calls -> CloserRows] /\ reaper \in CloserRows
  BY <1>1 DEF WorkspaceTypes
<1>4. PICK w : w = calls[c].path
  OBVIOUS
<1>5. /\ w \in disk /\ w \in made /\ w \in Checkouts
      /\ W!Bound => w # row.workspace
      /\ \A r \in Closers : r.pc \in {"detach", "destroy"} => r.saw # w
      /\ \A d \in Calls \ {c} : calls[d].pc = "attach" => calls[d].path # w
  BY <1>1, <1>4 DEF PathIsOwn, W!Attach, WorkspaceTypes
<1>6. W!Idle \in CloserRows /\ W!Idle.pc = "idle"
  BY DEF W!Idle, CloserRows
<1>7. /\ calls' \in [Calls -> CloserRows] /\ calls'[c] = W!Idle
      /\ \A d \in Calls \ {c} : calls'[d] = calls[d]
  BY <1>3, <1>6 DEF W!Attach
<1>8. \A r \in Closers' : r \in Closers \/ r = W!Idle
  BY <1>2, <1>7 DEF Closers
<1>9. \/ /\ row' \in WorkspaceRows /\ row'.workspace = w /\ disk' = disk
      \/ row' = row /\ disk' = disk \ {w}
  <2>1. W!New \in WorkspaceRows
    BY DEF W!New, WorkspaceRows
  <2>2. PICK r0 : r0 = IF row = None THEN W!New ELSE row
    OBVIOUS
  <2>3. r0 \in WorkspaceRows
    BY <1>1, <2>1, <2>2 DEF WorkspaceTypes
  <2>4. [r0 EXCEPT !.workspace = w, !.idle = FALSE] \in WorkspaceRows
    BY <1>5, <2>3 DEF WorkspaceRows
  <2>5. [r0 EXCEPT !.workspace = w, !.idle = FALSE].workspace = w
    BY <2>3 DEF WorkspaceRows
  <2>. QED  BY <1>4, <2>2, <2>4, <2>5 DEF W!Attach
<1>10. W!Bound' => \/ row'.workspace = w /\ disk' = disk
                   \/ W!Bound /\ row' = row
  BY <1>9 DEF W!Bound
<1>11. WorkspaceTypes'
  BY <1>1, <1>2, <1>7, <1>9 DEF WorkspaceTypes
<1>12. W!BindingIsThere'
  BY <1>1, <1>5, <1>9, <1>10 DEF W!BindingIsThere
<1>13. ASSUME NEW r \in Closers' PROVE CloserIsSound(r)'
  BY <1>1, <1>2, <1>5, <1>6, <1>8, <1>10, <1>13 DEF CloserIsSound
<1>14. ASSUME NEW d \in Calls PROVE PathIsOwn(d)'
  <2> SUFFICES ASSUME calls'[d].pc = "attach" PROVE PathIsOwn(d)'
    BY DEF PathIsOwn
  <2>1. d # c /\ calls'[d] = calls[d] /\ calls[d].path # w
    BY <1>5, <1>6, <1>7
  <2>2. /\ calls[d].path \in disk
        /\ W!Bound => calls[d].path # row.workspace
        /\ \A r \in Closers : r.pc \in {"detach", "destroy"} => r.saw # calls[d].path
        /\ \A e \in Calls \ {d} : calls[e].pc = "attach" => calls[e].path # calls[d].path
    BY <1>1, <2>1 DEF PathIsOwn
  <2>3. calls'[d].path \in disk' /\ (W!Bound' => calls'[d].path # row'.workspace)
    BY <1>9, <1>10, <2>1, <2>2
  <2>4. \A r \in Closers' : r.pc \in {"detach", "destroy"} => r.saw # calls'[d].path
    BY <1>6, <1>8, <2>1, <2>2
  <2>5. \A e \in Calls \ {d} : calls'[e].pc = "attach" => calls'[e].path # calls'[d].path
    BY <1>6, <1>7, <2>1, <2>2
  <2>. QED  BY <2>3, <2>4, <2>5 DEF PathIsOwn
<1>. QED  BY <1>11, <1>12, <1>13, <1>14 DEF WorkspacesInv

(* and of a restart, after which nothing runs and a binding to what is     *)
(* gone is dropped.                                                        *)
LEMMA RestartKeeps ==
  ASSUME WorkspacesInv, W!Restart
  PROVE  WorkspacesInv'
<1>1. WorkspaceTypes /\ W!BindingIsThere
  BY DEF WorkspacesInv
<1>2. PICK there \in {disk, {}} :
        /\ disk' = there
        /\ row' = IF W!Bound /\ ~W!Verified(there) THEN W!Detached ELSE row
  BY DEF W!Restart
<1>3. /\ turn' = "none" /\ deleting' = "no" /\ made' = made
      /\ calls' = [c \in Calls |-> W!Idle] /\ reaper' = W!Idle
  BY DEF W!Restart
<1>4. W!Idle \in CloserRows /\ W!Idle.pc = "idle"
  BY DEF W!Idle, CloserRows
<1>5. row' = None \/ row' \in WorkspaceRows
  BY <1>1, <1>2 DEF W!Detached, WorkspaceTypes, WorkspaceRows
<1>6. WorkspaceTypes'
  BY <1>1, <1>2, <1>3, <1>4, <1>5 DEF WorkspaceTypes
<1>7. W!BindingIsThere'
  <2> SUFFICES ASSUME W!Bound' PROVE row'.workspace \in disk'
    BY DEF W!BindingIsThere
  <2>1. row' # None /\ row'.workspace # None
    BY DEF W!Bound
  <2>2. row' = row /\ (W!Bound => W!Verified(there))
    BY <1>1, <1>2, <2>1 DEF W!Detached, WorkspaceTypes, WorkspaceRows
  <2>3. W!Bound
    BY <2>1, <2>2 DEF W!Bound
  <2>. QED  BY <1>2, <2>2, <2>3 DEF W!Verified
<1>8. \A p \in Closers' : p.pc = "idle"
  BY <1>3, <1>4 DEF Closers
<1>9. \A c \in Calls : calls'[c].pc = "idle"
  BY <1>3, <1>4
<1>10. (\A p \in Closers : CloserIsSound(p))' /\ (\A c \in Calls : PathIsOwn(c))'
  BY <1>8, <1>9 DEF CloserIsSound, PathIsOwn
<1>. QED  BY <1>6, <1>7, <1>10 DEF WorkspacesInv

(* Every step of the workspaces keeps their invariant.                     *)
LEMMA WorkspacesKept ==
  WorkspacesInv /\ (W!Next \/ UNCHANGED workspacesVars) => WorkspacesInv'
<1> SUFFICES ASSUME WorkspacesInv, W!Next \/ UNCHANGED workspacesVars
             PROVE  WorkspacesInv'
  OBVIOUS
<1>1. CASE W!Next
  BY <1>1, ThreadSteps, CallStarts, CallGoesOn, CloneKeeps, AttachKeeps, ReaperGoesOn,
     RestartKeeps DEF W!Next
<1>2. CASE UNCHANGED workspacesVars
  <2>1. UNCHANGED <<row, disk, made, turn, calls, reaper, deleting>>
    BY <1>2 DEF workspacesVars
  <2>2. UNCHANGED <<disk, made, calls, reaper>> /\ row' = row /\ turn' = turn
        /\ deleting' = deleting
    BY <2>1
  <2>. QED  BY <2>2, BindingOnly DEF WorkspacesInv, WorkspaceTypes, W!Bound
<1>. QED  BY <1>1, <1>2

(* The invariant gives what the run checks.                                *)
LEMMA WorkspacesMean == WorkspacesInv => W!TypeOK /\ W!BindingIsThere
  BY DEF WorkspacesInv, WorkspaceTypes, W!TypeOK, W!BindingIsThere

-----------------------------------------------------------------------------
(* What works on code and on skills                                        *)

SumInv ==
    /\ focus \in {"runs", "coding", "installs", "skills", "workspaces"}
    /\ focus = "runs" => IInv
    /\ focus = "coding" => CodingInv
    /\ focus = "installs" => InstallsInv
    /\ focus = "skills" => SkillsInv
    /\ focus = "workspaces" => WorkspacesInv

(* A step is one of the component that the behaviour is about, or leaves   *)
(* it alone.                                                               *)
LEMMA StepOfFocus ==
  ASSUME [SumNext]_sumVars
  PROVE  /\ focus' = focus
         /\ focus = "runs" => [Next]_vars
         /\ focus = "coding" => C!Next \/ UNCHANGED codingVars
         /\ focus = "installs" => I!Next \/ UNCHANGED installsVars
         /\ focus = "skills" => K!Next \/ UNCHANGED skillsVars
         /\ focus = "workspaces" => W!Next \/ UNCHANGED workspacesVars
         /\ focus # "coding" => UNCHANGED codingVars
<1>1. CASE UNCHANGED sumVars
  <2>1. UNCHANGED <<focus, runsVars, codingVars, installsVars, skillsVars,
                    workspacesVars>>
    BY <1>1 DEF sumVars
  <2>2. UNCHANGED runsVars => UNCHANGED vars
    <3> SUFFICES ASSUME UNCHANGED runsVars PROVE UNCHANGED vars
      OBVIOUS
    <3>1. /\ UNCHANGED state /\ UNCHANGED created /\ UNCHANGED stage
          /\ UNCHANGED cloned /\ UNCHANGED generation /\ UNCHANGED lapsed
          /\ UNCHANGED token /\ UNCHANGED enabled /\ UNCHANGED current
          /\ UNCHANGED pc /\ UNCHANGED job /\ UNCHANGED duty
          /\ UNCHANGED todo /\ UNCHANGED held /\ UNCHANGED erred
          /\ UNCHANGED cancels /\ UNCHANGED signalled /\ UNCHANGED op
          /\ UNCHANGED asked /\ UNCHANGED branch /\ UNCHANGED pulls
          /\ UNCHANGED announced /\ UNCHANGED crashes /\ UNCHANGED faults
      BY DEF runsVars
    <3>. QED
      BY <3>1 DEF vars, rowVars, ownerVars, workerVars, signalVars, remoteVars,
                  boundVars
  <2>. QED  BY <2>1, <2>2
<1>2. CASE SumNext
  BY <1>2 DEF SumNext, RunsStep, CodingStep, InstallsStep, SkillsStep,
              WorkspacesStep
<1>. QED  BY <1>1, <1>2

(* The invariant holds at first, whatever the behaviour is about,          *)
LEMMA SumInitInv == SumInit => SumInv
<1> SUFFICES ASSUME SumInit PROVE SumInv
  OBVIOUS
<1>1. /\ focus \in {"runs", "coding", "installs", "skills", "workspaces"}
      /\ focus = "runs" => Init
      /\ focus = "coding" => C!Init
      /\ focus = "installs" => I!Init
      /\ focus = "skills" => K!Init
      /\ focus = "workspaces" => W!Init
  BY DEF SumInit
<1>. QED
  BY <1>1, InitInv, CodingInit, InstallsInit, SkillsInit, WorkspacesInit
  DEF SumInv

(* and every step keeps it.                                                *)
LEMMA SumStep == SumInv /\ [SumNext]_sumVars => SumInv'
<1> SUFFICES ASSUME SumInv, [SumNext]_sumVars PROVE SumInv'
  OBVIOUS
<1>0. focus' = focus /\ focus \in {"runs", "coding", "installs", "skills", "workspaces"}
  BY StepOfFocus DEF SumInv
<1>1. CASE focus = "runs"
  <2>1. IInv /\ [Next]_vars
    BY <1>1, StepOfFocus DEF SumInv
  <2>2. IInv'
    BY <2>1, TypeStep, OwnStep, RestStep DEF IInv, Rest
  <2>. QED  BY <1>0, <1>1, <2>2 DEF SumInv
<1>2. CASE focus = "coding"
  <2>1. CodingInv'
    BY <1>2, StepOfFocus, CodingKept, CodingStays DEF SumInv
  <2>. QED  BY <1>0, <1>2, <2>1 DEF SumInv
<1>3. CASE focus = "installs"
  <2>1. InstallsInv'
    BY <1>3, StepOfFocus, InstallsKept, InstallsStay DEF SumInv
  <2>. QED  BY <1>0, <1>3, <2>1 DEF SumInv
<1>4. CASE focus = "skills"
  <2>1. SkillsInv'
    BY <1>4, StepOfFocus, SkillsKept, SkillsStay DEF SumInv
  <2>. QED  BY <1>0, <1>4, <2>1 DEF SumInv
<1>5. CASE focus = "workspaces"
  <2>1. WorkspacesInv'
    BY <1>5, StepOfFocus, WorkspacesKept DEF SumInv
  <2>. QED  BY <1>0, <1>5, <2>1 DEF SumInv
<1>. QED
  BY <1>0, <1>1, <1>2, <1>3, <1>4, <1>5

(* Whatever the behaviour is about, its invariant holds at every state.    *)
THEOREM SumInductive == SumSpec => []SumInv
<1>. QED  BY SumInitInv, SumStep, PTL DEF SumSpec

(* Every variable of the component at hand keeps its type, for any number  *)
(* of runs, texts, edits, skills, servers, versions, checkouts and calls.  *)
THEOREM SumTyped == SumSpec => []SumTypeOK
<1>1. SumInv => SumTypeOK
  BY CodingMeans, InstallsMean, SkillsMean, WorkspacesMean
  DEF SumInv, SumTypeOK, IInv
<1>. QED  BY <1>1, SumInductive, PTL

(* An edit call that is accepted makes the file what its edits say, each   *)
(* at the place that its old text had when the call began.                 *)
LEMMA EditsStepSafe ==
  SumInv /\ [SumNext]_sumVars
    => [C!EditLands]_(C!vars)
<1> SUFFICES ASSUME SumInv, [SumNext]_sumVars, ~UNCHANGED C!vars,
                    NEW c \in EditCalls, C!EditCall(c)
             PROVE  C!TextOf(tree'.main) = C!AsWritten(C!TextOf(tree.main), c)
  BY DEF C!EditLands
<1>1. focus = "coding"
  BY StepOfFocus DEF C!vars, codingVars
<1>2. CodingInv
  BY <1>1 DEF SumInv
<1>. QED  BY <1>2, CodingEdits

(* The edits of one call land where their old text was when it began, a    *)
(* read that is followed to its end shows every line, the findings of a    *)
(* leg reach the next one, and the pull request holds the workspace, for   *)
(* any files, texts and edits.                                             *)
THEOREM CodingAlwaysSafe == SumSpec => CodingSafe
<1>1. SumInv => (focus = "coding" => (/\ C!RequestIsTheWorkspace
                                      /\ C!FindingsReachTheNextLeg
                                      /\ C!ReadThrough))
  BY CodingMeans DEF SumInv
<1>. QED
  BY <1>1, EditsStepSafe, SumInductive, PTL
  DEF SumSpec, CodingSafe, C!EditsLandWhereTheyMatched

(* What the owner has edited or deleted of an installed item stays so, a   *)
(* server runs only where the owner has switched it on, and an operation   *)
(* that fails puts back what it changed, for any number of them.           *)
THEOREM InstallsAlwaysSafe == SumSpec => []InstallsSafe
<1>1. SumInv => InstallsSafe
  BY InstallsMean DEF SumInv, InstallsSafe
<1>. QED  BY <1>1, SumInductive, PTL

(* A reader never gets a skill of which a file is missing, and what an     *)
(* interrupted replacement leaves is repaired to the old skill or the new  *)
(* one, wherever the crashes fall and however many there are.              *)
THEOREM SkillsAlwaysSafe == SumSpec => []SkillsSafe
<1>1. SumInv => SkillsSafe
  BY SkillsMean DEF SumInv, SkillsSafe
<1>. QED  BY <1>1, SumInductive, PTL

(* The checkout that a thread is bound to is on the disk, for any number   *)
(* of checkouts and of calls that open, close and reap them.               *)
THEOREM BindingIsAlwaysThere == SumSpec => []BindingIsThere
<1>1. SumInv => BindingIsThere
  BY WorkspacesMean DEF SumInv, BindingIsThere
<1>. QED  BY <1>1, SumInductive, PTL
=============================================================================

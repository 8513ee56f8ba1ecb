-------------------------- MODULE McpServers_proofs --------------------------
(***************************************************************************)
(* What is proved of McpServers for any number of turns, repairs, sessions *)
(* and tools: no session is lost, one repair runs at a time and lets go,   *)
(* and a report and a catalog have what stands for them.                   *)
(***************************************************************************)
EXTENDS McpServers, TLAPS

-----------------------------------------------------------------------------
(* The inductive invariant *)

Others == Turns \cup Repairs

(* NewManager does not take repairMu, and until it has returned nobody     *)
(* else comes but a notification, which is early.                          *)
BootInv ==
    /\ pc[Boot] \in {"connecting", "discovering", "installing", "done"}
    /\ kind[Boot] = "reconnect"
    /\ repairing # Boot
    /\ ~Running /\ ~early =>
          /\ session = None /\ repairing = None
          /\ \A a \in Others : pc[a] = "idle"

(* A repair that has taken the session finds no other one to replace; one  *)
(* that refreshes still has the server's, unless a logout took it.         *)
HandInv ==
    \A a \in Actors :
        /\ pc[a] \in {"connecting", "discovering"} /\ ~early => session = None
        /\ pc[a] \in {"refreshing", "installing"} /\ ~early =>
              session \in {None, found[a]}
        /\ pc[a] = "discovering" => found[a] # None
        /\ pc[a] = "installing" /\ outcome[a].status = "ready" =>
              found[a] # None
        /\ outcome[a].status # "cooldown"

(* A turn on its way to a call has a tool to call. *)
TurnInv ==
    \A u \in Turns :
        pc[u] \notin {"idle", "wrapping", "thinking"} => calling[u] \in Tools

IInv == TypeOK /\ BootInv /\ HandInv /\ TurnInv /\ SessionsSafe

(* A failure counts up to the threshold, which is where a breaker opens. *)
LEMMA CountedFailure ==
  ASSUME NEW k \in 0..FailureThreshold
  PROVE  LET m == IF k + 1 > FailureThreshold THEN k ELSE k + 1
         IN  /\ m \in 0..FailureThreshold
             /\ k + 1 >= FailureThreshold => m = FailureThreshold
             /\ k + 1 < FailureThreshold => k # FailureThreshold
  BY McpServersAssumption

(* The server is being connected, and nobody else has come. *)
LEMMA InitInv == Init => IInv
<1> SUFFICES ASSUME Init PROVE IInv
  OBVIOUS
<1> USE McpServersAssumption DEF Init, Actors
<1>1. outcome \in [Actors -> [status : States, tools : SUBSET Tools]]
  BY DEF Nothing, States
<1>5. /\ failures \in [Tools -> 0..FailureThreshold]
      /\ minted \in 0..MaxSessions /\ calls \in [Turns -> 0..MaxCalls]
  OBVIOUS
<1>2. TypeOK
  BY <1>1, <1>5 DEF TypeOK, Sessions, States, Breaks, Repairing
<1>3. BootInv /\ HandInv /\ TurnInv
  BY DEF BootInv, HandInv, TurnInv, Others, Running, Nothing
<1>4. SessionsSafe
  BY DEF SessionsSafe, NoLostSession, OneRepair, CooldownHasCause,
         CatalogIsServed, Repairing
<1>. QED  BY <1>2, <1>3, <1>4 DEF IInv

(* An open session is not "no session". *)
LEMMA OpenSessions == TypeOK => None \notin open
<1> SUFFICES ASSUME TypeOK PROVE None \notin open
  OBVIOUS
<1>1. minted \in 0..MaxSessions /\ open \subseteq 1..minted
  BY DEF TypeOK
<1>2. 1..minted \subseteq 1..MaxSessions
  BY <1>1, McpServersAssumption
<1>. QED  BY <1>1, <1>2, McpServersAssumption

USE DEF catalogVars, breakerVars, sessionVars, repairVars, turnVars
-----------------------------------------------------------------------------
(* Every action keeps the types. *)
LEMMA TypeStep == IInv /\ [Next]_vars => TypeOK'
<1> SUFFICES ASSUME IInv, [Next]_vars PROVE TypeOK'
  OBVIOUS
<1> USE McpServersAssumption
    DEF IInv, TypeOK, Goes, Actors, Sessions, States, Breaks, Repairing
<1>1. ASSUME NEW a \in Repairs, BeginReload(a) PROVE TypeOK'
BY <1>1 DEF BeginReload
<1>2. ASSUME NEW a \in Repairs, BeginRefresh(a) PROVE TypeOK'
BY <1>2 DEF BeginRefresh
<1>3. ASSUME NEW a \in Repairs, BeginProbe(a) PROVE TypeOK'
BY <1>3 DEF BeginProbe
<1>4. ASSUME NEW a \in Repairs, CompleteLogin(a) PROVE TypeOK'
BY <1>4 DEF CompleteLogin
<1>5. ASSUME NEW a \in Repairs, Logout(a) PROVE TypeOK'
BY <1>5 DEF Logout
<1>6. ASSUME NEW a \in Repairs, Probe(a) PROVE TypeOK'
BY <1>6 DEF Probe
<1>7. ASSUME NEW a \in Repairs, Disconnect(a) PROVE TypeOK'
BY <1>7 DEF Disconnect, Apply
<1>8. ASSUME NEW a \in Repairs, MarkReloadRequired(a) PROVE TypeOK'
BY <1>8 DEF MarkReloadRequired
<1>9. ASSUME NEW a \in Actors, Lock(a) PROVE TypeOK'
BY <1>9, SMTT(30) DEF Lock
<1>10. ASSUME NEW a \in Actors, Refresh(a) PROVE TypeOK'
  <2>1. \A advertised \in SUBSET Tools :
          [status |-> "ready", tools |-> advertised]
            \in [status : States, tools : SUBSET Tools]
    OBVIOUS
  <2>2. outcome' \in [Actors -> [status : States, tools : SUBSET Tools]]
    <3>1. \/ outcome' = outcome
          \/ \E advertised \in SUBSET Tools :
                outcome' = [outcome EXCEPT ![a] = [status |-> "ready",
                                                   tools |-> advertised]]
      BY <1>10 DEF Refresh
    <3>2. CASE \E advertised \in SUBSET Tools :
                outcome' = [outcome EXCEPT ![a] = [status |-> "ready",
                                                   tools |-> advertised]]
      <4>1. PICK advertised \in SUBSET Tools :
                outcome' = [outcome EXCEPT ![a] = [status |-> "ready",
                                                   tools |-> advertised]]
        BY <3>2
      <4>. QED  BY <2>1, <4>1
    <3>. QED  BY <3>1, <3>2
  <2>3. pc' \in [Actors -> Repairing \cup {"idle", "locking", "probing",
            "disconnecting", "marking", "wrapping", "thinking", "gating",
            "resolving", "calling", "done"}]
    BY <1>10 DEF Refresh
  <2>. QED  BY <1>10, <2>2, <2>3 DEF Refresh
<1>11. ASSUME NEW a \in Actors, Take(a) PROVE TypeOK'
BY <1>11 DEF Take
<1>12. ASSUME NEW a \in Actors, Connects(a) PROVE TypeOK'
BY <1>12 DEF Connects
<1>13. ASSUME NEW a \in Actors, ConnectFails(a) PROVE TypeOK'
BY <1>13 DEF ConnectFails, Nothing
<1>14. ASSUME NEW a \in Actors, Discovers(a) PROVE TypeOK'
BY <1>14 DEF Discovers
<1>15. ASSUME NEW a \in Actors, DiscoveryFails(a) PROVE TypeOK'
BY <1>15 DEF DiscoveryFails, Nothing
<1>16. ASSUME NEW a \in Actors, Install(a) PROVE TypeOK'
BY <1>16 DEF Install, Apply, Resumes, Nothing
<1>17. ASSUME NEW u \in Turns, ReadCatalog(u) PROVE TypeOK'
BY <1>17 DEF ReadCatalog
<1>18. ASSUME NEW u \in Turns, WrapTools(u) PROVE TypeOK'
BY <1>18 DEF WrapTools
<1>19. ASSUME NEW u \in Turns, NEW t \in Tools, BeginCall(u, t) PROVE TypeOK'
BY <1>19 DEF BeginCall
<1>20. ASSUME NEW u \in Turns, GateRefuses(u) PROVE TypeOK'
BY <1>20 DEF GateRefuses
<1>21. ASSUME NEW u \in Turns, GateRecovers(u) PROVE TypeOK'
  <2>1. calling[u] \in Tools
    BY <1>21 DEF GateRecovers, TurnInv
  <2>2. /\ failures' \in [Tools -> 0..FailureThreshold]
        /\ cooldown' \in [Tools -> Breaks]
        /\ \A t \in Tools : cooldown'[t] # "none" => failures'[t] = FailureThreshold
    BY <1>21, <2>1 DEF GateRecovers
  <2>. QED  BY <1>21, <2>2 DEF GateRecovers, Refreshed
<1>22. ASSUME NEW u \in Turns, GatePasses(u) PROVE TypeOK'
BY <1>22 DEF GatePasses
<1>23. ASSUME NEW u \in Turns, Resolve(u) PROVE TypeOK'
BY <1>23 DEF Resolve
<1>24. ASSUME NEW u \in Turns, Succeeds(u) PROVE TypeOK'
BY <1>24, SMTT(30) DEF Succeeds, Refreshed, TurnInv
<1>25. ASSUME NEW u \in Turns, FailsCall(u) PROVE TypeOK'
  <2>1. calling[u] \in Tools
    BY <1>25 DEF FailsCall, TurnInv
  <2> DEFINE k == failures[calling[u]]
             m == IF k + 1 > FailureThreshold THEN k ELSE k + 1
  <2>2. k \in 0..FailureThreshold
    BY <2>1
  <2>3. /\ m \in 0..FailureThreshold
        /\ k + 1 >= FailureThreshold => m = FailureThreshold
        /\ k + 1 < FailureThreshold => k # FailureThreshold
    BY <2>2, CountedFailure
  <2>4. /\ failures' = [failures EXCEPT ![calling[u]] = m]
        /\ IF k + 1 >= FailureThreshold
           THEN /\ cooldown' = [cooldown EXCEPT ![calling[u]] = "running"]
                /\ status' = "cooldown"
           ELSE UNCHANGED <<cooldown, status>>
    BY <1>25 DEF FailsCall
  <2>5. (k + 1 >= FailureThreshold) \/ (k + 1 < FailureThreshold)
    BY <2>2
  <2>6. cooldown[calling[u]] # "none" => k = FailureThreshold
    BY <2>1
  <2> HIDE DEF k, m
  <2>7. failures' \in [Tools -> 0..FailureThreshold]
    BY <2>1, <2>3, <2>4
  <2>8. \A t \in Tools : cooldown'[t] # "none" => failures'[t] = FailureThreshold
    BY <2>1, <2>3, <2>4, <2>5, <2>6
  <2>9. cooldown' \in [Tools -> Breaks] /\ status' \in States
    BY <2>4
  <2>. QED  BY <1>25, <2>7, <2>8, <2>9 DEF FailsCall
<1>26. ASSUME NEW t \in Tools, CooldownEnds(t) PROVE TypeOK'
BY <1>26 DEF CooldownEnds
<1>27. CASE UNCHANGED vars
  BY <1>27 DEF vars
<1> HIDE DEF IInv, TypeOK, Goes
<1>. QED
BY <1>1, <1>2, <1>3, <1>4, <1>5, <1>6, <1>7, <1>8, <1>9, <1>10, <1>11, <1>12,
     <1>13, <1>14, <1>15, <1>16, <1>17, <1>18, <1>19, <1>20, <1>21, <1>22,
     <1>23, <1>24, <1>25, <1>26, <1>27
DEF Next, Repair, Call

-----------------------------------------------------------------------------
(* Every action keeps the rest. *)
Rest == BootInv /\ HandInv /\ TurnInv /\ SessionsSafe

(* One step for each action. *)
LEMMA RestStep == IInv /\ [Next]_vars => Rest'
<1> SUFFICES ASSUME IInv, [Next]_vars PROVE Rest'
  OBVIOUS
<1> USE McpServersAssumption
    DEF IInv, Rest, TypeOK, BootInv, HandInv, TurnInv, SessionsSafe,
        NoLostSession, OneRepair, CooldownHasCause, CatalogIsServed, Goes,
        Actors, Others, Sessions, States, Breaks, Repairing, Running
<1>1. ASSUME NEW a \in Repairs, BeginReload(a) PROVE Rest'
BY <1>1 DEF BeginReload
<1>2. ASSUME NEW a \in Repairs, BeginRefresh(a) PROVE Rest'
  <2>1. BootInv'
    BY <1>2 DEF BeginRefresh
  <2>2. HandInv'
    BY <1>2 DEF BeginRefresh
  <2>3. TurnInv'
    BY <1>2 DEF BeginRefresh
  <2>4. NoLostSession'
    BY <1>2 DEF BeginRefresh
  <2>5. OneRepair'
    BY <1>2 DEF BeginRefresh
  <2>6. CooldownHasCause'
    BY <1>2 DEF BeginRefresh
  <2>7. CatalogIsServed'
    BY <1>2 DEF BeginRefresh
  <2>. QED
    BY <2>1, <2>2, <2>3, <2>4, <2>5, <2>6, <2>7 DEF Rest, SessionsSafe
<1>3. ASSUME NEW a \in Repairs, BeginProbe(a) PROVE Rest'
BY <1>3 DEF BeginProbe
<1>4. ASSUME NEW a \in Repairs, CompleteLogin(a) PROVE Rest'
BY <1>4 DEF CompleteLogin
<1>5. ASSUME NEW a \in Repairs, Logout(a) PROVE Rest'
BY <1>5 DEF Logout
<1>6. ASSUME NEW a \in Repairs, Probe(a) PROVE Rest'
  <2>1. BootInv'
    BY <1>6 DEF Probe
  <2>2. HandInv'
    BY <1>6 DEF Probe
  <2>3. TurnInv'
    BY <1>6 DEF Probe
  <2>4. NoLostSession'
    BY <1>6 DEF Probe
  <2>5. OneRepair'
    BY <1>6, SMTT(30) DEF Probe
  <2>6. CooldownHasCause'
    BY <1>6 DEF Probe
  <2>7. CatalogIsServed'
    BY <1>6 DEF Probe
  <2>. QED
    BY <2>1, <2>2, <2>3, <2>4, <2>5, <2>6, <2>7 DEF Rest, SessionsSafe
<1>7. ASSUME NEW a \in Repairs, Disconnect(a) PROVE Rest'
  <2>1. BootInv'
    BY <1>7 DEF Disconnect, Apply
  <2>2. HandInv'
    BY <1>7 DEF Disconnect, Apply
  <2>3. TurnInv'
    BY <1>7 DEF Disconnect, Apply
  <2>4. NoLostSession'
    BY <1>7 DEF Disconnect, Apply
  <2>5. OneRepair'
    BY <1>7 DEF Disconnect, Apply
  <2>6. CooldownHasCause'
    BY <1>7 DEF Disconnect, Apply
  <2>7. CatalogIsServed'
    BY <1>7 DEF Disconnect, Apply
  <2>. QED
    BY <2>1, <2>2, <2>3, <2>4, <2>5, <2>6, <2>7 DEF Rest, SessionsSafe
<1>8. ASSUME NEW a \in Repairs, MarkReloadRequired(a) PROVE Rest'
BY <1>8 DEF MarkReloadRequired
<1>9. ASSUME NEW a \in Actors, Lock(a) PROVE Rest'
  <2>1. BootInv'
    BY <1>9 DEF Lock
  <2>2. HandInv'
    BY <1>9 DEF Lock
  <2>3. TurnInv'
    BY <1>9 DEF Lock
  <2>4. NoLostSession'
    BY <1>9, SMTT(30) DEF Lock
  <2>5. OneRepair'
    BY <1>9 DEF Lock
  <2>6. CooldownHasCause'
    BY <1>9 DEF Lock
  <2>7. CatalogIsServed'
    BY <1>9 DEF Lock
  <2>. QED
    BY <2>1, <2>2, <2>3, <2>4, <2>5, <2>6, <2>7 DEF Rest, SessionsSafe
<1>10. ASSUME NEW a \in Actors, Refresh(a) PROVE Rest'
  <2>1. BootInv'
    BY <1>10 DEF Refresh
  <2>2. HandInv'
    <3>1. CASE outcome' = outcome /\ Goes(a, "refreshing", "taking")
      BY <1>10, <3>1 DEF Refresh
    <3>2. ASSUME NEW advertised \in SUBSET Tools, found[a] \in open,
                 Goes(a, "refreshing", "installing"),
                 outcome' = [outcome EXCEPT ![a] = [status |-> "ready",
                                                    tools |-> advertised]]
          PROVE  HandInv'
      <4>1. found[a] # None
        BY <3>2, OpenSessions
      <4>2. /\ outcome'[a].status = "ready"
            /\ \A b \in Actors \ {a} : outcome'[b] = outcome[b]
        BY <3>2
      <4>. QED  BY <1>10, <3>2, <4>1, <4>2 DEF Refresh
    <3>. QED  BY <1>10, <3>1, <3>2 DEF Refresh
  <2>3. TurnInv'
    BY <1>10 DEF Refresh
  <2>4. NoLostSession'
    BY <1>10 DEF Refresh
  <2>5. OneRepair'
    BY <1>10 DEF Refresh
  <2>6. CooldownHasCause'
    BY <1>10 DEF Refresh
  <2>7. CatalogIsServed'
    BY <1>10 DEF Refresh
  <2>. QED
    BY <2>1, <2>2, <2>3, <2>4, <2>5, <2>6, <2>7 DEF Rest, SessionsSafe
<1>11. ASSUME NEW a \in Actors, Take(a) PROVE Rest'
BY <1>11 DEF Take
<1>12. ASSUME NEW a \in Actors, Connects(a) PROVE Rest'
BY <1>12 DEF Connects
<1>13. ASSUME NEW a \in Actors, ConnectFails(a) PROVE Rest'
BY <1>13, SMTT(30) DEF ConnectFails
<1>14. ASSUME NEW a \in Actors, Discovers(a) PROVE Rest'
BY <1>14 DEF Discovers
<1>15. ASSUME NEW a \in Actors, DiscoveryFails(a) PROVE Rest'
  <2>1. BootInv'
    BY <1>15 DEF DiscoveryFails, Nothing
  <2>2. HandInv'
    BY <1>15 DEF DiscoveryFails, Nothing
  <2>3. TurnInv'
    BY <1>15 DEF DiscoveryFails, Nothing
  <2>4. NoLostSession'
    BY <1>15 DEF DiscoveryFails, Nothing
  <2>5. OneRepair'
    BY <1>15 DEF DiscoveryFails, Nothing
  <2>6. CooldownHasCause'
    BY <1>15 DEF DiscoveryFails, Nothing
  <2>7. CatalogIsServed'
    BY <1>15 DEF DiscoveryFails, Nothing
  <2>. QED
    BY <2>1, <2>2, <2>3, <2>4, <2>5, <2>6, <2>7 DEF Rest, SessionsSafe
<1>16. ASSUME NEW a \in Actors, Install(a) PROVE Rest'
  <2>1. BootInv'
    BY <1>16 DEF Install, Apply, Resumes, Nothing
  <2>2. HandInv'
    BY <1>16 DEF Install, Apply, Resumes, Nothing
  <2>3. TurnInv'
    BY <1>16 DEF Install, Apply, Resumes, Nothing
  <2>4. NoLostSession'
    BY <1>16 DEF Install, Apply, Resumes, Nothing
  <2>5. OneRepair'
    BY <1>16 DEF Install, Apply, Resumes, Nothing
  <2>6. CooldownHasCause'
    BY <1>16 DEF Install, Apply, Resumes, Nothing
  <2>7. CatalogIsServed'
    BY <1>16 DEF Install, Apply, Resumes, Nothing
  <2>. QED
    BY <2>1, <2>2, <2>3, <2>4, <2>5, <2>6, <2>7 DEF Rest, SessionsSafe
<1>17. ASSUME NEW u \in Turns, ReadCatalog(u) PROVE Rest'
BY <1>17, ZenonT(40) DEF ReadCatalog
<1>18. ASSUME NEW u \in Turns, WrapTools(u) PROVE Rest'
BY <1>18, SMTT(30) DEF WrapTools
<1>19. ASSUME NEW u \in Turns, NEW t \in Tools, BeginCall(u, t) PROVE Rest'
BY <1>19 DEF BeginCall
<1>20. ASSUME NEW u \in Turns, GateRefuses(u) PROVE Rest'
BY <1>20 DEF GateRefuses
<1>21. ASSUME NEW u \in Turns, GateRecovers(u) PROVE Rest'
  <2>1. BootInv'
    BY <1>21 DEF GateRecovers, Refreshed
  <2>2. HandInv'
    BY <1>21 DEF GateRecovers, Refreshed
  <2>3. TurnInv'
    BY <1>21 DEF GateRecovers, Refreshed
  <2>4. NoLostSession'
    BY <1>21 DEF GateRecovers, Refreshed
  <2>5. OneRepair'
    BY <1>21 DEF GateRecovers, Refreshed
  <2>6. CooldownHasCause'
    BY <1>21 DEF GateRecovers, Refreshed
  <2>7. CatalogIsServed'
    BY <1>21 DEF GateRecovers, Refreshed
  <2>. QED
    BY <2>1, <2>2, <2>3, <2>4, <2>5, <2>6, <2>7 DEF Rest, SessionsSafe
<1>22. ASSUME NEW u \in Turns, GatePasses(u) PROVE Rest'
  <2>1. BootInv'
    BY <1>22 DEF GatePasses
  <2>2. HandInv'
    BY <1>22 DEF GatePasses
  <2>3. TurnInv'
    BY <1>22 DEF GatePasses
  <2>4. NoLostSession'
    BY <1>22 DEF GatePasses
  <2>5. OneRepair'
    BY <1>22 DEF GatePasses
  <2>6. CooldownHasCause'
    BY <1>22 DEF GatePasses
  <2>7. CatalogIsServed'
    BY <1>22 DEF GatePasses
  <2>. QED
    BY <2>1, <2>2, <2>3, <2>4, <2>5, <2>6, <2>7 DEF Rest, SessionsSafe
<1>23. ASSUME NEW u \in Turns, Resolve(u) PROVE Rest'
BY <1>23 DEF Resolve
<1>24. ASSUME NEW u \in Turns, Succeeds(u) PROVE Rest'
  <2>1. BootInv'
    BY <1>24 DEF Succeeds, Refreshed
  <2>2. HandInv'
    BY <1>24 DEF Succeeds, Refreshed
  <2>3. TurnInv'
    BY <1>24 DEF Succeeds, Refreshed
  <2>4. NoLostSession'
    BY <1>24 DEF Succeeds, Refreshed
  <2>5. OneRepair'
    BY <1>24 DEF Succeeds, Refreshed
  <2>6. CooldownHasCause'
    BY <1>24 DEF Succeeds, Refreshed
  <2>7. CatalogIsServed'
    BY <1>24 DEF Succeeds, Refreshed
  <2>. QED
    BY <2>1, <2>2, <2>3, <2>4, <2>5, <2>6, <2>7 DEF Rest, SessionsSafe
<1>25. ASSUME NEW u \in Turns, FailsCall(u) PROVE Rest'
  <2>1. BootInv'
    BY <1>25 DEF FailsCall
  <2>2. HandInv'
    BY <1>25 DEF FailsCall
  <2>3. TurnInv'
    BY <1>25 DEF FailsCall
  <2>4. NoLostSession'
    BY <1>25 DEF FailsCall
  <2>5. OneRepair'
    BY <1>25 DEF FailsCall
  <2>6. CooldownHasCause'
    BY <1>25, SMTT(30) DEF FailsCall
  <2>7. CatalogIsServed'
    BY <1>25 DEF FailsCall
  <2>. QED
    BY <2>1, <2>2, <2>3, <2>4, <2>5, <2>6, <2>7 DEF Rest, SessionsSafe
<1>26. ASSUME NEW t \in Tools, CooldownEnds(t) PROVE Rest'
BY <1>26 DEF CooldownEnds
<1>27. CASE UNCHANGED vars
  BY <1>27 DEF vars
<1> HIDE DEF IInv, Rest, TypeOK, Goes
<1>. QED
BY <1>1, <1>2, <1>3, <1>4, <1>5, <1>6, <1>7, <1>8, <1>9, <1>10, <1>11, <1>12,
     <1>13, <1>14, <1>15, <1>16, <1>17, <1>18, <1>19, <1>20, <1>21, <1>22,
     <1>23, <1>24, <1>25, <1>26, <1>27
DEF Next, Repair, Call

-----------------------------------------------------------------------------
(* The results *)

(* In every reachable state the sessions, the repairs, the catalog and the *)
(* breakers of a server fit together (manager.go).                         *)
THEOREM Inductive == Spec => []IInv
<1>1. IInv /\ [Next]_vars => IInv'
  BY TypeStep, RestStep DEF IInv, Rest
<1>. QED  BY InitInv, <1>1, PTL DEF Spec

(* Every variable keeps its type; only gated tools of the catalog are      *)
(* protected, and a breaker cools down only at its threshold.              *)
THEOREM TypeCorrect == Spec => []TypeOK
<1>1. IInv => TypeOK
  BY DEF IInv
<1>. QED  BY Inductive, <1>1, PTL

(* No session is dropped without being closed, one repair runs at a time   *)
(* and lets go, and neither the catalog nor a cooldown is left behind:     *)
(* however reloads, probes, notifications, logins and calls interleave.    *)
THEOREM SessionsAlwaysSafe == Spec => []SessionsSafe
<1>1. IInv => SessionsSafe
  BY DEF IInv
<1>. QED  BY Inductive, <1>1, PTL
=============================================================================

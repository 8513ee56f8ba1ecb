------------------------------ MODULE McpServers ------------------------------
(***************************************************************************)
(* One remote MCP server (internal/mcp): its session, its catalog and its  *)
(* breakers (manager.go), the repairs that replace the session, logins and *)
(* logouts, and the turns that read the catalog, wrap the tools that need  *)
(* an approval (bootstrap/app.go) and call them (tool.go).                 *)
(*                                                                         *)
(* Manager.mu makes each of its sections one step; network calls lie       *)
(* between them.  repairMu is held across a repair's whole run.  The       *)
(* server is enabled, uses OAuth and supports parallel calls, which leaves *)
(* the most interleavings open.                                            *)
(***************************************************************************)
EXTENDS Integers, FiniteSets, FiniteSetsExt

CONSTANTS
    Tools,              \* the tools the server can advertise
    Gated,              \* require_approval
    Turns,              \* turns of the agent loop
    Repairs,            \* reloads, probes, notifications, logins, logouts
    Boot,               \* NewManager
    MaxSessions,        \* bound on the sessions that are opened
    FailureThreshold,
    MaxCalls,           \* bound on the calls of one turn
    None

ASSUME McpServersAssumption ==
    /\ Gated \subseteq Tools
    /\ MaxSessions \in Nat
    /\ None \notin 1..MaxSessions \cup Turns \cup Repairs \cup {Boot}
    /\ Boot \notin Turns \cup Repairs
    /\ Turns \cap Repairs = {}
    /\ FailureThreshold \in Nat \ {0} /\ MaxCalls \in Nat

Sessions == 1..MaxSessions

Actors == Turns \cup Repairs \cup {Boot}

VARIABLES
    session,    \* serverRuntime.session
    status,     \* serverRuntime.status.State
    reload,     \* ReloadRequired
    tools,      \* the catalog: names of serverRuntime.tools
    protected,  \* Manager.protected
    failures,   \* toolBreaker.failures
    cooldown,   \* toolBreaker.cooldownUntil: "none", "running" or "over"
    grant,      \* the OAuth record holds a token
    repairing,  \* who holds repairMu
    minted,     \* number of sessions that have been opened
    open,       \* those that have not been closed
    early,      \* a notification arrived before NewManager had returned
    pc,         \* where each actor is
    kind,       \* what a repair has been called for
    found,      \* the session an actor has in hand
    outcome,    \* status and tools a repair is about to install
    snapshot,   \* Tools(), as a turn has read it
    ungated,    \* tools of a turn that run without asking
    calling,    \* the tool a turn calls
    approved,   \* the owner has approved that call
    calls       \* calls of each turn

catalogVars == <<status, reload, tools, protected>>
breakerVars == <<failures, cooldown>>
sessionVars == <<minted, open>>
repairVars == <<kind, outcome, early>>
turnVars == <<snapshot, ungated, calling, approved, calls>>
vars == <<session, catalogVars, breakerVars, grant, repairing, sessionVars,
          repairVars, pc, found, turnVars>>

Nothing == [status |-> "unavailable", tools |-> {}]

(* NewManager is about to connect an enabled server that uses OAuth. *)
Init ==
    /\ session = None
    /\ status = "unavailable" /\ reload = FALSE
    /\ tools = {} /\ protected = {}
    /\ failures = [t \in Tools |-> 0]
    /\ cooldown = [t \in Tools |-> "none"]
    /\ grant \in BOOLEAN
    /\ repairing = None
    /\ minted = 0 /\ open = {}
    /\ early = FALSE
    /\ pc = [a \in Actors |-> IF a = Boot THEN "connecting" ELSE "idle"]
    /\ kind = [a \in Actors |-> "reconnect"]
    /\ found = [a \in Actors |-> None]
    /\ outcome = [a \in Actors |-> Nothing]
    /\ snapshot = [u \in Turns |-> {}]
    /\ ungated = [u \in Turns |-> {}]
    /\ calling = [u \in Turns |-> None]
    /\ approved = [u \in Turns |-> FALSE]
    /\ calls = [u \in Turns |-> 0]

Goes(a, from, to) == pc[a] = from /\ pc' = [pc EXCEPT ![a] = to]

(* Where an actor goes when its repair is over: a turn makes its call. *)
Resumes(a) == IF a \in Turns THEN "resolving" ELSE "done"

Running == pc[Boot] = "done"

-----------------------------------------------------------------------------
(* Repairs *)

(* Reconnect, called by /mcp reload, a completed login, a probe or a call. *)
BeginReload(a) ==
    /\ Running
    /\ Goes(a, "idle", "locking")
    /\ UNCHANGED <<session, catalogVars, breakerVars, grant, repairing,
                   sessionVars, repairVars, found, turnVars>>

(* tools/list_changed, which the server sends over any session it has. *)
BeginRefresh(a) ==
    /\ open # {}
    /\ Goes(a, "idle", "locking")
    /\ kind' = [kind EXCEPT ![a] = "refresh"]
    /\ early' = (early \/ ~Running)
    /\ UNCHANGED <<session, catalogVars, breakerVars, grant, repairing,
                   sessionVars, outcome, found, turnVars>>

(* Probe asks over the session there is, without repairMu. *)
BeginProbe(a) ==
    /\ Running
    /\ Goes(a, "idle", IF session = None THEN "locking" ELSE "probing")
    /\ found' = [found EXCEPT ![a] = session]
    /\ UNCHANGED <<session, catalogVars, breakerVars, grant, repairing,
                   sessionVars, repairVars, turnVars>>

Probe(a) ==
    /\ \/ found[a] \in open /\ Goes(a, "probing", "done")
       \/ Goes(a, "probing", "locking")
    /\ found' = [found EXCEPT ![a] = None]
    /\ UNCHANGED <<session, catalogVars, breakerVars, grant, repairing,
                   sessionVars, repairVars, turnVars>>

(* CompleteLogin stores the token and reconnects. *)
CompleteLogin(a) ==
    /\ Running
    /\ Goes(a, "idle", "locking")
    /\ grant' = TRUE
    /\ UNCHANGED <<session, catalogVars, breakerVars, repairing, sessionVars,
                   repairVars, found, turnVars>>

(* Logout deletes the record, and disconnects afterwards. *)
Logout(a) ==
    /\ Running
    /\ Goes(a, "idle", "disconnecting")
    /\ grant' = FALSE
    /\ UNCHANGED <<session, catalogVars, breakerVars, repairing, sessionVars,
                   repairVars, found, turnVars>>

(* Defect: the gates are not rebuilt with the catalog. *)
ApplyKeepsGates(s, to, advertised) ==
    /\ session' = s
    /\ status' = to
    /\ reload' = FALSE
    /\ tools' = IF to = "ready" THEN advertised ELSE {}
    /\ protected' = protected \cup (tools' \cap Gated)

(* applyServerLocked, with the catalog and its gates rebuilt. *)
Apply(s, to, advertised) ==
    /\ session' = s
    /\ status' = to
    /\ reload' = FALSE
    /\ tools' = IF to = "ready" THEN advertised ELSE {}
    /\ protected' = tools' \cap Gated

(* Disconnect does not wait for a repair. *)
Disconnect(a) ==
    /\ Goes(a, "disconnecting", "done")
    /\ Apply(None, "login_required", {})
    /\ open' = open \ {session}
    /\ UNCHANGED <<breakerVars, grant, repairing, minted, repairVars, found,
                   turnVars>>

(* Defect: two repairs of one server at a time. *)
LockUnheld(a) ==
    /\ repairing' = a
    /\ IF kind[a] = "refresh" /\ session # None
       THEN Goes(a, "locking", "refreshing")
       ELSE Goes(a, "locking", "taking")
    /\ found' = [found EXCEPT ![a] = session]
    /\ UNCHANGED <<session, catalogVars, breakerVars, grant, sessionVars,
                   repairVars, turnVars>>

(* repairMu is taken; a refresh looks whether there is a session to use. *)
Lock(a) ==
    /\ repairing = None
    /\ repairing' = a
    /\ IF kind[a] = "refresh" /\ session # None
       THEN Goes(a, "locking", "refreshing")
       ELSE Goes(a, "locking", "taking")
    /\ found' = [found EXCEPT ![a] = session]
    /\ UNCHANGED <<session, catalogVars, breakerVars, grant, sessionVars,
                   repairVars, turnVars>>

(* Refresh lists the tools over the session, or falls back to a repair. *)
Refresh(a) ==
    /\ \/ /\ found[a] \in open
          /\ Goes(a, "refreshing", "installing")
          /\ \E advertised \in SUBSET Tools :
                outcome' = [outcome EXCEPT ![a] =
                    [status |-> "ready", tools |-> advertised]]
       \/ Goes(a, "refreshing", "taking") /\ UNCHANGED outcome
    /\ UNCHANGED <<session, catalogVars, breakerVars, grant, repairing,
                   sessionVars, kind, early, found, turnVars>>

(* reconnectLocked takes the session out and closes it. *)
Take(a) ==
    /\ Goes(a, "taking", "connecting")
    /\ session' = None
    /\ open' = open \ {session}
    /\ UNCHANGED <<catalogVars, breakerVars, grant, repairing, minted,
                   repairVars, found, turnVars>>

(* connectServer: a new session, if there is a token the server accepts. *)
Connects(a) ==
    /\ grant
    /\ Goes(a, "connecting", "discovering")
    /\ minted < MaxSessions
    /\ minted' = minted + 1
    /\ found' = [found EXCEPT ![a] = minted']
    /\ open' = open \cup {minted'}
    /\ UNCHANGED <<session, catalogVars, breakerVars, grant, repairing,
                   repairVars, turnVars>>

ConnectFails(a) ==
    /\ Goes(a, "connecting", "installing")
    /\ found' = [found EXCEPT ![a] = None]
    /\ \E why \in {"unavailable", "login_required"} :
        outcome' = [outcome EXCEPT ![a] = [Nothing EXCEPT !.status = why]]
    /\ UNCHANGED <<session, catalogVars, breakerVars, grant, repairing,
                   sessionVars, kind, early, turnVars>>

Discovers(a) ==
    /\ Goes(a, "discovering", "installing")
    /\ \E advertised \in SUBSET Tools :
        outcome' = [outcome EXCEPT ![a] = [status |-> "ready",
                                           tools |-> advertised]]
    /\ UNCHANGED <<session, catalogVars, breakerVars, grant, repairing,
                   sessionVars, kind, early, found, turnVars>>

(* A session nothing can use is closed. *)
DiscoveryFails(a) ==
    /\ Goes(a, "discovering", "installing")
    /\ found' = [found EXCEPT ![a] = None]
    /\ open' = open \ {found[a]}
    /\ outcome' = [outcome EXCEPT ![a] = Nothing]
    /\ UNCHANGED <<session, catalogVars, breakerVars, grant, repairing,
                   minted, kind, early, turnVars>>

(* The outcome is installed and repairMu released.  A call whose repair    *)
(* failed is not made; a refresh that failed marks the catalog as stale.   *)
Install(a) ==
    /\ Goes(a, "installing",
            IF outcome[a].status = "ready" THEN Resumes(a)
            ELSE IF a \in Turns THEN "thinking"
            ELSE IF kind[a] = "refresh" THEN "marking" ELSE "done")
    /\ Apply(found[a], outcome[a].status, outcome[a].tools)
    /\ repairing' = IF repairing = a THEN None ELSE repairing
    /\ found' = [found EXCEPT ![a] = None]
    /\ outcome' = [outcome EXCEPT ![a] = Nothing]
    /\ UNCHANGED <<breakerVars, grant, sessionVars, kind, early, turnVars>>

MarkReloadRequired(a) ==
    /\ Goes(a, "marking", "done")
    /\ reload' = TRUE
    /\ UNCHANGED <<session, status, tools, protected, breakerVars, grant,
                   repairing, sessionVars, repairVars, found, turnVars>>

-----------------------------------------------------------------------------
(* Turns *)

(* The provider copies the catalog ... *)
ReadCatalog(u) ==
    /\ Running
    /\ Goes(u, "idle", "wrapping")
    /\ snapshot' = [snapshot EXCEPT ![u] = tools]
    /\ UNCHANGED <<session, catalogVars, breakerVars, grant, repairing,
                   sessionVars, repairVars, found, ungated, calling, approved,
                   calls>>

(* ... and asks RequiresApproval of each tool of it. *)
WrapTools(u) ==
    /\ Goes(u, "wrapping", "thinking")
    /\ ungated' = [ungated EXCEPT ![u] = snapshot[u] \ protected]
    /\ UNCHANGED <<session, catalogVars, breakerVars, grant, repairing,
                   sessionVars, repairVars, found, snapshot, calling, approved,
                   calls>>

(* The model calls a tool; one that is gated runs once it is approved. *)
BeginCall(u, t) ==
    /\ calls[u] < MaxCalls
    /\ t \in snapshot[u]
    /\ Goes(u, "thinking", "gating")
    /\ calling' = [calling EXCEPT ![u] = t]
    /\ approved' = [approved EXCEPT ![u] = t \notin ungated[u]]
    /\ calls' = [calls EXCEPT ![u] = @ + 1]
    /\ UNCHANGED <<session, catalogVars, breakerVars, grant, repairing,
                   sessionVars, repairVars, found, snapshot, ungated>>

(* refreshStateLocked: ready again once no tool is cooling down. *)
Refreshed(cd) ==
    IF status = "cooldown" /\ \A t \in Tools : cd[t] # "running"
    THEN "ready" ELSE status

GateRefuses(u) ==
    /\ Goes(u, "gating", "thinking")
    /\ cooldown[calling[u]] = "running"
    /\ UNCHANGED <<session, catalogVars, breakerVars, grant, repairing,
                   sessionVars, repairVars, found, turnVars>>

(* A cooldown that is over clears the breaker and repairs the session. *)
GateRecovers(u) ==
    /\ Goes(u, "gating", "locking")
    /\ cooldown[calling[u]] = "over"
    /\ failures' = [failures EXCEPT ![calling[u]] = 0]
    /\ cooldown' = [cooldown EXCEPT ![calling[u]] = "none"]
    /\ status' = Refreshed(cooldown')
    /\ UNCHANGED <<session, reload, tools, protected, grant, repairing,
                   sessionVars, repairVars, found, turnVars>>

GatePasses(u) ==
    /\ Goes(u, "gating", IF session = None THEN "locking" ELSE "resolving")
    /\ cooldown[calling[u]] = "none"
    /\ UNCHANGED <<session, catalogVars, breakerVars, grant, repairing,
                   sessionVars, repairVars, found, turnVars>>

(* The session is looked up once more, for the call itself. *)
Resolve(u) ==
    /\ Goes(u, "resolving", IF session = None THEN "thinking" ELSE "calling")
    /\ found' = [found EXCEPT ![u] = session]
    /\ UNCHANGED <<session, catalogVars, breakerVars, grant, repairing,
                   sessionVars, repairVars, turnVars>>

(* resultHandler *)
Succeeds(u) ==
    /\ Goes(u, "calling", "thinking")
    /\ failures' = [failures EXCEPT ![calling[u]] = 0]
    /\ cooldown' = [cooldown EXCEPT ![calling[u]] = "none"]
    /\ status' = Refreshed(cooldown')
    /\ found' = [found EXCEPT ![u] = None]
    /\ UNCHANGED <<session, reload, tools, protected, grant, repairing,
                   sessionVars, repairVars, turnVars>>

FailsCall(u) ==
    /\ Goes(u, "calling", "thinking")
    /\ LET n == failures[calling[u]] + 1 IN
        /\ failures' = [failures EXCEPT ![calling[u]] =
                            IF n > FailureThreshold THEN @ ELSE n]
        /\ IF n >= FailureThreshold
           THEN /\ cooldown' = [cooldown EXCEPT ![calling[u]] = "running"]
                /\ status' = "cooldown"
           ELSE UNCHANGED <<cooldown, status>>
    /\ found' = [found EXCEPT ![u] = None]
    /\ UNCHANGED <<session, reload, tools, protected, grant, repairing,
                   sessionVars, repairVars, turnVars>>

(* Time passes. *)
CooldownEnds(t) ==
    /\ cooldown[t] = "running"
    /\ cooldown' = [cooldown EXCEPT ![t] = "over"]
    /\ UNCHANGED <<session, catalogVars, failures, grant, repairing,
                   sessionVars, repairVars, pc, found, turnVars>>

-----------------------------------------------------------------------------

Repair(a) ==
    \/ Lock(a) \/ Refresh(a) \/ Take(a) \/ Connects(a) \/ ConnectFails(a)
    \/ Discovers(a) \/ DiscoveryFails(a) \/ Install(a)

Call(u) ==
    \/ GateRefuses(u) \/ GateRecovers(u) \/ GatePasses(u) \/ Resolve(u)
    \/ Succeeds(u) \/ FailsCall(u)

Next ==
    \/ \E a \in Repairs : \/ BeginReload(a) \/ BeginRefresh(a) \/ BeginProbe(a)
                          \/ CompleteLogin(a) \/ Logout(a)
                          \/ Probe(a) \/ Disconnect(a) \/ MarkReloadRequired(a)
    \/ \E a \in Actors : Repair(a)
    \/ \E u \in Turns : \/ ReadCatalog(u) \/ WrapTools(u) \/ Call(u)
                        \/ \E t \in Tools : BeginCall(u, t)
    \/ \E t \in Tools : CooldownEnds(t)

Spec == Init /\ [][Next]_vars

-----------------------------------------------------------------------------
(* Properties *)

States == {"ready", "login_required", "unavailable", "cooldown"}
Breaks == {"none", "running", "over"}

Repairing ==
    {"refreshing", "taking", "connecting", "discovering", "installing"}

(* Every variable has its type; only gated tools of the catalog are        *)
(* protected, and a breaker cools down only at its threshold.              *)
TypeOK ==
    /\ session \in Sessions \cup {None}
    /\ status \in States /\ reload \in BOOLEAN
    /\ tools \subseteq Tools /\ protected \subseteq tools
    /\ failures \in [Tools -> 0..FailureThreshold]
    /\ cooldown \in [Tools -> Breaks]
    /\ \A t \in Tools : cooldown[t] # "none" => failures[t] = FailureThreshold
    /\ grant \in BOOLEAN /\ early \in BOOLEAN
    /\ repairing \in Actors \cup {None}
    /\ minted \in 0..MaxSessions /\ open \subseteq 1..minted
    /\ pc \in [Actors -> Repairing \cup {"idle", "locking", "probing",
            "disconnecting", "marking", "wrapping", "thinking", "gating",
            "resolving", "calling", "done"}]
    /\ kind \in [Actors -> {"reconnect", "refresh"}]
    /\ found \in [Actors -> Sessions \cup {None}]
    /\ outcome \in [Actors -> [status : States, tools : SUBSET Tools]]
    /\ snapshot \in [Turns -> SUBSET Tools]
    /\ ungated \in [Turns -> SUBSET Tools]
    /\ calling \in [Turns -> Tools \cup {None}]
    /\ approved \in [Turns -> BOOLEAN]
    /\ calls \in [Turns -> 0..MaxCalls]

(* Every session that is open is the server's, or is in the hands of the   *)
(* one repair that will install or close it: however reloads, probes,      *)
(* notifications, logouts and calls interleave, none is dropped without    *)
(* being closed (repairMu).  Only NewManager, which repairs without        *)
(* repairMu, can drop one, if the server notifies it meanwhile.            *)
NoLostSession ==
    ~early => \A s \in open :
        \/ s = session
        \/ \E a \in Actors : found[a] = s /\ pc[a] \in {"discovering", "installing"}

(* A server that reports a cooldown has a tool whose breaker is cooling    *)
(* down: no order of results, expiries and repairs leaves the report       *)
(* behind when the last breaker is gone (refreshStateLocked).              *)
CooldownHasCause ==
    status = "cooldown" => \E t \in Tools : cooldown[t] # "none"

(* The catalog never offers a tool without a session or a repair that      *)
(* brings one: what a later turn reads can be called.                      *)
CatalogIsServed ==
    tools # {} => session # None \/ repairing # None

(* Only NewManager repairs without repairMu; a repair holds it throughout, *)
(* and whoever holds it is repairing: no way out of a repair, failed or    *)
(* not, keeps the next reload, notification or call waiting for ever.      *)
OneRepair ==
    \A a \in Turns \cup Repairs : repairing = a <=> pc[a] \in Repairing

(* manager.go:55 says that the gates are "rebuilt with the catalog so a    *)
(* reconnect can never drop a gate": no turn calls a tool without an       *)
(* approval while the manager has it among those that require one.         *)
NoUnapprovedCall ==
    \A u \in Turns :
        pc[u] = "calling" /\ calling[u] \in protected => approved[u]

(* A session is known to its server until it is closed, one repair runs at *)
(* a time and lets go, and neither the catalog nor a cooldown is left      *)
(* behind without what stands for it (manager.go).                         *)
SessionsSafe ==
    NoLostSession /\ OneRepair /\ CooldownHasCause /\ CatalogIsServed
=============================================================================

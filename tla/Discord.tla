------------------------------- MODULE Discord ------------------------------
(***************************************************************************)
(* Eggy in Discord direct messages: intake of the gateway's messages, each *)
(* on a goroutine of its own (channel/discord/handler.go), and what a turn *)
(* writes into the DM it was started from (channel.go, routed_channel.go,  *)
(* turn_presenter.go): one progress line for its tool calls, then the      *)
(* reply, in as many messages as it needs.                                 *)
(*                                                                         *)
(* A DM is known by its user. Who is linked to which account is read from  *)
(* the configuration at every message and at every delivery, and can       *)
(* change between any two steps.                                           *)
(***************************************************************************)
EXTENDS Naturals, Sequences, FiniteSets

CONSTANTS Members,     \* accounts
          Users,       \* Discord users
          Lines,       \* messages they write
          Chunks,      \* messages the reply of a turn needs
          RoomFor,     \* room in the event queue
          MaxLinks,    \* bound: link tokens issued, and links removed
          MaxWindows,  \* bound: denial windows that end
          None

VARIABLES linked,    \* [Members -> the Discord user of the account, or None]
          tokens,    \* accounts with an open link token
          links,     \* tokens issued and links removed so far
          kinds,     \* [Users -> what the handler remembers of their channel]
          denied,    \* users told, in the window that runs, that they are unknown
          windows,   \* windows that ended
          lines,     \* [Lines -> [from, says, at]]
          waiting,   \* the event queue
          turn,      \* None or [owner, dm, at, line, left]
          began,     \* history: deliveries started: [owner, dm, user]
          strangers  \* history: messages to a user who was no longer linked

vars == <<linked, tokens, links, kinds, denied, windows, lines, waiting,
          turn, began, strangers>>
directory == <<linked, tokens, links>>
intake == <<kinds, denied, windows>>
output == <<began, strangers>>

Init ==
    /\ linked = [a \in Members |-> None] /\ tokens = {} /\ links = 0
    /\ kinds = [u \in Users |-> "unseen"] /\ denied = {} /\ windows = 0
    /\ lines = [l \in Lines |-> [from |-> None, says |-> None, at |-> "new"]]
    /\ waiting = << >> /\ turn = None /\ began = {} /\ strangers = {}

(****************************** the directory ******************************)
Issue(a) ==
    /\ links < MaxLinks
    /\ links' = links + 1 /\ tokens' = tokens \cup {a}
    /\ UNCHANGED <<linked, intake, lines, waiting, turn, output>>

Unlink(a) ==
    /\ links < MaxLinks /\ linked[a] # None
    /\ links' = links + 1 /\ linked' = [linked EXCEPT ![a] = None]
    /\ UNCHANGED <<tokens, intake, lines, waiting, turn, output>>

AccountOf(u) == {a \in Members: linked[a] = u}

(********************************* intake **********************************)
Write(l) ==
    /\ lines[l].at = "new"
    /\ \E u \in Users, says \in {"text", "link"}:
           lines' = [lines EXCEPT ![l] = [from |-> u, says |-> says, at |-> "arrived"]]
    /\ UNCHANGED <<directory, intake, waiting, turn, output>>

\* The kind of a channel is asked of Discord once; a lookup that fails drops
\* the message.
LookUp(l) ==
    /\ lines[l].at = "arrived"
    /\ LET u == lines[l].from IN
       CASE kinds[u] = "unseen" ->
                \/ /\ kinds' = [kinds EXCEPT ![u] = "dm"]
                   /\ lines' = [lines EXCEPT ![l].at = "seen"]
                \/ UNCHANGED kinds /\ lines' = [lines EXCEPT ![l].at = "lost"]
         [] kinds[u] = "dm" -> lines' = [lines EXCEPT ![l].at = "seen"] /\ UNCHANGED kinds
         [] OTHER -> lines' = [lines EXCEPT ![l].at = "ignored"] /\ UNCHANGED kinds
    /\ UNCHANGED <<directory, denied, windows, waiting, turn, output>>

Done(l, how) == lines' = [lines EXCEPT ![l].at = how]

\* A message of a linked user becomes an event; a full queue drops it.
Accept(l) ==
    /\ lines[l].at = "seen" /\ lines[l].says = "text"
    /\ \E a \in AccountOf(lines[l].from):
           IF Len(waiting) < RoomFor
           THEN waiting' = Append(waiting, [owner |-> a, dm |-> lines[l].from]) /\ Done(l, "taken")
           ELSE Done(l, "lost") /\ UNCHANGED waiting
    /\ UNCHANGED <<directory, intake, turn, output>>

AlreadyLinked(l) ==
    /\ lines[l].at = "seen" /\ lines[l].says = "link" /\ AccountOf(lines[l].from) # {}
    /\ Done(l, "noticed")
    /\ UNCHANGED <<directory, intake, waiting, turn, output>>

\* An unknown user's token is redeemed for an account that has no user yet.
Redeem(l) ==
    /\ lines[l].at = "seen" /\ lines[l].says = "link" /\ AccountOf(lines[l].from) = {}
    /\ \/ \E a \in tokens: /\ linked[a] = None
                           /\ linked' = [linked EXCEPT ![a] = lines[l].from]
                           /\ tokens' = tokens \ {a}
       \/ UNCHANGED <<linked, tokens>>           \* invalid, expired, or refused
    /\ Done(l, "noticed")
    /\ UNCHANGED <<links, intake, waiting, turn, output>>

\* An unknown user is told so once in a window. The look at the ledger and the
\* note in it are one step under the lock.
Deny(l) ==
    /\ lines[l].at = "seen" /\ lines[l].says = "text" /\ AccountOf(lines[l].from) = {}
    /\ LET u == lines[l].from IN
       IF u \in denied THEN Done(l, "ignored") /\ UNCHANGED denied
       ELSE /\ denied' = denied \cup {u}
            /\ Done(l, "noticed")
    /\ UNCHANGED <<directory, kinds, windows, waiting, turn, output>>

WindowEnds(u) ==
    /\ u \in denied /\ windows < MaxWindows
    /\ windows' = windows + 1
    /\ denied' = denied \ {u}
    /\ UNCHANGED <<directory, kinds, lines, waiting, turn, output>>

(********************************* a turn **********************************)
Start ==
    /\ turn = None /\ waiting # << >>
    /\ waiting' = Tail(waiting)
    /\ turn' = [owner |-> Head(waiting).owner, dm |-> Head(waiting).dm,
                at |-> "working", line |-> FALSE, left |-> 0]
    /\ UNCHANGED <<directory, intake, lines, output>>

\* A delivery goes to the DM of the turn if that is, now, the account's own.
ToAnyDm == turn.dm \in Users

ToItsDm == linked[turn.owner] = turn.dm

Begun == began \cup {[owner |-> turn.owner, dm |-> turn.dm, user |-> linked[turn.owner]]}

\* A tool call: the line is edited, or sent as a message of its own.
Progress ==
    /\ turn # None /\ turn.at = "working"
    /\ IF ToItsDm THEN turn' = [turn EXCEPT !.line = TRUE] /\ began' = Begun
       ELSE UNCHANGED <<turn, began>>
    /\ UNCHANGED <<directory, intake, lines, waiting, strangers>>

\* The turn has its reply: the destination is resolved once for all its parts.
Reply ==
    /\ turn # None /\ turn.at = "working"
    /\ IF ToItsDm
       THEN turn' = [turn EXCEPT !.at = "sending", !.left = Chunks] /\ began' = Begun
       ELSE turn' = [turn EXCEPT !.at = "failed"] /\ UNCHANGED began
    /\ UNCHANGED <<directory, intake, lines, waiting, strangers>>

SendChunk ==
    /\ turn # None /\ turn.at = "sending" /\ turn.left > 0
    /\ \/ /\ turn' = [turn EXCEPT !.left = @ - 1]
          /\ strangers' = IF linked[turn.owner] = turn.dm THEN strangers
                          ELSE strangers \cup {turn.dm}
       \/ turn' = [turn EXCEPT !.at = "failed"] /\ UNCHANGED strangers
    /\ UNCHANGED <<directory, intake, lines, waiting, began>>

\* The line is not deleted from a DM: it stays as the summary of the turn.
Finish ==
    /\ turn # None
    /\ turn.at = "failed" \/ (turn.at = "sending" /\ turn.left = 0)
    /\ turn' = None
    /\ began' = IF turn.line /\ ToItsDm THEN Begun ELSE began
    /\ UNCHANGED <<directory, intake, lines, waiting, strangers>>

Next ==
    \/ \E a \in Members: Issue(a) \/ Unlink(a)
    \/ \E l \in Lines: Write(l) \/ LookUp(l) \/ Accept(l) \/ AlreadyLinked(l) \/ Redeem(l) \/ Deny(l)
    \/ \E u \in Users: WindowEnds(u)
    \/ Start \/ Progress \/ Reply \/ SendChunk \/ Finish

Spec == Init /\ [][Next]_vars

(******************************* properties ********************************)
TypeOK ==
    /\ linked \in [Members -> Users \cup {None}] /\ tokens \subseteq Members
    /\ links \in 0..MaxLinks /\ windows \in 0..MaxWindows
    /\ kinds \in [Users -> {"unseen", "dm", "other"}] /\ denied \subseteq Users
    /\ DOMAIN lines = Lines /\ Len(waiting) <= RoomFor
    /\ strangers \subseteq Users
    /\ turn # None => /\ turn.owner \in Members /\ turn.dm \in Users
                      /\ turn.at \in {"working", "sending", "failed"} /\ turn.left \in 0..Chunks

\* Nothing a turn delivers is started into a DM of a user who is not, then,
\* the account's own: not after the link is gone, nor after another is made.
OnlyItsOwner == \A b \in began: b.user = b.dm

\* A direct message is never remembered as something else, which would shut
\* its user out until a restart.
NobodyIsShutOut == \A u \in Users: kinds[u] # "other"
=============================================================================

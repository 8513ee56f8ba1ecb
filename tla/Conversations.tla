---------------------------- MODULE Conversations ----------------------------
(***************************************************************************)
(* What services.ActiveTurns promises: each conversation runs at most one  *)
(* execution; an input waits until it may run alone or join the execution  *)
(* that is running; a joined input is read by that execution or given back *)
(* when it ends; a stopped execution takes nothing more.                   *)
(***************************************************************************)
EXTENDS Sequences

CONSTANTS Calls, Keys, None

VARIABLES
    key, steerable, joinable, \* the inputs: where they go and what they allow
    fate,                     \* what became of each input
    running,                  \* the execution of each conversation, or None
    taking,                   \* conversations whose execution takes steers
    inbox,                    \* steers accepted and not read yet
    drained, returned         \* steers an execution read, or got back at its end

vars == <<key, steerable, joinable, fate, running, taking, inbox, drained,
          returned>>

Init ==
    /\ key \in [Calls -> Keys]
    /\ steerable \in [Calls -> BOOLEAN]
    /\ joinable \in [Calls -> BOOLEAN]
    /\ fate = [c \in Calls |-> "outside"]
    /\ running = [k \in Keys |-> None]
    /\ taking = {}
    /\ inbox = [k \in Keys |-> <<>>]
    /\ drained = [c \in Calls |-> <<>>]
    /\ returned = [c \in Calls |-> <<>>]

Becomes(c, from, to) ==
    /\ fate[c] = from
    /\ fate' = [fate EXCEPT ![c] = to]
    /\ UNCHANGED <<key, steerable, joinable>>

Ask(c) ==
    /\ Becomes(c, "outside", "waiting")
    /\ UNCHANGED <<running, taking, inbox, drained, returned>>

Refuse(c) ==
    /\ Becomes(c, "waiting", "refused")
    /\ UNCHANGED <<running, taking, inbox, drained, returned>>

Begin(c) ==
    /\ Becomes(c, "waiting", "running")
    /\ running[key[c]] = None
    /\ running' = [running EXCEPT ![key[c]] = c]
    /\ taking' = IF steerable[c] THEN taking \cup {key[c]} ELSE taking
    /\ UNCHANGED <<inbox, drained, returned>>

Join(c) ==
    /\ Becomes(c, "waiting", "joined")
    /\ key[c] \in taking
    /\ steerable[c] /\ joinable[c]
    /\ inbox' = [inbox EXCEPT ![key[c]] = Append(@, c)]
    /\ UNCHANGED <<running, taking, drained, returned>>

Read(c) ==
    /\ running[key[c]] = c
    /\ drained' = [drained EXCEPT ![c] = @ \o inbox[key[c]]]
    /\ inbox' = [inbox EXCEPT ![key[c]] = <<>>]
    /\ UNCHANGED <<key, steerable, joinable, fate, running, taking, returned>>

End(c) ==
    /\ Becomes(c, "running", "finished")
    /\ running[key[c]] = c
    /\ running' = [running EXCEPT ![key[c]] = None]
    /\ taking' = taking \ {key[c]}
    /\ returned' = [returned EXCEPT ![c] = inbox[key[c]]]
    /\ inbox' = [inbox EXCEPT ![key[c]] = <<>>]
    /\ UNCHANGED drained

Stop(k) ==
    /\ running[k] # None
    /\ taking' = taking \ {k}
    /\ UNCHANGED <<key, steerable, joinable, fate, running, inbox, drained,
                   returned>>

Next ==
    \/ \E c \in Calls : Ask(c) \/ Refuse(c) \/ Begin(c) \/ Join(c)
                        \/ Read(c) \/ End(c)
    \/ \E k \in Keys : Stop(k)

Spec == Init /\ [][Next]_vars
=============================================================================

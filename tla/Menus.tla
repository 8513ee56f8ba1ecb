-------------------------------- MODULE Menus --------------------------------
(***************************************************************************)
(* The button menus of a Telegram chat: what each menu offers and does     *)
(* (commands/menu.go), and the registry that turns a tap into one action   *)
(* of its account (channel/telegram/control.go). /menu opens a menu in a   *)
(* message of its own, a tap acts and redraws its own message.             *)
(*                                                                         *)
(* Taps come out of the event queue and are handled side by side. The      *)
(* settings the menus do not change themselves are a flag: whether the     *)
(* effort levels a menu offered are still the model's.                     *)
(***************************************************************************)
EXTENDS Naturals, FiniteSets

CONSTANTS Presses,      \* taps on a menu button
          MaxMenus,     \* bound: menus drawn
          MaxChanges,   \* bound: models chosen elsewhere, and restarts
          None

VARIABLES menus,     \* [menu id -> [message, kind, fresh]] the registry of Control
          drawn,     \* menus drawn so far: their ids are 1..drawn
          opened,    \* the newest message a menu was opened in
          opening,   \* whether /menu has its panel and waits for the lock
          presses,   \* [Presses -> [at, menu, was]]
          redraws,   \* history: [menu id -> taps that redrew it]
          able,      \* whether the model has the levels the menus offer
          approval,  \* the approval mode of the account
          changes

vars == <<menus, drawn, opened, opening, presses, redraws, able, approval, changes>>
registry == <<menus, drawn, opened, opening, redraws>>

Init ==
    /\ menus = << >> /\ drawn = 0 /\ opened = 0 /\ opening = FALSE
    /\ presses = [p \in Presses |-> [at |-> "new", menu |-> 0, was |-> None]]
    /\ redraws = << >>
    /\ able = TRUE /\ approval = "normal" /\ changes = 0

\* What a tap leads to: the panel it opens, or the setting it writes.
Opens(kind) ==
    CASE kind = "menu" -> {"settings", "status", "help", "web"}
      [] kind = "settings" -> {"models", "effort", "thinking", "heartbeat", "mode", "menu"}
      [] kind = "models" -> {"models", "settings"}
      [] kind = "mode" -> {"confirm-auto", "settings"}
      [] kind = "confirm-auto" -> {"mode"}
      [] kind \in {"effort", "thinking", "heartbeat"} -> {"settings"}
      [] OTHER -> {"menu"}

Sets(kind) ==
    CASE kind = "mode" -> {"normal", "strict"}
      [] kind = "confirm-auto" -> {"auto"}
      [] kind \in {"models", "effort", "thinking", "heartbeat"} -> {kind}
      [] OTHER -> {}

(******************************** drawing **********************************)
\* Every menu of the account leaves the registry for the one just drawn.
Show(kind, message) ==
    /\ drawn < MaxMenus
    /\ drawn' = drawn + 1
    /\ menus' = [i \in {drawn + 1} |-> [message |-> message, kind |-> kind, fresh |-> TRUE]]

\* /menu, /settings: the panel is made, then drawn in a message of its own.
OpenMenu ==
    /\ ~opening /\ drawn < MaxMenus
    /\ opening' = TRUE
    /\ UNCHANGED <<menus, drawn, opened, presses, redraws, able, approval, changes>>

DrawMenu ==
    /\ opening
    /\ opening' = FALSE
    /\ \/ /\ \E kind \in {"menu", "settings"}: Show(kind, opened + 1)
          /\ opened' = opened + 1
          /\ redraws' = [i \in 1..drawn + 1 |-> IF i <= drawn THEN redraws[i] ELSE 0]
       \/ UNCHANGED <<menus, drawn, opened, redraws>>          \* Telegram refuses it
    /\ UNCHANGED <<presses, able, approval, changes>>

Expire(i) ==
    /\ i \in DOMAIN menus /\ menus[i].fresh
    /\ menus' = [menus EXCEPT ![i].fresh = FALSE]
    /\ UNCHANGED <<drawn, opened, opening, presses, redraws, able, approval, changes>>

(********************************* a tap ***********************************)
Without(i) == [j \in DOMAIN menus \ {i} |-> menus[j]]

\* The menu leaves the registry before its action runs; an expired one only
\* leaves it.
TakenLater(i) == menus
Taken(i) == Without(i)

Press(p, i) ==
    /\ presses[p].at = "new" /\ i \in DOMAIN menus
    /\ menus' = IF menus[i].fresh THEN Taken(i) ELSE Without(i)
    /\ presses' = [presses EXCEPT ![p] =
          [at |-> IF menus[i].fresh THEN "acting" ELSE "answered", menu |-> i, was |-> menus[i]]]
    /\ UNCHANGED <<drawn, opened, opening, redraws, able, approval, changes>>

\* A tap on a message whose menu is gone is answered and does nothing.
PressNothing(p) ==
    /\ presses[p].at = "new" /\ drawn > 0
    /\ presses' = [presses EXCEPT ![p].at = "answered"]
    /\ UNCHANGED <<registry, able, approval, changes>>

Open(p, kind) ==
    /\ presses[p].at = "acting"
    /\ kind \in Opens(presses[p].was.kind)
    /\ presses' = [presses EXCEPT ![p].at = kind]
    /\ UNCHANGED <<registry, able, approval, changes>>

\* A setting is written if it is still one of this account's, and the menu
\* goes back to the settings.
Set(p) ==
    /\ presses[p].at = "acting"
    /\ \E setting \in Sets(presses[p].was.kind):
          IF setting = "effort" /\ ~able
          THEN presses' = [presses EXCEPT ![p].at = "failing"] /\ UNCHANGED approval
          ELSE /\ presses' = [presses EXCEPT ![p].at = "settings"]
               /\ approval' = IF setting \in {"normal", "strict", "auto"} THEN setting ELSE approval
    /\ UNCHANGED <<registry, able, changes>>

Drawing(p) == presses[p].at \notin {"new", "acting", "failing", "answered"}

Redraw(p) ==
    /\ Drawing(p)
    /\ Show(presses[p].at, presses[p].was.message)
    /\ redraws' = [i \in 1..drawn + 1 |->
          IF i > drawn THEN 0 ELSE IF i = presses[p].menu THEN redraws[i] + 1 ELSE redraws[i]]
    /\ presses' = [presses EXCEPT ![p].at = "answered"]
    /\ UNCHANGED <<opened, opening, able, approval, changes>>

EditFails(p) ==
    /\ Drawing(p)
    /\ presses' = [presses EXCEPT ![p].at = "failing"]
    /\ UNCHANGED <<registry, able, approval, changes>>

\* A menu that could not be redrawn is still on the screen: it goes back.
PutBack(p) ==
    /\ presses[p].at = "failing"
    /\ menus' = [i \in DOMAIN menus \cup {presses[p].menu} |->
                    IF i = presses[p].menu THEN presses[p].was ELSE menus[i]]
    /\ presses' = [presses EXCEPT ![p].at = "answered"]
    /\ UNCHANGED <<drawn, opened, opening, redraws, able, approval, changes>>

(***************************** everything else *****************************)
ModelChanges ==
    /\ changes < MaxChanges
    /\ changes' = changes + 1
    /\ able' = ~able
    /\ UNCHANGED <<registry, presses, approval>>

\* The registry is memory only.
Restart ==
    /\ changes < MaxChanges
    /\ changes' = changes + 1
    /\ menus' = << >> /\ opening' = FALSE
    /\ presses' = [p \in Presses |->
          IF presses[p].at = "new" THEN presses[p] ELSE [presses[p] EXCEPT !.at = "answered"]]
    /\ UNCHANGED <<drawn, opened, redraws, able, approval>>

Kinds == {"menu", "settings", "models", "effort", "thinking", "heartbeat", "mode",
          "confirm-auto", "status", "help", "web"}

Next ==
    \/ OpenMenu \/ DrawMenu
    \/ \E i \in 1..MaxMenus: Expire(i)
    \/ \E p \in Presses, i \in 1..MaxMenus: Press(p, i)
    \/ \E p \in Presses, kind \in Kinds: Open(p, kind)
    \/ \E p \in Presses: PressNothing(p) \/ Set(p) \/ Redraw(p) \/ EditFails(p) \/ PutBack(p)
    \/ ModelChanges \/ Restart

Spec == Init /\ [][Next]_vars

-----------------------------------------------------------------------------
TypeOK ==
    /\ DOMAIN menus \subseteq 1..drawn /\ DOMAIN redraws = 1..drawn /\ opened <= drawn
    /\ drawn \in 0..MaxMenus /\ changes \in 0..MaxChanges
    /\ {opening, able} \subseteq BOOLEAN /\ approval \in {"normal", "strict", "auto"}

\* A drawn menu is spent by one tap: a second tap on the same buttons, handled
\* while the first is still acting, does not act again (control.go, Callback).
OneRedraw == \A i \in DOMAIN redraws: redraws[i] <= 1

\* Auto mode is one nobody reaches by accident: only the menu that warns of
\* it can have set it (menu.go, confirm-auto).
AutoWasConfirmed ==
    approval = "auto" => \E p \in Presses: presses[p].was # None /\ presses[p].was.kind = "confirm-auto"
=============================================================================

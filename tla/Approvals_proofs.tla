--------------------------- MODULE Approvals_proofs ---------------------------
(***************************************************************************)
(* What is proved of Approvals for any number of calls, taps, mode changes,*)
(* reconnects and crashes: consent is used once, it is the owner's, and a  *)
(* verdict is final.                                                       *)
(***************************************************************************)
EXTENDS Approvals, TLAPS

-----------------------------------------------------------------------------
(* The inductive invariant *)

(* A tap whose approve verdict was committed and may still be acted upon. *)
Approving == {"approved", "authorizing", "authorized", "ran"}

(* The tap behind a consumed approval, wherever it has come since. *)
Consumed(t, c) ==
    /\ target[t] = c
    /\ verdict[t]
    /\ pc[t] \in {"authorized", "ran", "failed", "lost"}

(* What a tap has been told is what the record says, and a tap that was    *)
(* authorized and has not executed yet finds its tool not executed.        *)
TapInv ==
    \A t \in Taps :
        /\ pc[t] \in Approving => verdict[t]
        /\ pc[t] \in {"authorized", "ran"} =>
              /\ readGeneration[t] = bound[target[t]]
              /\ status[target[t]] = "used"
        /\ pc[t] = "authorized" => ran[target[t]] = 0
        /\ pc[t] \in {"expired", "retired"} =>
              status[target[t]] \in {"expired", "invalidated"}

(* One tap at a time is between the consumption and the execution. *)
OneConsumer ==
    \A t, u \in Taps :
        /\ pc[t] = "authorized" /\ pc[u] = "authorized"
        /\ target[t] = target[u]
        => t = u

(* A record exists once its call has asked, and stands for its execution. *)
CallInv ==
    \A c \in Calls :
        /\ pc[c] \in {"idle", "inline", "asking", "requesting"} =>
              status[c] = "absent"
        /\ ran[c] <= 1
        /\ ran[c] # 0 => status[c] = "used"
        /\ status[c] = "used" => \E t \in Taps : Consumed(t, c)

IInv == TypeOK /\ TapInv /\ OneConsumer /\ CallInv

-----------------------------------------------------------------------------
(* A step of one writer leaves every other one where it is. *)
LEMMA GoesOnly ==
  ASSUME TypeOK, NEW p \in Writers, NEW from, NEW to \in Places,
         Goes(p, from, to)
  PROVE  /\ pc' \in [Writers -> Places]
         /\ pc[p] = from /\ pc'[p] = to
         /\ \A q \in Writers : q # p => pc'[q] = pc[q]
  BY DEF Goes, TypeOK

(* The three kinds of writers are disjoint. *)
LEMMA WritersApart ==
  /\ Calls \subseteq Writers /\ Taps \subseteq Writers /\ Setters \subseteq Writers
  /\ \A c \in Calls, t \in Taps : c # t
  /\ \A s \in Setters : s \notin Calls /\ s \notin Taps
  BY ApprovalsAssumption DEF Writers

(* An empty record, and nobody on the way. *)
LEMMA InitInv == Init => IInv
  BY ApprovalsAssumption, WritersApart
  DEF Init, IInv, TypeOK, TapInv, OneConsumer, CallInv, Consumed, Approving,
      Places, Resting, Statuses, Writers

USE DEF stateVars, worldVars, tapVars
-----------------------------------------------------------------------------
(* Every action keeps the types. *)
LEMMA TypeStep == TypeOK /\ [Next]_vars => TypeOK'
<1> SUFFICES ASSUME TypeOK, [Next]_vars PROVE TypeOK'
  OBVIOUS
<1> USE WritersApart
<1>1. ASSUME NEW c \in Calls, ReadMode(c) PROVE TypeOK'
  BY <1>1, GoesOnly DEF ReadMode, TypeOK, Places, Resting
<1>2. ASSUME NEW c \in Calls, LoadForRequest(c) PROVE TypeOK'
  BY <1>2, GoesOnly DEF LoadForRequest, Loads, TypeOK, Places, Resting
<1>3. ASSUME NEW c \in Calls, Request(c) PROVE TypeOK'
  BY <1>3, GoesOnly DEF Request, Commits, TypeOK, Places, Resting, Statuses
<1>4. ASSUME NEW p \in Writers, NEW at, Conflict(p, at) PROVE TypeOK'
  BY <1>4, GoesOnly DEF Conflict, TypeOK, Places, Resting
<1>5. ASSUME NEW c \in Calls, WindowCloses(c) PROVE TypeOK'
  BY <1>5 DEF WindowCloses, TypeOK
<1>6. ASSUME NEW t \in Taps, LoadForDecide(t) PROVE TypeOK'
  BY <1>6, GoesOnly DEF LoadForDecide, Loads, TypeOK, Places, Resting
<1>7. ASSUME NEW t \in Taps, DecideExpired(t) PROVE TypeOK'
  BY <1>7, GoesOnly DEF DecideExpired, Commits, TypeOK, Places, Resting, Statuses
<1>8. ASSUME NEW t \in Taps, Decide(t) PROVE TypeOK'
  BY <1>8, GoesOnly DEF Decide, Commits, TypeOK, Places, Resting, Statuses
<1>9. ASSUME NEW t \in Taps, DecideRefused(t) PROVE TypeOK'
  BY <1>9, GoesOnly DEF DecideRefused, Refused, TypeOK, Places, Resting
<1>10. ASSUME NEW t \in Taps, LoadForAuthorize(t) PROVE TypeOK'
  BY <1>10, GoesOnly DEF LoadForAuthorize, Loads, TypeOK, Places, Resting
<1>11. ASSUME NEW t \in Taps, AuthorizeRetires(t) PROVE TypeOK'
  BY <1>11, GoesOnly DEF AuthorizeRetires, Commits, TypeOK, Places, Resting, Statuses
<1>12. ASSUME NEW t \in Taps, Authorize(t) PROVE TypeOK'
  BY <1>12, GoesOnly DEF Authorize, Commits, TypeOK, Places, Resting, Statuses
<1>13. ASSUME NEW t \in Taps, ToolIsGone(t) PROVE TypeOK'
  BY <1>13, GoesOnly DEF ToolIsGone, TypeOK, Places, Resting
<1>14. ASSUME NEW t \in Taps, ExecuteApproved(t) PROVE TypeOK'
  BY <1>14, GoesOnly DEF ExecuteApproved, TypeOK, Places, Resting
<1>15. ASSUME NEW s \in Setters, LoadForSetMode(s) PROVE TypeOK'
  BY <1>15, GoesOnly DEF LoadForSetMode, Loads, TypeOK, Places, Resting
<1>16. ASSUME NEW s \in Setters, SetMode(s) PROVE TypeOK'
  BY <1>16, GoesOnly DEF SetMode, Commits, TypeOK, Places, Resting
<1>17. CASE Reconnect
  BY <1>17 DEF Reconnect, TypeOK
<1>18. CASE Crash
  BY <1>18 DEF Crash, TypeOK, Places, Resting
<1>19. CASE UNCHANGED vars
  BY <1>19 DEF vars, TypeOK
<1>. QED
  BY <1>1, <1>2, <1>3, <1>4, <1>5, <1>6, <1>7, <1>8, <1>9, <1>10, <1>11, <1>12,
     <1>13, <1>14, <1>15, <1>16, <1>17, <1>18, <1>19 DEF Next

-----------------------------------------------------------------------------
(* Every action keeps the rest. *)
Rest == TapInv /\ OneConsumer /\ CallInv

(* One step for each action. *)
LEMMA RestStep == IInv /\ [Next]_vars => Rest'
<1> SUFFICES ASSUME IInv, [Next]_vars PROVE Rest'
  OBVIOUS
<1> USE WritersApart DEF IInv, TypeOK, Rest, TapInv, OneConsumer, CallInv, Consumed,
                         Approving, Places, Resting
<1>1. ASSUME NEW c \in Calls, ReadMode(c) PROVE Rest'
  BY <1>1, GoesOnly DEF ReadMode
<1>2. ASSUME NEW c \in Calls, LoadForRequest(c) PROVE Rest'
  BY <1>2, GoesOnly DEF LoadForRequest
<1>3. ASSUME NEW c \in Calls, Request(c) PROVE Rest'
  BY <1>3, GoesOnly DEF Request
<1>4. ASSUME NEW p \in Writers, NEW at, Conflict(p, at) PROVE Rest'
  BY <1>4, GoesOnly DEF Conflict
<1>5. ASSUME NEW c \in Calls, WindowCloses(c) PROVE Rest'
  BY <1>5 DEF WindowCloses
<1>6. ASSUME NEW t \in Taps, LoadForDecide(t) PROVE Rest'
  BY <1>6, GoesOnly DEF LoadForDecide
<1>7. ASSUME NEW t \in Taps, DecideExpired(t) PROVE Rest'
  BY <1>7, GoesOnly DEF DecideExpired, MayDecide
<1>8. ASSUME NEW t \in Taps, Decide(t) PROVE Rest'
  BY <1>8, GoesOnly DEF Decide, MayDecide
<1>9. ASSUME NEW t \in Taps, DecideRefused(t) PROVE Rest'
  BY <1>9, GoesOnly DEF DecideRefused, Refused
<1>10. ASSUME NEW t \in Taps, LoadForAuthorize(t) PROVE Rest'
  BY <1>10, GoesOnly DEF LoadForAuthorize
<1>11. ASSUME NEW t \in Taps, AuthorizeRetires(t) PROVE Rest'
  BY <1>11, GoesOnly DEF AuthorizeRetires, MayConsume
<1>12. ASSUME NEW t \in Taps, Authorize(t) PROVE Rest'
  BY <1>12, GoesOnly, SMTT(30) DEF Authorize, MayConsume
<1>13. ASSUME NEW t \in Taps, ToolIsGone(t) PROVE Rest'
  BY <1>13, GoesOnly DEF ToolIsGone
<1>14. ASSUME NEW t \in Taps, ExecuteApproved(t) PROVE Rest'
  BY <1>14, GoesOnly DEF ExecuteApproved
<1>15. ASSUME NEW s \in Setters, LoadForSetMode(s) PROVE Rest'
  BY <1>15, GoesOnly DEF LoadForSetMode
<1>16. ASSUME NEW s \in Setters, SetMode(s) PROVE Rest'
  BY <1>16, GoesOnly DEF SetMode
<1>17. CASE Reconnect
  BY <1>17 DEF Reconnect
<1>18. CASE Crash
  BY <1>18 DEF Crash
<1>19. CASE UNCHANGED vars
  BY <1>19 DEF vars
<1>. QED
  BY <1>1, <1>2, <1>3, <1>4, <1>5, <1>6, <1>7, <1>8, <1>9, <1>10, <1>11, <1>12,
     <1>13, <1>14, <1>15, <1>16, <1>17, <1>18, <1>19 DEF Next

-----------------------------------------------------------------------------
(* The results *)

(* In every reachable state an approval has at most one consumer, and each *)
(* tap has been told what the record says (approval_service.go).           *)
THEOREM Inductive == Spec => []IInv
<1>1. IInv /\ [Next]_vars => IInv'
  BY TypeStep, RestStep DEF IInv, Rest
<1>. QED  BY InitInv, <1>1, PTL DEF Spec

(* The account's state and the operations on it keep their types.          *)
THEOREM TypeCorrect == Spec => []TypeOK
<1>1. IInv => TypeOK
  BY DEF IInv
<1>. QED  BY Inductive, <1>1, PTL

(* The invariant implies what the runs check. *)
LEMMA InvImplied ==
  IInv => /\ RunsAtMostOnce /\ OnlyTheOwnerApproves
          /\ RefusalRetires /\ RunsUnderItsConnection
<1> SUFFICES ASSUME IInv
             PROVE  /\ RunsAtMostOnce /\ OnlyTheOwnerApproves
                    /\ RefusalRetires /\ RunsUnderItsConnection
  OBVIOUS
<1>1. RunsAtMostOnce
  BY DEF IInv, TypeOK, CallInv, RunsAtMostOnce
<1>2. OnlyTheOwnerApproves
  BY DEF IInv, TypeOK, CallInv, Consumed, OnlyTheOwnerApproves
<1>3. RefusalRetires /\ RunsUnderItsConnection
  BY DEF IInv, TapInv, RefusalRetires, RunsUnderItsConnection
<1>. QED  BY <1>1, <1>2, <1>3

(* A record moves forward only: Request is the one that makes it pending,  *)
(* and finds it absent.                                                    *)
LEMMA StatusStep ==
  IInv /\ [Next]_vars => \A c \in Calls : status'[c] \in Follows(status[c])
<1> SUFFICES ASSUME IInv, [Next]_vars, NEW c \in Calls
             PROVE  status'[c] \in Follows(status[c])
  OBVIOUS
<1>1. status \in [Calls -> Statuses] /\ target \in [Taps -> Calls]
  BY DEF IInv, TypeOK
<1>2. status[c] \in Follows(status[c])
  BY <1>1 DEF Follows, Statuses
<1>3. CASE UNCHANGED status
  BY <1>2, <1>3
<1>4. ASSUME NEW d \in Calls, Request(d)
      PROVE  status'[c] \in Follows(status[c])
  <2>1. pc[d] = "requesting"
    BY <1>4 DEF Request, Goes
  <2>2. status[d] = "absent"
    BY <2>1 DEF IInv, CallInv
  <2>. QED  BY <1>1, <1>2, <1>4, <2>2 DEF Request, Follows
<1>5. ASSUME NEW t \in Taps, DecideExpired(t) \/ Decide(t)
      PROVE  status'[c] \in Follows(status[c])
  BY <1>1, <1>2, <1>5 DEF DecideExpired, Decide, MayDecide, Follows
<1>6. ASSUME NEW t \in Taps, AuthorizeRetires(t) \/ Authorize(t)
      PROVE  status'[c] \in Follows(status[c])
  BY <1>1, <1>2, <1>6 DEF AuthorizeRetires, Authorize, MayConsume, Follows
<1>7. \/ UNCHANGED status
      \/ \E d \in Calls : Request(d)
      \/ \E t \in Taps : \/ DecideExpired(t) \/ Decide(t)
                         \/ AuthorizeRetires(t) \/ Authorize(t)
  BY DEF Next, vars, ReadMode, LoadForRequest, Conflict, WindowCloses,
         LoadForDecide, DecideRefused, Refused, LoadForAuthorize, ToolIsGone,
         ExecuteApproved, LoadForSetMode, SetMode, Reconnect, Crash
<1>. QED  BY <1>3, <1>4, <1>5, <1>6, <1>7

(* An approved call runs at most once, behind the owner's tap and under    *)
(* the connection that Authorize read, a refusal retires it and a verdict  *)
(* is final: for any number of taps, reconnects and crashes.               *)
THEOREM ApprovalsAlwaysSafe == Spec => ApprovalsSafe
<1>1. IInv /\ [Next]_vars
         => [\A c \in Calls : status'[c] \in Follows(status[c])]_vars
  BY StatusStep
<1>. QED
  BY Inductive, InvImplied, <1>1, PTL DEF Spec, ApprovalsSafe, VerdictsAreFinal
=============================================================================

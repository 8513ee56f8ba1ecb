---------------------------- MODULE MCTurns_proofs ----------------------------
(***************************************************************************)
(* What is proved of what has to go on, for every value of the constants:  *)
(* that a message is worked on by one turn, once, and is not lost; that a  *)
(* scheduled job is run by one worker, and once; that the daemon keeps its *)
(* clock and outlives its turns; that the hub closes a channel once; that  *)
(* a request fits the model, has what the owner said last and a result for *)
(* every call; and that images go to models that read them.  The variables *)
(* of a component start where it starts in every behaviour, so its         *)
(* invariant holds in those that are about another one, too.               *)
(***************************************************************************)
EXTENDS MCTurns, FoldTheorems, TLAPS, FiniteSetTheorems, SequenceTheorems

-----------------------------------------------------------------------------
(* Turns                                                                   *)

(* What a turn has read or has got back.                                   *)
Got(o) == ToSet(drained[o]) \cup ToSet(returned[o])

(* What an inbox or a turn has been given is a joined call, once: it waits *)
(* in the inbox of its conversation's turn, or a turn has read it or has   *)
(* got it back.                                                            *)
JoinedInv ==
    /\ \A k \in Keys : IsInjective(inbox[k])
    /\ \A o \in Calls : IsInjective(drained[o]) /\ IsInjective(returned[o])
    /\ \A k \in Keys, d \in Calls : d \in ToSet(inbox[k]) =>
          fate[d] = "joined" /\ key[d] = k
    /\ \A k \in Keys, o, d \in Calls : d \in ToSet(inbox[k]) => d \notin Got(o)
    /\ \A o, d \in Calls : d \in Got(o) => fate[d] = "joined"
    /\ \A o, d \in Calls : d \in ToSet(drained[o]) => d \notin ToSet(returned[o])
    /\ \A o, p, d \in Calls : d \in Got(o) /\ d \in Got(p) => o = p
    /\ \A d \in Calls : fate[d] = "joined" =>
          d \in ToSet(inbox[key[d]]) \/ \E o \in Calls : d \in Got(o)

(* A turn that runs is its conversation's, and only an owner's turn takes  *)
(* steers.                                                                 *)
RunningInv ==
    /\ \A c \in Calls : fate[c] = "running" => running[key[c]] = c
    /\ \A k \in Keys : running[k] # None =>
          fate[running[k]] = "running" /\ key[running[k]] = k
    /\ \A k \in Keys : k \in taking \/ inbox[k] # <<>> =>
          running[k] # None /\ running[k] \notin Ambient
    /\ \A c \in Calls :
          /\ drained[c] # <<>> => OwnsTurn(c) /\ c \notin Ambient
          /\ returned[c] # <<>> => fate[c] = "finished" /\ c \notin Ambient

(* Where run is says what admission made of its call.                      *)
FateOf(place, how) ==
    CASE place \in {"unborn", "new"} -> {"outside"}
      [] place = "asking" -> {"waiting"}
      [] place = "joining" -> {"joined"}
      [] place \in {"preparing", "looping", "draining", "generating"} -> {"running"}
      [] place \in {"recording", "replying", "delivering"} -> {"finished"}
      [] how = "command" -> {"outside"}
      [] how = "joined" -> {"joined"}
      [] how = "failed" -> {"refused", "finished"}
      [] OTHER -> {"finished"}

PlaceInv ==
    \A c \in Calls : /\ fate[c] \in FateOf(phase[c], outcome[c])
                     /\ outcome[c] = "none" <=> phase[c] # "done"
                     /\ fate[c] = "joined" => c \notin Ambient
                     /\ phase[c] \in {"recording", "replying"} => c \notin Ambient
                     /\ phase[c] = "unborn" => c \in FollowUps

(* The messages of a call have passed on to the follow-up of the turn that *)
(* got it back.                                                            *)
PassedOn(d) == \E o \in Calls : outcome[o] = "delivered" /\ d \in ToSet(returned[o])

HeldBy(m, c) == m \in ToSet(carried[c]) /\ ~PassedOn(c)

(* Every message is held by one call.                                      *)
CarriedInv ==
    /\ \A m \in Messages : carried[m] = <<m>>
    /\ \A c \in Calls : IsInjective(carried[c])
    /\ \A f \in FollowUps :
          /\ phase[f] = "unborn" => carried[f] = <<>>
          /\ \A m \in ToSet(carried[f]) : fate[m] = "joined"
    /\ \A m \in Messages : \E c \in Calls : HeldBy(m, c)
    /\ \A m \in Messages : \A c, d \in Calls : HeldBy(m, c) /\ HeldBy(m, d) => c = d

(* The log has what has been recorded, and nothing else, each once.        *)
LogInv ==
    /\ IsInjective(log)
    /\ \A m \in Messages :
          /\ Said(m) \in ToSet(log) =>
                m \notin Ambient /\ phase[m] \in {"replying", "delivering", "done"}
          /\ phase[m] = "replying" => Said(m) \in ToSet(log)
          /\ phase[m] = "done" /\ fate[m] = "joined" => Said(m) \in ToSet(log)
    /\ \A c \in Calls : Replied(c) \in ToSet(log) =>
          /\ phase[c] \in {"delivering", "done"} /\ c \notin Ambient
          /\ fate[c] = "finished"
          /\ c \in Messages => Said(c) \in ToSet(log)

(* The types of what admission keeps, and which turns are steerable.       *)
AdmissionTypes ==
    /\ key \in [Calls -> Keys]
    /\ steerable = [c \in Calls |-> RecordConversation(c)]
    /\ fate \in [Calls -> {"outside", "waiting", "refused", "running", "joined", "finished"}]
    /\ running \in [Keys -> Calls \cup {None}]
    /\ taking \subseteq Keys
    /\ inbox \in [Keys -> Seq(Calls)]
    /\ drained \in [Calls -> Seq(Calls)]
    /\ returned \in [Calls -> Seq(Calls)]

(* What admission does in one step of a turn.                              *)
AdmissionStep ==
    \/ UNCHANGED admissionVars
    \/ \E c \in Calls : \/ Admission!Ask(c) \/ Admission!Refuse(c)
                        \/ Admission!Begin(c) \/ Admission!Join(c)
                        \/ Admission!Read(c) \/ Admission!End(c)
    \/ \E k \in Keys : Admission!Stop(k)

(* The messages of calls put together are those of each of them, and each  *)
(* once if no two calls share one.                                         *)
LEMMA MergedIs ==
  ASSUME NEW s \in Seq(Calls), carried \in [Calls -> Seq(Messages)]
  PROVE  /\ MergeSteered(s) \in Seq(Messages)
         /\ ToSet(MergeSteered(s)) = UNION {ToSet(carried[d]) : d \in ToSet(s)}
         /\ /\ IsInjective(s)
            /\ \A d \in ToSet(s) : IsInjective(carried[d])
            /\ \A d, e \in ToSet(s) : d # e => ToSet(carried[d]) \cap ToSet(carried[e]) = {}
            => IsInjective(MergeSteered(s))
<1>. DEFINE q == [i \in DOMAIN s |-> carried[s[i]]]
<1>1. Len(s) \in Nat /\ DOMAIN s = 1..Len(s) /\ \A i \in 1..Len(s) : s[i] \in Calls
  BY LenProperties, ElementOfSeq
<1>2. q \in [1..Len(s) -> Seq(Messages)]
  BY <1>1
<1>3. q \in Seq(Seq(Messages)) /\ Len(q) = Len(s) /\ \A i \in 1..Len(s) : q[i] = carried[s[i]]
  BY <1>1, <1>2, IsASeq
<1>4. ToSet(s) = {s[i] : i \in 1..Len(s)}
  BY <1>1 DEF ToSet
<1>5. MergeSteered(s) = FlattenSeq(q)
  BY DEF MergeSteered
<1>. HIDE DEF q
<1>6. /\ FlattenSeq(q) \in Seq(Messages)
      /\ ToSet(FlattenSeq(q)) = UNION {ToSet(q[i]) : i \in 1..Len(q)}
      /\ /\ \A i \in 1..Len(q) : IsInjective(q[i])
         /\ \A i, j \in 1..Len(q) : i # j => ToSet(q[i]) \cap ToSet(q[j]) = {}
         => IsInjective(FlattenSeq(q))
  BY <1>3, FlattenHas
<1>7. UNION {ToSet(q[i]) : i \in 1..Len(q)} = UNION {ToSet(carried[d]) : d \in ToSet(s)}
  <2>1. \A i \in 1..Len(q) : s[i] \in ToSet(s) /\ ToSet(q[i]) = ToSet(carried[s[i]])
    BY <1>3, <1>4
  <2>2. \A d \in ToSet(s) : \E i \in 1..Len(q) : ToSet(q[i]) = ToSet(carried[d])
    BY <1>3, <1>4
  <2>3. \A x : x \in UNION {ToSet(q[i]) : i \in 1..Len(q)}
                  <=> \E i \in 1..Len(q) : x \in ToSet(q[i])
    OBVIOUS
  <2>4. \A x : x \in UNION {ToSet(carried[d]) : d \in ToSet(s)}
                  <=> \E d \in ToSet(s) : x \in ToSet(carried[d])
    OBVIOUS
  <2>5. ASSUME NEW x, NEW i \in 1..Len(q), x \in ToSet(q[i])
        PROVE  \E d \in ToSet(s) : x \in ToSet(carried[d])
    BY <2>1, <2>5
  <2>6. ASSUME NEW x, NEW d \in ToSet(s), x \in ToSet(carried[d])
        PROVE  \E i \in 1..Len(q) : x \in ToSet(q[i])
    BY <2>2, <2>6
  <2>. QED  BY <2>3, <2>4, <2>5, <2>6, Zenon
<1>8. ASSUME IsInjective(s),
             \A d \in ToSet(s) : IsInjective(carried[d]),
             \A d, e \in ToSet(s) : d # e => ToSet(carried[d]) \cap ToSet(carried[e]) = {}
      PROVE  IsInjective(FlattenSeq(q))
  <2>1. \A i, j \in 1..Len(s) : i # j => s[i] # s[j] /\ s[i] \in ToSet(s) /\ s[j] \in ToSet(s)
    BY <1>1, <1>4, <1>8 DEF IsInjective
  <2>2. \A i \in 1..Len(s) : s[i] \in ToSet(s)
    BY <1>4
  <2>3. \A i \in 1..Len(q) : IsInjective(q[i])
    BY <1>3, <1>8, <2>2
  <2>4. \A i, j \in 1..Len(q) : i # j => ToSet(q[i]) \cap ToSet(q[j]) = {}
    <3>1. ASSUME NEW i \in 1..Len(q), NEW j \in 1..Len(q), i # j
          PROVE  ToSet(q[i]) \cap ToSet(q[j]) = {}
      <4>1. s[i] # s[j] /\ s[i] \in ToSet(s) /\ s[j] \in ToSet(s)
        BY <3>1, <2>1, <1>3
      <4>2. ToSet(carried[s[i]]) \cap ToSet(carried[s[j]]) = {}
        BY <4>1, <1>8
      <4>. QED  BY <4>2, <1>3
    <3>. QED  BY <3>1
  <2>. QED  BY <1>6, <2>3, <2>4
<1>. QED  BY <1>5, <1>6, <1>7, <1>8

(* Every step of a turn is one of admission, or leaves it alone.           *)
LEMMA StepsOfAdmission == Next => AdmissionStep
  BY DEF Next, RunStep, AdmissionStep, RunCommand, Admit, AdmissionFails, AdmittedAsOwner,
         AdmittedAsSteer, RecordSteer, PreparationFails, RefuseParts, EnterLoop,
         PassBoundary, Drain, TakeStep, LoopReplies, LoopIsCut, LoopFails,
         RecordInput, RecordReply, DeliveryFails, Deliver, DeliverAndFollowUp,
         Stop, Terminated, vars

(* Every step of admission keeps its types.                                *)
LEMMA AdmissionTyped ==
  ASSUME TurnRunAssumption, AdmissionTypes, AdmissionStep
  PROVE  AdmissionTypes'
<1>. USE DEF AdmissionTypes, Admission!Becomes
<1>1. CASE UNCHANGED admissionVars
  BY <1>1 DEF admissionVars
<1>2. ASSUME NEW c \in Calls, Admission!Ask(c) PROVE AdmissionTypes'
  BY <1>2 DEF Admission!Ask
<1>3. ASSUME NEW c \in Calls, Admission!Refuse(c) PROVE AdmissionTypes'
  BY <1>3 DEF Admission!Refuse
<1>4. ASSUME NEW c \in Calls, Admission!Begin(c) PROVE AdmissionTypes'
  BY <1>4 DEF Admission!Begin
<1>5. ASSUME NEW c \in Calls, Admission!Join(c) PROVE AdmissionTypes'
  BY <1>5 DEF Admission!Join
<1>6. ASSUME NEW c \in Calls, Admission!Read(c) PROVE AdmissionTypes'
  <2>1. drained[c] \o inbox[key[c]] \in Seq(Calls) /\ <<>> \in Seq(Calls)
    BY ConcatProperties, EmptySeq
  <2>. QED  BY <1>6, <2>1 DEF Admission!Read
<1>7. ASSUME NEW c \in Calls, Admission!End(c) PROVE AdmissionTypes'
  <2>1. inbox[key[c]] \in Seq(Calls) /\ <<>> \in Seq(Calls)
    BY EmptySeq
  <2>. QED  BY <1>7, <2>1 DEF Admission!End
<1>8. ASSUME NEW k \in Keys, Admission!Stop(k) PROVE AdmissionTypes'
  BY <1>8 DEF Admission!Stop
<1>. QED  BY <1>1, <1>2, <1>3, <1>4, <1>5, <1>6, <1>7, <1>8 DEF AdmissionStep

(* Sequences of calls, as admission puts them together.                    *)
LEMMA CallsPutTogether ==
  ASSUME NEW s \in Seq(Calls), NEW t \in Seq(Calls)
  PROVE  /\ ToSet(s) \subseteq Calls
         /\ ToSet(s \o t) = ToSet(s) \cup ToSet(t)
         /\ \A x \in Calls : ToSet(Append(s, x)) = ToSet(s) \cup {x}
         /\ IsInjective(s) /\ IsInjective(t) /\ ToSet(s) \cap ToSet(t) = {}
               => IsInjective(s \o t)
         /\ \A x \in Calls : IsInjective(s) /\ x \notin ToSet(s) => IsInjective(Append(s, x))
         /\ s = <<>> <=> ToSet(s) = {}
         /\ ToSet(<<>>) = {} /\ IsInjective(<<>>)
  BY MembersOf, OnceOf

(* What is joined stays where it is, moves on, or gets there.              *)
LEMMA JoinedNext ==
  ASSUME AdmissionTypes, JoinedInv, RunningInv, AdmissionStep
  PROVE  JoinedInv'
<1>0. /\ key \in [Calls -> Keys]
      /\ fate \in [Calls -> {"outside", "waiting", "refused", "running", "joined", "finished"}]
      /\ inbox \in [Keys -> Seq(Calls)]
      /\ drained \in [Calls -> Seq(Calls)] /\ returned \in [Calls -> Seq(Calls)]
  BY DEF AdmissionTypes
<1>a. /\ \A k \in Keys : inbox[k] \in Seq(Calls)
      /\ \A o \in Calls : drained[o] \in Seq(Calls) /\ returned[o] \in Seq(Calls)
  BY <1>0
<1>1. ASSUME UNCHANGED <<key, inbox, drained, returned>>,
             \A d \in Calls : fate'[d] = "joined" <=> fate[d] = "joined"
      PROVE  JoinedInv'
  BY <1>1 DEF JoinedInv, Got
<1>2. ASSUME NEW c \in Calls, Admission!Join(c) PROVE JoinedInv'
  <2>1. /\ fate[c] = "waiting" /\ fate' = [fate EXCEPT ![c] = "joined"]
        /\ inbox' = [inbox EXCEPT ![key[c]] = Append(inbox[key[c]], c)]
        /\ UNCHANGED <<key, drained, returned>>
    BY <1>2 DEF Admission!Join, Admission!Becomes
  <2>2. /\ fate'[c] = "joined" /\ \A d \in Calls : d # c => fate'[d] = fate[d]
        /\ key[c] \in Keys /\ inbox'[key[c]] = Append(inbox[key[c]], c)
        /\ \A k \in Keys : k # key[c] => inbox'[k] = inbox[k]
    BY <2>1, <1>0
  <2>3. (\A k \in Keys : c \notin ToSet(inbox[k])) /\ \A o \in Calls : c \notin Got(o)
    BY <2>1 DEF JoinedInv
  <2>4. ToSet(inbox'[key[c]]) = ToSet(inbox[key[c]]) \cup {c} /\ IsInjective(inbox'[key[c]])
    <3>1. inbox[key[c]] \in Seq(Calls) /\ IsInjective(inbox[key[c]]) /\ c \notin ToSet(inbox[key[c]])
      BY <1>a, <2>2, <2>3 DEF JoinedInv
    <3>. QED  BY <3>1, <2>2, CallsPutTogether
  <2>5. \A o \in Calls : Got(o)' = Got(o)
    BY <2>1 DEF Got
  <2>6. \A k \in Keys, d \in Calls :
           d \in ToSet(inbox'[k]) <=> d \in ToSet(inbox[k]) \/ (k = key[c] /\ d = c)
    BY <2>2, <2>4
  <2>7. \A k \in Keys : IsInjective(inbox'[k])
    BY <2>2, <2>4 DEF JoinedInv
  <2>. HIDE DEF Got
  <2>8. JoinedInv
    OBVIOUS
  <2>k1. \A k \in Keys, d \in Calls : d \in ToSet(inbox'[k]) =>
            fate'[d] = "joined" /\ key'[d] = k
    BY ONLY <1>0, <1>2, <2>1, <2>2, <2>3, <2>5, <2>6, <2>7, <2>8 DEF JoinedInv
  <2>k2. \A k \in Keys, o, d \in Calls : d \in ToSet(inbox'[k]) => d \notin Got(o)'
    BY ONLY <1>0, <1>2, <2>1, <2>2, <2>3, <2>5, <2>6, <2>7, <2>8 DEF JoinedInv
  <2>k3. \A o, d \in Calls : d \in Got(o)' => fate'[d] = "joined"
    BY ONLY <1>0, <1>2, <2>1, <2>2, <2>3, <2>5, <2>6, <2>7, <2>8 DEF JoinedInv
  <2>k4. \A o, p, d \in Calls : d \in Got(o)' /\ d \in Got(p)' => o = p
    BY ONLY <1>0, <1>2, <2>1, <2>2, <2>3, <2>5, <2>6, <2>7, <2>8 DEF JoinedInv
  <2>k5. ASSUME NEW d \in Calls, fate'[d] = "joined"
         PROVE  d \in ToSet(inbox'[key'[d]]) \/ \E o \in Calls : d \in Got(o)'
    <3>1. CASE d = c
      BY <3>1, <2>1, <2>2, <2>6
    <3>2. CASE d # c /\ d \in ToSet(inbox[key[d]])
      BY <3>2, <1>0, <2>1, <2>6
    <3>3. CASE d # c /\ d \notin ToSet(inbox[key[d]])
      <4>1. fate[d] = "joined"
        BY <3>3, <2>2, <2>k5
      <4>2. PICK o \in Calls : d \in Got(o)
        BY <3>3, <4>1 DEF JoinedInv
      <4>3. d \in Got(o)'
        BY <2>5, <4>2
      <4>. QED  BY <4>3
    <3>. QED  BY <3>1, <3>2, <3>3
  <2>k6. /\ \A o \in Calls : IsInjective(drained'[o]) /\ IsInjective(returned'[o])
         /\ \A o, d \in Calls : d \in ToSet(drained'[o]) => d \notin ToSet(returned'[o])
    BY ONLY <1>0, <1>2, <2>1, <2>2, <2>3, <2>5, <2>6, <2>7, <2>8 DEF JoinedInv
  <2>. QED
    BY <2>k1, <2>k2, <2>k3, <2>k4, <2>k5, <2>k6, <2>7 DEF JoinedInv
<1>m. ASSUME NEW c \in Calls, UNCHANGED key, inbox' = [inbox EXCEPT ![key[c]] = <<>>],
             \A d \in Calls : fate'[d] = "joined" <=> fate[d] = "joined",
             Got(c)' = Got(c) \cup ToSet(inbox[key[c]]),
             \A o \in Calls : o # c => Got(o)' = Got(o),
             \A o \in Calls : IsInjective(drained'[o]) /\ IsInjective(returned'[o]),
             \A o, d \in Calls : d \in ToSet(drained'[o]) => d \notin ToSet(returned'[o])
      PROVE  JoinedInv'
  <2>1. /\ key[c] \in Keys /\ inbox'[key[c]] = <<>>
        /\ \A k \in Keys : k # key[c] => inbox'[k] = inbox[k]
    BY <1>m, <1>0
  <2>2. ToSet(<<>>) = {} /\ IsInjective(<<>>)
    BY DEF ToSet, IsInjective
  <2>3. /\ \A k \in Keys : IsInjective(inbox'[k])
        /\ \A k \in Keys, d \in Calls :
              d \in ToSet(inbox'[k]) <=> d \in ToSet(inbox[k]) /\ k # key[c]
    BY <2>1, <2>2 DEF JoinedInv
  <2>4. \A o, d \in Calls :
           d \in Got(o)' <=> d \in Got(o) \/ (o = c /\ d \in ToSet(inbox[key[c]]))
    BY <1>m
  <2>5. JoinedInv /\ key' = key
    BY <1>m
  <2>. HIDE DEF Got
  <2>k1. \A k \in Keys, d \in Calls : d \in ToSet(inbox'[k]) =>
            fate'[d] = "joined" /\ key'[d] = k
    BY ONLY <1>0, <1>m, <2>1, <2>3, <2>4, <2>5 DEF JoinedInv
  <2>k2. \A k \in Keys, o, d \in Calls : d \in ToSet(inbox'[k]) => d \notin Got(o)'
    BY ONLY <1>0, <1>m, <2>1, <2>3, <2>4, <2>5 DEF JoinedInv
  <2>k3. \A o, d \in Calls : d \in Got(o)' => fate'[d] = "joined"
    BY ONLY <1>0, <1>m, <2>1, <2>3, <2>4, <2>5 DEF JoinedInv
  <2>k4. ASSUME NEW o \in Calls, NEW p \in Calls, NEW d \in Calls,
                d \in Got(o)', d \in Got(p)'
         PROVE  o = p
    <3>1. CASE d \in ToSet(inbox[key[c]])
      <4>1. d \notin Got(o) /\ d \notin Got(p)
        BY <3>1, <2>1, <2>5 DEF JoinedInv
      <4>. QED  BY <4>1, <2>4, <2>k4
    <3>2. CASE d \notin ToSet(inbox[key[c]])
      <4>1. d \in Got(o) /\ d \in Got(p)
        BY <3>2, <2>4, <2>k4
      <4>. QED  BY <4>1, <2>5 DEF JoinedInv
    <3>. QED  BY <3>1, <3>2
  <2>k5. ASSUME NEW d \in Calls, fate'[d] = "joined"
         PROVE  d \in ToSet(inbox'[key'[d]]) \/ \E o \in Calls : d \in Got(o)'
    <3>1. fate[d] = "joined"
      BY <1>m, <2>k5
    <3>2. CASE d \in ToSet(inbox[key[d]]) /\ key[d] = key[c]
      <4>1. d \in Got(c)'
        BY <3>2, <2>4
      <4>. QED  BY <4>1
    <3>3. CASE d \in ToSet(inbox[key[d]]) /\ key[d] # key[c]
      BY <3>3, <1>0, <2>3, <2>5
    <3>4. CASE d \notin ToSet(inbox[key[d]])
      <4>1. PICK o \in Calls : d \in Got(o)
        BY <3>1, <3>4 DEF JoinedInv
      <4>2. d \in Got(o)'
        BY <2>4, <4>1
      <4>. QED  BY <4>2
    <3>. QED  BY <3>2, <3>3, <3>4
  <2>k6. /\ \A o \in Calls : IsInjective(drained'[o]) /\ IsInjective(returned'[o])
         /\ \A o, d \in Calls : d \in ToSet(drained'[o]) => d \notin ToSet(returned'[o])
    BY ONLY <1>0, <1>m, <2>1, <2>3, <2>4, <2>5 DEF JoinedInv
  <2>. QED
    BY <2>k1, <2>k2, <2>k3, <2>k4, <2>k5, <2>k6, <2>3 DEF JoinedInv
<1>3. ASSUME NEW c \in Calls, Admission!Read(c) PROVE JoinedInv'
  <2>1. /\ drained' = [drained EXCEPT ![c] = drained[c] \o inbox[key[c]]]
        /\ inbox' = [inbox EXCEPT ![key[c]] = <<>>]
        /\ UNCHANGED <<key, fate, returned>>
    BY <1>3 DEF Admission!Read
  <2>2. /\ drained'[c] = drained[c] \o inbox[key[c]] /\ key[c] \in Keys
        /\ \A o \in Calls : o # c => drained'[o] = drained[o]
    BY <2>1, <1>0
  <2>3. /\ ToSet(drained'[c]) = ToSet(drained[c]) \cup ToSet(inbox[key[c]])
        /\ IsInjective(drained'[c])
    <3>1. drained[c] \in Seq(Calls) /\ inbox[key[c]] \in Seq(Calls)
      BY <1>a, <2>2
    <3>2. /\ IsInjective(drained[c]) /\ IsInjective(inbox[key[c]])
          /\ ToSet(drained[c]) \subseteq Calls
          /\ ToSet(drained[c]) \cap ToSet(inbox[key[c]]) = {}
      BY <3>1, <2>2, CallsPutTogether DEF JoinedInv, Got
    <3>. QED  BY <2>2, <3>1, <3>2, CallsPutTogether
  <2>4. /\ Got(c)' = Got(c) \cup ToSet(inbox[key[c]])
        /\ \A o \in Calls : o # c => Got(o)' = Got(o)
    BY <2>1, <2>2, <2>3 DEF Got
  <2>5. /\ \A o \in Calls : IsInjective(drained'[o]) /\ IsInjective(returned'[o])
        /\ \A o, d \in Calls : d \in ToSet(drained'[o]) => d \notin ToSet(returned'[o])
    BY <2>1, <2>2, <2>3 DEF JoinedInv, Got
  <2>. QED  BY <1>m, <2>1, <2>4, <2>5
<1>4. ASSUME NEW c \in Calls, Admission!End(c) PROVE JoinedInv'
  <2>1. /\ fate[c] = "running" /\ fate' = [fate EXCEPT ![c] = "finished"]
        /\ returned' = [returned EXCEPT ![c] = inbox[key[c]]]
        /\ inbox' = [inbox EXCEPT ![key[c]] = <<>>]
        /\ UNCHANGED <<key, drained>>
    BY <1>4 DEF Admission!End, Admission!Becomes
  <2>2. /\ returned'[c] = inbox[key[c]] /\ key[c] \in Keys
        /\ \A o \in Calls : o # c => returned'[o] = returned[o]
        /\ \A d \in Calls : fate'[d] = "joined" <=> fate[d] = "joined"
    BY <2>1, <1>0
  <2>3. ToSet(returned[c]) = {}
    <3>1. returned[c] = <<>>
      BY <2>1 DEF RunningInv
    <3>. QED  BY <3>1 DEF ToSet
  <2>4. /\ Got(c)' = Got(c) \cup ToSet(inbox[key[c]])
        /\ \A o \in Calls : o # c => Got(o)' = Got(o)
    BY <2>1, <2>2, <2>3 DEF Got
  <2>5. /\ \A o \in Calls : IsInjective(drained'[o]) /\ IsInjective(returned'[o])
        /\ \A o, d \in Calls : d \in ToSet(drained'[o]) => d \notin ToSet(returned'[o])
    BY <2>1, <2>2, <2>3 DEF JoinedInv, Got
  <2>. QED  BY <1>m, <2>1, <2>2, <2>4, <2>5
<1>5. CASE UNCHANGED admissionVars
  BY <1>1, <1>5 DEF admissionVars
<1>6. ASSUME NEW c \in Calls,
             Admission!Ask(c) \/ Admission!Refuse(c) \/ Admission!Begin(c)
      PROVE  JoinedInv'
  BY <1>0, <1>1, <1>6 DEF Admission!Ask, Admission!Refuse, Admission!Begin, Admission!Becomes
<1>7. ASSUME NEW k \in Keys, Admission!Stop(k) PROVE JoinedInv'
  BY <1>1, <1>7 DEF Admission!Stop
<1>. QED  BY <1>2, <1>3, <1>4, <1>5, <1>6, <1>7 DEF AdmissionStep

(* A turn that runs stays its conversation's, and takes steers as long as  *)
(* it may.                                                                 *)
LEMMA RunningNext ==
  ASSUME TurnRunAssumption, AdmissionTypes, RunningInv, AdmissionStep
  PROVE  RunningInv'
<1>0. /\ key \in [Calls -> Keys]
      /\ fate \in [Calls -> {"outside", "waiting", "refused", "running", "joined", "finished"}]
      /\ running \in [Keys -> Calls \cup {None}]
      /\ inbox \in [Keys -> Seq(Calls)]
      /\ drained \in [Calls -> Seq(Calls)] /\ returned \in [Calls -> Seq(Calls)]
      /\ \A c \in Calls : steerable[c] <=> c \notin Ambient
      /\ None \notin Calls
  BY DEF AdmissionTypes, RecordConversation, TurnRunAssumption
<1>b. /\ \A d \in Calls : fate[d] = "running" => running[key[d]] = d
      /\ \A k \in Keys : running[k] # None =>
               fate[running[k]] = "running" /\ key[running[k]] = k
      /\ \A k \in Keys : k \in taking \/ inbox[k] # <<>> =>
               running[k] # None /\ running[k] \notin Ambient
      /\ \A d \in Calls :
               /\ drained[d] # <<>> => fate[d] \in {"running", "finished"} /\ d \notin Ambient
               /\ returned[d] # <<>> => fate[d] = "finished" /\ d \notin Ambient
  BY DEF RunningInv, OwnsTurn
<1>c. ASSUME \A d \in Calls : fate'[d] = "running" => running'[key'[d]] = d,
             \A k \in Keys : running'[k] # None =>
               fate'[running'[k]] = "running" /\ key'[running'[k]] = k,
             \A k \in Keys : k \in taking' \/ inbox'[k] # <<>> =>
               running'[k] # None /\ running'[k] \notin Ambient,
             \A d \in Calls :
               /\ drained'[d] # <<>> => fate'[d] \in {"running", "finished"} /\ d \notin Ambient
               /\ returned'[d] # <<>> => fate'[d] = "finished" /\ d \notin Ambient
      PROVE  RunningInv'
  BY <1>c DEF RunningInv, OwnsTurn
<1>1. CASE UNCHANGED admissionVars
  BY <1>1 DEF admissionVars, RunningInv, OwnsTurn
<1>2. ASSUME NEW c \in Calls, Admission!Ask(c) \/ Admission!Refuse(c) PROVE RunningInv'
  <2>1. /\ fate[c] \in {"outside", "waiting"}
        /\ \A d \in Calls : d # c => fate'[d] = fate[d]
        /\ fate'[c] \in {"waiting", "refused"}
        /\ UNCHANGED <<key, running, taking, inbox, drained, returned>>
    BY <1>0, <1>2 DEF Admission!Ask, Admission!Refuse, Admission!Becomes
  <2>g1. \A d \in Calls : fate'[d] = "running" => running'[key'[d]] = d
    BY <1>0, <1>b, <2>1
  <2>g2. \A k \in Keys : running'[k] # None =>
            fate'[running'[k]] = "running" /\ key'[running'[k]] = k
    BY <1>0, <1>b, <2>1
  <2>g3. \A k \in Keys : k \in taking' \/ inbox'[k] # <<>> =>
            running'[k] # None /\ running'[k] \notin Ambient
    BY <1>0, <1>b, <2>1
  <2>g4. \A d \in Calls :
            /\ drained'[d] # <<>> => fate'[d] \in {"running", "finished"} /\ d \notin Ambient
            /\ returned'[d] # <<>> => fate'[d] = "finished" /\ d \notin Ambient
    BY <1>0, <1>b, <2>1
  <2>. QED  BY <1>c, <2>g1, <2>g2, <2>g3, <2>g4
<1>3. ASSUME NEW c \in Calls, Admission!Begin(c) PROVE RunningInv'
  <2>1. /\ fate[c] = "waiting" /\ fate'[c] = "running"
        /\ \A d \in Calls : d # c => fate'[d] = fate[d]
        /\ key[c] \in Keys /\ running[key[c]] = None /\ running'[key[c]] = c
        /\ \A k \in Keys : k # key[c] => running'[k] = running[k]
        /\ \A k \in Keys : k \in taking' => k \in taking \/ (k = key[c] /\ c \notin Ambient)
        /\ UNCHANGED <<key, inbox, drained, returned>>
    BY <1>0, <1>3 DEF Admission!Begin, Admission!Becomes
  <2>2. key[c] \notin taking /\ inbox[key[c]] = <<>>
    BY <2>1 DEF RunningInv
  <2>3. /\ \A k \in Keys : k # key[c] /\ running'[k] # None =>
              running[k] \in Calls /\ running[k] # c /\ fate'[running[k]] = fate[running[k]]
        /\ c # None
    BY <1>0, <1>b, <2>1
  <2>g1. ASSUME NEW d \in Calls, fate'[d] = "running" PROVE running'[key'[d]] = d
    <3>1. CASE d = c
      BY <3>1, <2>1, <2>g1
    <3>2. CASE d # c
      <4>1. fate[d] = "running" /\ running[key[d]] = d /\ d # None /\ key[d] \in Keys
        BY <3>2, <1>0, <1>b, <2>1, <2>g1
      <4>2. key[d] # key[c]
        BY <3>2, <4>1, <2>1
      <4>. QED  BY <4>1, <4>2, <2>1
    <3>. QED  BY <3>1, <3>2
  <2>g2. ASSUME NEW k \in Keys
         PROVE  running'[k] # None =>
                   fate'[running'[k]] = "running" /\ key'[running'[k]] = k
    <3>1. CASE k = key[c]
      BY <3>1, <1>0, <1>b, <2>1, <2>2, <2>3
    <3>2. CASE k # key[c]
      <4>1. running'[k] = running[k] /\ (running[k] # None => running[k] \in Calls)
        BY <3>2, <1>0, <2>1
      <4>2. running[k] # None => fate[running[k]] = "running" /\ key[running[k]] = k
        BY <1>b
      <4>3. k \in taking' \/ inbox'[k] # <<>> => running[k] # None /\ running[k] \notin Ambient
        BY <3>2, <1>b, <2>1
      <4>. QED  BY <3>2, <4>1, <4>2, <4>3, <2>1, <2>3
    <3>. QED  BY <3>1, <3>2
  <2>g3. ASSUME NEW k \in Keys
         PROVE  k \in taking' \/ inbox'[k] # <<>> =>
                   running'[k] # None /\ running'[k] \notin Ambient
    <3>1. CASE k = key[c]
      BY <3>1, <1>0, <1>b, <2>1, <2>2, <2>3
    <3>2. CASE k # key[c]
      <4>1. running'[k] = running[k] /\ (running[k] # None => running[k] \in Calls)
        BY <3>2, <1>0, <2>1
      <4>2. running[k] # None => fate[running[k]] = "running" /\ key[running[k]] = k
        BY <1>b
      <4>3. k \in taking' \/ inbox'[k] # <<>> => running[k] # None /\ running[k] \notin Ambient
        BY <3>2, <1>b, <2>1
      <4>. QED  BY <3>2, <4>1, <4>2, <4>3, <2>1, <2>3
    <3>. QED  BY <3>1, <3>2
  <2>g4. ASSUME NEW d \in Calls
         PROVE  /\ drained'[d] # <<>> => fate'[d] \in {"running", "finished"} /\ d \notin Ambient
                /\ returned'[d] # <<>> => fate'[d] = "finished" /\ d \notin Ambient
    <3>1. drained'[d] = drained[d] /\ returned'[d] = returned[d]
      BY <2>1
    <3>2. d = c => drained[d] = <<>> /\ returned[d] = <<>>
      BY <1>b, <2>1
    <3>3. d # c => fate'[d] = fate[d]
      BY <2>1
    <3>. QED  BY <1>b, <3>1, <3>2, <3>3
  <2>. QED  BY <1>c, <2>g1, <2>g2, <2>g3, <2>g4
<1>4. ASSUME NEW c \in Calls, Admission!Join(c) PROVE RunningInv'
  <2>1. /\ fate[c] = "waiting" /\ fate'[c] = "joined"
        /\ \A d \in Calls : d # c => fate'[d] = fate[d]
        /\ key[c] \in Keys /\ key[c] \in taking
        /\ \A k \in Keys : k # key[c] => inbox'[k] = inbox[k]
        /\ UNCHANGED <<key, running, taking, drained, returned>>
    BY <1>0, <1>4 DEF Admission!Join, Admission!Becomes
  <2>g1. \A d \in Calls : fate'[d] = "running" => running'[key'[d]] = d
    BY <1>0, <1>b, <2>1
  <2>g2. \A k \in Keys : running'[k] # None =>
            fate'[running'[k]] = "running" /\ key'[running'[k]] = k
    BY <1>0, <1>b, <2>1
  <2>g3. \A k \in Keys : k \in taking' \/ inbox'[k] # <<>> =>
            running'[k] # None /\ running'[k] \notin Ambient
    BY <1>0, <1>b, <2>1
  <2>g4. \A d \in Calls :
            /\ drained'[d] # <<>> => fate'[d] \in {"running", "finished"} /\ d \notin Ambient
            /\ returned'[d] # <<>> => fate'[d] = "finished" /\ d \notin Ambient
    BY <1>0, <1>b, <2>1
  <2>. QED  BY <1>c, <2>g1, <2>g2, <2>g3, <2>g4
<1>5. ASSUME NEW c \in Calls, Admission!Read(c) PROVE RunningInv'
  <2>1. /\ key[c] \in Keys /\ running[key[c]] = c
        /\ drained'[c] = drained[c] \o inbox[key[c]]
        /\ \A d \in Calls : d # c => drained'[d] = drained[d]
        /\ inbox'[key[c]] = <<>>
        /\ \A k \in Keys : k # key[c] => inbox'[k] = inbox[k]
        /\ UNCHANGED <<key, fate, running, taking, returned>>
    BY <1>0, <1>5 DEF Admission!Read
  <2>2. fate[c] = "running"
    BY <1>0, <2>1 DEF RunningInv
  <2>3. drained'[c] # <<>> => c \notin Ambient
    <3>1. <<>> \o <<>> = <<>>
      OBVIOUS
    <3>2. inbox[key[c]] # <<>> => c \notin Ambient
      BY <2>1 DEF RunningInv
    <3>3. drained[c] # <<>> => c \notin Ambient
      BY DEF RunningInv
    <3>. QED  BY <2>1, <3>1, <3>2, <3>3
  <2>g1. \A d \in Calls : fate'[d] = "running" => running'[key'[d]] = d
    BY <1>0, <1>b, <2>1, <2>2, <2>3
  <2>g2. \A k \in Keys : running'[k] # None =>
            fate'[running'[k]] = "running" /\ key'[running'[k]] = k
    BY <1>0, <1>b, <2>1, <2>2, <2>3
  <2>g3. \A k \in Keys : k \in taking' \/ inbox'[k] # <<>> =>
            running'[k] # None /\ running'[k] \notin Ambient
    BY <1>0, <1>b, <2>1, <2>2, <2>3
  <2>g4. ASSUME NEW d \in Calls
         PROVE  /\ drained'[d] # <<>> => fate'[d] \in {"running", "finished"} /\ d \notin Ambient
                /\ returned'[d] # <<>> => fate'[d] = "finished" /\ d \notin Ambient
    <3>1. CASE d = c
      BY <3>1, <1>b, <2>1, <2>2, <2>3
    <3>2. CASE d # c
      BY <3>2, <1>b, <2>1
    <3>. QED  BY <3>1, <3>2
  <2>. QED  BY <1>c, <2>g1, <2>g2, <2>g3, <2>g4
<1>6. ASSUME NEW c \in Calls, Admission!End(c) PROVE RunningInv'
  <2>1. /\ fate[c] = "running" /\ fate'[c] = "finished"
        /\ \A d \in Calls : d # c => fate'[d] = fate[d]
        /\ key[c] \in Keys /\ running[key[c]] = c /\ running'[key[c]] = None
        /\ \A k \in Keys : k # key[c] => running'[k] = running[k]
        /\ taking' = taking \ {key[c]}
        /\ returned'[c] = inbox[key[c]]
        /\ \A d \in Calls : d # c => returned'[d] = returned[d]
        /\ inbox'[key[c]] = <<>>
        /\ \A k \in Keys : k # key[c] => inbox'[k] = inbox[k]
        /\ UNCHANGED <<key, drained>>
    BY <1>0, <1>6 DEF Admission!End, Admission!Becomes
  <2>2. returned'[c] # <<>> => c \notin Ambient
    BY <2>1 DEF RunningInv
  <2>3. \A k \in Keys : k # key[c] /\ running[k] # None =>
           running[k] \in Calls /\ running[k] # c /\ fate'[running[k]] = fate[running[k]]
    BY <1>0, <1>b, <2>1
  <2>g1. ASSUME NEW d \in Calls, fate'[d] = "running" PROVE running'[key'[d]] = d
    <3>1. CASE d = c
      BY <3>1, <2>1, <2>g1
    <3>2. CASE d # c
      <4>1. fate[d] = "running" /\ running[key[d]] = d /\ d # None /\ key[d] \in Keys
        BY <3>2, <1>0, <1>b, <2>1, <2>g1
      <4>2. key[d] # key[c]
        BY <3>2, <4>1, <2>1
      <4>. QED  BY <4>1, <4>2, <2>1
    <3>. QED  BY <3>1, <3>2
  <2>g2. ASSUME NEW k \in Keys
         PROVE  running'[k] # None =>
                   fate'[running'[k]] = "running" /\ key'[running'[k]] = k
    <3>1. CASE k = key[c]
      BY <3>1, <1>0, <1>b, <2>1, <2>2, <2>3
    <3>2. CASE k # key[c]
      <4>1. running'[k] = running[k] /\ (running[k] # None => running[k] \in Calls)
        BY <3>2, <1>0, <2>1
      <4>2. running[k] # None => fate[running[k]] = "running" /\ key[running[k]] = k
        BY <1>b
      <4>3. k \in taking' \/ inbox'[k] # <<>> => running[k] # None /\ running[k] \notin Ambient
        BY <3>2, <1>b, <2>1
      <4>. QED  BY <3>2, <4>1, <4>2, <4>3, <2>1, <2>3
    <3>. QED  BY <3>1, <3>2
  <2>g3. ASSUME NEW k \in Keys
         PROVE  k \in taking' \/ inbox'[k] # <<>> =>
                   running'[k] # None /\ running'[k] \notin Ambient
    <3>1. CASE k = key[c]
      <4>1. k \notin taking' /\ inbox'[k] = <<>>
        BY <3>1, <2>1
      <4>. QED  BY <4>1
    <3>2. CASE k # key[c]
      <4>1. running'[k] = running[k] /\ (running[k] # None => running[k] \in Calls)
        BY <3>2, <1>0, <2>1
      <4>2. running[k] # None => fate[running[k]] = "running" /\ key[running[k]] = k
        BY <1>b
      <4>3. k \in taking' \/ inbox'[k] # <<>> => running[k] # None /\ running[k] \notin Ambient
        BY <3>2, <1>b, <2>1
      <4>. QED  BY <3>2, <4>1, <4>2, <4>3, <2>1, <2>3
    <3>. QED  BY <3>1, <3>2
  <2>g4. ASSUME NEW d \in Calls
         PROVE  /\ drained'[d] # <<>> => fate'[d] \in {"running", "finished"} /\ d \notin Ambient
                /\ returned'[d] # <<>> => fate'[d] = "finished" /\ d \notin Ambient
    <3>1. CASE d = c
      BY <3>1, <1>b, <2>1, <2>2
    <3>2. CASE d # c
      BY <3>2, <1>b, <2>1
    <3>. QED  BY <3>1, <3>2
  <2>. QED  BY <1>c, <2>g1, <2>g2, <2>g3, <2>g4
<1>7. ASSUME NEW k \in Keys, Admission!Stop(k) PROVE RunningInv'
  BY <1>7 DEF Admission!Stop, RunningInv, OwnsTurn
<1>. QED  BY <1>1, <1>2, <1>3, <1>4, <1>5, <1>6, <1>7 DEF AdmissionStep

(* What a log is made of.                                                  *)
Entries == [role : {"user", "assistant"}, call : Calls]

(* What is recorded of an input.                                           *)
LEMMA RecordedIs ==
  ASSUME TurnRunAssumption, NEW c \in Calls,
         c \in Messages => carried[c] = <<c>>
  PROVE  /\ RecordedInput(c) = IF c \in Messages THEN <<Said(c)>> ELSE <<>>
         /\ RecordedInput(c) \in Seq(Entries)
<1>1. CASE c \in Messages
  <2>1. c \notin FollowUps
    BY <1>1 DEF TurnRunAssumption
  <2>2. RecordedInput(c) = [i \in 1..1 |-> Said(c)]
    BY <1>1, <2>1 DEF RecordedInput, InputAlreadyRecorded
  <2>3. [i \in 1..1 |-> Said(c)] = <<Said(c)>>
    OBVIOUS
  <2>4. Said(c) \in Entries
    BY DEF Said, Entries
  <2>. QED  BY <1>1, <2>2, <2>3, <2>4
<1>2. CASE c \notin Messages
  <2>1. c \in FollowUps
    BY <1>2 DEF Calls
  <2>. QED  BY <1>2, <2>1, EmptySeq DEF RecordedInput, InputAlreadyRecorded
<1>. QED  BY <1>1, <1>2

(* Every step keeps the types.                                             *)
LEMMA TurnTyped ==
  ASSUME TurnRunAssumption, TypeOK, AdmissionTypes, CarriedInv, Next
  PROVE  TypeOK'
<1>0. /\ unsupported \subseteq Messages /\ phase \in [Calls -> Phases]
      /\ steps \in [Calls -> 0..MaxSteps] /\ carried \in [Calls -> Seq(Messages)]
      /\ outcome \in [Calls -> Outcomes] /\ halted \subseteq Calls
      /\ log \in Seq(Entries) /\ MaxSteps \in Nat \ {0}
  BY DEF TypeOK, Entries, TurnRunAssumption
<1>1. SUFFICES
        /\ unsupported' \subseteq Messages /\ phase' \in [Calls -> Phases]
        /\ steps' \in [Calls -> 0..MaxSteps] /\ carried' \in [Calls -> Seq(Messages)]
        /\ outcome' \in [Calls -> Outcomes] /\ halted' \subseteq Calls
        /\ log' \in Seq(Entries)
  BY DEF TypeOK, Entries
<1>2. unsupported' = unsupported
  BY DEF Next, RunStep, RunCommand, Admit, AdmissionFails, AdmittedAsOwner,
         AdmittedAsSteer, RecordSteer, PreparationFails, RefuseParts, EnterLoop,
         PassBoundary, Drain, TakeStep, LoopReplies, LoopIsCut, LoopFails,
         RecordInput, RecordReply, DeliveryFails, Deliver, DeliverAndFollowUp,
         Stop, Terminated, vars
<1>3. phase' \in [Calls -> Phases]
  BY <1>0 DEF Next, RunStep, RunCommand, Admit, AdmissionFails, AdmittedAsOwner,
         AdmittedAsSteer, RecordSteer, PreparationFails, RefuseParts, EnterLoop,
         PassBoundary, Drain, TakeStep, LoopReplies, LoopIsCut, LoopFails,
         RecordInput, RecordReply, DeliveryFails, Deliver, DeliverAndFollowUp,
         Stop, Terminated, vars, Moves, Phases
<1>4. steps' \in [Calls -> 0..MaxSteps]
  <2>1. ASSUME NEW c \in Calls, TakeStep(c) PROVE steps' \in [Calls -> 0..MaxSteps]
    BY <1>0, <2>1 DEF TakeStep
  <2>2. (\E c \in Calls : TakeStep(c)) \/ steps' = steps
    BY DEF Next, RunStep, RunCommand, Admit, AdmissionFails, AdmittedAsOwner,
         AdmittedAsSteer, RecordSteer, PreparationFails, RefuseParts, EnterLoop,
         PassBoundary, Drain, LoopReplies, LoopIsCut, LoopFails,
         RecordInput, RecordReply, DeliveryFails, Deliver, DeliverAndFollowUp,
         Stop, Terminated, vars
  <2>. QED  BY <1>0, <2>1, <2>2
<1>5. carried' \in [Calls -> Seq(Messages)]
  <2>1. ASSUME NEW c \in Calls, DeliverAndFollowUp(c)
        PROVE  carried' \in [Calls -> Seq(Messages)]
    <3>1. returned[c] \in Seq(Calls)
      BY DEF AdmissionTypes
    <3>2. MergeSteered(returned[c]) \in Seq(Messages)
      BY <1>0, <3>1, MergedIs
    <3>. QED  BY <1>0, <2>1, <3>2 DEF DeliverAndFollowUp
  <2>2. (\E c \in Calls : DeliverAndFollowUp(c)) \/ carried' = carried
    BY DEF Next, RunStep, RunCommand, Admit, AdmissionFails, AdmittedAsOwner,
         AdmittedAsSteer, RecordSteer, PreparationFails, RefuseParts, EnterLoop,
         PassBoundary, Drain, TakeStep, LoopReplies, LoopIsCut, LoopFails,
         RecordInput, RecordReply, DeliveryFails, Deliver,
         Stop, Terminated, vars
  <2>. QED  BY <1>0, <2>1, <2>2
<1>6. outcome' \in [Calls -> Outcomes]
  BY <1>0 DEF Next, RunStep, RunCommand, Admit, AdmissionFails, AdmittedAsOwner,
         AdmittedAsSteer, RecordSteer, PreparationFails, RefuseParts, EnterLoop,
         PassBoundary, Drain, TakeStep, LoopReplies, LoopIsCut, LoopFails,
         RecordInput, RecordReply, DeliveryFails, Deliver, DeliverAndFollowUp,
         Stop, Terminated, vars, Ends, Outcomes
<1>7. halted' \subseteq Calls
  <2>1. ASSUME NEW k \in Keys, Stop(k) PROVE halted' \subseteq Calls
    <3>1. running[k] \in Calls
      BY <2>1 DEF Stop, Admission!Stop, AdmissionTypes
    <3>. QED  BY <1>0, <2>1, <3>1 DEF Stop
  <2>2. (\E k \in Keys : Stop(k)) \/ halted' = halted
    BY DEF Next, RunStep, RunCommand, Admit, AdmissionFails, AdmittedAsOwner,
         AdmittedAsSteer, RecordSteer, PreparationFails, RefuseParts, EnterLoop,
         PassBoundary, Drain, TakeStep, LoopReplies, LoopIsCut, LoopFails,
         RecordInput, RecordReply, DeliveryFails, Deliver, DeliverAndFollowUp,
         Terminated, vars
  <2>. QED  BY <1>0, <2>1, <2>2
<1>8. log' \in Seq(Entries)
  <2>1. ASSUME NEW c \in Calls, RecordSteer(c) \/ RecordInput(c)
        PROVE  log' \in Seq(Entries)
    <3>1. RecordedInput(c) \in Seq(Entries)
      BY RecordedIs DEF CarriedInv
    <3>2. log' = log \o RecordedInput(c)
      BY <2>1 DEF RecordSteer, RecordInput
    <3>. QED  BY <1>0, <3>1, <3>2, ConcatProperties
  <2>2. ASSUME NEW c \in Calls, RecordReply(c) PROVE log' \in Seq(Entries)
    <3>1. Replied(c) \in Entries
      BY DEF Replied, Entries
    <3>. QED  BY <1>0, <2>2, <3>1, AppendProperties DEF RecordReply
  <2>3. (\E c \in Calls : RecordSteer(c) \/ RecordInput(c) \/ RecordReply(c)) \/ log' = log
    BY DEF Next, RunStep, RunCommand, Admit, AdmissionFails, AdmittedAsOwner,
         AdmittedAsSteer, PreparationFails, RefuseParts, EnterLoop,
         PassBoundary, Drain, TakeStep, LoopReplies, LoopIsCut, LoopFails,
         DeliveryFails, Deliver, DeliverAndFollowUp,
         Stop, Terminated, vars
  <2>. QED  BY <1>0, <2>1, <2>2, <2>3
<1>. QED  BY <1>0, <1>2, <1>3, <1>4, <1>5, <1>6, <1>7, <1>8

(* What PlaceInv says of one call.                                         *)
PlaceAt(c) ==
    /\ fate[c] \in FateOf(phase[c], outcome[c])
    /\ outcome[c] = "none" <=> phase[c] # "done"
    /\ fate[c] = "joined" => c \notin Ambient
    /\ phase[c] \in {"recording", "replying"} => c \notin Ambient
    /\ phase[c] = "unborn" => c \in FollowUps

(* Of other calls a step of c changes neither place nor fate nor outcome.  *)
OnlyOf(c) == \A d \in Calls : d # c =>
    phase'[d] = phase[d] /\ fate'[d] = fate[d] /\ outcome'[d] = outcome[d]

(* What a step of run does to the place, the fate and the outcome of its   *)
(* call.                                                                   *)
LEMMA StepsOfRun ==
  ASSUME TypeOK, AdmissionTypes, NEW c \in Calls
  PROVE
    /\ RunCommand(c) => /\ phase[c] = "new" /\ phase'[c] = "done"
                /\ fate'[c] = fate[c] /\ outcome'[c] = "command" /\ OnlyOf(c)
    /\ Admit(c) => /\ phase[c] = "new" /\ phase'[c] = "asking"
                /\ fate'[c] = "waiting" /\ outcome'[c] = outcome[c] /\ OnlyOf(c)
    /\ AdmissionFails(c) => /\ phase[c] = "asking" /\ phase'[c] = "done"
                /\ fate'[c] = "refused" /\ outcome'[c] = "failed" /\ OnlyOf(c)
    /\ AdmittedAsOwner(c) => /\ phase[c] = "asking" /\ phase'[c] = "preparing"
                /\ fate'[c] = "running" /\ outcome'[c] = outcome[c] /\ OnlyOf(c)
    /\ AdmittedAsSteer(c) => /\ phase[c] = "asking" /\ phase'[c] = "joining"
                /\ fate'[c] = "joined" /\ outcome'[c] = outcome[c] /\ OnlyOf(c)
    /\ RecordSteer(c) => /\ phase[c] = "joining" /\ phase'[c] = "done"
                /\ fate'[c] = fate[c] /\ outcome'[c] = "joined" /\ OnlyOf(c)
    /\ PreparationFails(c) => /\ phase[c] = "preparing" /\ phase'[c] = "done"
                /\ fate'[c] = "finished" /\ outcome'[c] = "failed" /\ OnlyOf(c)
    /\ RefuseParts(c) => /\ phase[c] = "preparing" /\ phase'[c] = "done"
                /\ fate'[c] = "finished" /\ outcome'[c] = "refused" /\ OnlyOf(c)
    /\ EnterLoop(c) => /\ phase[c] = "preparing" /\ phase'[c] = "looping"
                /\ fate'[c] = fate[c] /\ outcome'[c] = outcome[c] /\ OnlyOf(c)
    /\ PassBoundary(c) => /\ phase[c] = "looping" /\ phase'[c] = "draining"
                /\ fate'[c] = fate[c] /\ outcome'[c] = outcome[c] /\ OnlyOf(c)
    /\ Drain(c) => /\ phase[c] = "draining" /\ phase'[c] = "generating"
                /\ fate'[c] = fate[c] /\ outcome'[c] = outcome[c] /\ OnlyOf(c)
    /\ TakeStep(c) => /\ phase[c] = "generating" /\ phase'[c] = "looping"
                /\ fate'[c] = fate[c] /\ outcome'[c] = outcome[c] /\ OnlyOf(c)
    /\ LoopReplies(c) => /\ phase[c] = "generating" /\ phase'[c] = IF c \notin Ambient THEN "recording" ELSE "delivering"
                /\ fate'[c] = "finished" /\ outcome'[c] = outcome[c] /\ OnlyOf(c)
    /\ LoopIsCut(c) => /\ phase[c] \in {"looping", "generating"} /\ phase'[c] = "delivering"
                /\ fate'[c] = "finished" /\ outcome'[c] = outcome[c] /\ OnlyOf(c)
    /\ LoopFails(c) => /\ phase[c] \in {"looping", "generating"} /\ phase'[c] = "done"
                /\ fate'[c] = "finished" /\ outcome'[c] = "failed" /\ OnlyOf(c)
    /\ RecordInput(c) => /\ phase[c] = "recording" /\ phase'[c] = "replying"
                /\ fate'[c] = fate[c] /\ outcome'[c] = outcome[c] /\ OnlyOf(c)
    /\ RecordReply(c) => /\ phase[c] = "replying" /\ phase'[c] = "delivering"
                /\ fate'[c] = fate[c] /\ outcome'[c] = outcome[c] /\ OnlyOf(c)
    /\ DeliveryFails(c) => /\ phase[c] = "delivering" /\ phase'[c] = "done"
                /\ fate'[c] = fate[c] /\ outcome'[c] = "failed" /\ OnlyOf(c)
    /\ Deliver(c) => /\ phase[c] = "delivering" /\ phase'[c] = "done"
                /\ fate'[c] = fate[c] /\ outcome'[c] = "delivered" /\ OnlyOf(c)
<1>. USE DEF TypeOK, AdmissionTypes, OnlyOf, Moves, Ends, admissionVars
<1>1. RunCommand(c) => /\ phase[c] = "new" /\ phase'[c] = "done"
              /\ fate'[c] = fate[c] /\ outcome'[c] = "command" /\ OnlyOf(c)
  BY DEF RunCommand
<1>2. Admit(c) => /\ phase[c] = "new" /\ phase'[c] = "asking"
              /\ fate'[c] = "waiting" /\ outcome'[c] = outcome[c] /\ OnlyOf(c)
  BY DEF Admit, Admission!Ask, Admission!Becomes
<1>3. AdmissionFails(c) => /\ phase[c] = "asking" /\ phase'[c] = "done"
              /\ fate'[c] = "refused" /\ outcome'[c] = "failed" /\ OnlyOf(c)
  BY DEF AdmissionFails, Admission!Refuse, Admission!Becomes
<1>4. AdmittedAsOwner(c) => /\ phase[c] = "asking" /\ phase'[c] = "preparing"
              /\ fate'[c] = "running" /\ outcome'[c] = outcome[c] /\ OnlyOf(c)
  BY DEF AdmittedAsOwner, Admission!Begin, Admission!Becomes
<1>5. AdmittedAsSteer(c) => /\ phase[c] = "asking" /\ phase'[c] = "joining"
              /\ fate'[c] = "joined" /\ outcome'[c] = outcome[c] /\ OnlyOf(c)
  BY DEF AdmittedAsSteer, Admission!Join, Admission!Becomes
<1>6. RecordSteer(c) => /\ phase[c] = "joining" /\ phase'[c] = "done"
              /\ fate'[c] = fate[c] /\ outcome'[c] = "joined" /\ OnlyOf(c)
  BY DEF RecordSteer
<1>7. PreparationFails(c) => /\ phase[c] = "preparing" /\ phase'[c] = "done"
              /\ fate'[c] = "finished" /\ outcome'[c] = "failed" /\ OnlyOf(c)
  BY DEF PreparationFails, Admission!End, Admission!Becomes
<1>8. RefuseParts(c) => /\ phase[c] = "preparing" /\ phase'[c] = "done"
              /\ fate'[c] = "finished" /\ outcome'[c] = "refused" /\ OnlyOf(c)
  BY DEF RefuseParts, Admission!End, Admission!Becomes
<1>9. EnterLoop(c) => /\ phase[c] = "preparing" /\ phase'[c] = "looping"
              /\ fate'[c] = fate[c] /\ outcome'[c] = outcome[c] /\ OnlyOf(c)
  BY DEF EnterLoop
<1>10. PassBoundary(c) => /\ phase[c] = "looping" /\ phase'[c] = "draining"
              /\ fate'[c] = fate[c] /\ outcome'[c] = outcome[c] /\ OnlyOf(c)
  BY DEF PassBoundary
<1>11. Drain(c) => /\ phase[c] = "draining" /\ phase'[c] = "generating"
              /\ fate'[c] = fate[c] /\ outcome'[c] = outcome[c] /\ OnlyOf(c)
  BY DEF Drain, Admission!Read
<1>12. TakeStep(c) => /\ phase[c] = "generating" /\ phase'[c] = "looping"
              /\ fate'[c] = fate[c] /\ outcome'[c] = outcome[c] /\ OnlyOf(c)
  BY DEF TakeStep
<1>13. LoopReplies(c) => /\ phase[c] = "generating" /\ phase'[c] = IF c \notin Ambient THEN "recording" ELSE "delivering"
              /\ fate'[c] = "finished" /\ outcome'[c] = outcome[c] /\ OnlyOf(c)
  BY DEF LoopReplies, Admission!End, Admission!Becomes, RecordConversation
<1>14. LoopIsCut(c) => /\ phase[c] \in {"looping", "generating"} /\ phase'[c] = "delivering"
              /\ fate'[c] = "finished" /\ outcome'[c] = outcome[c] /\ OnlyOf(c)
  BY DEF LoopIsCut, Admission!End, Admission!Becomes
<1>15. LoopFails(c) => /\ phase[c] \in {"looping", "generating"} /\ phase'[c] = "done"
              /\ fate'[c] = "finished" /\ outcome'[c] = "failed" /\ OnlyOf(c)
  BY DEF LoopFails, Admission!End, Admission!Becomes
<1>16. RecordInput(c) => /\ phase[c] = "recording" /\ phase'[c] = "replying"
              /\ fate'[c] = fate[c] /\ outcome'[c] = outcome[c] /\ OnlyOf(c)
  BY DEF RecordInput
<1>17. RecordReply(c) => /\ phase[c] = "replying" /\ phase'[c] = "delivering"
              /\ fate'[c] = fate[c] /\ outcome'[c] = outcome[c] /\ OnlyOf(c)
  BY DEF RecordReply
<1>18. DeliveryFails(c) => /\ phase[c] = "delivering" /\ phase'[c] = "done"
              /\ fate'[c] = fate[c] /\ outcome'[c] = "failed" /\ OnlyOf(c)
  BY DEF DeliveryFails
<1>19. Deliver(c) => /\ phase[c] = "delivering" /\ phase'[c] = "done"
              /\ fate'[c] = fate[c] /\ outcome'[c] = "delivered" /\ OnlyOf(c)
  BY DEF Deliver
<1>. QED  BY <1>1, <1>2, <1>3, <1>4, <1>5, <1>6, <1>7, <1>8, <1>9, <1>10, <1>11, <1>12, <1>13, <1>14, <1>15, <1>16, <1>17, <1>18, <1>19

(* and what delivering with a follow-up does.                              *)
LEMMA FollowUpIs ==
  ASSUME TurnRunAssumption, TypeOK, AdmissionTypes, NEW c \in Calls, DeliverAndFollowUp(c)
  PROVE  /\ phase[c] = "delivering" /\ phase'[c] = "done" /\ outcome'[c] = "delivered"
         /\ returned[c] # <<>> /\ fate' = fate /\ returned' = returned
         /\ \A d \in Calls : d # c => outcome'[d] = outcome[d]
         /\ \E f \in FollowUps :
              /\ f # c /\ phase[f] = "unborn" /\ phase'[f] = "new"
              /\ \A d \in Calls : d # c /\ d # f => phase'[d] = phase[d]
              /\ carried'[f] = MergeSteered(returned[c])
              /\ \A d \in Calls : d # f => carried'[d] = carried[d]
<1>1. PICK f \in FollowUps :
         /\ phase[f] = "unborn"
         /\ phase' = [phase EXCEPT ![c] = "done", ![f] = "new"]
         /\ carried' = [carried EXCEPT ![f] = MergeSteered(returned[c])]
  BY DEF DeliverAndFollowUp
<1>2. /\ phase[c] = "delivering" /\ returned[c] # <<>>
      /\ outcome' = [outcome EXCEPT ![c] = "delivered"]
      /\ fate' = fate /\ returned' = returned
  BY DEF DeliverAndFollowUp, Ends, admissionVars
<1>3. f \in Calls /\ phase \in [Calls -> Phases] /\ outcome \in [Calls -> Outcomes]
      /\ carried \in [Calls -> Seq(Messages)]
  BY DEF TypeOK, Calls
<1>4. f # c
  BY <1>1, <1>2
<1>. QED  BY <1>1, <1>2, <1>3, <1>4

(* Every step keeps what the place of a call says of its fate.             *)
LEMMA PlaceNext ==
  ASSUME TurnRunAssumption, TypeOK, AdmissionTypes, PlaceInv, Next
  PROVE  PlaceInv'
<1>0. \A d \in Calls : PlaceAt(d)
  BY DEF PlaceInv, PlaceAt
<1>1. SUFFICES \A d \in Calls : PlaceAt(d)'
  BY DEF PlaceInv, PlaceAt
<1>2. ASSUME NEW c \in Calls, OnlyOf(c), PlaceAt(c)' PROVE \A d \in Calls : PlaceAt(d)'
  BY <1>0, <1>2 DEF PlaceAt, OnlyOf
<1>3. ASSUME UNCHANGED <<phase, fate, outcome>> PROVE \A d \in Calls : PlaceAt(d)'
  BY <1>0, <1>3 DEF PlaceAt
<1>4. ASSUME NEW c \in Calls, RunCommand(c) PROVE \A d \in Calls : PlaceAt(d)'
  BY <1>4, <1>0, <1>2, StepsOfRun DEF PlaceAt, FateOf
<1>5. ASSUME NEW c \in Calls, Admit(c) PROVE \A d \in Calls : PlaceAt(d)'
  BY <1>5, <1>0, <1>2, StepsOfRun DEF PlaceAt, FateOf
<1>6. ASSUME NEW c \in Calls, AdmissionFails(c) PROVE \A d \in Calls : PlaceAt(d)'
  BY <1>6, <1>0, <1>2, StepsOfRun DEF PlaceAt, FateOf
<1>7. ASSUME NEW c \in Calls, AdmittedAsOwner(c) PROVE \A d \in Calls : PlaceAt(d)'
  BY <1>7, <1>0, <1>2, StepsOfRun DEF PlaceAt, FateOf
<1>8. ASSUME NEW c \in Calls, AdmittedAsSteer(c) PROVE \A d \in Calls : PlaceAt(d)'
  <2>1. c \notin Ambient
    BY <1>8 DEF AdmittedAsSteer, Admission!Join, AdmissionTypes, RecordConversation
  <2>. QED  BY <1>8, <1>0, <1>2, <2>1, StepsOfRun DEF PlaceAt, FateOf
<1>9. ASSUME NEW c \in Calls, RecordSteer(c) PROVE \A d \in Calls : PlaceAt(d)'
  BY <1>9, <1>0, <1>2, StepsOfRun DEF PlaceAt, FateOf
<1>10. ASSUME NEW c \in Calls, PreparationFails(c) PROVE \A d \in Calls : PlaceAt(d)'
  BY <1>10, <1>0, <1>2, StepsOfRun DEF PlaceAt, FateOf
<1>11. ASSUME NEW c \in Calls, RefuseParts(c) PROVE \A d \in Calls : PlaceAt(d)'
  BY <1>11, <1>0, <1>2, StepsOfRun DEF PlaceAt, FateOf
<1>12. ASSUME NEW c \in Calls, EnterLoop(c) PROVE \A d \in Calls : PlaceAt(d)'
  BY <1>12, <1>0, <1>2, StepsOfRun DEF PlaceAt, FateOf
<1>13. ASSUME NEW c \in Calls, PassBoundary(c) PROVE \A d \in Calls : PlaceAt(d)'
  BY <1>13, <1>0, <1>2, StepsOfRun DEF PlaceAt, FateOf
<1>14. ASSUME NEW c \in Calls, Drain(c) PROVE \A d \in Calls : PlaceAt(d)'
  BY <1>14, <1>0, <1>2, StepsOfRun DEF PlaceAt, FateOf
<1>15. ASSUME NEW c \in Calls, TakeStep(c) PROVE \A d \in Calls : PlaceAt(d)'
  BY <1>15, <1>0, <1>2, StepsOfRun DEF PlaceAt, FateOf
<1>16. ASSUME NEW c \in Calls, LoopReplies(c) PROVE \A d \in Calls : PlaceAt(d)'
  BY <1>16, <1>0, <1>2, StepsOfRun DEF PlaceAt, FateOf
<1>17. ASSUME NEW c \in Calls, LoopIsCut(c) PROVE \A d \in Calls : PlaceAt(d)'
  BY <1>17, <1>0, <1>2, StepsOfRun DEF PlaceAt, FateOf
<1>18. ASSUME NEW c \in Calls, LoopFails(c) PROVE \A d \in Calls : PlaceAt(d)'
  BY <1>18, <1>0, <1>2, StepsOfRun DEF PlaceAt, FateOf
<1>19. ASSUME NEW c \in Calls, RecordInput(c) PROVE \A d \in Calls : PlaceAt(d)'
  BY <1>19, <1>0, <1>2, StepsOfRun DEF PlaceAt, FateOf
<1>20. ASSUME NEW c \in Calls, RecordReply(c) PROVE \A d \in Calls : PlaceAt(d)'
  BY <1>20, <1>0, <1>2, StepsOfRun DEF PlaceAt, FateOf
<1>21. ASSUME NEW c \in Calls, DeliveryFails(c) PROVE \A d \in Calls : PlaceAt(d)'
  BY <1>21, <1>0, <1>2, StepsOfRun DEF PlaceAt, FateOf
<1>22. ASSUME NEW c \in Calls, Deliver(c) PROVE \A d \in Calls : PlaceAt(d)'
  BY <1>22, <1>0, <1>2, StepsOfRun DEF PlaceAt, FateOf
<1>23. ASSUME NEW c \in Calls, DeliverAndFollowUp(c) PROVE \A d \in Calls : PlaceAt(d)'
  <2>1. PICK f \in FollowUps :
          /\ f # c /\ phase[f] = "unborn" /\ phase'[f] = "new"
          /\ \A d \in Calls : d # c /\ d # f => phase'[d] = phase[d]
    BY <1>23, FollowUpIs
  <2>2. /\ phase[c] = "delivering" /\ phase'[c] = "done" /\ outcome'[c] = "delivered"
        /\ fate' = fate /\ \A d \in Calls : d # c => outcome'[d] = outcome[d]
    BY <1>23, FollowUpIs
  <2>3. f \in Calls
    BY DEF Calls
  <2>4. PlaceAt(c)'
    BY <1>0, <2>2 DEF PlaceAt, FateOf
  <2>5. PlaceAt(f)'
    BY <1>0, <2>1, <2>2, <2>3 DEF PlaceAt, FateOf
  <2>6. \A d \in Calls : d # c /\ d # f => PlaceAt(d)'
    BY <1>0, <2>1, <2>2 DEF PlaceAt
  <2>. QED  BY <2>4, <2>5, <2>6
<1>24. ASSUME NEW k \in Keys, Stop(k) PROVE \A d \in Calls : PlaceAt(d)'
  BY <1>24, <1>3 DEF Stop, Admission!Stop
<1>25. CASE Terminated
  BY <1>25, <1>3 DEF Terminated, vars, admissionVars
<1>. QED  BY <1>4, <1>5, <1>6, <1>7, <1>8, <1>9, <1>10, <1>11, <1>12, <1>13, <1>14, <1>15, <1>16, <1>17, <1>18, <1>19, <1>20, <1>21, <1>22, <1>23, <1>24, <1>25 DEF Next, RunStep

(* What a turn has got back and has put into its follow-up.                *)
Passes(o) == IF outcome[o] = "delivered" THEN ToSet(returned[o]) ELSE {}

(* A call has passed on if a turn has passed it on, and was joined then.   *)
LEMMA PassedOnIs ==
  ASSUME JoinedInv, NEW d \in Calls
  PROVE  /\ PassedOn(d) <=> \E o \in Calls : d \in Passes(o)
         /\ PassedOn(d) => fate[d] = "joined"
  BY DEF PassedOn, Passes, JoinedInv, Got

(* A call that joined stays joined, and what a turn got back stays there   *)
(* when it is over.                                                        *)
LEMMA FatesStay ==
  ASSUME AdmissionTypes, AdmissionStep
  PROVE  /\ \A d \in Calls : fate[d] = "joined" => fate'[d] = "joined"
         /\ \A o \in Calls : fate[o] # "running" => returned'[o] = returned[o]
<1>0. /\ fate \in [Calls -> {"outside", "waiting", "refused", "running", "joined", "finished"}]
      /\ returned \in [Calls -> Seq(Calls)]
  BY DEF AdmissionTypes
<1>. QED
  BY <1>0 DEF AdmissionStep, admissionVars, Admission!Ask, Admission!Refuse, Admission!Begin,
              Admission!Join, Admission!Read, Admission!End, Admission!Stop, Admission!Becomes

(* Without a follow-up nothing passes on.                                  *)
LEMMA NothingPasses ==
  ASSUME TypeOK, AdmissionTypes, PlaceInv, Next, \A c \in Calls : ~DeliverAndFollowUp(c)
  PROVE  /\ carried' = carried
         /\ \A o \in Calls : Passes(o)' = Passes(o)
<1>1. carried' = carried
  BY DEF Next, RunStep, RunCommand, Admit, AdmissionFails, AdmittedAsOwner,
         AdmittedAsSteer, RecordSteer, PreparationFails, RefuseParts, EnterLoop,
         PassBoundary, Drain, TakeStep, LoopReplies, LoopIsCut, LoopFails,
         RecordInput, RecordReply, DeliveryFails, Deliver,
         Stop, Terminated, vars
<1>2. \A o \in Calls : fate[o] # "running" => returned'[o] = returned[o]
  BY StepsOfAdmission, FatesStay
<1>3. \A o \in Calls : PlaceAt(o)
  BY DEF PlaceInv, PlaceAt
<1>4. ASSUME NEW o \in Calls PROVE Passes(o)' = Passes(o)
  <2>1. ASSUME NEW c \in Calls, OnlyOf(c),
               phase[c] # "done", outcome'[c] # "delivered"
        PROVE  Passes(o)' = Passes(o)
    <3>1. o # c => outcome'[o] = outcome[o]
      BY <2>1 DEF OnlyOf
    <3>2. outcome[c] # "delivered"
      BY <1>3, <2>1 DEF PlaceAt
    <3>3. outcome[o] = "delivered" => returned'[o] = returned[o]
      BY <1>2, <1>3 DEF PlaceAt, FateOf
    <3>. QED  BY <2>1, <3>1, <3>2, <3>3 DEF Passes
  <2>2. ASSUME NEW c \in Calls, Deliver(c) PROVE Passes(o)' = Passes(o)
    <3>1. returned[c] = <<>> /\ returned' = returned /\ OnlyOf(c)
      BY <2>2, StepsOfRun DEF Deliver, admissionVars
    <3>2. ToSet(<<>>) = {}
      BY DEF ToSet
    <3>. QED  BY <3>1, <3>2 DEF Passes, OnlyOf
  <2>3. ASSUME UNCHANGED <<outcome, returned>> PROVE Passes(o)' = Passes(o)
    BY <2>3 DEF Passes
  <2>4. ASSUME NEW c \in Calls,
               \/ RunCommand(c) \/ Admit(c) \/ AdmissionFails(c) \/ AdmittedAsOwner(c)
               \/ AdmittedAsSteer(c) \/ RecordSteer(c) \/ PreparationFails(c)
               \/ RefuseParts(c) \/ EnterLoop(c) \/ PassBoundary(c)
        PROVE  Passes(o)' = Passes(o)
    <3>1. OnlyOf(c) /\ phase[c] # "done" /\ outcome'[c] \in {outcome[c], "command", "failed", "joined", "refused"}
      BY <2>4, StepsOfRun
    <3>2. outcome'[c] # "delivered"
      BY <1>3, <3>1 DEF PlaceAt
    <3>. QED  BY <2>1, <3>1, <3>2
  <2>5. ASSUME NEW c \in Calls,
               \/ Drain(c) \/ TakeStep(c) \/ LoopReplies(c) \/ LoopIsCut(c) \/ LoopFails(c)
               \/ RecordInput(c) \/ RecordReply(c) \/ DeliveryFails(c)
        PROVE  Passes(o)' = Passes(o)
    <3>1. OnlyOf(c) /\ phase[c] # "done" /\ outcome'[c] \in {outcome[c], "failed"}
      BY <2>5, StepsOfRun
    <3>2. outcome'[c] # "delivered"
      BY <1>3, <3>1 DEF PlaceAt
    <3>. QED  BY <2>1, <3>1, <3>2
  <2>6. ASSUME NEW k \in Keys, Stop(k) PROVE Passes(o)' = Passes(o)
    BY <2>3, <2>6 DEF Stop, Admission!Stop
  <2>7. CASE Terminated
    BY <2>3, <2>7 DEF Terminated, vars, admissionVars
  <2>. QED  BY <2>2, <2>4, <2>5, <2>6, <2>7 DEF Next, RunStep
<1>. QED  BY <1>1, <1>4

(* A place that is not unborn stays so.                                    *)
LEMMA BornStays ==
  ASSUME TypeOK, Next, NEW d \in Calls, phase'[d] = "unborn"
  PROVE  phase[d] = "unborn"
  BY DEF TypeOK, Next, RunStep, RunCommand, Admit, AdmissionFails, AdmittedAsOwner,
         AdmittedAsSteer, RecordSteer, PreparationFails, RefuseParts, EnterLoop,
         PassBoundary, Drain, TakeStep, LoopReplies, LoopIsCut, LoopFails,
         RecordInput, RecordReply, DeliveryFails, Deliver, DeliverAndFollowUp,
         Stop, Terminated, vars, Moves

(* A follow-up holds the messages of the calls that are passed on to it,   *)
(* and those calls no longer do.                                           *)
LEMMA CarriedNext ==
  ASSUME TurnRunAssumption, TypeOK, AdmissionTypes, JoinedInv, PlaceInv, CarriedInv,
         Next, JoinedInv'
  PROVE  CarriedInv'
<1>1. /\ \A d \in Calls : fate[d] = "joined" => fate'[d] = "joined"
      /\ carried \in [Calls -> Seq(Messages)]
  BY StepsOfAdmission, FatesStay DEF TypeOK
<1>2. /\ \A d \in Calls : PassedOn(d) <=> \E o \in Calls : d \in Passes(o)
      /\ \A d \in Calls : PassedOn(d) => fate[d] = "joined"
      /\ \A d \in Calls : PassedOn(d)' <=> \E o \in Calls : d \in Passes(o)'
  <2>1. \A d \in Calls : PassedOn(d)' <=> \E o \in Calls : d \in Passes(o)'
    BY DEF PassedOn, Passes
  <2>. QED  BY <2>1, PassedOnIs
<1>3. /\ Messages \subseteq Calls /\ FollowUps \subseteq Calls
      /\ Messages \cap FollowUps = {}
  BY DEF Calls, TurnRunAssumption
<1>c. /\ \A m \in Messages : carried[m] = <<m>>
      /\ \A c \in Calls : IsInjective(carried[c])
      /\ \A f \in FollowUps : phase[f] = "unborn" => carried[f] = <<>>
      /\ \A f \in FollowUps : \A m \in ToSet(carried[f]) : fate[m] = "joined"
      /\ \A m \in Messages : \E c \in Calls : m \in ToSet(carried[c]) /\ ~PassedOn(c)
      /\ \A m \in Messages : \A c, d \in Calls :
            m \in ToSet(carried[c]) /\ ~PassedOn(c) /\ m \in ToSet(carried[d]) /\ ~PassedOn(d)
               => c = d
  BY DEF CarriedInv, HeldBy
<1>d. ASSUME \A m \in Messages : carried'[m] = <<m>>,
             \A c \in Calls : IsInjective(carried'[c]),
             \A f \in FollowUps : phase'[f] = "unborn" => carried'[f] = <<>>,
             \A f \in FollowUps : \A m \in ToSet(carried'[f]) : fate'[m] = "joined",
             \A m \in Messages : \E c \in Calls : m \in ToSet(carried'[c]) /\ ~PassedOn(c)',
             \A m \in Messages : \A c, d \in Calls :
                m \in ToSet(carried'[c]) /\ ~PassedOn(c)' /\ m \in ToSet(carried'[d]) /\ ~PassedOn(d)'
                   => c = d
      PROVE  CarriedInv'
  BY <1>d DEF CarriedInv, HeldBy
<1>m. \A c \in Calls : ToSet(carried[c]) \subseteq Messages
  BY <1>1 DEF ToSet
<1>. HIDE DEF PassedOn, Passes
<1>4. CASE \A c \in Calls : ~DeliverAndFollowUp(c)
  <2>1. /\ carried' = carried
        /\ \A d \in Calls : PassedOn(d)' <=> PassedOn(d)
    BY <1>2, <1>4, NothingPasses
  <2>2. \A f \in FollowUps : phase'[f] = "unborn" => phase[f] = "unborn"
    BY <1>3, BornStays
  <2>3. \A f \in FollowUps : \A m \in ToSet(carried'[f]) : fate'[m] = "joined"
    BY <1>1, <1>3, <1>c, <1>m, <2>1
  <2>4. ASSUME NEW m \in Messages
        PROVE  \E c \in Calls : m \in ToSet(carried'[c]) /\ ~PassedOn(c)'
    <3>1. PICK c \in Calls : m \in ToSet(carried[c]) /\ ~PassedOn(c)
      BY <1>c
    <3>2. m \in ToSet(carried'[c]) /\ ~PassedOn(c)'
      BY <2>1, <3>1
    <3>. QED  BY <3>2
  <2>5. \A m \in Messages : \A c, d \in Calls :
           m \in ToSet(carried'[c]) /\ ~PassedOn(c)' /\ m \in ToSet(carried'[d]) /\ ~PassedOn(d)'
              => c = d
    BY <1>c, <2>1
  <2>6. \A c \in Calls : IsInjective(carried'[c])
    BY <1>c, <2>1
  <2>7. \A m \in Messages : carried'[m] = <<m>>
    BY <1>c, <2>1
  <2>8. \A f \in FollowUps : phase'[f] = "unborn" => carried'[f] = <<>>
    BY <1>c, <2>1, <2>2
  <2>. QED  BY <1>d, <2>3, <2>4, <2>5, <2>6, <2>7, <2>8
<1>5. ASSUME NEW c \in Calls, DeliverAndFollowUp(c) PROVE CarriedInv'
  <2>1. /\ phase[c] = "delivering" /\ outcome'[c] = "delivered"
        /\ fate' = fate /\ returned' = returned
        /\ \A d \in Calls : d # c => outcome'[d] = outcome[d]
    BY <1>5, FollowUpIs
  <2>2. PICK f \in FollowUps :
           /\ f # c /\ phase[f] = "unborn" /\ phase'[f] = "new"
           /\ \A d \in Calls : d # c /\ d # f => phase'[d] = phase[d]
           /\ carried'[f] = MergeSteered(returned[c])
           /\ \A d \in Calls : d # f => carried'[d] = carried[d]
    BY <1>5, FollowUpIs
  <2>3. f \in Calls /\ f \notin Messages /\ carried[f] = <<>>
    BY <1>3, <1>c, <2>2
  <2>4. fate[f] # "joined" /\ outcome[c] # "delivered"
    BY <2>1, <2>2, <2>3 DEF PlaceInv, FateOf
  <2>5. \A d \in Calls : PassedOn(d)' <=> PassedOn(d) \/ d \in ToSet(returned[c])
    <3>1. Passes(c)' = ToSet(returned[c]) /\ Passes(c) = {}
      BY <2>1, <2>4 DEF Passes
    <3>2. \A o \in Calls : o # c => Passes(o)' = Passes(o)
      BY <2>1 DEF Passes
    <3>. QED  BY <1>2, <3>1, <3>2
  <2>6. \A d \in Calls : d \in ToSet(returned[c]) => fate[d] = "joined" /\ ~PassedOn(d)
    <3>1. \A d \in Calls : d \in ToSet(returned[c]) => d \in Got(c)
      BY DEF Got
    <3>2. \A o, d \in Calls : d \in Passes(o) => d \in Got(o) /\ o # c
      BY <2>4 DEF Passes, Got
    <3>. QED  BY <1>2, <3>1, <3>2 DEF JoinedInv
  <2>7. ~PassedOn(f)'
    BY <1>2, <2>3, <2>4, <2>5, <2>6
  <2>8. /\ returned[c] \in Seq(Calls) /\ ToSet(returned[c]) \subseteq Calls
        /\ IsInjective(returned[c])
    <3>1. returned[c] \in Seq(Calls)
      BY DEF AdmissionTypes
    <3>. QED  BY <3>1, CallsPutTogether DEF JoinedInv
  <2>9. \A d, e \in ToSet(returned[c]) : d # e => ToSet(carried[d]) \cap ToSet(carried[e]) = {}
    BY <1>c, <1>m, <2>6, <2>8
  <2>10. /\ IsInjective(MergeSteered(returned[c]))
         /\ ToSet(MergeSteered(returned[c])) = UNION {ToSet(carried[d]) : d \in ToSet(returned[c])}
    <3>1. \A d \in ToSet(returned[c]) : IsInjective(carried[d])
      BY <1>c, <2>8
    <3>. QED  BY <1>1, <2>8, <2>9, <3>1, MergedIs
  <2>11. \A m : m \in ToSet(carried'[f]) <=>
            \E d \in Calls : d \in ToSet(returned[c]) /\ m \in ToSet(carried[d])
    BY <2>2, <2>8, <2>10
  <2>12. ToSet(<<>>) = {}
    BY DEF ToSet
  <2>g1. \A m \in Messages : carried'[m] = <<m>>
    BY <1>3, <1>c, <2>2, <2>3
  <2>g2. \A d \in Calls : IsInjective(carried'[d])
    BY <1>c, <2>2, <2>10
  <2>g3. \A g \in FollowUps : phase'[g] = "unborn" => carried'[g] = <<>>
    <3>1. \A g \in FollowUps : phase'[g] = "unborn" => phase[g] = "unborn" /\ g # f
      BY <1>3, <2>2, BornStays
    <3>. QED  BY <1>3, <1>c, <2>2, <3>1
  <2>g4. ASSUME NEW g \in FollowUps, NEW m \in ToSet(carried'[g]) PROVE fate'[m] = "joined"
    <3>1. CASE g # f
      BY <3>1, <1>3, <1>c, <2>1, <2>2
    <3>2. CASE g = f
      <4>1. PICK d \in Calls : d \in ToSet(returned[c]) /\ m \in ToSet(carried[d])
        BY <3>2, <2>11
      <4>2. CASE d \in Messages
        <5>1. ToSet(<<d>>) = {d}
          BY DEF ToSet
        <5>2. m = d
          BY <1>c, <4>1, <4>2, <5>1
        <5>. QED  BY <4>1, <5>2, <2>1, <2>6
      <4>3. CASE d \in FollowUps
        BY <1>c, <2>1, <4>1, <4>3
      <4>. QED  BY <4>2, <4>3 DEF Calls
    <3>. QED  BY <3>1, <3>2
  <2>g5. ASSUME NEW m \in Messages
         PROVE  \E d \in Calls : m \in ToSet(carried'[d]) /\ ~PassedOn(d)'
    <3>1. PICK h \in Calls : m \in ToSet(carried[h]) /\ ~PassedOn(h)
      BY <1>c
    <3>2. CASE h \in ToSet(returned[c])
      <4>1. m \in ToSet(carried'[f])
        BY <2>11, <3>1, <3>2
      <4>. QED  BY <2>3, <2>7, <4>1
    <3>3. CASE h \notin ToSet(returned[c])
      <4>1. h # f
        BY <2>3, <2>12, <3>1
      <4>2. m \in ToSet(carried'[h]) /\ ~PassedOn(h)'
        BY <2>2, <2>5, <3>1, <3>3, <4>1
      <4>. QED  BY <4>2
    <3>. QED  BY <3>2, <3>3
  <2>g6. ASSUME NEW m \in Messages, NEW d \in Calls, NEW e \in Calls,
                m \in ToSet(carried'[d]), ~PassedOn(d)', m \in ToSet(carried'[e]), ~PassedOn(e)'
         PROVE  d = e
    <3>1. ASSUME NEW x \in Calls, m \in ToSet(carried'[x]), ~PassedOn(x)', x # f
          PROVE  m \in ToSet(carried[x]) /\ ~PassedOn(x) /\ x \notin ToSet(returned[c])
      BY <2>2, <2>5, <3>1
    <3>2. ASSUME m \in ToSet(carried'[f])
          PROVE  \E x \in Calls : m \in ToSet(carried[x]) /\ ~PassedOn(x) /\ x \in ToSet(returned[c])
      <4>1. PICK x \in Calls : x \in ToSet(returned[c]) /\ m \in ToSet(carried[x])
        BY <2>11, <3>2
      <4>2. ~PassedOn(x)
        BY <2>6, <4>1
      <4>. QED  BY <4>1, <4>2
    <3>3. \A x, y \in Calls : m \in ToSet(carried[x]) /\ ~PassedOn(x)
                              /\ m \in ToSet(carried[y]) /\ ~PassedOn(y) => x = y
      BY <1>c
    <3>4. CASE d # f /\ e # f
      BY <2>g6, <3>1, <3>3, <3>4
    <3>5. CASE d = f /\ e # f
      <4>1. PICK x \in Calls : m \in ToSet(carried[x]) /\ ~PassedOn(x) /\ x \in ToSet(returned[c])
        BY <2>g6, <3>2, <3>5
      <4>2. m \in ToSet(carried[e]) /\ ~PassedOn(e) /\ e \notin ToSet(returned[c])
        BY <2>g6, <3>1, <3>5
      <4>. QED  BY <3>3, <4>1, <4>2
    <3>6. CASE d # f /\ e = f
      <4>1. PICK x \in Calls : m \in ToSet(carried[x]) /\ ~PassedOn(x) /\ x \in ToSet(returned[c])
        BY <2>g6, <3>2, <3>6
      <4>2. m \in ToSet(carried[d]) /\ ~PassedOn(d) /\ d \notin ToSet(returned[c])
        BY <2>g6, <3>1, <3>6
      <4>. QED  BY <3>3, <4>1, <4>2
    <3>. QED  BY <3>4, <3>5, <3>6
  <2>. QED  BY <1>d, <2>g1, <2>g2, <2>g3, <2>g4, <2>g5, <2>g6
<1>. QED  BY <1>4, <1>5

(* What the log says of a call.                                            *)
LogAt(d) ==
    /\ d \in Messages =>
          /\ Said(d) \in ToSet(log) =>
                d \notin Ambient /\ phase[d] \in {"replying", "delivering", "done"}
          /\ phase[d] = "replying" => Said(d) \in ToSet(log)
          /\ phase[d] = "done" /\ fate[d] = "joined" => Said(d) \in ToSet(log)
    /\ Replied(d) \in ToSet(log) =>
          /\ phase[d] \in {"delivering", "done"} /\ d \notin Ambient
          /\ fate[d] = "finished"
          /\ d \in Messages => Said(d) \in ToSet(log)

(* The entries of calls are told apart.                                    *)
LEMMA EntriesDiffer ==
  ASSUME NEW c \in Calls, NEW d \in Calls
  PROVE  /\ Said(c) # Replied(d)
         /\ Said(c) = Said(d) => c = d
         /\ Replied(c) = Replied(d) => c = d
         /\ Said(c) \in Entries /\ Replied(c) \in Entries
  BY DEF Said, Replied, Entries

(* A step that records nothing keeps what the log says of a call.          *)
LEMMA NothingRecorded ==
  ASSUME TypeOK, AdmissionTypes, PlaceInv, \A d \in Calls : LogAt(d), Next,
         \A c \in Calls : ~RecordSteer(c) /\ ~RecordInput(c) /\ ~RecordReply(c)
  PROVE  log' = log /\ \A d \in Calls : LogAt(d)'
<1>1. log' = log
  BY DEF Next, RunStep, RunCommand, Admit, AdmissionFails, AdmittedAsOwner,
         AdmittedAsSteer, PreparationFails, RefuseParts, EnterLoop,
         PassBoundary, Drain, TakeStep, LoopReplies, LoopIsCut, LoopFails,
         DeliveryFails, Deliver, DeliverAndFollowUp,
         Stop, Terminated, vars
<1>2. \A d \in Calls : PlaceAt(d)
  BY DEF PlaceInv, PlaceAt
<1>. DEFINE Same(d) == phase'[d] = phase[d] /\ fate'[d] = fate[d]
<1>3. ASSUME NEW d \in Calls, Same(d) PROVE LogAt(d)'
  BY <1>1, <1>3 DEF LogAt
<1>4. ASSUME NEW c \in Calls, OnlyOf(c), LogAt(c)' PROVE \A d \in Calls : LogAt(d)'
  BY <1>3, <1>4 DEF OnlyOf
\* A call that moves on before its input is recorded has nothing in the log.
<1>5. ASSUME NEW c \in Calls, OnlyOf(c),
             phase[c] \notin {"recording", "replying", "delivering", "done"},
             phase'[c] # "replying", phase'[c] = "done" => fate'[c] # "joined"
      PROVE  \A d \in Calls : LogAt(d)'
  BY <1>1, <1>4, <1>5 DEF LogAt
\* Nor does one that has recorded its exchange take it back.
<1>6. ASSUME NEW c \in Calls, OnlyOf(c), phase[c] = "delivering", phase'[c] = "done",
             fate'[c] = fate[c]
      PROVE  \A d \in Calls : LogAt(d)'
  BY <1>1, <1>2, <1>4, <1>6 DEF LogAt, PlaceAt, FateOf
<1>7. ASSUME NEW c \in Calls,
             \/ RunCommand(c) \/ Admit(c) \/ AdmissionFails(c) \/ AdmittedAsOwner(c)
             \/ AdmittedAsSteer(c) \/ PreparationFails(c)
             \/ RefuseParts(c) \/ EnterLoop(c) \/ PassBoundary(c)
      PROVE  \A d \in Calls : LogAt(d)'
  <2>1. /\ OnlyOf(c) /\ phase[c] \notin {"recording", "replying", "delivering", "done"}
        /\ phase'[c] # "replying"
        /\ phase'[c] = "done" => fate'[c] \in {fate[c], "refused", "finished"} /\ phase[c] # "joining"
    BY <1>7, StepsOfRun
  <2>2. phase'[c] = "done" => fate'[c] # "joined"
    BY <1>2, <2>1 DEF PlaceAt, FateOf
  <2>. QED  BY <1>5, <2>1, <2>2
<1>8. ASSUME NEW c \in Calls,
             Drain(c) \/ TakeStep(c) \/ LoopReplies(c) \/ LoopIsCut(c) \/ LoopFails(c)
      PROVE  \A d \in Calls : LogAt(d)'
  <2>1. /\ OnlyOf(c) /\ phase[c] \notin {"recording", "replying", "delivering", "done"}
        /\ phase'[c] # "replying"
        /\ phase'[c] = "done" => fate'[c] # "joined"
    BY <1>8, StepsOfRun
  <2>. QED  BY <1>5, <2>1
<1>9. ASSUME NEW c \in Calls, DeliveryFails(c) \/ Deliver(c) PROVE \A d \in Calls : LogAt(d)'
  BY <1>6, <1>9, StepsOfRun
<1>10. ASSUME NEW c \in Calls, DeliverAndFollowUp(c) PROVE \A d \in Calls : LogAt(d)'
  <2>0. TurnRunAssumption
    BY TurnRunAssumption
  <2>1. PICK f \in FollowUps :
          /\ f # c /\ phase[f] = "unborn" /\ phase'[f] = "new"
          /\ \A d \in Calls : d # c /\ d # f => phase'[d] = phase[d]
    BY <1>10, <2>0, FollowUpIs
  <2>2. /\ phase[c] = "delivering" /\ phase'[c] = "done" /\ fate' = fate
    BY <1>10, <2>0, FollowUpIs
  <2>3. f \in Calls
    BY DEF Calls
  <2>4. LogAt(c)'
    BY <1>1, <1>2, <2>2 DEF LogAt, PlaceAt, FateOf
  <2>5. LogAt(f)'
    BY <1>1, <2>1, <2>2, <2>3 DEF LogAt
  <2>6. \A d \in Calls : d # c /\ d # f => LogAt(d)'
    BY <1>3, <2>1, <2>2
  <2>. QED  BY <2>4, <2>5, <2>6
<1>11. ASSUME NEW k \in Keys, Stop(k) PROVE \A d \in Calls : LogAt(d)'
  BY <1>3, <1>11 DEF Stop, Admission!Stop
<1>12. CASE Terminated
  BY <1>3, <1>12 DEF Terminated, vars, admissionVars
<1>. QED  BY <1>1, <1>7, <1>8, <1>9, <1>10, <1>11, <1>12 DEF Next, RunStep

(* The input of an exchange is recorded when its reply is known, a steer's *)
(* when it has joined, and neither a second time.                          *)
LEMMA LogNext ==
  ASSUME TurnRunAssumption, TypeOK, AdmissionTypes, PlaceInv, CarriedInv, LogInv, Next
  PROVE  LogInv'
<1>1. IsInjective(log) /\ \A d \in Calls : LogAt(d)
  BY DEF LogInv, LogAt, Calls
<1>2. SUFFICES IsInjective(log') /\ \A d \in Calls : LogAt(d)'
  BY DEF LogInv, LogAt, Calls
<1>3. log \in Seq(Entries) /\ log' \in Seq(Entries)
  <2>1. TypeOK'
    BY TurnTyped
  <2>. QED  BY <2>1 DEF TypeOK, Entries
<1>4. \A d \in Calls : PlaceAt(d)
  BY DEF PlaceInv, PlaceAt
<1>5. CASE \A c \in Calls : ~RecordSteer(c) /\ ~RecordInput(c) /\ ~RecordReply(c)
  BY <1>1, <1>5, NothingRecorded
<1>6. ASSUME NEW c \in Calls, RecordSteer(c) \/ RecordInput(c)
      PROVE  IsInjective(log') /\ \A d \in Calls : LogAt(d)'
  <2>1. /\ OnlyOf(c) /\ fate'[c] = fate[c]
        /\ \/ phase[c] = "joining" /\ phase'[c] = "done"
           \/ phase[c] = "recording" /\ phase'[c] = "replying"
    BY <1>6, StepsOfRun
  <2>2. log' = log \o RecordedInput(c)
    BY <1>6 DEF RecordSteer, RecordInput
  <2>3. RecordedInput(c) = (IF c \in Messages THEN <<Said(c)>> ELSE <<>>)
    BY RecordedIs DEF CarriedInv
  <2>4. c \notin Ambient
    BY <1>4, <2>1 DEF PlaceAt, FateOf
  <2>5. CASE c \in Messages
    <3>1. Said(c) \in Entries /\ Said(c) \notin ToSet(log)
      BY <1>1, <2>1, <2>5, EntriesDiffer DEF LogAt
    <3>2. log' = Append(log, Said(c))
      BY <1>3, <2>2, <2>3, <2>5, <3>1
    <3>3. ToSet(log') = ToSet(log) \cup {Said(c)} /\ IsInjective(log')
      BY <1>1, <1>3, <3>1, <3>2, MembersOf, OnceOf
    <3>4. ASSUME NEW d \in Calls, d # c PROVE LogAt(d)'
      <4>1. /\ phase'[d] = phase[d] /\ fate'[d] = fate[d]
            /\ Said(d) # Said(c) /\ Replied(d) # Said(c)
        BY <2>1, <3>4, EntriesDiffer DEF OnlyOf
      <4>2. /\ Said(d) \in ToSet(log') <=> Said(d) \in ToSet(log)
            /\ Replied(d) \in ToSet(log') <=> Replied(d) \in ToSet(log)
        BY <3>3, <4>1
      <4>. QED  BY <1>1, <4>1, <4>2 DEF LogAt
    <3>5. LogAt(c)'
      <4>1. Replied(c) # Said(c) /\ Said(c) \in ToSet(log')
        BY <3>3, EntriesDiffer
      <4>2. Replied(c) \notin ToSet(log)
        BY <1>1, <2>1 DEF LogAt
      <4>3. Replied(c) \notin ToSet(log')
        BY <3>3, <4>1, <4>2
      <4>4. phase'[c] \in {"replying", "done"}
        BY <2>1
      <4>. QED  BY <2>4, <4>1, <4>3, <4>4 DEF LogAt
    <3>. QED  BY <3>3, <3>4, <3>5
  <2>6. CASE c \notin Messages
    <3>1. log' = log
      BY <1>3, <2>2, <2>3, <2>6
    <3>2. ASSUME NEW d \in Calls, d # c PROVE LogAt(d)'
      BY <1>1, <2>1, <3>1, <3>2 DEF OnlyOf, LogAt
    <3>3. LogAt(c)'
      BY <1>1, <2>1, <2>6, <3>1 DEF LogAt
    <3>. QED  BY <1>1, <3>1, <3>2, <3>3
  <2>. QED  BY <2>5, <2>6
<1>7. ASSUME NEW c \in Calls, RecordReply(c)
      PROVE  IsInjective(log') /\ \A d \in Calls : LogAt(d)'
  <2>1. /\ OnlyOf(c) /\ fate'[c] = fate[c]
        /\ phase[c] = "replying" /\ phase'[c] = "delivering"
    BY <1>7, StepsOfRun
  <2>2. log' = Append(log, Replied(c))
    BY <1>7 DEF RecordReply
  <2>3. Replied(c) \in Entries /\ Replied(c) \notin ToSet(log)
    BY <1>1, <2>1, EntriesDiffer DEF LogAt
  <2>4. ToSet(log') = ToSet(log) \cup {Replied(c)} /\ IsInjective(log')
    BY <1>1, <1>3, <2>2, <2>3, MembersOf, OnceOf
  <2>5. ASSUME NEW d \in Calls, d # c PROVE LogAt(d)'
    <3>1. /\ phase'[d] = phase[d] /\ fate'[d] = fate[d]
          /\ Said(d) # Replied(c) /\ Replied(d) # Replied(c)
      BY <2>1, <2>5, EntriesDiffer DEF OnlyOf
    <3>2. /\ Said(d) \in ToSet(log') <=> Said(d) \in ToSet(log)
          /\ Replied(d) \in ToSet(log') <=> Replied(d) \in ToSet(log)
      BY <2>4, <3>1
    <3>. QED  BY <1>1, <3>1, <3>2 DEF LogAt
  <2>6. LogAt(c)'
    <3>1. Said(c) # Replied(c)
      BY EntriesDiffer
    <3>2. Said(c) \in ToSet(log') <=> Said(c) \in ToSet(log)
      BY <2>4, <3>1
    <3>3. c \notin Ambient /\ fate'[c] = "finished"
      BY <1>4, <2>1 DEF PlaceAt, FateOf
    <3>. QED  BY <1>1, <2>1, <3>2, <3>3 DEF LogAt
  <2>. QED  BY <2>4, <2>5, <2>6
<1>. QED  BY <1>5, <1>6, <1>7

-----------------------------------------------------------------------------
(* Messages, calls, and what a turn works on                               *)
TurnInv ==
    /\ TypeOK /\ AdmissionTypes
    /\ JoinedInv /\ RunningInv /\ PlaceInv /\ CarriedInv /\ LogInv

(* Nothing is asked, joined, merged or recorded where turns start.         *)
LEMMA TurnsInit == ASSUME TurnRunAssumption, Init PROVE TurnInv
<1>1. /\ key \in [Calls -> Keys] /\ steerable = [c \in Calls |-> RecordConversation(c)]
      /\ fate = [c \in Calls |-> "outside"] /\ running = [k \in Keys |-> None]
      /\ taking = {} /\ inbox = [k \in Keys |-> <<>>]
      /\ drained = [c \in Calls |-> <<>>] /\ returned = [c \in Calls |-> <<>>]
  BY DEF Init, Admission!Init
<1>2. /\ phase = [c \in Calls |-> IF c \in FollowUps THEN "unborn" ELSE "new"]
      /\ carried = [c \in Calls |-> IF c \in FollowUps THEN <<>> ELSE <<c>>]
      /\ outcome = [c \in Calls |-> "none"] /\ log = <<>>
      /\ steps = [c \in Calls |-> 0] /\ halted = {} /\ unsupported \subseteq Messages
      /\ Messages \cap FollowUps = {} /\ MaxSteps \in Nat \ {0}
      /\ Messages \subseteq Calls /\ FollowUps \subseteq Calls
      /\ \A c \in Calls : c \notin FollowUps => c \in Messages
  BY DEF Init, TurnRunAssumption, Calls
<1>3. /\ ToSet(<<>>) = {} /\ IsInjective(<<>>)
      /\ \A m : ToSet(<<m>>) = {m} /\ IsInjective(<<m>>)
  BY DEF ToSet, IsInjective
<1>4. carried \in [Calls -> Seq(Messages)]
  <2>1. \A c \in Calls : (IF c \in FollowUps THEN <<>> ELSE <<c>>) \in Seq(Messages)
    BY <1>2
  <2>. QED  BY <1>2, <2>1
<1>5. TypeOK
  BY <1>2, <1>4 DEF TypeOK, Phases, Outcomes
<1>6. AdmissionTypes
  BY <1>1 DEF AdmissionTypes
<1>7. JoinedInv
  BY <1>1, <1>3 DEF JoinedInv, Got
<1>8. RunningInv
  BY <1>1 DEF RunningInv
<1>9. PlaceInv
  BY <1>1, <1>2 DEF PlaceInv, FateOf
<1>10. CarriedInv
  <2>1. \A d \in Calls : ~PassedOn(d)
    BY <1>1, <1>3 DEF PassedOn
  <2>2. \A c \in Calls : \A m : m \in ToSet(carried[c]) => m = c /\ c \in Messages
    BY <1>2, <1>3
  <2>3. \A m \in Messages : m \in ToSet(carried[m]) /\ carried[m] = <<m>> /\ m \in Calls
    BY <1>2, <1>3
  <2>4. \A c \in Calls : IsInjective(carried[c])
    BY <1>2, <1>3
  <2>5. \A f \in FollowUps : carried[f] = <<>> /\ ToSet(carried[f]) = {}
    BY <1>2, <1>3
  <2>. QED  BY <2>1, <2>2, <2>3, <2>4, <2>5 DEF CarriedInv, HeldBy
<1>11. LogInv
  BY <1>1, <1>2, <1>3 DEF LogInv
<1>. QED  BY <1>5, <1>6, <1>7, <1>8, <1>9, <1>10, <1>11 DEF TurnInv

(* Every step of a turn keeps it.                                          *)
LEMMA TurnsNext == ASSUME TurnRunAssumption, TurnInv, Next PROVE TurnInv'
<1>1. AdmissionStep
  BY StepsOfAdmission
<1>2. TypeOK' /\ AdmissionTypes' /\ JoinedInv' /\ RunningInv'
  BY <1>1, TurnTyped, AdmissionTyped, JoinedNext, RunningNext DEF TurnInv
<1>3. PlaceInv' /\ LogInv'
  BY PlaceNext, LogNext DEF TurnInv
<1>4. CarriedInv'
  BY <1>2, CarriedNext DEF TurnInv
<1>. QED  BY <1>2, <1>3, <1>4 DEF TurnInv

(* What a turn works on is held by its call or by one that it has read.    *)
LEMMA InputIsHeld ==
  ASSUME TurnRunAssumption, TurnInv, NEW c \in Calls
  PROVE  /\ IsInjective(TurnInput(c)) /\ TurnInput(c) \in Seq(Messages)
         /\ OwnsTurn(c) =>
               \A m : m \in ToSet(TurnInput(c)) <=>
                  m \in ToSet(carried[c]) \/ \E d \in Calls :
                     d \in ToSet(drained[c]) /\ m \in ToSet(carried[d])
         /\ ~OwnsTurn(c) => ToSet(TurnInput(c)) = {}
         /\ \A m \in ToSet(TurnInput(c)) : m \in Messages
         /\ \A m \in ToSet(TurnInput(c)) : \E h \in Calls :
               /\ HeldBy(m, h)
               /\ (h = c /\ fate[c] # "joined") \/ h \in ToSet(drained[c])
<1>1. /\ carried \in [Calls -> Seq(Messages)] /\ drained[c] \in Seq(Calls)
      /\ ToSet(drained[c]) \subseteq Calls /\ IsInjective(drained[c])
  <2>1. carried \in [Calls -> Seq(Messages)] /\ drained[c] \in Seq(Calls)
    BY DEF TurnInv, TypeOK, AdmissionTypes
  <2>. QED  BY <2>1, CallsPutTogether DEF TurnInv, JoinedInv
<1>2. /\ MergeSteered(drained[c]) \in Seq(Messages) /\ carried[c] \in Seq(Messages)
      /\ ToSet(MergeSteered(drained[c])) = UNION {ToSet(carried[d]) : d \in ToSet(drained[c])}
  BY <1>1, MergedIs
<1>3. ASSUME NEW d \in Calls, d \in ToSet(drained[c]) PROVE ~PassedOn(d) /\ fate[d] = "joined"
  BY <1>3 DEF TurnInv, JoinedInv, Got, PassedOn
<1>4. fate[c] # "joined" => ~PassedOn(c)
  BY DEF TurnInv, JoinedInv, Got, PassedOn
<1>5. /\ \A d \in Calls : IsInjective(carried[d])
      /\ \A m \in Messages : \A d, e \in Calls :
            m \in ToSet(carried[d]) /\ ~PassedOn(d) /\ m \in ToSet(carried[e]) /\ ~PassedOn(e)
               => d = e
      /\ \A d \in Calls : ToSet(carried[d]) \subseteq Messages
  <2>1. \A d \in Calls : ToSet(carried[d]) \subseteq Messages
    BY <1>1, MembersOf
  <2>2. \A d \in Calls : IsInjective(carried[d])
    BY DEF TurnInv, CarriedInv
  <2>3. \A m \in Messages : \A d, e \in Calls :
            m \in ToSet(carried[d]) /\ ~PassedOn(d) /\ m \in ToSet(carried[e]) /\ ~PassedOn(e)
               => d = e
    BY DEF TurnInv, CarriedInv, HeldBy
  <2>. QED  BY <2>1, <2>2, <2>3
<1>6. CASE ~OwnsTurn(c)
  <2>1. TurnInput(c) = <<>>
    BY <1>6 DEF TurnInput
  <2>2. ToSet(<<>>) = {} /\ IsInjective(<<>>)
    BY DEF ToSet, IsInjective
  <2>. QED  BY <1>6, <2>1, <2>2, EmptySeq
<1>7. CASE OwnsTurn(c)
  <2>1. fate[c] # "joined" /\ TurnInput(c) = carried[c] \o MergeSteered(drained[c])
    BY <1>7 DEF TurnInput, OwnsTurn
  <2>2. ToSet(TurnInput(c)) = ToSet(carried[c]) \cup ToSet(MergeSteered(drained[c]))
    BY <1>2, <2>1, MembersOf
  <2>3. \A m : m \in ToSet(MergeSteered(drained[c])) <=>
           \E d \in Calls : d \in ToSet(drained[c]) /\ m \in ToSet(carried[d])
    BY <1>1, <1>2
  <2>4. IsInjective(MergeSteered(drained[c]))
    <3>1. \A d, e \in ToSet(drained[c]) : d # e => ToSet(carried[d]) \cap ToSet(carried[e]) = {}
      BY <1>1, <1>3, <1>5
    <3>2. \A d \in ToSet(drained[c]) : IsInjective(carried[d])
      BY <1>1, <1>5
    <3>. QED  BY <1>1, <3>1, <3>2, MergedIs
  <2>5. ToSet(carried[c]) \cap ToSet(MergeSteered(drained[c])) = {}
    <3>1. SUFFICES ASSUME NEW m \in ToSet(carried[c]), NEW d \in Calls,
                          d \in ToSet(drained[c]), m \in ToSet(carried[d])
                   PROVE  FALSE
      BY <2>3
    <3>2. ~PassedOn(c) /\ ~PassedOn(d) /\ fate[d] = "joined"
      BY <1>3, <1>4, <2>1, <3>1
    <3>3. m \in Messages /\ c = d
      BY <1>5, <3>1, <3>2
    <3>. QED  BY <2>1, <3>2, <3>3
  <2>6. IsInjective(TurnInput(c)) /\ TurnInput(c) \in Seq(Messages)
    BY <1>2, <1>5, <2>1, <2>4, <2>5, OnceOf, ConcatProperties
  <2>7. \A m \in ToSet(TurnInput(c)) : m \in Messages
    BY <2>6 DEF ToSet
  <2>8. ASSUME NEW m \in ToSet(TurnInput(c))
        PROVE  \E h \in Calls :
                  /\ HeldBy(m, h)
                  /\ (h = c /\ fate[c] # "joined") \/ h \in ToSet(drained[c])
    <3>1. CASE m \in ToSet(carried[c])
      BY <1>4, <2>1, <3>1 DEF HeldBy
    <3>2. CASE m \notin ToSet(carried[c])
      <4>1. PICK d \in Calls : d \in ToSet(drained[c]) /\ m \in ToSet(carried[d])
        BY <2>2, <2>3, <2>8, <3>2
      <4>. QED  BY <1>3, <4>1 DEF HeldBy
    <3>. QED  BY <3>1, <3>2
  <2>9. \A m : m \in ToSet(TurnInput(c)) <=>
           m \in ToSet(carried[c]) \/ \E d \in Calls :
              d \in ToSet(drained[c]) /\ m \in ToSet(carried[d])
    BY <2>2, <2>3
  <2>. QED  BY <1>7, <2>6, <2>7, <2>8, <2>9
<1>. QED  BY <1>6, <1>7

(* A message of a call is the call itself, or one that joined.             *)
LEMMA CarriedAre ==
  ASSUME CarriedInv, NEW h \in Calls, NEW m \in ToSet(carried[h])
  PROVE  (m = h /\ h \in Messages) \/ (h \in FollowUps /\ fate[m] = "joined")
<1>1. ToSet(<<h>>) = {h}
  BY DEF ToSet
<1>2. CASE h \in Messages
  BY <1>1, <1>2 DEF CarriedInv
<1>3. CASE h \in FollowUps
  BY <1>3 DEF CarriedInv
<1>. QED  BY <1>2, <1>3 DEF Calls

(* So it is worked on by one turn, once, and nothing else by an unprompted *)
(* one.                                                                    *)
LEMMA TurnIsOnce == ASSUME TurnRunAssumption, TurnInv PROVE EachOnce
<1>1. WorkedOnOnce
  <2>1. SUFFICES ASSUME NEW c \in Calls, NEW d \in Calls,
                        NEW i \in DOMAIN TurnInput(c), NEW j \in DOMAIN TurnInput(d),
                        TurnInput(c)[i] = TurnInput(d)[j]
                 PROVE  c = d /\ i = j
    BY DEF WorkedOnOnce
  <2>. DEFINE m == TurnInput(c)[i]
  <2>2. m \in ToSet(TurnInput(c)) /\ m \in ToSet(TurnInput(d)) /\ m \in Messages
    <3>1. m \in ToSet(TurnInput(c)) /\ m \in ToSet(TurnInput(d))
      BY <2>1 DEF ToSet
    <3>. QED  BY <3>1, InputIsHeld
  <2>. HIDE DEF m
  <2>3. PICK h \in Calls : /\ HeldBy(m, h)
                           /\ (h = c /\ fate[c] # "joined") \/ h \in ToSet(drained[c])
    BY <2>2, InputIsHeld
  <2>4. PICK g \in Calls : /\ HeldBy(m, g)
                           /\ (g = d /\ fate[d] # "joined") \/ g \in ToSet(drained[d])
    BY <2>2, InputIsHeld
  <2>5. h = g
    BY <2>2, <2>3, <2>4 DEF TurnInv, CarriedInv
  <2>6. \A o, x \in Calls : x \in ToSet(drained[o]) => fate[x] = "joined"
    BY DEF TurnInv, JoinedInv, Got
  <2>7. \A o, p, x \in Calls : x \in ToSet(drained[o]) /\ x \in ToSet(drained[p]) => o = p
    BY DEF TurnInv, JoinedInv, Got
  <2>8. c = d
    BY <2>3, <2>4, <2>5, <2>6, <2>7
  <2>9. IsInjective(TurnInput(c))
    BY InputIsHeld
  <2>. QED  BY <2>1, <2>8, <2>9 DEF IsInjective
<1>2. RecordedOnce
  <2>1. IsInjective(log) /\ \A m \in Ambient : Said(m) \notin ToSet(log)
    BY DEF TurnInv, LogInv, TurnRunAssumption
  <2>2. ASSUME Quiescent, NEW c \in Calls, Replied(c) \in ToSet(log),
               NEW m \in ToSet(TurnInput(c))
        PROVE  Said(m) \in ToSet(log)
    <3>1. PICK h \in Calls : /\ HeldBy(m, h)
                             /\ (h = c /\ fate[c] # "joined") \/ h \in ToSet(drained[c])
      BY InputIsHeld
    <3>2. m \in Messages /\ m \in Calls /\ m \in ToSet(carried[h])
      BY <3>1, InputIsHeld DEF HeldBy, Calls
    <3>3. (m = h /\ h \in Messages) \/ fate[m] = "joined"
      BY <3>2, CarriedAre DEF TurnInv
    <3>4. h # c => fate[h] = "joined"
      BY <3>1 DEF TurnInv, JoinedInv, Got
    <3>5. CASE fate[m] = "joined"
      <4>1. phase[m] = "done"
        BY <2>2, <3>2, <3>5 DEF TurnInv, PlaceInv, FateOf, Quiescent
      <4>. QED  BY <3>2, <3>5, <4>1 DEF TurnInv, LogInv
    <3>6. CASE m = c
      BY <2>2, <3>2, <3>6 DEF TurnInv, LogInv
    <3>. QED  BY <3>3, <3>4, <3>5, <3>6
  <2>. QED  BY <2>1, <2>2 DEF RecordedOnce
<1>3. AmbientAlone
  <2>1. SUFFICES ASSUME NEW c \in Calls, NEW m \in ToSet(TurnInput(c)), m \in Ambient
                 PROVE  TurnInput(c) = <<c>>
    BY DEF AmbientAlone
  <2>2. PICK h \in Calls : /\ HeldBy(m, h)
                           /\ (h = c /\ fate[c] # "joined") \/ h \in ToSet(drained[c])
    BY InputIsHeld
  <2>3. m \in Messages /\ m \in Calls /\ m \in ToSet(carried[h])
    BY <2>2, InputIsHeld DEF HeldBy, Calls
  <2>4. fate[m] # "joined"
    BY <2>1, <2>3 DEF TurnInv, PlaceInv
  <2>5. m = h
    BY <2>3, <2>4, CarriedAre DEF TurnInv
  <2>6. h = c
    BY <2>2, <2>4, <2>5 DEF TurnInv, JoinedInv, Got
  <2>7. drained[c] = <<>> /\ OwnsTurn(c)
    <3>1. drained[c] = <<>>
      BY <2>1, <2>5, <2>6 DEF TurnInv, RunningInv
    <3>2. ~OwnsTurn(c) => ToSet(TurnInput(c)) = {}
      BY InputIsHeld
    <3>. QED  BY <3>1, <3>2
  <2>8. MergeSteered(<<>>) = <<>>
    <3>1. <<>> \in Seq(Calls) /\ carried \in [Calls -> Seq(Messages)]
      BY EmptySeq DEF TurnInv, TypeOK
    <3>2. ToSet(<<>>) = {}
      BY DEF ToSet
    <3>3. /\ MergeSteered(<<>>) \in Seq(Messages)
          /\ ToSet(MergeSteered(<<>>)) = UNION {ToSet(carried[d]) : d \in ToSet(<<>>)}
      BY <3>1, MergedIs
    <3>4. ToSet(MergeSteered(<<>>)) = {}
      BY <3>2, <3>3
    <3>. QED  BY <3>3, <3>4, MembersOf
  <2>9. carried[c] = <<c>>
    BY <2>3, <2>5, <2>6 DEF TurnInv, CarriedInv
  <2>10. TurnInput(c) = carried[c] \o MergeSteered(drained[c])
    BY <2>7 DEF TurnInput
  <2>11. TurnInput(c) = <<c>> \o <<>>
    BY <2>7, <2>8, <2>9, <2>10
  <2>. QED  BY <2>11
<1>. QED  BY <1>1, <1>2, <1>3 DEF EachOnce

(* And when everything is done its holder says what became of it.          *)
LEMMA NoneIsLost == ASSUME TurnRunAssumption, TurnInv PROVE NothingLost
<1>1. SUFFICES ASSUME Quiescent, NEW m \in Messages
               PROVE  \E c \in Calls : EndedIn(m, c) \/ Dropped(m, c)
  BY DEF NothingLost
<1>2. PICK h \in Calls : m \in ToSet(carried[h]) /\ ~PassedOn(h)
  BY DEF TurnInv, CarriedInv, HeldBy
<1>3. \A c \in Calls : PlaceAt(c) /\ phase[c] \in {"unborn", "done"} /\ outcome[c] \in Outcomes
  BY <1>1 DEF TurnInv, PlaceInv, PlaceAt, Quiescent, TypeOK
<1>4. phase[h] = "done"
  <2>1. ToSet(<<>>) = {}
    BY DEF ToSet
  <2>2. phase[h] = "unborn" => h \in FollowUps /\ carried[h] = <<>>
    BY <1>3 DEF PlaceAt, TurnInv, CarriedInv
  <2>. QED  BY <1>2, <1>3, <2>1, <2>2
<1>5. outcome[h] \in {"command", "joined", "delivered", "refused", "failed"}
  BY <1>3, <1>4 DEF PlaceAt, Outcomes
<1>6. CASE outcome[h] \in {"command", "failed"}
  BY <1>2, <1>6 DEF EndedIn
<1>7. CASE outcome[h] \in {"delivered", "refused"}
  <2>1. OwnsTurn(h)
    BY <1>3, <1>4, <1>7 DEF PlaceAt, FateOf, OwnsTurn
  <2>2. m \in ToSet(TurnInput(h))
    BY <1>2, <2>1, InputIsHeld
  <2>. QED  BY <2>2 DEF EndedIn
<1>8. CASE outcome[h] = "joined"
  <2>1. fate[h] = "joined"
    BY <1>3, <1>4, <1>8 DEF PlaceAt, FateOf
  <2>2. h \notin ToSet(inbox[key[h]])
    <3>1. SUFFICES ASSUME h \in ToSet(inbox[key[h]]) PROVE FALSE
      OBVIOUS
    <3>2. key[h] \in Keys /\ inbox[key[h]] # <<>>
      BY <3>1 DEF TurnInv, AdmissionTypes, ToSet
    <3>3. running[key[h]] # None /\ running[key[h]] \in Calls /\ fate[running[key[h]]] = "running"
      BY <3>2 DEF TurnInv, RunningInv, AdmissionTypes
    <3>. QED  BY <1>3, <3>3 DEF PlaceAt, FateOf
  <2>3. PICK o \in Calls : h \in Got(o)
    BY <2>1, <2>2 DEF TurnInv, JoinedInv
  <2>4. CASE h \in ToSet(drained[o])
    <3>1. drained[o] # <<>>
      BY <2>4 DEF ToSet
    <3>2. OwnsTurn(o)
      BY <3>1 DEF TurnInv, RunningInv
    <3>3. m \in ToSet(TurnInput(o))
      BY <1>2, <2>4, <3>2, InputIsHeld
    <3>. QED  BY <3>3 DEF EndedIn
  <2>5. CASE h \in ToSet(returned[o])
    <3>1. returned[o] # <<>>
      BY <2>5 DEF ToSet
    <3>2. fate[o] = "finished"
      BY <3>1 DEF TurnInv, RunningInv
    <3>3. outcome[o] # "delivered"
      BY <1>2, <2>5 DEF PassedOn
    <3>4. outcome[o] \in {"failed", "refused"}
      BY <1>3, <3>2, <3>3 DEF PlaceAt, FateOf, Outcomes
    <3>5. returned[o] \in Seq(Calls) /\ carried \in [Calls -> Seq(Messages)]
      BY DEF TurnInv, AdmissionTypes, TypeOK
    <3>6. m \in ToSet(MergeSteered(returned[o]))
      BY <1>2, <2>5, <3>5, MergedIs
    <3>. QED  BY <3>4, <3>6 DEF Dropped
  <2>. QED  BY <2>3, <2>4, <2>5 DEF Got
<1>. QED  BY <1>5, <1>6, <1>7, <1>8

(* A step of another component leaves turns alone.                         *)
LEMMA TurnsStay == ASSUME TurnInv, UNCHANGED turnsVars PROVE TurnInv'
<1>1. UNCHANGED <<vars, admissionVars>>
  BY DEF turnsVars, vars, admissionVars
<1>2. TypeOK' /\ AdmissionTypes'
  BY <1>1 DEF TurnInv, TypeOK, AdmissionTypes, vars, admissionVars
<1>3. JoinedInv' /\ RunningInv'
  BY <1>1 DEF TurnInv, JoinedInv, RunningInv, Got, OwnsTurn, vars, admissionVars
<1>4. PlaceInv' /\ CarriedInv' /\ LogInv'
  BY <1>1 DEF TurnInv, PlaceInv, CarriedInv, HeldBy, PassedOn, LogInv, vars, admissionVars
<1>. QED  BY <1>2, <1>3, <1>4 DEF TurnInv

-----------------------------------------------------------------------------
(* Schedules                                                               *)

(* What is due has a time, and only a daemon that is alive has workers: a  *)
(* worker that handles a run found it absent from the ledger, and past it  *)
(* the run has been delivered.                                             *)
RunsAreDue ==
    /\ \A j \in Jobs : row[j].next # 0
    /\ ~alive => \A w \in Workers : schedulesPc[w] = "idle"
    /\ \A w \in Workers :
          /\ S!Acting(w) => S!DueAt(w) # 0
          /\ schedulesPc[w] = "handling" => ledger[run[w]] = 0
          /\ schedulesPc[w] \in {"delivered", "recording", "completing"} =>
                delivered[run[w]] > 0

LedgerIsTrue ==
    \A r \in S!Runs :
        /\ ledger[r] # 0 => delivered[r] > 0 /\ ledger[r] = recorded[r]
        /\ ledger[r] = 0 => recorded[r] = 0 \/ now > recorded[r] + Retention

JobInv ==
    /\ S!TypeOK
    /\ S!ClaimedByOne /\ S!CompletedWasDelivered /\ S!NoOrphanedClaim
    /\ RunsAreDue /\ LedgerIsTrue

(* No job is claimed where the schedules start.                            *)
LEMMA JobsInit == ASSUME S!SchedulesAssumption, S!Init PROVE JobInv
<1>1. S!TypeOK
  BY DEF S!SchedulesAssumption, S!Init, S!TypeOK, S!NewRow, S!RowType, S!Times, S!Runs, S!WorkerPlaces
<1>2. S!ClaimedByOne /\ S!CompletedWasDelivered /\ S!NoOrphanedClaim
  BY DEF S!Init, S!ClaimedByOne, S!CompletedWasDelivered, S!NoOrphanedClaim, S!Acting, S!NewRow
<1>3. RunsAreDue /\ LedgerIsTrue
  BY DEF S!Init, RunsAreDue, LedgerIsTrue, S!Acting, S!NewRow
<1>. QED  BY <1>1, <1>2, <1>3 DEF JobInv

(* A row stays one when a field of it is set.                              *)
LEMMA RowsOf ==
  ASSUME NEW r \in S!RowType
  PROVE  /\ r.stored \in BOOLEAN /\ r.enabled \in BOOLEAN
         /\ r.next \in S!Times /\ r.last \in S!Times /\ r.pending \in S!Times
         /\ \A v \in BOOLEAN : [r EXCEPT !.stored = v] \in S!RowType
         /\ \A v \in BOOLEAN : [r EXCEPT !.enabled = v] \in S!RowType
         /\ \A v \in S!Times : [r EXCEPT !.next = v] \in S!RowType
         /\ \A v \in S!Times : [r EXCEPT !.last = v] \in S!RowType
         /\ \A v \in S!Times : [r EXCEPT !.pending = v] \in S!RowType
  BY DEF S!RowType

(* A worker's run is one of a job and a time.                              *)
LEMMA RunOf ==
  ASSUME S!TypeOK, NEW w \in Workers
  PROVE  /\ run[w] \in S!Runs /\ S!JobOf(w) \in Jobs /\ S!DueAt(w) \in S!Times
         /\ run[w] = <<S!JobOf(w), S!DueAt(w)>>
  BY DEF S!TypeOK, S!Runs, S!JobOf, S!DueAt

(* Every step of the schedules keeps what holds of rows, workers and       *)
(* ledger.                                                                 *)
LEMMA JobsStep ==
  ASSUME S!SchedulesAssumption, JobInv, S!Next
  PROVE  JobInv'
<1>0. /\ \A v \in Workers : run[v] \in S!Runs /\ S!JobOf(v) \in Jobs /\ S!DueAt(v) \in S!Times
                            /\ run[v] = <<S!JobOf(v), S!DueAt(v)>>
  BY RunOf DEF JobInv
<1>a. /\ S!TypeOK /\ S!ClaimedByOne /\ S!CompletedWasDelivered
      /\ S!NoOrphanedClaim /\ RunsAreDue /\ LedgerIsTrue
  BY DEF JobInv
<1>1. ASSUME NEW j \in Jobs, NEW w \in Workers, S!Claim(j, w) PROVE JobInv'
  <2>b. row \in [Jobs -> S!RowType] /\ j \in Jobs /\ row[j] \in S!RowType /\ now + 1 \in S!Times /\ 0 \in S!Times
    BY <1>0, <1>a, <1>1 DEF S!TypeOK, S!Times, S!SchedulesAssumption
  <2>. DEFINE q1 == [row[j] EXCEPT !.pending = row[j].next]
  <2>q1. q1 \in S!RowType /\ q1.stored = row[j].stored /\ q1.enabled =
         row[j].enabled /\ q1.next = row[j].next /\ q1.last = row[j].last /\
         q1.pending = row[j].next
    BY <2>b, RowsOf DEF S!RowType
  <2>d. row' = [row EXCEPT ![j] = q1]
    BY <1>1, <2>b DEF S!Claim
  <2>. HIDE DEF q1
  <2>r. <<j, row[j].next>> \in S!Runs
    BY <2>b, RowsOf DEF S!Runs
  <2>1. row' \in [Jobs -> S!RowType] /\ row'[j].pending = row[j].next /\
         row'[j].next = row[j].next /\ row'[j].last = row[j].last /\
         row'[j].stored = row[j].stored /\ row[j].stored /\ row[j].pending = 0
    BY <1>1, <2>b, <2>d, <2>q1 DEF S!Claim, S!IsDue
  <2>2. \A i \in Jobs : i # j => row'[i] = row[i]
    BY <1>1, <2>b, <2>d, <2>q1 DEF S!Claim, S!IsDue
  <2>3. run' \in [Workers -> S!Runs] /\ run'[w] = <<j, row[j].next>> /\ \A v \in
         Workers : v # w => run'[v] = run[v]
    BY <1>0, <1>a, <1>1, <2>r DEF S!Claim, S!TypeOK, S!Goes, S!Matches,
       S!daemonVars, S!ledgerVars, S!workerVars, S!SchedulesAssumption,
       S!WorkerPlaces, S!Times
  <2>4. schedulesPc' \in [Workers -> S!WorkerPlaces] /\ schedulesPc'[w] =
         "handed" /\ schedulesPc[w] = "idle" /\ \A v \in Workers : v # w =>
         schedulesPc'[v] = schedulesPc[v]
    BY <1>0, <1>a, <1>1 DEF S!Claim, S!TypeOK, S!Goes, S!Matches, S!daemonVars,
       S!ledgerVars, S!workerVars, S!SchedulesAssumption, S!WorkerPlaces,
       S!Times
  <2>5. now' = now /\ alive' = alive /\ removed' = removed /\ ledger' = ledger /\
         current' = current /\ delivered' = delivered /\ recorded' = recorded
         /\ crashes' = crashes /\ faults' = faults /\ alive
    BY <1>0, <1>a, <1>1 DEF S!Claim, S!TypeOK, S!Goes, S!Matches, S!daemonVars,
       S!ledgerVars, S!workerVars, S!SchedulesAssumption, S!WorkerPlaces,
       S!Times
  <2>6. \A v \in Workers : (v # w => (S!Acting(v)' <=> S!Acting(v)) /\
         S!JobOf(v)' = S!JobOf(v) /\ S!DueAt(v)' = S!DueAt(v)) /\ (v = w =>
         S!Acting(v)' /\ S!JobOf(v)' = j /\ S!DueAt(v)' = row[j].next)
    BY <1>0, <2>1, <2>2, <2>3, <2>4, <2>5 DEF S!Acting, S!JobOf, S!DueAt
  <2>7. S!TypeOK'
    BY <1>0, <1>a, <2>1, <2>2, <2>3, <2>4, <2>5, <2>6 DEF S!TypeOK,
       S!SchedulesAssumption
  <2>8. S!ClaimedByOne'
    <3>1. SUFFICES ASSUME NEW v \in Workers, S!Acting(v)'
                   PROVE  /\ row'[S!JobOf(v)'].stored =>
                               row'[S!JobOf(v)'].pending = S!DueAt(v)'
                          /\ \A u \in Workers :
                               S!Acting(u)' /\ S!JobOf(u)' = S!JobOf(v)' => u = v
      BY DEF S!ClaimedByOne
    <3>2. \A u \in Workers : S!Acting(u) /\ S!JobOf(u) = j => row[j].pending = S!DueAt(u)
      BY <1>a, <2>1 DEF S!ClaimedByOne
    <3>3. \A u \in Workers : S!Acting(u) => S!DueAt(u) # 0 /\ S!JobOf(u) # j
      BY <1>a, <2>1, <3>2 DEF RunsAreDue
    <3>4. CASE v = w
      BY <2>1, <2>6, <3>3, <3>4
    <3>5. CASE v # w
      BY <1>0, <1>a, <2>2, <2>6, <3>1, <3>3, <3>5 DEF S!ClaimedByOne
    <3>. QED  BY <3>4, <3>5
  <2>9. S!CompletedWasDelivered'
    BY <1>0, <1>a, <2>1, <2>2, <2>3, <2>4, <2>5, <2>6, <2>7 DEF
       S!CompletedWasDelivered, RunsAreDue, S!TypeOK, S!SchedulesAssumption
  <2>10. S!NoOrphanedClaim'
    <3>1. SUFFICES ASSUME NEW i \in Jobs, alive' /\ faults' = 0,
                          row'[i].stored /\ row'[i].pending # 0
                   PROVE  \E u \in Workers :
                            S!Acting(u)' /\ run'[u] = <<i, row'[i].pending>>
      BY DEF S!NoOrphanedClaim
    <3>2. CASE i = j
      BY <2>1, <2>3, <2>6, <3>2
    <3>3. CASE i # j
      <4>1. PICK u \in Workers : S!Acting(u) /\ run[u] = <<i, row[i].pending>>
        BY <1>a, <2>2, <2>5, <3>1, <3>3 DEF S!NoOrphanedClaim
      <4>2. u # w
        BY <2>4, <4>1 DEF S!Acting
      <4>. QED  BY <2>2, <2>3, <2>6, <3>3, <4>1, <4>2
    <3>. QED  BY <3>2, <3>3
  <2>11. RunsAreDue'
    BY <1>0, <1>a, <2>1, <2>2, <2>3, <2>4, <2>5, <2>6, <2>7 DEF RunsAreDue,
       S!ClaimedByOne, LedgerIsTrue, S!Times, S!TypeOK, S!SchedulesAssumption
  <2>12. LedgerIsTrue'
    BY <1>0, <1>a, <2>1, <2>2, <2>3, <2>4, <2>5, <2>6, <2>7 DEF LedgerIsTrue,
       RunsAreDue, S!Times, S!ClaimedByOne, S!TypeOK, S!SchedulesAssumption
  <2>. QED  BY <2>7, <2>8, <2>9, <2>10, <2>11, <2>12 DEF JobInv
<1>2. ASSUME NEW j \in Jobs, S!DisableRemoved(j) PROVE JobInv'
  <2>b. row \in [Jobs -> S!RowType] /\ j \in Jobs /\ row[j] \in S!RowType /\ now + 1 \in S!Times /\ 0 \in S!Times
    BY <1>0, <1>a, <1>2 DEF S!TypeOK, S!Times, S!SchedulesAssumption
  <2>. DEFINE q1 == [row[j] EXCEPT !.enabled = FALSE]
  <2>q1. q1 \in S!RowType /\ q1.stored = row[j].stored /\ q1.enabled = FALSE /\
         q1.next = row[j].next /\ q1.last = row[j].last /\ q1.pending =
         row[j].pending
    BY <2>b, RowsOf DEF S!RowType
  <2>. HIDE DEF q1
  <2>. DEFINE q2 == [q1 EXCEPT !.pending = 0]
  <2>q2. q2 \in S!RowType /\ q2.stored = row[j].stored /\ q2.enabled = FALSE /\
         q2.next = row[j].next /\ q2.last = row[j].last /\ q2.pending = 0
    BY <2>b, <2>q1, RowsOf DEF S!RowType
  <2>d. row' = [row EXCEPT ![j] = q2]
    BY <1>2, <2>b DEF S!DisableRemoved, q1
  <2>. HIDE DEF q2
  <2>1. row' \in [Jobs -> S!RowType] /\ row'[j].pending = 0 /\ row'[j].next =
         row[j].next /\ row'[j].last = row[j].last /\ row'[j].stored =
         row[j].stored /\ row[j].stored /\ row[j].pending = 0
    BY <1>2, <2>b, <2>d, <2>q2 DEF S!DisableRemoved, S!IsDue
  <2>2. \A i \in Jobs : i # j => row'[i] = row[i]
    BY <1>2, <2>b, <2>d, <2>q2 DEF S!DisableRemoved, S!IsDue
  <2>3. now' = now /\ alive' = alive /\ removed' = removed /\ ledger' = ledger /\
         current' = current /\ schedulesPc' = schedulesPc /\ run' = run /\
         delivered' = delivered /\ recorded' = recorded /\ crashes' = crashes
         /\ faults' = faults
    BY <1>0, <1>a, <1>2 DEF S!DisableRemoved, S!TypeOK, S!Goes, S!Matches,
       S!daemonVars, S!ledgerVars, S!workerVars, S!SchedulesAssumption,
       S!WorkerPlaces, S!Times
  <2>4. \A v \in Workers : S!JobOf(v)' = S!JobOf(v) /\ S!DueAt(v)' = S!DueAt(v)
         /\ (S!Acting(v)' <=> S!Acting(v))
    BY <1>0, <2>1, <2>2, <2>3 DEF S!Acting, S!JobOf, S!DueAt
  <2>5. S!TypeOK'
    BY <1>0, <1>a, <2>1, <2>2, <2>3, <2>4 DEF S!TypeOK,
       S!SchedulesAssumption
  <2>6. S!ClaimedByOne'
    BY <1>0, <1>a, <2>1, <2>2, <2>3, <2>4 DEF S!ClaimedByOne
  <2>7. S!CompletedWasDelivered'
    BY <1>0, <1>a, <2>1, <2>2, <2>3, <2>4, <2>5 DEF S!CompletedWasDelivered,
       RunsAreDue, S!TypeOK, S!SchedulesAssumption
  <2>8. S!NoOrphanedClaim'
    BY <1>0, <1>a, <2>1, <2>2, <2>3, <2>4 DEF S!NoOrphanedClaim, S!ClaimedByOne
  <2>9. RunsAreDue'
    BY <1>0, <1>a, <2>1, <2>2, <2>3, <2>4, <2>5 DEF RunsAreDue, S!ClaimedByOne,
       LedgerIsTrue, S!Times, S!TypeOK, S!SchedulesAssumption
  <2>10. LedgerIsTrue'
    BY <1>0, <1>a, <2>1, <2>2, <2>3, <2>4, <2>5 DEF LedgerIsTrue, RunsAreDue,
       S!Times, S!ClaimedByOne, S!TypeOK, S!SchedulesAssumption
  <2>. QED  BY <2>5, <2>6, <2>7, <2>8, <2>9, <2>10 DEF JobInv
<1>3. ASSUME NEW j \in Jobs, S!Cancel(j) PROVE JobInv'
  <2>b. row \in [Jobs -> S!RowType] /\ j \in Jobs /\ row[j] \in S!RowType /\ now + 1 \in S!Times /\ 0 \in S!Times
    BY <1>0, <1>a, <1>3 DEF S!TypeOK, S!Times, S!SchedulesAssumption
  <2>. DEFINE q1 == [row[j] EXCEPT !.stored = FALSE]
  <2>q1. q1 \in S!RowType /\ q1.stored = FALSE /\ q1.enabled = row[j].enabled /\
         q1.next = row[j].next /\ q1.last = row[j].last /\ q1.pending =
         row[j].pending
    BY <2>b, RowsOf DEF S!RowType
  <2>d. row' = [row EXCEPT ![j] = q1]
    BY <1>3, <2>b DEF S!Cancel
  <2>. HIDE DEF q1
  <2>1. row' \in [Jobs -> S!RowType] /\ row'[j].pending = row[j].pending /\
         row'[j].next = row[j].next /\ row'[j].last = row[j].last /\
         row'[j].stored = FALSE
    BY <1>3, <2>b, <2>d, <2>q1 DEF S!Cancel, S!IsDue
  <2>2. \A i \in Jobs : i # j => row'[i] = row[i]
    BY <1>3, <2>b, <2>d, <2>q1 DEF S!Cancel, S!IsDue
  <2>3. now' = now /\ alive' = alive /\ removed' = removed /\ ledger' = ledger /\
         current' = current /\ schedulesPc' = schedulesPc /\ run' = run /\
         delivered' = delivered /\ recorded' = recorded /\ crashes' = crashes
         /\ faults' = faults
    BY <1>0, <1>a, <1>3 DEF S!Cancel, S!TypeOK, S!Goes, S!Matches, S!daemonVars,
       S!ledgerVars, S!workerVars, S!SchedulesAssumption, S!WorkerPlaces,
       S!Times
  <2>4. \A v \in Workers : S!JobOf(v)' = S!JobOf(v) /\ S!DueAt(v)' = S!DueAt(v)
         /\ (S!Acting(v)' <=> S!Acting(v))
    BY <1>0, <2>1, <2>2, <2>3 DEF S!Acting, S!JobOf, S!DueAt
  <2>5. S!TypeOK'
    BY <1>0, <1>a, <2>1, <2>2, <2>3, <2>4 DEF S!TypeOK,
       S!SchedulesAssumption
  <2>6. S!ClaimedByOne'
    BY <1>0, <1>a, <2>1, <2>2, <2>3, <2>4 DEF S!ClaimedByOne
  <2>7. S!CompletedWasDelivered'
    BY <1>0, <1>a, <2>1, <2>2, <2>3, <2>4, <2>5 DEF S!CompletedWasDelivered,
       RunsAreDue, S!TypeOK, S!SchedulesAssumption
  <2>8. S!NoOrphanedClaim'
    BY <1>0, <1>a, <2>1, <2>2, <2>3, <2>4 DEF S!NoOrphanedClaim, S!ClaimedByOne
  <2>9. RunsAreDue'
    BY <1>0, <1>a, <2>1, <2>2, <2>3, <2>4, <2>5 DEF RunsAreDue, S!ClaimedByOne,
       LedgerIsTrue, S!Times, S!TypeOK, S!SchedulesAssumption
  <2>10. LedgerIsTrue'
    BY <1>0, <1>a, <2>1, <2>2, <2>3, <2>4, <2>5 DEF LedgerIsTrue, RunsAreDue,
       S!Times, S!ClaimedByOne, S!TypeOK, S!SchedulesAssumption
  <2>. QED  BY <2>5, <2>6, <2>7, <2>8, <2>9, <2>10 DEF JobInv
<1>4. ASSUME NEW w \in Workers, S!CheckLedger(w) PROVE JobInv'
  <2>. DEFINE to == IF ledger[run[w]] = 0 THEN "handling" ELSE "completing"
  <2>t. to \in {"handling", "completing"} /\ (to = "handling" <=> ledger[run[w]] = 0)
    OBVIOUS
  <2>p. schedulesPc[w] = "handed" /\ schedulesPc' = [schedulesPc EXCEPT ![w] = to]
    BY <1>4 DEF S!CheckLedger, S!Goes
  <2>. HIDE DEF to
  <2>1. /\ schedulesPc' \in [Workers -> S!WorkerPlaces]
        /\ schedulesPc'[w] = to /\ schedulesPc[w] = "handed"
        /\ \A v \in Workers : v # w => schedulesPc'[v] = schedulesPc[v]
    BY <1>a, <2>t, <2>p DEF S!TypeOK, S!WorkerPlaces
  <2>2. now' = now /\ row' = row /\ alive' = alive /\ removed' = removed /\
         ledger' = ledger /\ current' = current /\ run' = run /\ delivered' =
         delivered /\ recorded' = recorded /\ crashes' = crashes /\ faults' =
         faults
    BY <1>0, <1>a, <1>4 DEF S!CheckLedger, S!TypeOK, S!Goes, S!Matches,
       S!daemonVars, S!ledgerVars, S!workerVars, S!SchedulesAssumption,
       S!WorkerPlaces, S!Times, S!RowType
  <2>3. \A v \in Workers : S!JobOf(v)' = S!JobOf(v) /\ S!DueAt(v)' = S!DueAt(v)
         /\ (S!Acting(v)' <=> S!Acting(v))
    BY <1>0, <2>t, <2>1, <2>2 DEF S!Acting, S!JobOf, S!DueAt
  <2>4. S!TypeOK'
    BY <1>0, <1>a, <2>1, <2>2, <2>3 DEF S!TypeOK, S!SchedulesAssumption
  <2>5. S!ClaimedByOne'
    BY <1>0, <1>a, <2>1, <2>2, <2>3 DEF S!ClaimedByOne
  <2>6. S!CompletedWasDelivered'
    BY <1>0, <1>a, <2>1, <2>2, <2>3, <2>4 DEF S!CompletedWasDelivered, RunsAreDue,
       S!TypeOK, S!SchedulesAssumption
  <2>7. S!NoOrphanedClaim'
    BY <1>0, <1>a, <2>1, <2>2, <2>3 DEF S!NoOrphanedClaim, S!ClaimedByOne
  <2>8. RunsAreDue'
    BY <1>0, <1>a, <2>t, <2>1, <2>2, <2>3, <2>4 DEF RunsAreDue, S!ClaimedByOne,
       LedgerIsTrue, S!Times, S!Acting, S!TypeOK, S!SchedulesAssumption
  <2>9. LedgerIsTrue'
    BY <1>0, <1>a, <2>1, <2>2, <2>3, <2>4 DEF LedgerIsTrue, RunsAreDue, S!Times,
       S!ClaimedByOne, S!TypeOK, S!SchedulesAssumption
  <2>. QED  BY <2>4, <2>5, <2>6, <2>7, <2>8, <2>9 DEF JobInv
<1>5. ASSUME NEW w \in Workers, S!Deliver(w) PROVE JobInv'
  <2>1. schedulesPc' \in [Workers -> S!WorkerPlaces] /\ schedulesPc'[w] =
         "delivered" /\ schedulesPc[w] = "handling" /\ \A v \in Workers : v # w
         => schedulesPc'[v] = schedulesPc[v]
    BY <1>0, <1>a, <1>5 DEF S!Deliver, S!TypeOK, S!Goes, S!Matches, S!daemonVars,
       S!ledgerVars, S!workerVars, S!SchedulesAssumption, S!WorkerPlaces,
       S!Times
  <2>2. delivered' \in [S!Runs -> Nat] /\ delivered'[run[w]] > 0 /\ \A r \in
         S!Runs : r # run[w] => delivered'[r] = delivered[r]
    BY <1>0, <1>a, <1>5 DEF S!Deliver, S!TypeOK, S!Goes, S!Matches, S!daemonVars,
       S!ledgerVars, S!workerVars, S!SchedulesAssumption, S!WorkerPlaces,
       S!Times
  <2>3. now' = now /\ row' = row /\ alive' = alive /\ removed' = removed /\
         ledger' = ledger /\ current' = current /\ run' = run /\ recorded' =
         recorded /\ crashes' = crashes /\ faults' = faults
    BY <1>0, <1>a, <1>5 DEF S!Deliver, S!TypeOK, S!Goes, S!Matches, S!daemonVars,
       S!ledgerVars, S!workerVars, S!SchedulesAssumption, S!WorkerPlaces,
       S!Times, S!RowType
  <2>4. \A v \in Workers : S!JobOf(v)' = S!JobOf(v) /\ S!DueAt(v)' = S!DueAt(v)
         /\ (S!Acting(v)' <=> S!Acting(v))
    BY <1>0, <2>1, <2>2, <2>3 DEF S!Acting, S!JobOf, S!DueAt
  <2>5. S!TypeOK'
    BY <1>0, <1>a, <2>1, <2>2, <2>3, <2>4 DEF S!TypeOK,
       S!SchedulesAssumption
  <2>6. S!ClaimedByOne'
    BY <1>0, <1>a, <2>1, <2>2, <2>3, <2>4 DEF S!ClaimedByOne
  <2>7. S!CompletedWasDelivered'
    <3>1. \A r \in S!Runs : delivered[r] > 0 => delivered'[r] > 0
      BY <2>2
    <3>2. \A j \in Jobs : <<j, row[j].last>> \in S!Runs
      BY <1>a, RowsOf DEF S!TypeOK, S!Runs
    <3>. QED  BY <1>a, <2>3, <3>1, <3>2 DEF S!CompletedWasDelivered
  <2>8. S!NoOrphanedClaim'
    BY <1>0, <1>a, <2>1, <2>2, <2>3, <2>4 DEF S!NoOrphanedClaim, S!ClaimedByOne
  <2>9. RunsAreDue'
    BY <1>0, <1>a, <2>1, <2>2, <2>3, <2>4, <2>5 DEF RunsAreDue, S!ClaimedByOne,
       LedgerIsTrue, S!Times, S!Acting, S!TypeOK, S!SchedulesAssumption
  <2>10. LedgerIsTrue'
    BY <1>0, <1>a, <2>1, <2>2, <2>3, <2>4, <2>5 DEF LedgerIsTrue, RunsAreDue,
       S!Times, S!ClaimedByOne, S!TypeOK, S!SchedulesAssumption
  <2>. QED  BY <2>5, <2>6, <2>7, <2>8, <2>9, <2>10 DEF JobInv
<1>6. ASSUME NEW w \in Workers, S!HandlerFails(w) PROVE JobInv'
  <2>1. schedulesPc' \in [Workers -> S!WorkerPlaces] /\ schedulesPc'[w] =
         "failing" /\ schedulesPc[w] \in {"handed", "handling"} /\ \A v \in
         Workers : v # w => schedulesPc'[v] = schedulesPc[v]
    BY <1>0, <1>a, <1>6 DEF S!HandlerFails, S!TypeOK, S!Goes, S!Matches,
       S!daemonVars, S!ledgerVars, S!workerVars, S!SchedulesAssumption,
       S!WorkerPlaces, S!Times
  <2>2. now' = now /\ row' = row /\ alive' = alive /\ removed' = removed /\
         ledger' = ledger /\ current' = current /\ run' = run /\ delivered' =
         delivered /\ recorded' = recorded /\ crashes' = crashes /\ faults' =
         faults
    BY <1>0, <1>a, <1>6 DEF S!HandlerFails, S!TypeOK, S!Goes, S!Matches,
       S!daemonVars, S!ledgerVars, S!workerVars, S!SchedulesAssumption,
       S!WorkerPlaces, S!Times, S!RowType
  <2>3. \A v \in Workers : S!JobOf(v)' = S!JobOf(v) /\ S!DueAt(v)' = S!DueAt(v)
         /\ (S!Acting(v)' <=> S!Acting(v))
    BY <1>0, <2>1, <2>2 DEF S!Acting, S!JobOf, S!DueAt
  <2>4. S!TypeOK'
    BY <1>0, <1>a, <2>1, <2>2, <2>3 DEF S!TypeOK, S!SchedulesAssumption
  <2>5. S!ClaimedByOne'
    BY <1>0, <1>a, <2>1, <2>2, <2>3 DEF S!ClaimedByOne
  <2>6. S!CompletedWasDelivered'
    BY <1>0, <1>a, <2>1, <2>2, <2>3, <2>4 DEF S!CompletedWasDelivered, RunsAreDue,
       S!TypeOK, S!SchedulesAssumption
  <2>7. S!NoOrphanedClaim'
    BY <1>0, <1>a, <2>1, <2>2, <2>3 DEF S!NoOrphanedClaim, S!ClaimedByOne
  <2>8. RunsAreDue'
    BY <1>0, <1>a, <2>1, <2>2, <2>3, <2>4 DEF RunsAreDue, S!ClaimedByOne,
       LedgerIsTrue, S!Times, S!TypeOK, S!SchedulesAssumption
  <2>9. LedgerIsTrue'
    BY <1>0, <1>a, <2>1, <2>2, <2>3, <2>4 DEF LedgerIsTrue, RunsAreDue, S!Times,
       S!ClaimedByOne, S!TypeOK, S!SchedulesAssumption
  <2>. QED  BY <2>4, <2>5, <2>6, <2>7, <2>8, <2>9 DEF JobInv
<1>7. ASSUME NEW w \in Workers, S!LoadLedger(w) PROVE JobInv'
  <2>. DEFINE to == IF ledger[run[w]] = 0 THEN "recording" ELSE "completing"
  <2>t. to \in {"recording", "completing"} /\ (to = "recording" <=> ledger[run[w]] = 0)
    OBVIOUS
  <2>p. schedulesPc[w] = "delivered" /\ schedulesPc' = [schedulesPc EXCEPT ![w] = to]
    BY <1>7 DEF S!LoadLedger, S!Goes
  <2>. HIDE DEF to
  <2>1. /\ schedulesPc' \in [Workers -> S!WorkerPlaces]
        /\ schedulesPc'[w] = to /\ schedulesPc[w] = "delivered"
        /\ \A v \in Workers : v # w => schedulesPc'[v] = schedulesPc[v]
    BY <1>a, <2>t, <2>p DEF S!TypeOK, S!WorkerPlaces
  <2>2. current' \subseteq Workers
    BY <1>0, <1>a, <1>7 DEF S!LoadLedger, S!TypeOK, S!Goes, S!Matches,
       S!daemonVars, S!ledgerVars, S!workerVars, S!SchedulesAssumption,
       S!WorkerPlaces, S!Times
  <2>3. now' = now /\ row' = row /\ alive' = alive /\ removed' = removed /\
         ledger' = ledger /\ run' = run /\ delivered' = delivered /\ recorded'
         = recorded /\ crashes' = crashes /\ faults' = faults
    BY <1>0, <1>a, <1>7 DEF S!LoadLedger, S!TypeOK, S!Goes, S!Matches,
       S!daemonVars, S!ledgerVars, S!workerVars, S!SchedulesAssumption,
       S!WorkerPlaces, S!Times, S!RowType
  <2>4. \A v \in Workers : S!JobOf(v)' = S!JobOf(v) /\ S!DueAt(v)' = S!DueAt(v)
         /\ (S!Acting(v)' <=> S!Acting(v))
    BY <1>0, <2>t, <2>1, <2>2, <2>3 DEF S!Acting, S!JobOf, S!DueAt
  <2>5. S!TypeOK'
    BY <1>0, <1>a, <2>1, <2>2, <2>3, <2>4 DEF S!TypeOK,
       S!SchedulesAssumption
  <2>6. S!ClaimedByOne'
    BY <1>0, <1>a, <2>1, <2>2, <2>3, <2>4 DEF S!ClaimedByOne
  <2>7. S!CompletedWasDelivered'
    BY <1>0, <1>a, <2>1, <2>2, <2>3, <2>4, <2>5 DEF S!CompletedWasDelivered,
       RunsAreDue, S!TypeOK, S!SchedulesAssumption
  <2>8. S!NoOrphanedClaim'
    BY <1>0, <1>a, <2>1, <2>2, <2>3, <2>4 DEF S!NoOrphanedClaim, S!ClaimedByOne
  <2>9. RunsAreDue'
    BY <1>0, <1>a, <2>t, <2>1, <2>2, <2>3, <2>4, <2>5 DEF RunsAreDue, S!ClaimedByOne,
       LedgerIsTrue, S!Times, S!Acting, S!TypeOK, S!SchedulesAssumption
  <2>10. LedgerIsTrue'
    BY <1>0, <1>a, <2>1, <2>2, <2>3, <2>4, <2>5 DEF LedgerIsTrue, RunsAreDue,
       S!Times, S!ClaimedByOne, S!TypeOK, S!SchedulesAssumption
  <2>. QED  BY <2>5, <2>6, <2>7, <2>8, <2>9, <2>10 DEF JobInv
<1>8. ASSUME NEW w \in Workers, S!RecordEvent(w) PROVE JobInv'
  <2>1. schedulesPc' \in [Workers -> S!WorkerPlaces] /\ schedulesPc'[w] =
         "completing" /\ schedulesPc[w] = "recording" /\ \A v \in Workers : v #
         w => schedulesPc'[v] = schedulesPc[v]
    BY <1>0, <1>a, <1>8 DEF S!RecordEvent, S!TypeOK, S!Goes, S!Matches,
       S!daemonVars, S!ledgerVars, S!workerVars, S!SchedulesAssumption,
       S!WorkerPlaces, S!Times
  <2>2. current' \subseteq Workers
    BY <1>0, <1>a, <1>8 DEF S!RecordEvent, S!TypeOK, S!Goes, S!Matches,
       S!daemonVars, S!ledgerVars, S!workerVars, S!SchedulesAssumption,
       S!WorkerPlaces, S!Times
  <2>3. ledger' \in [S!Runs -> S!Times] /\ ledger'[run[w]] = now
    BY <1>0, <1>a, <1>8 DEF S!RecordEvent, S!TypeOK, S!Goes, S!Matches,
       S!daemonVars, S!ledgerVars, S!workerVars, S!SchedulesAssumption,
       S!WorkerPlaces, S!Times
  <2>4. \A r \in S!Runs : r # run[w] => ledger'[r] = IF ledger[r] < now -
         Retention THEN 0 ELSE ledger[r]
    BY <1>0, <1>a, <1>8 DEF S!RecordEvent, S!TypeOK, S!Goes, S!Matches,
       S!daemonVars, S!ledgerVars, S!workerVars, S!SchedulesAssumption,
       S!WorkerPlaces, S!Times
  <2>5. recorded' \in [S!Runs -> S!Times] /\ recorded'[run[w]] = now /\ \A r \in
         S!Runs : r # run[w] => recorded'[r] = recorded[r]
    BY <1>0, <1>a, <1>8 DEF S!RecordEvent, S!TypeOK, S!Goes, S!Matches,
       S!daemonVars, S!ledgerVars, S!workerVars, S!SchedulesAssumption,
       S!WorkerPlaces, S!Times
  <2>6. now' = now /\ row' = row /\ alive' = alive /\ removed' = removed /\ run'
         = run /\ delivered' = delivered /\ crashes' = crashes /\ faults' =
         faults
    BY <1>0, <1>a, <1>8 DEF S!RecordEvent, S!TypeOK, S!Goes, S!Matches,
       S!daemonVars, S!ledgerVars, S!workerVars, S!SchedulesAssumption,
       S!WorkerPlaces, S!Times, S!RowType
  <2>7. \A v \in Workers : S!JobOf(v)' = S!JobOf(v) /\ S!DueAt(v)' = S!DueAt(v)
         /\ (S!Acting(v)' <=> S!Acting(v))
    BY <1>0, <2>1, <2>2, <2>3, <2>4, <2>5, <2>6 DEF S!Acting, S!JobOf, S!DueAt
  <2>8. S!TypeOK'
    BY <1>0, <1>a, <2>1, <2>2, <2>3, <2>4, <2>5, <2>6, <2>7 DEF S!TypeOK,
       S!SchedulesAssumption
  <2>9. S!ClaimedByOne'
    BY <1>0, <1>a, <2>1, <2>2, <2>3, <2>4, <2>5, <2>6, <2>7 DEF S!ClaimedByOne
  <2>10. S!CompletedWasDelivered'
    BY <1>0, <1>a, <2>1, <2>2, <2>3, <2>4, <2>5, <2>6, <2>7, <2>8 DEF
       S!CompletedWasDelivered, RunsAreDue, S!TypeOK, S!SchedulesAssumption
  <2>11. S!NoOrphanedClaim'
    BY <1>0, <1>a, <2>1, <2>2, <2>3, <2>4, <2>5, <2>6, <2>7 DEF S!NoOrphanedClaim,
       S!ClaimedByOne
  <2>12. RunsAreDue'
    BY <1>0, <1>a, <2>1, <2>2, <2>3, <2>4, <2>5, <2>6, <2>7, <2>8 DEF RunsAreDue,
       S!ClaimedByOne, LedgerIsTrue, S!Times, S!Acting, S!TypeOK,
       S!SchedulesAssumption
  <2>13. LedgerIsTrue'
    BY <1>0, <1>a, <2>1, <2>2, <2>3, <2>4, <2>5, <2>6, <2>7, <2>8 DEF LedgerIsTrue,
       RunsAreDue, S!Times, S!ClaimedByOne, S!TypeOK, S!SchedulesAssumption
  <2>. QED  BY <2>8, <2>9, <2>10, <2>11, <2>12, <2>13 DEF JobInv
<1>9. ASSUME NEW w \in Workers, S!RecordConflicts(w) PROVE JobInv'
  <2>1. schedulesPc' \in [Workers -> S!WorkerPlaces] /\ schedulesPc'[w] =
         "failing" /\ schedulesPc[w] = "recording" /\ \A v \in Workers : v # w
         => schedulesPc'[v] = schedulesPc[v]
    BY <1>0, <1>a, <1>9 DEF S!RecordConflicts, S!TypeOK, S!Goes, S!Matches,
       S!daemonVars, S!ledgerVars, S!workerVars, S!SchedulesAssumption,
       S!WorkerPlaces, S!Times
  <2>2. now' = now /\ row' = row /\ alive' = alive /\ removed' = removed /\
         ledger' = ledger /\ current' = current /\ run' = run /\ delivered' =
         delivered /\ recorded' = recorded /\ crashes' = crashes /\ faults' =
         faults
    BY <1>0, <1>a, <1>9 DEF S!RecordConflicts, S!TypeOK, S!Goes, S!Matches,
       S!daemonVars, S!ledgerVars, S!workerVars, S!SchedulesAssumption,
       S!WorkerPlaces, S!Times, S!RowType
  <2>3. \A v \in Workers : S!JobOf(v)' = S!JobOf(v) /\ S!DueAt(v)' = S!DueAt(v)
         /\ (S!Acting(v)' <=> S!Acting(v))
    BY <1>0, <2>1, <2>2 DEF S!Acting, S!JobOf, S!DueAt
  <2>4. S!TypeOK'
    BY <1>0, <1>a, <2>1, <2>2, <2>3 DEF S!TypeOK, S!SchedulesAssumption
  <2>5. S!ClaimedByOne'
    BY <1>0, <1>a, <2>1, <2>2, <2>3 DEF S!ClaimedByOne
  <2>6. S!CompletedWasDelivered'
    BY <1>0, <1>a, <2>1, <2>2, <2>3, <2>4 DEF S!CompletedWasDelivered, RunsAreDue,
       S!TypeOK, S!SchedulesAssumption
  <2>7. S!NoOrphanedClaim'
    BY <1>0, <1>a, <2>1, <2>2, <2>3 DEF S!NoOrphanedClaim, S!ClaimedByOne
  <2>8. RunsAreDue'
    BY <1>0, <1>a, <2>1, <2>2, <2>3, <2>4 DEF RunsAreDue, S!ClaimedByOne,
       LedgerIsTrue, S!Times, S!TypeOK, S!SchedulesAssumption
  <2>9. LedgerIsTrue'
    BY <1>0, <1>a, <2>1, <2>2, <2>3, <2>4 DEF LedgerIsTrue, RunsAreDue, S!Times,
       S!ClaimedByOne, S!TypeOK, S!SchedulesAssumption
  <2>. QED  BY <2>4, <2>5, <2>6, <2>7, <2>8, <2>9 DEF JobInv
<1>10. ASSUME NEW w \in Workers, S!CompleteRecurring(w) PROVE JobInv'
  <2>b. row \in [Jobs -> S!RowType] /\ S!JobOf(w) \in Jobs /\ row[S!JobOf(w)] \in S!RowType /\ now + 1 \in S!Times /\ 0 \in S!Times /\ S!DueAt(w) \in S!Times
    BY <1>0, <1>a, <1>10 DEF S!TypeOK, S!Times, S!SchedulesAssumption
  <2>. DEFINE q1 == [row[S!JobOf(w)] EXCEPT !.last = S!DueAt(w)]
  <2>q1. q1 \in S!RowType /\ q1.stored = row[S!JobOf(w)].stored /\ q1.enabled =
         row[S!JobOf(w)].enabled /\ q1.next = row[S!JobOf(w)].next /\ q1.last =
         S!DueAt(w) /\ q1.pending = row[S!JobOf(w)].pending
    BY <2>b, RowsOf DEF S!RowType
  <2>. HIDE DEF q1
  <2>. DEFINE q2 == [q1 EXCEPT !.pending = 0]
  <2>q2. q2 \in S!RowType /\ q2.stored = row[S!JobOf(w)].stored /\ q2.enabled =
         row[S!JobOf(w)].enabled /\ q2.next = row[S!JobOf(w)].next /\ q2.last =
         S!DueAt(w) /\ q2.pending = 0
    BY <2>b, <2>q1, RowsOf DEF S!RowType
  <2>. HIDE DEF q2
  <2>. DEFINE q3 == [q2 EXCEPT !.next = now + 1]
  <2>q3. q3 \in S!RowType /\ q3.stored = row[S!JobOf(w)].stored /\ q3.enabled =
         row[S!JobOf(w)].enabled /\ q3.next = now + 1 /\ q3.last = S!DueAt(w)
         /\ q3.pending = 0
    BY <2>b, <2>q2, RowsOf DEF S!RowType
  <2>d. row' = [row EXCEPT ![S!JobOf(w)] = q3]
    BY <1>10, <2>b DEF S!CompleteRecurring, q1, q2
  <2>. HIDE DEF q3
  <2>1. schedulesPc' \in [Workers -> S!WorkerPlaces] /\ schedulesPc'[w] = "idle"
         /\ schedulesPc[w] = "completing" /\ \A v \in Workers : v # w =>
         schedulesPc'[v] = schedulesPc[v]
    BY <1>0, <1>a, <1>10 DEF S!CompleteRecurring, S!TypeOK, S!Goes, S!Matches,
       S!daemonVars, S!ledgerVars, S!workerVars, S!SchedulesAssumption,
       S!WorkerPlaces, S!Times
  <2>2. row' \in [Jobs -> S!RowType] /\ row'[S!JobOf(w)].pending = 0 /\
         row'[S!JobOf(w)].next = now + 1 /\ row'[S!JobOf(w)].last = S!DueAt(w)
         /\ row'[S!JobOf(w)].stored = row[S!JobOf(w)].stored
    BY <1>10, <2>b, <2>d, <2>q3 DEF S!CompleteRecurring, S!IsDue
  <2>3. \A i \in Jobs : i # S!JobOf(w) => row'[i] = row[i]
    BY <1>10, <2>b, <2>d, <2>q3 DEF S!CompleteRecurring, S!IsDue
  <2>4. now' = now /\ alive' = alive /\ removed' = removed /\ ledger' = ledger /\
         current' = current /\ run' = run /\ delivered' = delivered /\
         recorded' = recorded /\ crashes' = crashes /\ faults' = faults
    BY <1>0, <1>a, <1>10 DEF S!CompleteRecurring, S!TypeOK, S!Goes, S!Matches,
       S!daemonVars, S!ledgerVars, S!workerVars, S!SchedulesAssumption,
       S!WorkerPlaces, S!Times
  <2>5. \A v \in Workers : S!JobOf(v)' = S!JobOf(v) /\ S!DueAt(v)' = S!DueAt(v)
         /\ (S!Acting(v)' <=> S!Acting(v) /\ v # w) /\ S!Acting(w)
    BY <1>0, <2>1, <2>2, <2>3, <2>4 DEF S!Acting, S!JobOf, S!DueAt
  <2>6. S!TypeOK'
    BY <1>0, <1>a, <2>1, <2>2, <2>3, <2>4, <2>5 DEF S!TypeOK,
       S!SchedulesAssumption
  <2>7. S!ClaimedByOne'
    BY <1>0, <1>a, <2>1, <2>2, <2>3, <2>4, <2>5 DEF S!ClaimedByOne
  <2>8. S!CompletedWasDelivered'
    BY <1>0, <1>a, <2>1, <2>2, <2>3, <2>4, <2>5, <2>6 DEF S!CompletedWasDelivered,
       RunsAreDue, S!TypeOK, S!SchedulesAssumption
  <2>9. S!NoOrphanedClaim'
    BY <1>0, <1>a, <2>1, <2>2, <2>3, <2>4, <2>5 DEF S!NoOrphanedClaim,
       S!ClaimedByOne
  <2>10. RunsAreDue'
    BY <1>0, <1>a, <2>1, <2>2, <2>3, <2>4, <2>5, <2>6 DEF RunsAreDue,
       S!ClaimedByOne, LedgerIsTrue, S!Times, S!TypeOK, S!SchedulesAssumption
  <2>11. LedgerIsTrue'
    BY <1>0, <1>a, <2>1, <2>2, <2>3, <2>4, <2>5, <2>6 DEF LedgerIsTrue, RunsAreDue,
       S!Times, S!ClaimedByOne, S!TypeOK, S!SchedulesAssumption
  <2>. QED  BY <2>6, <2>7, <2>8, <2>9, <2>10, <2>11 DEF JobInv
<1>11. ASSUME NEW w \in Workers, S!CompleteOnce(w) PROVE JobInv'
  <2>b. row \in [Jobs -> S!RowType] /\ S!JobOf(w) \in Jobs /\ row[S!JobOf(w)] \in S!RowType /\ now + 1 \in S!Times /\ 0 \in S!Times /\ S!DueAt(w) \in S!Times
    BY <1>0, <1>a, <1>11 DEF S!TypeOK, S!Times, S!SchedulesAssumption
  <2>. DEFINE q1 == [row[S!JobOf(w)] EXCEPT !.last = S!DueAt(w)]
  <2>q1. q1 \in S!RowType /\ q1.stored = row[S!JobOf(w)].stored /\ q1.enabled =
         row[S!JobOf(w)].enabled /\ q1.next = row[S!JobOf(w)].next /\ q1.last =
         S!DueAt(w) /\ q1.pending = row[S!JobOf(w)].pending
    BY <2>b, RowsOf DEF S!RowType
  <2>. HIDE DEF q1
  <2>. DEFINE q2 == [q1 EXCEPT !.pending = 0]
  <2>q2. q2 \in S!RowType /\ q2.stored = row[S!JobOf(w)].stored /\ q2.enabled =
         row[S!JobOf(w)].enabled /\ q2.next = row[S!JobOf(w)].next /\ q2.last =
         S!DueAt(w) /\ q2.pending = 0
    BY <2>b, <2>q1, RowsOf DEF S!RowType
  <2>. HIDE DEF q2
  <2>. DEFINE q3 == [q2 EXCEPT !.enabled = FALSE]
  <2>q3. q3 \in S!RowType /\ q3.stored = row[S!JobOf(w)].stored /\ q3.enabled =
         FALSE /\ q3.next = row[S!JobOf(w)].next /\ q3.last = S!DueAt(w) /\
         q3.pending = 0
    BY <2>b, <2>q2, RowsOf DEF S!RowType
  <2>d. row' = [row EXCEPT ![S!JobOf(w)] = q3]
    BY <1>11, <2>b DEF S!CompleteOnce, q1, q2
  <2>. HIDE DEF q3
  <2>1. schedulesPc' \in [Workers -> S!WorkerPlaces] /\ schedulesPc'[w] =
         "deleting" /\ schedulesPc[w] = "completing" /\ \A v \in Workers : v #
         w => schedulesPc'[v] = schedulesPc[v]
    BY <1>0, <1>a, <1>11 DEF S!CompleteOnce, S!TypeOK, S!Goes, S!Matches,
       S!daemonVars, S!ledgerVars, S!workerVars, S!SchedulesAssumption,
       S!WorkerPlaces, S!Times
  <2>2. row' \in [Jobs -> S!RowType] /\ row'[S!JobOf(w)].pending = 0 /\
         row'[S!JobOf(w)].next = row[S!JobOf(w)].next /\ row'[S!JobOf(w)].last
         = S!DueAt(w) /\ row'[S!JobOf(w)].stored = row[S!JobOf(w)].stored
    BY <1>11, <2>b, <2>d, <2>q3 DEF S!CompleteOnce, S!IsDue
  <2>3. \A i \in Jobs : i # S!JobOf(w) => row'[i] = row[i]
    BY <1>11, <2>b, <2>d, <2>q3 DEF S!CompleteOnce, S!IsDue
  <2>4. now' = now /\ alive' = alive /\ removed' = removed /\ ledger' = ledger /\
         current' = current /\ run' = run /\ delivered' = delivered /\
         recorded' = recorded /\ crashes' = crashes /\ faults' = faults
    BY <1>0, <1>a, <1>11 DEF S!CompleteOnce, S!TypeOK, S!Goes, S!Matches,
       S!daemonVars, S!ledgerVars, S!workerVars, S!SchedulesAssumption,
       S!WorkerPlaces, S!Times
  <2>5. \A v \in Workers : S!JobOf(v)' = S!JobOf(v) /\ S!DueAt(v)' = S!DueAt(v)
         /\ (S!Acting(v)' <=> S!Acting(v) /\ v # w) /\ S!Acting(w)
    BY <1>0, <2>1, <2>2, <2>3, <2>4 DEF S!Acting, S!JobOf, S!DueAt
  <2>6. S!TypeOK'
    BY <1>0, <1>a, <2>1, <2>2, <2>3, <2>4, <2>5 DEF S!TypeOK,
       S!SchedulesAssumption
  <2>7. S!ClaimedByOne'
    BY <1>0, <1>a, <2>1, <2>2, <2>3, <2>4, <2>5 DEF S!ClaimedByOne
  <2>8. S!CompletedWasDelivered'
    BY <1>0, <1>a, <2>1, <2>2, <2>3, <2>4, <2>5, <2>6 DEF S!CompletedWasDelivered,
       RunsAreDue, S!TypeOK, S!SchedulesAssumption
  <2>9. S!NoOrphanedClaim'
    BY <1>0, <1>a, <2>1, <2>2, <2>3, <2>4, <2>5 DEF S!NoOrphanedClaim,
       S!ClaimedByOne
  <2>10. RunsAreDue'
    BY <1>0, <1>a, <2>1, <2>2, <2>3, <2>4, <2>5, <2>6 DEF RunsAreDue,
       S!ClaimedByOne, LedgerIsTrue, S!Times, S!TypeOK, S!SchedulesAssumption
  <2>11. LedgerIsTrue'
    BY <1>0, <1>a, <2>1, <2>2, <2>3, <2>4, <2>5, <2>6 DEF LedgerIsTrue, RunsAreDue,
       S!Times, S!ClaimedByOne, S!TypeOK, S!SchedulesAssumption
  <2>. QED  BY <2>6, <2>7, <2>8, <2>9, <2>10, <2>11 DEF JobInv
<1>12. ASSUME NEW w \in Workers, S!RemoveFinished(w) PROVE JobInv'
  <2>b. row \in [Jobs -> S!RowType] /\ S!JobOf(w) \in Jobs /\ row[S!JobOf(w)] \in S!RowType /\ now + 1 \in S!Times /\ 0 \in S!Times /\ S!DueAt(w) \in S!Times
    BY <1>0, <1>a, <1>12 DEF S!TypeOK, S!Times, S!SchedulesAssumption
  <2>. DEFINE q1 == [row[S!JobOf(w)] EXCEPT !.stored = FALSE]
  <2>q1. q1 \in S!RowType /\ q1.stored = FALSE /\ q1.enabled =
         row[S!JobOf(w)].enabled /\ q1.next = row[S!JobOf(w)].next /\ q1.last =
         row[S!JobOf(w)].last /\ q1.pending = row[S!JobOf(w)].pending
    BY <2>b, RowsOf DEF S!RowType
  <2>d. row' = [row EXCEPT ![S!JobOf(w)] = q1]
    BY <1>12, <2>b DEF S!RemoveFinished
  <2>. HIDE DEF q1
  <2>1. schedulesPc' \in [Workers -> S!WorkerPlaces] /\ schedulesPc'[w] = "idle"
         /\ schedulesPc[w] = "deleting" /\ \A v \in Workers : v # w =>
         schedulesPc'[v] = schedulesPc[v]
    BY <1>0, <1>a, <1>12 DEF S!RemoveFinished, S!TypeOK, S!Goes, S!Matches,
       S!daemonVars, S!ledgerVars, S!workerVars, S!SchedulesAssumption,
       S!WorkerPlaces, S!Times
  <2>2. row' \in [Jobs -> S!RowType] /\ row'[S!JobOf(w)].pending =
         row[S!JobOf(w)].pending /\ row'[S!JobOf(w)].next =
         row[S!JobOf(w)].next /\ row'[S!JobOf(w)].last = row[S!JobOf(w)].last
         /\ row'[S!JobOf(w)].stored = FALSE
    BY <1>12, <2>b, <2>d, <2>q1 DEF S!RemoveFinished, S!IsDue
  <2>3. \A i \in Jobs : i # S!JobOf(w) => row'[i] = row[i]
    BY <1>12, <2>b, <2>d, <2>q1 DEF S!RemoveFinished, S!IsDue
  <2>4. now' = now /\ alive' = alive /\ removed' = removed /\ ledger' = ledger /\
         current' = current /\ run' = run /\ delivered' = delivered /\
         recorded' = recorded /\ crashes' = crashes /\ faults' = faults
    BY <1>0, <1>a, <1>12 DEF S!RemoveFinished, S!TypeOK, S!Goes, S!Matches,
       S!daemonVars, S!ledgerVars, S!workerVars, S!SchedulesAssumption,
       S!WorkerPlaces, S!Times
  <2>5. \A v \in Workers : S!JobOf(v)' = S!JobOf(v) /\ S!DueAt(v)' = S!DueAt(v)
         /\ (S!Acting(v)' <=> S!Acting(v) /\ v # w)
    BY <1>0, <2>1, <2>2, <2>3, <2>4 DEF S!Acting, S!JobOf, S!DueAt
  <2>6. S!TypeOK'
    BY <1>0, <1>a, <2>1, <2>2, <2>3, <2>4, <2>5 DEF S!TypeOK,
       S!SchedulesAssumption
  <2>7. S!ClaimedByOne'
    BY <1>0, <1>a, <2>1, <2>2, <2>3, <2>4, <2>5 DEF S!ClaimedByOne
  <2>8. S!CompletedWasDelivered'
    BY <1>0, <1>a, <2>1, <2>2, <2>3, <2>4, <2>5, <2>6 DEF S!CompletedWasDelivered,
       RunsAreDue, S!TypeOK, S!SchedulesAssumption
  <2>9. S!NoOrphanedClaim'
    BY <1>0, <1>a, <2>1, <2>2, <2>3, <2>4, <2>5 DEF S!NoOrphanedClaim,
       S!ClaimedByOne
  <2>10. RunsAreDue'
    BY <1>0, <1>a, <2>1, <2>2, <2>3, <2>4, <2>5, <2>6 DEF RunsAreDue,
       S!ClaimedByOne, LedgerIsTrue, S!Times, S!TypeOK, S!SchedulesAssumption
  <2>11. LedgerIsTrue'
    BY <1>0, <1>a, <2>1, <2>2, <2>3, <2>4, <2>5, <2>6 DEF LedgerIsTrue, RunsAreDue,
       S!Times, S!ClaimedByOne, S!TypeOK, S!SchedulesAssumption
  <2>. QED  BY <2>6, <2>7, <2>8, <2>9, <2>10, <2>11 DEF JobInv
<1>13. ASSUME NEW w \in Workers, S!Fail(w) PROVE JobInv'
  <2>b. row \in [Jobs -> S!RowType] /\ S!JobOf(w) \in Jobs /\ row[S!JobOf(w)] \in S!RowType /\ now + 1 \in S!Times /\ 0 \in S!Times /\ S!DueAt(w) \in S!Times
    BY <1>0, <1>a, <1>13 DEF S!TypeOK, S!Times, S!SchedulesAssumption
  <2>. DEFINE q1 == [row[S!JobOf(w)] EXCEPT !.pending = 0]
  <2>q1. q1 \in S!RowType /\ q1.stored = row[S!JobOf(w)].stored /\ q1.enabled =
         row[S!JobOf(w)].enabled /\ q1.next = row[S!JobOf(w)].next /\ q1.last =
         row[S!JobOf(w)].last /\ q1.pending = 0
    BY <2>b, RowsOf DEF S!RowType
  <2>d. row' = [row EXCEPT ![S!JobOf(w)] = q1]
    BY <1>13, <2>b DEF S!Fail
  <2>. HIDE DEF q1
  <2>1. schedulesPc' \in [Workers -> S!WorkerPlaces] /\ schedulesPc'[w] = "idle"
         /\ schedulesPc[w] = "failing" /\ \A v \in Workers : v # w =>
         schedulesPc'[v] = schedulesPc[v]
    BY <1>0, <1>a, <1>13 DEF S!Fail, S!TypeOK, S!Goes, S!Matches, S!daemonVars,
       S!ledgerVars, S!workerVars, S!SchedulesAssumption, S!WorkerPlaces,
       S!Times
  <2>2. row' \in [Jobs -> S!RowType] /\ row'[S!JobOf(w)].pending = 0 /\
         row'[S!JobOf(w)].next = row[S!JobOf(w)].next /\ row'[S!JobOf(w)].last
         = row[S!JobOf(w)].last /\ row'[S!JobOf(w)].stored =
         row[S!JobOf(w)].stored
    BY <1>13, <2>b, <2>d, <2>q1 DEF S!Fail, S!IsDue
  <2>3. \A i \in Jobs : i # S!JobOf(w) => row'[i] = row[i]
    BY <1>13, <2>b, <2>d, <2>q1 DEF S!Fail, S!IsDue
  <2>4. now' = now /\ alive' = alive /\ removed' = removed /\ ledger' = ledger /\
         current' = current /\ run' = run /\ delivered' = delivered /\
         recorded' = recorded /\ crashes' = crashes /\ faults' = faults
    BY <1>0, <1>a, <1>13 DEF S!Fail, S!TypeOK, S!Goes, S!Matches, S!daemonVars,
       S!ledgerVars, S!workerVars, S!SchedulesAssumption, S!WorkerPlaces,
       S!Times
  <2>5. \A v \in Workers : S!JobOf(v)' = S!JobOf(v) /\ S!DueAt(v)' = S!DueAt(v)
         /\ (S!Acting(v)' <=> S!Acting(v) /\ v # w) /\ S!Acting(w)
    BY <1>0, <2>1, <2>2, <2>3, <2>4 DEF S!Acting, S!JobOf, S!DueAt
  <2>6. S!TypeOK'
    BY <1>0, <1>a, <2>1, <2>2, <2>3, <2>4, <2>5 DEF S!TypeOK,
       S!SchedulesAssumption
  <2>7. S!ClaimedByOne'
    BY <1>0, <1>a, <2>1, <2>2, <2>3, <2>4, <2>5 DEF S!ClaimedByOne
  <2>8. S!CompletedWasDelivered'
    BY <1>0, <1>a, <2>1, <2>2, <2>3, <2>4, <2>5, <2>6 DEF S!CompletedWasDelivered,
       RunsAreDue, S!TypeOK, S!SchedulesAssumption
  <2>9. S!NoOrphanedClaim'
    BY <1>0, <1>a, <2>1, <2>2, <2>3, <2>4, <2>5 DEF S!NoOrphanedClaim,
       S!ClaimedByOne
  <2>10. RunsAreDue'
    BY <1>0, <1>a, <2>1, <2>2, <2>3, <2>4, <2>5, <2>6 DEF RunsAreDue,
       S!ClaimedByOne, LedgerIsTrue, S!Times, S!TypeOK, S!SchedulesAssumption
  <2>11. LedgerIsTrue'
    BY <1>0, <1>a, <2>1, <2>2, <2>3, <2>4, <2>5, <2>6 DEF LedgerIsTrue, RunsAreDue,
       S!Times, S!ClaimedByOne, S!TypeOK, S!SchedulesAssumption
  <2>. QED  BY <2>6, <2>7, <2>8, <2>9, <2>10, <2>11 DEF JobInv
<1>14. ASSUME NEW w \in Workers, S!AcknowledgeMismatch(w) PROVE JobInv'
  <2>1. schedulesPc' \in [Workers -> S!WorkerPlaces] /\ schedulesPc'[w] = "idle"
         /\ schedulesPc[w] \in {"completing", "failing"} /\ \A v \in Workers :
         v # w => schedulesPc'[v] = schedulesPc[v]
    BY <1>0, <1>a, <1>14 DEF S!AcknowledgeMismatch, S!TypeOK, S!Goes, S!Matches,
       S!daemonVars, S!ledgerVars, S!workerVars, S!SchedulesAssumption,
       S!WorkerPlaces, S!Times
  <2>2. ~(row[S!JobOf(w)].stored /\ row[S!JobOf(w)].pending = S!DueAt(w))
    BY <1>0, <1>a, <1>14 DEF S!AcknowledgeMismatch, S!TypeOK, S!Goes, S!Matches,
       S!daemonVars, S!ledgerVars, S!workerVars, S!SchedulesAssumption,
       S!WorkerPlaces, S!Times
  <2>3. now' = now /\ row' = row /\ alive' = alive /\ removed' = removed /\
         ledger' = ledger /\ current' = current /\ run' = run /\ delivered' =
         delivered /\ recorded' = recorded /\ crashes' = crashes /\ faults' =
         faults
    BY <1>0, <1>a, <1>14 DEF S!AcknowledgeMismatch, S!TypeOK, S!Goes, S!Matches,
       S!daemonVars, S!ledgerVars, S!workerVars, S!SchedulesAssumption,
       S!WorkerPlaces, S!Times, S!RowType
  <2>4. \A v \in Workers : S!JobOf(v)' = S!JobOf(v) /\ S!DueAt(v)' = S!DueAt(v)
         /\ (S!Acting(v)' <=> S!Acting(v) /\ v # w) /\ S!Acting(w)
    BY <1>0, <2>1, <2>2, <2>3 DEF S!Acting, S!JobOf, S!DueAt
  <2>5. S!TypeOK'
    BY <1>0, <1>a, <2>1, <2>2, <2>3, <2>4 DEF S!TypeOK,
       S!SchedulesAssumption
  <2>6. S!ClaimedByOne'
    BY <1>0, <1>a, <2>1, <2>2, <2>3, <2>4 DEF S!ClaimedByOne
  <2>7. S!CompletedWasDelivered'
    BY <1>0, <1>a, <2>1, <2>2, <2>3, <2>4, <2>5 DEF S!CompletedWasDelivered,
       RunsAreDue, S!TypeOK, S!SchedulesAssumption
  <2>8. S!NoOrphanedClaim'
    BY <1>0, <1>a, <2>1, <2>2, <2>3, <2>4 DEF S!NoOrphanedClaim, S!ClaimedByOne
  <2>9. RunsAreDue'
    BY <1>0, <1>a, <2>1, <2>2, <2>3, <2>4, <2>5 DEF RunsAreDue, S!ClaimedByOne,
       LedgerIsTrue, S!Times, S!TypeOK, S!SchedulesAssumption
  <2>10. LedgerIsTrue'
    BY <1>0, <1>a, <2>1, <2>2, <2>3, <2>4, <2>5 DEF LedgerIsTrue, RunsAreDue,
       S!Times, S!ClaimedByOne, S!TypeOK, S!SchedulesAssumption
  <2>. QED  BY <2>5, <2>6, <2>7, <2>8, <2>9, <2>10 DEF JobInv
<1>15. ASSUME NEW w \in Workers, S!AcknowledgeFails(w) PROVE JobInv'
  <2>1. schedulesPc' \in [Workers -> S!WorkerPlaces] /\ schedulesPc'[w] = "idle"
         /\ schedulesPc[w] \in {"completing", "failing", "deleting"} /\ \A v
         \in Workers : v # w => schedulesPc'[v] = schedulesPc[v]
    BY <1>0, <1>a, <1>15 DEF S!AcknowledgeFails, S!TypeOK, S!Goes, S!Matches,
       S!daemonVars, S!ledgerVars, S!workerVars, S!SchedulesAssumption,
       S!WorkerPlaces, S!Times
  <2>2. faults' \in 0 .. MaxFaults /\ faults' # 0
    BY <1>0, <1>a, <1>15 DEF S!AcknowledgeFails, S!TypeOK, S!Goes, S!Matches,
       S!daemonVars, S!ledgerVars, S!workerVars, S!SchedulesAssumption,
       S!WorkerPlaces, S!Times
  <2>3. now' = now /\ row' = row /\ alive' = alive /\ removed' = removed /\
         ledger' = ledger /\ current' = current /\ run' = run /\ delivered' =
         delivered /\ recorded' = recorded /\ crashes' = crashes
    BY <1>0, <1>a, <1>15 DEF S!AcknowledgeFails, S!TypeOK, S!Goes, S!Matches,
       S!daemonVars, S!ledgerVars, S!workerVars, S!SchedulesAssumption,
       S!WorkerPlaces, S!Times, S!RowType
  <2>4. \A v \in Workers : S!JobOf(v)' = S!JobOf(v) /\ S!DueAt(v)' = S!DueAt(v)
         /\ (S!Acting(v)' <=> S!Acting(v) /\ v # w)
    BY <1>0, <2>1, <2>2, <2>3 DEF S!Acting, S!JobOf, S!DueAt
  <2>5. S!TypeOK'
    BY <1>0, <1>a, <2>1, <2>2, <2>3, <2>4 DEF S!TypeOK,
       S!SchedulesAssumption
  <2>6. S!ClaimedByOne'
    BY <1>0, <1>a, <2>1, <2>2, <2>3, <2>4 DEF S!ClaimedByOne
  <2>7. S!CompletedWasDelivered'
    BY <1>0, <1>a, <2>1, <2>2, <2>3, <2>4, <2>5 DEF S!CompletedWasDelivered,
       RunsAreDue, S!TypeOK, S!SchedulesAssumption
  <2>8. S!NoOrphanedClaim'
    BY <1>0, <1>a, <2>1, <2>2, <2>3, <2>4 DEF S!NoOrphanedClaim, S!ClaimedByOne
  <2>9. RunsAreDue'
    BY <1>0, <1>a, <2>1, <2>2, <2>3, <2>4, <2>5 DEF RunsAreDue, S!ClaimedByOne,
       LedgerIsTrue, S!Times, S!TypeOK, S!SchedulesAssumption
  <2>10. LedgerIsTrue'
    BY <1>0, <1>a, <2>1, <2>2, <2>3, <2>4, <2>5 DEF LedgerIsTrue, RunsAreDue,
       S!Times, S!ClaimedByOne, S!TypeOK, S!SchedulesAssumption
  <2>. QED  BY <2>5, <2>6, <2>7, <2>8, <2>9, <2>10 DEF JobInv
<1>16. CASE S!OtherWrite
  <2>1. current' = {}
    BY <1>0, <1>a, <1>16 DEF S!OtherWrite, S!TypeOK, S!Goes, S!Matches,
       S!daemonVars, S!ledgerVars, S!workerVars, S!SchedulesAssumption,
       S!WorkerPlaces, S!Times
  <2>2. now' = now /\ row' = row /\ alive' = alive /\ removed' = removed /\
         ledger' = ledger /\ schedulesPc' = schedulesPc /\ run' = run /\
         delivered' = delivered /\ recorded' = recorded /\ crashes' = crashes
         /\ faults' = faults
    BY <1>0, <1>a, <1>16 DEF S!OtherWrite, S!TypeOK, S!Goes, S!Matches,
       S!daemonVars, S!ledgerVars, S!workerVars, S!SchedulesAssumption,
       S!WorkerPlaces, S!Times, S!RowType
  <2>3. \A v \in Workers : S!JobOf(v)' = S!JobOf(v) /\ S!DueAt(v)' = S!DueAt(v)
         /\ (S!Acting(v)' <=> S!Acting(v))
    BY <1>0, <2>1, <2>2 DEF S!Acting, S!JobOf, S!DueAt
  <2>4. S!TypeOK'
    BY <1>0, <1>a, <2>1, <2>2, <2>3 DEF S!TypeOK, S!SchedulesAssumption
  <2>5. S!ClaimedByOne'
    BY <1>0, <1>a, <2>1, <2>2, <2>3 DEF S!ClaimedByOne
  <2>6. S!CompletedWasDelivered'
    BY <1>0, <1>a, <2>1, <2>2, <2>3, <2>4 DEF S!CompletedWasDelivered, RunsAreDue,
       S!TypeOK, S!SchedulesAssumption
  <2>7. S!NoOrphanedClaim'
    BY <1>0, <1>a, <2>1, <2>2, <2>3 DEF S!NoOrphanedClaim, S!ClaimedByOne
  <2>8. RunsAreDue'
    BY <1>0, <1>a, <2>1, <2>2, <2>3, <2>4 DEF RunsAreDue, S!ClaimedByOne,
       LedgerIsTrue, S!Times, S!TypeOK, S!SchedulesAssumption
  <2>9. LedgerIsTrue'
    BY <1>0, <1>a, <2>1, <2>2, <2>3, <2>4 DEF LedgerIsTrue, RunsAreDue, S!Times,
       S!ClaimedByOne, S!TypeOK, S!SchedulesAssumption
  <2>. QED  BY <2>4, <2>5, <2>6, <2>7, <2>8, <2>9 DEF JobInv
<1>17. CASE S!Tick
  <2>1. now' \in 0 .. MaxTime /\ now' = now + 1
    BY <1>0, <1>a, <1>17 DEF S!Tick, S!TypeOK, S!Goes, S!Matches, S!daemonVars,
       S!ledgerVars, S!workerVars, S!SchedulesAssumption, S!WorkerPlaces,
       S!Times
  <2>2. row' = row /\ alive' = alive /\ removed' = removed /\ ledger' = ledger /\
         current' = current /\ schedulesPc' = schedulesPc /\ run' = run /\
         delivered' = delivered /\ recorded' = recorded /\ crashes' = crashes
         /\ faults' = faults
    BY <1>0, <1>a, <1>17 DEF S!Tick, S!TypeOK, S!Goes, S!Matches, S!daemonVars,
       S!ledgerVars, S!workerVars, S!SchedulesAssumption, S!WorkerPlaces,
       S!Times, S!RowType
  <2>3. \A v \in Workers : S!JobOf(v)' = S!JobOf(v) /\ S!DueAt(v)' = S!DueAt(v)
         /\ (S!Acting(v)' <=> S!Acting(v))
    BY <1>0, <2>1, <2>2 DEF S!Acting, S!JobOf, S!DueAt
  <2>4. S!TypeOK'
    BY <1>0, <1>a, <2>1, <2>2, <2>3 DEF S!TypeOK, S!SchedulesAssumption,
       S!Times, S!WorkerPlaces
  <2>5. S!ClaimedByOne'
    BY <1>0, <1>a, <2>1, <2>2, <2>3 DEF S!ClaimedByOne
  <2>6. S!CompletedWasDelivered'
    BY <1>0, <1>a, <2>1, <2>2, <2>3, <2>4 DEF S!CompletedWasDelivered, RunsAreDue,
       S!TypeOK, S!SchedulesAssumption
  <2>7. S!NoOrphanedClaim'
    BY <1>0, <1>a, <2>1, <2>2, <2>3 DEF S!NoOrphanedClaim, S!ClaimedByOne
  <2>8. RunsAreDue'
    BY <1>0, <1>a, <2>1, <2>2, <2>3, <2>4 DEF RunsAreDue, S!ClaimedByOne,
       LedgerIsTrue, S!Times, S!TypeOK, S!SchedulesAssumption
  <2>9. LedgerIsTrue'
    BY <1>0, <1>a, <2>1, <2>2, <2>3, <2>4 DEF LedgerIsTrue, RunsAreDue, S!Times,
       S!ClaimedByOne, S!TypeOK, S!SchedulesAssumption
  <2>. QED  BY <2>4, <2>5, <2>6, <2>7, <2>8, <2>9 DEF JobInv
<1>18. CASE S!Crash
  <2>1. alive' = FALSE /\ crashes' \in 0 .. MaxCrashes /\ current' = {} /\
         schedulesPc' \in [Workers -> S!WorkerPlaces] /\ \A w \in Workers :
         schedulesPc'[w] = "idle"
    BY <1>0, <1>a, <1>18 DEF S!Crash, S!TypeOK, S!Goes, S!Matches, S!daemonVars,
       S!ledgerVars, S!workerVars, S!SchedulesAssumption, S!WorkerPlaces,
       S!Times
  <2>2. now' = now /\ row' = row /\ removed' = removed /\ ledger' = ledger /\
         run' = run /\ delivered' = delivered /\ recorded' = recorded /\
         faults' = faults
    BY <1>0, <1>a, <1>18 DEF S!Crash, S!TypeOK, S!Goes, S!Matches, S!daemonVars,
       S!ledgerVars, S!workerVars, S!SchedulesAssumption, S!WorkerPlaces,
       S!Times, S!RowType
  <2>3. \A v \in Workers : S!JobOf(v)' = S!JobOf(v) /\ S!DueAt(v)' = S!DueAt(v)
         /\ ~S!Acting(v)'
    BY <1>0, <2>1, <2>2 DEF S!Acting, S!JobOf, S!DueAt
  <2>4. S!TypeOK'
    BY <1>0, <1>a, <2>1, <2>2, <2>3 DEF S!TypeOK, S!SchedulesAssumption,
       S!Times, S!WorkerPlaces
  <2>5. S!ClaimedByOne'
    BY <1>0, <1>a, <2>1, <2>2, <2>3 DEF S!ClaimedByOne
  <2>6. S!CompletedWasDelivered'
    BY <1>0, <1>a, <2>1, <2>2, <2>3, <2>4 DEF S!CompletedWasDelivered, RunsAreDue,
       S!TypeOK, S!SchedulesAssumption
  <2>7. S!NoOrphanedClaim'
    BY <1>0, <1>a, <2>1, <2>2, <2>3 DEF S!NoOrphanedClaim, S!ClaimedByOne
  <2>8. RunsAreDue'
    BY <1>0, <1>a, <2>1, <2>2, <2>3, <2>4 DEF RunsAreDue, S!ClaimedByOne,
       LedgerIsTrue, S!Times, S!TypeOK, S!SchedulesAssumption
  <2>9. LedgerIsTrue'
    BY <1>0, <1>a, <2>1, <2>2, <2>3, <2>4 DEF LedgerIsTrue, RunsAreDue, S!Times,
       S!ClaimedByOne, S!TypeOK, S!SchedulesAssumption
  <2>. QED  BY <2>4, <2>5, <2>6, <2>7, <2>8, <2>9 DEF JobInv
<1>19. CASE S!Restart
  <2>1. ~alive /\ alive' = TRUE /\ removed' \subseteq Jobs
    BY <1>0, <1>a, <1>19 DEF S!Restart, S!TypeOK, S!Goes, S!Matches, S!daemonVars,
       S!ledgerVars, S!workerVars, S!SchedulesAssumption, S!WorkerPlaces,
       S!Times
  <2>r. row' = [i \in Jobs |-> IF S!FinishedOnce(i)
                               THEN [row[i] EXCEPT !.stored = FALSE]
                               ELSE [row[i] EXCEPT !.pending = 0]]
    BY <1>19 DEF S!Restart
  <2>2. row' \in [Jobs -> S!RowType]
    <3>1. \A i \in Jobs : /\ row[i] \in S!RowType
                          /\ [row[i] EXCEPT !.stored = FALSE] \in S!RowType
                          /\ [row[i] EXCEPT !.pending = 0] \in S!RowType
      <4>1. row \in [Jobs -> S!RowType] /\ 0 \in S!Times
        BY <1>a DEF S!TypeOK, S!Times, S!SchedulesAssumption
      <4>. QED  BY <4>1, RowsOf, Zenon
    <3>. QED  BY <2>r, <3>1
  <2>3. \A j \in Jobs : row'[j].next = row[j].next /\ row'[j].last = row[j].last
         /\ (row'[j].pending = 0 \/ row'[j].stored = FALSE)
    BY <1>0, <1>a, <1>19 DEF S!Restart, S!TypeOK, S!Goes, S!Matches, S!daemonVars,
       S!ledgerVars, S!workerVars, S!SchedulesAssumption, S!WorkerPlaces,
       S!Times, S!RowType
  <2>4. now' = now /\ ledger' = ledger /\ current' = current /\ schedulesPc' =
         schedulesPc /\ run' = run /\ delivered' = delivered /\ recorded' =
         recorded /\ crashes' = crashes /\ faults' = faults
    BY <1>0, <1>a, <1>19 DEF S!Restart, S!TypeOK, S!Goes, S!Matches, S!daemonVars,
       S!ledgerVars, S!workerVars, S!SchedulesAssumption, S!WorkerPlaces,
       S!Times
  <2>5. \A v \in Workers : S!JobOf(v)' = S!JobOf(v) /\ S!DueAt(v)' = S!DueAt(v)
         /\ (S!Acting(v)' <=> S!Acting(v))
    BY <1>0, <2>1, <2>2, <2>3, <2>4 DEF S!Acting, S!JobOf, S!DueAt
  <2>6. S!TypeOK'
    BY <1>0, <1>a, <2>1, <2>2, <2>3, <2>4, <2>5 DEF S!TypeOK,
       S!SchedulesAssumption
  <2>7. S!ClaimedByOne'
    BY <1>0, <1>a, <2>1, <2>2, <2>3, <2>4, <2>5 DEF S!ClaimedByOne, RunsAreDue,
       S!Acting
  <2>8. S!CompletedWasDelivered'
    BY <1>0, <1>a, <2>1, <2>2, <2>3, <2>4, <2>5, <2>6 DEF S!CompletedWasDelivered,
       RunsAreDue, S!TypeOK, S!SchedulesAssumption
  <2>9. S!NoOrphanedClaim'
    BY <1>0, <1>a, <2>1, <2>2, <2>3, <2>4, <2>5 DEF S!NoOrphanedClaim,
       S!ClaimedByOne
  <2>10. RunsAreDue'
    BY <1>0, <1>a, <2>1, <2>2, <2>3, <2>4, <2>5, <2>6 DEF RunsAreDue,
       S!ClaimedByOne, LedgerIsTrue, S!Times, S!TypeOK, S!SchedulesAssumption
  <2>11. LedgerIsTrue'
    BY <1>0, <1>a, <2>1, <2>2, <2>3, <2>4, <2>5, <2>6 DEF LedgerIsTrue, RunsAreDue,
       S!Times, S!ClaimedByOne, S!TypeOK, S!SchedulesAssumption
  <2>. QED  BY <2>6, <2>7, <2>8, <2>9, <2>10, <2>11 DEF JobInv
<1>. QED
  BY <1>1, <1>2, <1>3, <1>4, <1>5, <1>6, <1>7, <1>8, <1>9, <1>10, <1>11, <1>12,
     <1>13, <1>14, <1>15, <1>16, <1>17, <1>18, <1>19 DEF S!Next, S!WorkerStep

(* So does a step that leaves them alone.                                  *)
LEMMA JobsStays == ASSUME JobInv, UNCHANGED schedulesVars PROVE JobInv'
<1>1. /\ now' = now /\ row' = row /\ alive' = alive /\ removed' = removed
      /\ ledger' = ledger /\ current' = current /\ schedulesPc' = schedulesPc
      /\ run' = run /\ delivered' = delivered /\ recorded' = recorded
      /\ crashes' = crashes /\ faults' = faults
  BY DEF schedulesVars
<1>2. /\ S!TypeOK /\ S!ClaimedByOne /\ S!CompletedWasDelivered
      /\ S!NoOrphanedClaim /\ RunsAreDue /\ LedgerIsTrue
  BY DEF JobInv
<1>3. S!TypeOK'
  BY <1>1, <1>2 DEF S!TypeOK
<1>4. S!ClaimedByOne' /\ S!CompletedWasDelivered' /\ S!NoOrphanedClaim'
  BY <1>1, <1>2 DEF S!ClaimedByOne, S!CompletedWasDelivered, S!NoOrphanedClaim,
     S!Acting, S!JobOf, S!DueAt
<1>5. RunsAreDue' /\ LedgerIsTrue'
  BY <1>1, <1>2 DEF RunsAreDue, LedgerIsTrue, S!Acting, S!DueAt
<1>. QED  BY <1>3, <1>4, <1>5 DEF JobInv

(* A worker only handles a run that the ledger does not hold, so one that  *)
(* is recorded there is older than the retention.                          *)
LEMMA JobsNotAgain ==
  ASSUME S!SchedulesAssumption, JobInv, S!Next,
         NEW r \in S!Runs, delivered'[r] > delivered[r]
  PROVE  recorded[r] = 0 \/ now > recorded[r] + Retention
<1>1. delivered \in [S!Runs -> Nat] /\ \A w \in Workers : run[w] \in S!Runs
  BY DEF JobInv, S!TypeOK
<1>2. ~ UNCHANGED delivered
  BY <1>1
<1>3. PICK w \in Workers : S!Deliver(w)
  BY <1>2 DEF S!Next, S!WorkerStep, S!Claim, S!DisableRemoved, S!Cancel,
     S!CheckLedger, S!HandlerFails, S!LoadLedger, S!RecordEvent,
     S!RecordConflicts, S!CompleteRecurring, S!CompleteOnce,
     S!RemoveFinished, S!Fail, S!AcknowledgeMismatch, S!AcknowledgeFails,
     S!OtherWrite, S!Tick, S!Crash, S!Restart
<1>4. r = run[w] /\ schedulesPc[w] = "handling"
  BY <1>1, <1>3 DEF S!Deliver, S!Goes
<1>. QED  BY <1>4 DEF JobInv, RunsAreDue, LedgerIsTrue

-----------------------------------------------------------------------------
(* The daemon                                                              *)

(* The heartbeat is at one place: the timer, a beat that runs, or the      *)
(* wake.                                                                   *)
OneBeat ==
    \/ clock # None /\ "beat" \notin working /\ wake = FALSE
    \/ clock = None /\ "beat" \in working /\ wake = FALSE
    \/ clock = None /\ "beat" \notin working /\ wake = TRUE

(* How far Run has unwound: what is deferred, what is still open for it,   *)
(* and what may still run and be armed.                                    *)
Unwound ==
    \/ /\ deferred = <<"clock", "gateway", "runner", "workers", "mcp", "database">>
       /\ {"database", "mcp"} \subseteq held
    \/ /\ deferred = <<"gateway", "runner", "workers", "mcp", "database">>
       /\ {"database", "mcp"} \subseteq held /\ clock = None
    \/ /\ deferred \in {<<"runner", "workers", "mcp", "database">>,
                        <<"workers", "mcp", "database">>}
       /\ {"database", "mcp"} \subseteq held /\ clock = None
    \/ /\ deferred \in {<<"mcp", "database">>, <<"database">>, <<>>}
       /\ working = {} /\ clock = None

DaemonInv ==
    /\ queue \in Seq(Events) /\ working \subseteq Events \cup {"beat", "runner"}
    /\ clock \in {None, "armed", "fired"}
    /\ stage \in {"starting", "setup", "safe", "opening", "running", "ending",
                  "closing", "exited"}
    /\ wake \in BOOLEAN
    /\ stage \in {"starting", "setup", "safe", "closing"} =>
          deferred = <<>> /\ working = {} /\ clock = None
    /\ stage = "opening" =>
          /\ deferred = <<"runner", "workers", "mcp", "database">>
          /\ {"database", "mcp"} \subseteq held
          /\ clock = None /\ "beat" \notin working /\ wake = FALSE
    /\ stage = "running" =>
          /\ deferred = <<"clock", "gateway", "runner", "workers", "mcp", "database">>
          /\ {"database", "mcp"} \subseteq held /\ OneBeat
    /\ stage = "ending" => Unwound

(* The process starts with nothing deferred, running or armed.             *)
LEMMA DaemonInit == ASSUME N!Init PROVE DaemonInv
<1>1. wake \in BOOLEAN /\ clock \in {None, "armed", "fired"}
  BY Zenon DEF N!Init
<1>2. queue \in Seq(Events)
  BY DEF N!Init
<1>. QED  BY <1>1, <1>2 DEF N!Init, DaemonInv

(* What the loop defers goes before what Run has deferred.                 *)
LEMMA GatewayFirst ==
  <<"clock", "gateway">> \o <<"runner", "workers", "mcp", "database">>
    = <<"clock", "gateway", "runner", "workers", "mcp", "database">>
<1>. DEFINE a == <<"clock", "gateway">>
            b == <<"runner", "workers", "mcp", "database">>
            c == <<"clock", "gateway", "runner", "workers", "mcp", "database">>
            names == {"clock", "gateway", "runner", "workers", "mcp", "database"}
<1>1. /\ a \in Seq(names) /\ b \in Seq(names) /\ c \in Seq(names)
      /\ Len(a) = 2 /\ Len(b) = 4 /\ Len(c) = 6
  OBVIOUS
<1>2. /\ a[1] = c[1] /\ a[2] = c[2] /\ b[1] = c[3] /\ b[2] = c[4]
      /\ b[3] = c[5] /\ b[4] = c[6]
  OBVIOUS
<1>. HIDE DEF a, b, c, names
<1>3. /\ a \o b \in Seq(names) /\ Len(a \o b) = 6
      /\ \A i \in 1 .. 6 : (a \o b)[i] = IF i <= 2 THEN a[i] ELSE b[i - 2]
  <2>1. /\ a \o b \in Seq(names) /\ Len(a \o b) = Len(a) + Len(b)
        /\ \A i \in 1 .. Len(a) + Len(b) :
              (a \o b)[i] = IF i <= Len(a) THEN a[i] ELSE b[i - Len(a)]
    BY <1>1, ConcatProperties, Zenon
  <2>2. Len(a) + Len(b) = 6
    BY <1>1
  <2>. QED  BY <1>1, <2>1, <2>2
<1>4. \A i \in 1 .. 6 : (a \o b)[i] = c[i]
  BY <1>2, <1>3, SMTT(30)
<1>5. a \o b = c
  BY <1>1, <1>3, <1>4, SeqEqual
<1>. QED  BY <1>5 DEF a, b, c

(* Every step of the daemon keeps the order in which Run unwinds.          *)
LEMMA DaemonKept ==
  ASSUME DaemonInv, N!Next
  PROVE  DaemonInv'
<1>a. Events \cap {"beat", "runner"} = {} /\ None \notin {"armed", "fired"}
  BY DaemonAssumption
<1>. USE <1>a DEF DaemonInv, OneBeat
<1>1. CASE N!Build
  <2>1. wake' \in BOOLEAN
    BY <1>1, Zenon DEF N!Build
  <2>2. queue' \in Seq(Events)
    BY <1>1 DEF N!Build
  <2>. QED  BY <1>1, <2>1, <2>2 DEF N!Build, N!Defers
<1>2. CASE N!NeedsSetup
  BY <1>2 DEF N!NeedsSetup
<1>3. CASE N!InitializeConfig
  BY <1>3 DEF N!InitializeConfig
<1>4. CASE N!Fails
  BY <1>4 DEF N!Fails
<1>5. CASE N!ExchangeToken
  BY <1>5 DEF N!ExchangeToken
<1>6. CASE N!SetupExpires
  BY <1>6 DEF N!SetupExpires
<1>7. CASE N!CompleteSetup
  BY <1>7 DEF N!CompleteSetup
<1>8. CASE N!Repair
  BY <1>8 DEF N!Repair
<1>9. CASE N!Edit
  BY <1>9 DEF N!Edit, N!Listening, Unwound
<1>10. CASE N!Open
  <2>1. deferred' = <<"clock", "gateway">> \o deferred
    BY <1>10 DEF N!Open
  <2>a. deferred = <<"runner", "workers", "mcp", "database">>
    BY <1>10 DEF N!Open
  <2>b. <<"clock", "gateway">> \o <<"runner", "workers", "mcp", "database">>
          = <<"clock", "gateway", "runner", "workers", "mcp", "database">>
    BY GatewayFirst
  <2>2. deferred' = <<"clock", "gateway", "runner", "workers", "mcp", "database">>
    BY <2>1, <2>a, <2>b
  <2>. QED  BY <1>10, <2>2 DEF N!Open
<1>11. CASE N!OpenFails
  BY <1>11 DEF N!OpenFails
<1>12. CASE N!TakeEvent
  BY <1>12 DEF N!TakeEvent
<1>13. CASE N!Restart
  BY <1>13 DEF N!Restart, N!Listening, Unwound
<1>14. CASE N!LoopEnds
  BY <1>14 DEF N!LoopEnds, Unwound
<1>15. CASE N!Unwind
  <2>1. deferred # <<>> /\ deferred' = Tail(deferred) /\ stage' = stage
    BY <1>15 DEF N!Unwind
  <2>2. CASE deferred = <<"clock", "gateway", "runner", "workers", "mcp", "database">>
    BY <1>15, <2>2 DEF N!Unwind, Unwound
  <2>3. CASE deferred = <<"gateway", "runner", "workers", "mcp", "database">>
    BY <1>15, <2>3 DEF N!Unwind, Unwound
  <2>4. CASE deferred = <<"runner", "workers", "mcp", "database">>
    BY <1>15, <2>4 DEF N!Unwind, Unwound
  <2>5. CASE deferred = <<"workers", "mcp", "database">>
    BY <1>15, <2>5 DEF N!Unwind, Unwound
  <2>6. CASE deferred = <<"mcp", "database">>
    BY <1>15, <2>6 DEF N!Unwind, Unwound
  <2>7. CASE deferred = <<"database">>
    BY <1>15, <2>7 DEF N!Unwind, Unwound
  <2>. QED  BY <1>15, <2>1, <2>2, <2>3, <2>4, <2>5, <2>6, <2>7 DEF N!Unwind, Unwound
<1>16. CASE N!Returns
  BY <1>16 DEF N!Returns, Unwound
<1>17. CASE N!Shutdown
  BY <1>17 DEF N!Shutdown
<1>18. CASE N!ShutdownTimesOut
  BY <1>18 DEF N!ShutdownTimesOut
<1>19. CASE N!Signal
  BY <1>19 DEF N!Signal
<1>20. CASE N!OpenStream
  BY <1>20 DEF N!OpenStream, N!Listening, Unwound
<1>21. CASE N!StreamEnds
  BY <1>21 DEF N!StreamEnds, Unwound
<1>22. CASE N!ClockFires
  BY <1>22 DEF N!ClockFires, Unwound
<1>23. CASE N!HeartbeatTick
  BY <1>23 DEF N!HeartbeatTick, N!AfterTick
<1>24. CASE N!FinishHeartbeat
  BY <1>24 DEF N!FinishHeartbeat, Unwound
<1>25. CASE N!Paced
  BY <1>25 DEF N!Paced
<1>26. ASSUME NEW e \in Events, N!Enqueue(e) PROVE DaemonInv'
  BY <1>26 DEF N!Enqueue, N!Listening, Unwound
<1>27. ASSUME NEW e \in Events, N!HandleEvent(e) PROVE DaemonInv'
  BY <1>27 DEF N!HandleEvent, Unwound
<1>. HIDE <1>a DEF DaemonInv, OneBeat
<1>28. ASSUME NEW e \in Events, N!Enqueue(e) \/ N!HandleEvent(e) PROVE DaemonInv'
  BY <1>26, <1>27, <1>28
<1>. QED
  BY <1>1, <1>2, <1>3, <1>4, <1>5, <1>6, <1>7, <1>8, <1>9, <1>10, <1>11, <1>12,
     <1>13, <1>14, <1>15, <1>16, <1>17, <1>18, <1>19, <1>20, <1>21, <1>22,
     <1>23, <1>24, <1>25, <1>28, Zenon DEF N!Next

(* So does a step of another component.                                    *)
LEMMA DaemonStays == ASSUME DaemonInv, UNCHANGED daemonVars PROVE DaemonInv'
<1>1. /\ stage' = stage /\ deferred' = deferred /\ held' = held
      /\ queue' = queue /\ working' = working /\ clock' = clock /\ wake' = wake
  BY DEF daemonVars
<1>. QED  BY <1>1 DEF DaemonInv, OneBeat, Unwound

(* The heartbeat at one place is one of three, and what runs is there      *)
(* before the stores are closed.                                           *)
LEMMA DaemonIsSafe ==
  ASSUME DaemonInv PROVE N!ClockIsKept /\ N!StoresOutliveTurns
<1>1. ASSUME stage = "running" PROVE N!ClockIsKept
  <2>. DEFINE places == {p \in {"clock", "beat", "wake"} :
                           \/ p = "clock" /\ clock # None
                           \/ p = "beat" /\ "beat" \in working
                           \/ p = "wake" /\ wake}
  <2>1. places = {"clock"} \/ places = {"beat"} \/ places = {"wake"}
    BY <1>1 DEF DaemonInv, OneBeat
  <2>2. Cardinality(places) = 1
    <3>. HIDE DEF places
    <3>. QED  BY <2>1, FS_Singleton
  <2>3. N!Cardinality(places) = Cardinality(places)
    BY DEF N!Cardinality, Cardinality
  <2>. QED  BY <2>2, <2>3 DEF N!ClockIsKept
<1>2. N!StoresOutliveTurns
  BY DEF N!StoresOutliveTurns, DaemonInv, Unwound
<1>. QED  BY <1>1, <1>2 DEF N!ClockIsKept

-----------------------------------------------------------------------------
(* Streams of the web chat, and settings                                   *)

(* The fields of a stream.                                                 *)
Fields == {"pc", "thread", "registered", "open", "buffer"}

(* A stream that the hub still has is open, so whoever takes it out is     *)
(* the first to close it.                                                  *)
ChatInv ==
    /\ panicked = FALSE
    /\ DOMAIN chatStream = Tabs
    /\ \A t \in Tabs :
          /\ DOMAIN chatStream[t] = Fields
          /\ chatStream[t].registered \in BOOLEAN
          /\ chatStream[t].open \in BOOLEAN
          /\ chatStream[t].registered => chatStream[t].open

(* Nor does the request of a turn that holds an image, from where the      *)
(* model was asked about it, go to a model that is known not to read it.   *)
SettingsInv ==
    /\ DOMAIN call = {"at", "alias", "effort", "image", "tries"}
    /\ call.at \in {"checked", "ready", "calling", "waiting"} /\ call.image /\ cached
          => call.alias \in Readers

(* No stream is open where the hub starts.                                 *)
LEMMA ChatInit == ASSUME C!Init PROVE ChatInv
  BY DEF C!Init, ChatInv, C!NoStream, Fields

(* The end of a stream's handler takes the stream out, if the hub still    *)
(* has it.                                                                 *)
LEMMA ChatUnregister ==
  ASSUME ChatInv, NEW t \in Tabs, C!Unregister(t)
  PROVE  ChatInv'
  BY DEF ChatInv, C!Unregister, C!StillRegistered, C!NoStream, Fields

(* A broadcast fills buffers, and opens or closes nothing.                 *)
LEMMA ChatBroadcast ==
  ASSUME ChatInv, panicked' = panicked, NEW kind, NEW text, C!Broadcast(kind, text)
  PROVE  ChatInv'
  BY DEF ChatInv, C!Broadcast, C!Offered, Fields

(* Every step of the web chat closes only what is open.                    *)
LEMMA ChatKept ==
  ASSUME ChatInv, C!Next
  PROVE  ChatInv'
<1>1. CASE C!CloseAccount
  BY <1>1 DEF C!CloseAccount, C!Gone, ChatInv, Fields
<1>2. ASSUME UNCHANGED <<chatStream, panicked>> PROVE ChatInv'
  BY <1>2 DEF ChatInv
<1>3. ASSUME NEW t \in Tabs,
             C!Keepalive(t) \/ C!Leaves(t) \/ C!SeesClosed(t) \/ C!Switch(t)
      PROVE  ChatInv'
  BY <1>3, ChatUnregister DEF C!Keepalive, C!Leaves, C!SeesClosed, C!Switch
<1>4. ASSUME NEW t \in Tabs, C!Connect(t) PROVE ChatInv'
  BY <1>4 DEF C!Connect, ChatInv, Fields
<1>5. ASSUME NEW t \in Tabs, C!Flush(t) PROVE ChatInv'
  BY <1>5 DEF C!Flush, ChatInv, Fields
<1>6. ASSUME NEW t \in Tabs, C!Register(t) PROVE ChatInv'
  BY <1>6 DEF C!Register, ChatInv, Fields
<1>7. ASSUME NEW t \in Tabs, C!Take(t) PROVE ChatInv'
  BY <1>7 DEF C!Take, ChatInv, Fields
<1>8. CASE C!Command \/ C!StartTyping \/ C!SendTyping \/ C!Deliver
  BY <1>8, ChatBroadcast DEF C!Command, C!StartTyping, C!SendTyping, C!Deliver
<1>9. CASE C!Revoke
  BY <1>2, <1>9 DEF C!Revoke
<1>10. ASSUME NEW t \in Tabs, C!HandleSend(t) PROVE ChatInv'
  BY <1>2, <1>10 DEF C!HandleSend
<1>11. CASE C!HistoryHandler \/ C!LoadHistory
  BY <1>2, <1>11 DEF C!HistoryHandler, C!LoadHistory
<1>12. CASE C!Record \/ C!EndTurn
  BY <1>2, <1>12 DEF C!Record, C!EndTurn
<1>. QED
  BY <1>1, <1>3, <1>4, <1>5, <1>6, <1>7, <1>8, <1>9, <1>10, <1>11, <1>12
     DEF C!Next

(* So does a step of another component.                                    *)
LEMMA ChatStays == ASSUME ChatInv, UNCHANGED chatVars PROVE ChatInv'
  BY DEF ChatInv, chatVars

(* No request is under way where the settings start.                       *)
LEMMA SettingsInit == ASSUME G!Init PROVE SettingsInv
  BY DEF G!Init, SettingsInv, G!Idle

(* Every step of the settings and of the turn sends images to readers.     *)
LEMMA SettingsKept ==
  ASSUME SettingsInv, G!Next
  PROVE  SettingsInv'
<1>1. CASE UNCHANGED <<call, cached>>
  BY <1>1 DEF SettingsInv
<1>2. CASE G!Restart \/ G!EndTurn
  BY <1>2 DEF SettingsInv, G!Restart, G!EndTurn, G!Idle
<1>3. CASE G!BeginTurn
  BY <1>3 DEF SettingsInv, G!BeginTurn, G!Idle
<1>4. CASE G!ListModels
  BY <1>4 DEF SettingsInv, G!ListModels
<1>5. CASE G!SupportsPart
  BY <1>5 DEF SettingsInv, G!SupportsPart, G!Refuses
<1>6. CASE G!ReadEffort
  BY <1>6 DEF SettingsInv, G!ReadEffort
<1>7. CASE G!BuildRequest
  BY <1>7 DEF SettingsInv, G!BuildRequest
<1>8. CASE G!Answer \/ G!Refused \/ G!Stop
  BY <1>8 DEF SettingsInv, G!Answer, G!Refused, G!Stop
<1>9. CASE G!Fails
  BY <1>9 DEF SettingsInv, G!Fails
<1>10. CASE G!TryAgain
  BY <1>10 DEF SettingsInv, G!TryAgain
<1>11. CASE G!PickModel \/ G!WriteEffort \/ G!ResetEffort
  BY <1>1, <1>11 DEF G!PickModel, G!WriteEffort, G!ResetEffort, G!turning
<1>12. ASSUME NEW e \in Levels, G!CheckEffort(e) PROVE SettingsInv'
  BY <1>1, <1>12 DEF G!CheckEffort, G!turning
<1>13. ASSUME NEW x \in Adders, NEW a \in Aliases, G!CheckAdd(x, a) PROVE SettingsInv'
  BY <1>1, <1>13 DEF G!CheckAdd, G!turning
<1>14. ASSUME NEW x \in Adders, G!CatalogFails(x) \/ G!SetModelAlias(x)
       PROVE  SettingsInv'
  BY <1>1, <1>14 DEF G!CatalogFails, G!SetModelAlias, G!turning
<1>15. ASSUME NEW a \in Aliases, G!RemoveModelAlias(a) PROVE SettingsInv'
  BY <1>1, <1>15 DEF G!RemoveModelAlias, G!turning
<1>. QED
  BY <1>2, <1>3, <1>4, <1>5, <1>6, <1>7, <1>8, <1>9, <1>10, <1>11, <1>12,
     <1>13, <1>14, <1>15
     DEF G!Next, G!TurnSteps

(* So does a step of another component.                                    *)
LEMMA SettingsStays == ASSUME SettingsInv, UNCHANGED settingsVars PROVE SettingsInv'
  BY DEF SettingsInv, settingsVars

-----------------------------------------------------------------------------
(* Requests                                                                *)

Message == [role : {"assistant", "tool", "user"}, size : Nat, calls : Nat, n : Nat]

WindowTypes ==
    /\ at \in {"boundary", "fit", "batch", "check", "asked"} \cup W!Ended
    /\ summary \in Seq({"work", "owner"}) /\ Len(summary) <= SummaryLimit
    /\ steering \in Seq(Message) /\ tail \in Seq(Message)
    /\ windowSteps \in Nat /\ steers \in Nat

(* In t every call has its results right behind it, and there is no other  *)
(* result.                                                                 *)
Answered(t) ==
    \A i \in 1..Len(t) :
        /\ t[i].role = "assistant" =>
             /\ i + t[i].calls <= Len(t)
             /\ \A j \in (i + 1)..(i + t[i].calls) : t[j].role = "tool"
        /\ t[i].role = "tool" =>
             \E j \in 1..(i - 1) : t[j].role = "assistant" /\ i <= j + t[j].calls

(* What the owner said has its numbers, in their order: first s, which is  *)
(* nothing else, then what t has of it, up to the number m.                *)
InOrder(s, t, m) ==
    /\ \A i \in 1..Len(s) : s[i].role = "user" /\ s[i].n \in 1..m
    /\ \A i, j \in 1..Len(s) : i < j => s[i].n < s[j].n
    /\ \A i \in 1..Len(t) : t[i].role = "user" => t[i].n \in 1..m
    /\ \A i, j \in 1..Len(t) :
          i < j /\ t[i].role = "user" /\ t[j].role = "user" => t[i].n < t[j].n
    /\ \A i \in 1..Len(s), j \in 1..Len(t) : t[j].role = "user" => s[i].n < t[j].n
    /\ m > 0 => \/ \E i \in 1..Len(s) : s[i].n = m
                \/ \E i \in 1..Len(t) : t[i].role = "user" /\ t[i].n = m

WindowInv ==
    /\ WindowTypes
    /\ Answered(tail)
    /\ InOrder(steering, tail, steers)
    /\ windowSteps > 0 => \E i \in 1..Len(tail) : tail[i].role = "assistant"
    /\ at = "asked" => ~W!OverRequest

(* The sizes of the messages, added up.                                    *)
LEMMA CharsIs ==
  ASSUME NEW s, s \in Seq(Message)
  PROVE  \E q, k : /\ q = [i \in 1..Len(s) |-> s[i].size]
                   /\ \A i \in 1..Len(s) : q[i] = s[i].size /\ q[i] \in Nat
                   /\ SumsTo(k, q, 1..Len(s))
                   /\ \A u \in SUBSET (1..Len(s)) : k[u] \in Nat
                   /\ W!Chars(s) = k[1..Len(s)]
<1>. DEFINE q == [i \in 1..Len(s) |-> s[i].size]
            U == 1..Len(s)
<1>1. Len(s) \in Nat /\ DOMAIN s = U /\ \A i \in U : s[i] \in Message
  BY LenProperties, ElementOfSeq
<1>2. IsFiniteSet(U)
  BY <1>1, FS_Interval
<1>3. \A i \in U : q[i] = s[i].size /\ q[i] \in Nat
  BY <1>1 DEF Message
<1>4. PICK k \in [SUBSET U -> Nat] : SumsTo(k, q, U)
  <2>. HIDE DEF q, U
  <2>. QED  BY <1>2, <1>3, SumExists
<1>5. \A i \in U, x \in Nat : x + s[i].size = s[i].size + x
  BY <1>1 DEF Message
<1>6. \A u \in SUBSET U : u # {} =>
         \E x \in u : /\ x = CHOOSE y \in u : TRUE
                      /\ u \ {x} \in SUBSET U
                      /\ k[u] = k[u \ {x}] + s[x].size
  <2> SUFFICES ASSUME NEW u \in SUBSET U, u # {}, NEW x, x = CHOOSE y \in u : TRUE
               PROVE  x \in u /\ u \ {x} \in SUBSET U /\ k[u] = k[u \ {x}] + s[x].size
    OBVIOUS
  <2>1. x \in u
    OBVIOUS
  <2>2. u \ {x} \in SUBSET U /\ x \in U
    OBVIOUS
  <2>3. k[u] = q[x] + k[u \ {x}]
    BY <1>4, <2>1 DEF SumsTo
  <2>4. q[x] = s[x].size /\ q[x] \in Nat /\ k[u \ {x}] \in Nat
    BY <1>3, <1>4, <2>2
  <2>. HIDE DEF q, U
  <2>5. k[u] = k[u \ {x}] + s[x].size
    BY <2>3, <2>4
  <2>. QED  BY <2>1, <2>2, <2>5
<1>7. k[{}] = 0
  BY <1>4 DEF SumsTo
<1>8. W!Chars(s) = k[U]
  <2>1. k = [u \in SUBSET U |->
               IF u = {} THEN 0
               ELSE k[u \ {CHOOSE x \in u : TRUE}] + s[CHOOSE x \in u : TRUE].size]
    <3>. DEFINE l == [u \in SUBSET U |->
               IF u = {} THEN 0
               ELSE k[u \ {CHOOSE x \in u : TRUE}] + s[CHOOSE x \in u : TRUE].size]
    <3>1. \A u \in SUBSET U : k[u] = l[u]
      BY <1>6, <1>7
    <3>. QED  BY <1>4, <3>1
  <2>a. k = [u \in SUBSET DOMAIN s |->
               IF u = {} THEN 0
               ELSE k[u \ {CHOOSE x \in u : TRUE}] + s[CHOOSE x \in u : TRUE].size]
    BY <1>1, <2>1
  <2>b. \E f : f = [u \in SUBSET DOMAIN s |->
                        IF u = {} THEN 0
                        ELSE f[u \ {CHOOSE x \in u : TRUE}] + s[CHOOSE x \in u : TRUE].size]
                 /\ W!Chars(s) = f[DOMAIN s]
    BY ONLY <2>a DEF W!Chars, W!FoldSeq, W!FoldFunction, W!FoldFunctionOnSet, W!MapThenFoldSet
  <2>2. PICK f : f = [u \in SUBSET U |->
                        IF u = {} THEN 0
                        ELSE f[u \ {CHOOSE x \in u : TRUE}] + s[CHOOSE x \in u : TRUE].size]
                 /\ W!Chars(s) = f[U]
    BY <1>1, <2>b
  <2>. DEFINE T == {u \in SUBSET U : f[u] # k[u]}
  <2>3. T = {}
    <3> SUFFICES ASSUME T # {} PROVE FALSE
      OBVIOUS
    <3>1. PICK u \in T : \A v \in T : v \subseteq u => v = u
      <4>1. T \subseteq SUBSET U
        OBVIOUS
      <4>. HIDE DEF T, U
      <4>. QED  BY <1>2, <4>1, LeastSubset
    <3>2. u \in SUBSET U /\ f[u] # k[u]
      OBVIOUS
    <3>3. u # {}
      BY <1>7, <2>2, <3>2
    <3>4. PICK x \in u : /\ x = CHOOSE y \in u : TRUE
                         /\ u \ {x} \in SUBSET U
                         /\ k[u] = k[u \ {x}] + s[x].size
      BY <1>6, <3>2, <3>3
    <3>5. f[u \ {x}] = k[u \ {x}]
      BY <3>1, <3>4
    <3>6. f[u] = f[u \ {x}] + s[x].size
      BY <2>2, <3>2, <3>3, <3>4
    <3>. QED  BY <3>2, <3>4, <3>5, <3>6
  <2>. QED  BY <2>2, <2>3
<1>9. \A u \in SUBSET U : k[u] \in Nat
  BY <1>4
<1>. QED  BY <1>3, <1>4, <1>8, <1>9

(* One message more,                                                       *)
LEMMA CharsOne ==
  ASSUME NEW s, s \in Seq(Message), NEW x, x \in Message
  PROVE  W!Chars(Append(s, x)) = W!Chars(s) + x.size /\ W!Chars(s) \in Nat
<1>. DEFINE t == Append(s, x)
            n == Len(s)
<1>1. n \in Nat /\ t \in Seq(Message) /\ Len(t) = n + 1 /\ t[n + 1] = x
      /\ \A i \in 1..n : t[i] = s[i]
  BY LenProperties, AppendProperties
<1>. HIDE DEF t, n
<1>2. PICK q, k : /\ \A i \in 1..n : q[i] = s[i].size /\ q[i] \in Nat
                  /\ SumsTo(k, q, 1..n)
                  /\ \A u \in SUBSET (1..n) : k[u] \in Nat
                  /\ W!Chars(s) = k[1..n]
  BY CharsIs DEF n
<1>3. PICK r, h : /\ \A i \in 1..(n + 1) : r[i] = t[i].size /\ r[i] \in Nat
                  /\ SumsTo(h, r, 1..(n + 1))
                  /\ \A u \in SUBSET (1..(n + 1)) : h[u] \in Nat
                  /\ W!Chars(t) = h[1..(n + 1)]
  BY <1>1, CharsIs
<1>4. IsFiniteSet(1..n) /\ IsFiniteSet(1..(n + 1))
  BY <1>1, FS_Interval
<1>5. n + 1 \in 1..(n + 1) /\ (1..(n + 1)) \ {n + 1} = 1..n /\ 1..n \subseteq 1..(n + 1)
  BY <1>1
<1>6. h[1..n] = k[1..n]
  <2>1. \A i \in 1..n : r[i] = q[i]
    BY <1>1, <1>2, <1>3, <1>5
  <2>2. PICK v : v = 1..n
    OBVIOUS
  <2>3. PICK w : w = 1..(n + 1)
    OBVIOUS
  <2>4. SumsTo(k, q, v) /\ SumsTo(h, r, w) /\ IsFiniteSet(w) /\ v \in SUBSET w
        /\ v \in SUBSET v /\ \A i \in v : r[i] = q[i]
    BY <1>2, <1>3, <1>4, <1>5, <2>1, <2>2, <2>3
  <2>5. h[v] = k[v]
    BY ONLY <2>4, SumSame
  <2>. QED  BY <2>2, <2>5
<1>7. h[1..(n + 1)] = r[n + 1] + h[1..n]
  <2>3. PICK w : w = 1..(n + 1)
    OBVIOUS
  <2>1. IsFiniteSet(w) /\ SumsTo(h, r, w) /\ \A i \in w : r[i] \in Nat
    BY <1>3, <1>4, <2>3
  <2>2. \A u \in SUBSET w : h[u] \in Nat /\ \A i \in u : h[u] = r[i] + h[u \ {i}]
    BY ONLY <2>1, SumTakes
  <2>4. \A i \in w : h[w] = r[i] + h[w \ {i}]
    BY <2>2
  <2>. QED  BY <1>5, <2>3, <2>4
<1>8. r[n + 1] = x.size /\ r[n + 1] \in Nat /\ k[1..n] \in Nat
  BY <1>1, <1>2, <1>3, <1>5
<1>. QED  BY <1>2, <1>3, <1>6, <1>7, <1>8 DEF t

(* none,                                                                   *)
LEMMA CharsNone == W!Chars(<<>>) = 0
<1>1. <<>> \in Seq(Message) /\ Len(<<>>) = 0 /\ 1..0 = {}
  BY EmptySeq
<1>2. PICK q, k : SumsTo(k, q, 1..0) /\ W!Chars(<<>>) = k[1..0]
  BY <1>1, CharsIs
<1>. QED  BY <1>1, <1>2 DEF SumsTo

(* and the messages of two sequences.                                      *)
LEMMA CharsOfBoth ==
  ASSUME NEW s, s \in Seq(Message), NEW t, t \in Seq(Message)
  PROVE  /\ W!Chars(s \o t) = W!Chars(s) + W!Chars(t)
         /\ W!Chars(s) \in Nat /\ W!Chars(t) \in Nat
<1>. DEFINE n == Len(t)
            First(i) == SubSeq(t, 1, i)
            Q == {i \in 0..n : /\ First(i) \in Seq(Message)
                               /\ W!Chars(s \o First(i)) = W!Chars(s) + W!Chars(First(i))
                               /\ W!Chars(First(i)) \in Nat}
<1>0. n \in Nat /\ \A i \in 1..n : t[i] \in Message
  BY LenProperties, ElementOfSeq
<1>1. W!Chars(s) \in Nat
  <2>1. PICK x : x \in Message
    <3>1. [role |-> "user", size |-> 1, calls |-> 0, n |-> 0] \in Message
      BY DEF Message
    <3>. QED  BY <3>1
  <2>. QED  BY <2>1, CharsOne
<1>2. 0 \in Q
  <2>1. First(0) = <<>>
    BY SubSeqEmpty
  <2>2. s \o <<>> = s /\ <<>> \in Seq(Message)
    BY ConcatEmptySeq, EmptySeq
  <2>3. W!Chars(s) = W!Chars(s) + 0
    BY <1>1
  <2>4. W!Chars(s \o First(0)) = W!Chars(s) /\ W!Chars(First(0)) = 0
    BY <2>1, <2>2, CharsNone
  <2>5. 0 \in 0..n /\ First(0) \in Seq(Message)
    BY <1>0, <2>1, <2>2
  <2>. HIDE DEF First, n
  <2>6. W!Chars(s \o First(0)) = W!Chars(s) + W!Chars(First(0))
    BY <2>3, <2>4
  <2>. QED  BY <2>4, <2>5, <2>6
<1>3. ASSUME NEW i \in 1..n, i - 1 \in Q PROVE i \in Q
  <2>1. First(i - 1) \in Seq(Message) /\ i \in 0..n /\ t[i] \in Message
    BY <1>0, <1>3
  <2>2. First(i) = Append(First(i - 1), t[i])
    <3>1. t \in Seq(Message) /\ 1 \in 1..Len(t) /\ i \in 1..Len(t)
      BY <1>0
    <3>2. SubSeq(t, 1, i) = SubSeq(t, 1, i - 1) \o <<t[i]>>
      BY ONLY <3>1, SubSeqRecursiveSecond
    <3>3. SubSeq(t, 1, i - 1) \o <<t[i]>> = Append(SubSeq(t, 1, i - 1), t[i])
      BY <2>1, AppendIsConcat
    <3>. QED  BY <3>2, <3>3
  <2>3. PICK p, x : p = First(i - 1) /\ x = t[i]
    OBVIOUS
  <2>4. s \o p \in Seq(Message) /\ s \o Append(p, x) = Append(s \o p, x)
        /\ Append(p, x) \in Seq(Message)
    <3>1. p \in Seq(Message) /\ x \in Message /\ <<x>> \in Seq(Message)
      BY <2>1, <2>3
    <3>2. (s \o p) \o <<x>> = s \o (p \o <<x>>) /\ s \o p \in Seq(Message)
      BY <3>1, ConcatAssociative
    <3>3. p \o <<x>> = Append(p, x) /\ (s \o p) \o <<x>> = Append(s \o p, x)
      BY <3>1, <3>2, AppendIsConcat
    <3>. QED  BY <3>1, <3>2, <3>3
  <2>5. /\ W!Chars(Append(p, x)) = W!Chars(p) + x.size
        /\ W!Chars(Append(s \o p, x)) = W!Chars(s \o p) + x.size
    BY <2>1, <2>3, <2>4, CharsOne
  <2>6. W!Chars(s \o p) = W!Chars(s) + W!Chars(p) /\ W!Chars(p) \in Nat
    BY <1>3, <2>3
  <2>7. x.size \in Nat
    BY <2>1, <2>3 DEF Message
  <2>8. W!Chars(First(i)) = W!Chars(p) + x.size
        /\ W!Chars(s \o First(i)) = W!Chars(s \o p) + x.size
        /\ First(i) \in Seq(Message)
    BY <2>2, <2>3, <2>4, <2>5
  <2>. HIDE DEF First
  <2>. QED  BY <1>1, <2>1, <2>6, <2>7, <2>8
<1>4. \A i \in 0..n : i \in Q
  <2>. HIDE DEF Q, n
  <2>. QED  BY <1>0, <1>2, <1>3, UpTo
<1>5. First(n) = t /\ n \in 0..n
  BY <1>0, SubSeqFull
<1>6. n \in Q
  BY <1>4, <1>5
<1>. HIDE DEF First
<1>. QED  BY <1>1, <1>5, <1>6

(* What the owner said of messages is a selection of them.                 *)
LEMMA OwnersAre ==
  ASSUME NEW s, s \in Seq(Message)
  PROVE  /\ W!OwnersOf(s) \in Seq(Message)
         /\ \E e : PlacesOf(e, W!OwnersOf(s), s, Len(s), {m \in Message : m.role = "user"})
<1>. DEFINE T == {m \in Message : m.role = "user"}
            q == [i \in 1..Len(s) |-> IF s[i] \in T THEN <<s[i]>> ELSE <<>>]
<1>1. DOMAIN s = 1..Len(s) /\ \A i \in 1..Len(s) : s[i] \in Message
  BY LenProperties, ElementOfSeq
<1>2. [i \in DOMAIN s |-> IF s[i].role = "user" THEN <<s[i]>> ELSE <<>>] = q
  BY <1>1
<1>3. W!FlattenSeq(q) = FlattenSeq(q)
  BY DEF W!FlattenSeq, FlattenSeq
<1>4. W!OwnersOf(s) = FlattenSeq(q)
  BY <1>2, <1>3 DEF W!OwnersOf
<1>. HIDE DEF T
<1>5. PICK r : r = W!OwnersOf(s)
  OBVIOUS
<1>. QED  BY <1>4, <1>5, SelectionIs DEF T

(* What the calls and results of a fold leave in the checkpoint.           *)
LEMMA NotedIs ==
  ASSUME NEW notes, notes \in Seq({"work", "owner"}),
         NEW more, more \in Seq({"work", "owner"}), SummaryLimit \in Nat
  PROVE  W!Noted(notes, more) \in Seq({"work", "owner"}) /\ Len(W!Noted(notes, more)) <= SummaryLimit
<1>. DEFINE all == notes \o more
<1>1. all \in Seq({"work", "owner"}) /\ Len(all) \in Nat
  BY ConcatProperties, LenProperties
<1>2. CASE Len(all) > SummaryLimit
  <2>1. W!Noted(notes, more) = SubSeq(all, Len(all) - SummaryLimit + 1, Len(all))
    BY <1>2 DEF W!Noted
  <2>2. PICK b, m : b = all /\ m = Len(all) - SummaryLimit + 1
    OBVIOUS
  <2>. HIDE DEF all
  <2>3. m \in 1..(Len(b) + 1) /\ Len(b) \in (m - 1)..Len(b) /\ b \in Seq({"work", "owner"})
    BY <1>1, <1>2, <2>2
  <2>4. SubSeq(b, m, Len(b)) \in Seq({"work", "owner"}) /\ Len(SubSeq(b, m, Len(b))) = Len(b) - m + 1
    BY <2>3, CutIs
  <2>. QED  BY <1>1, <2>1, <2>2, <2>4
<1>3. CASE ~ (Len(all) > SummaryLimit)
  BY <1>1, <1>3 DEF W!Noted
<1>. QED  BY <1>2, <1>3

LEMMA SummarizedIs ==
  ASSUME NEW s, s \in Seq(Message)
  PROVE  W!Summarized(s) \in Seq({"work", "owner"})
<1>. DEFINE U == {j \in DOMAIN s : s[j].role # "user"}
<1>1. IsFiniteSet(U)
  <2>1. Len(s) \in Nat /\ DOMAIN s = 1..Len(s) /\ U \subseteq 1..Len(s)
    BY LenProperties
  <2>2. IsFiniteSet(1..Len(s))
    BY <2>1, FS_Interval
  <2>. QED  BY <2>1, <2>2, FS_Subset
<1>2. Cardinality(U) \in Nat
  BY <1>1, FS_CardinalityType
<1>3. [i \in 1..Cardinality(U) |-> "work"] \in [1..Cardinality(U) -> {"work", "owner"}]
  OBVIOUS
<1>4. W!Summarized(s) = [i \in 1..W!Cardinality(U) |-> "work"]
  BY DEF W!Summarized
<1>5. W!Cardinality(U) = Cardinality(U)
  BY DEF W!Cardinality, Cardinality
<1>. HIDE DEF U
<1>. QED  BY <1>2, <1>3, <1>4, <1>5, IsASeq

(* Where the next step of the tail starts, if there is one to fold.        *)
LEMMA OldestIs ==
  ASSUME tail \in Seq(Message), W!MayFold
  PROVE  /\ W!OldestStep \in 1..(Len(tail) - 1) /\ Len(tail) \in Nat
         /\ tail[W!OldestStep + 1].role = "assistant"
<1>. DEFINE U == W!Starts \ {1}
<1>1. Len(tail) \in Nat /\ W!Starts \subseteq 1..Len(tail)
  BY LenProperties DEF W!Starts
<1>2. U # {}
  <2>1. SUFFICES ASSUME U = {} PROVE FALSE
    OBVIOUS
  <2>2. W!Starts = {} \/ W!Starts = {1}
    BY <2>1
  <2>3. Cardinality({}) = 0 /\ Cardinality({1}) = 1
    BY FS_EmptySet, FS_Singleton
  <2>4. W!Cardinality(W!Starts) = Cardinality(W!Starts)
    BY DEF W!Cardinality, Cardinality
  <2>5. Cardinality(W!Starts) > 1
    BY <2>4 DEF W!MayFold
  <2>6. CASE W!Starts = {}
    BY <2>3, <2>5, <2>6
  <2>7. CASE W!Starts = {1}
    BY <2>3, <2>5, <2>7
  <2>. QED  BY <2>2, <2>6, <2>7
<1>3. U \subseteq Nat
  BY <1>1
<1>4. \E i \in U : \A j \in U : i <= j
  <2>. HIDE DEF U
  <2>. QED  BY <1>2, <1>3, LeastNat
<1>5. PICK i \in U : i = (CHOOSE m \in U : \A j \in U : m <= j)
  <2>. HIDE DEF U
  <2>. QED  BY <1>4
<1>6. W!OldestStep = i - 1
  BY <1>5 DEF W!OldestStep, W!MayFold
<1>7. i \in 1..Len(tail) /\ i # 1 /\ tail[i].role = "assistant"
  BY DEF W!Starts
<1>8. i - 1 \in 1..(Len(tail) - 1) /\ (i - 1) + 1 = i
  BY <1>1, <1>7
<1>. QED  BY <1>1, <1>6, <1>7, <1>8

(* A message more of the tail, and the results of an assistant's calls.    *)
LEMMA AnsweredMore ==
  ASSUME NEW t, t \in Seq(Message), Answered(t), NEW x, x \in Message,
         NEW r, r \in Seq(Message),
         \/ x.role = "user" /\ Len(r) = 0
         \/ /\ x.role = "assistant" /\ x.calls = Len(r)
            /\ \A i \in 1..Len(r) : r[i].role = "tool"
  PROVE  Answered(Append(t, x) \o r)
<1>. DEFINE u == Append(t, x) \o r
            n == Len(t)
            m == Len(r)
<1>1. /\ Append(t, x) \in Seq(Message) /\ Len(Append(t, x)) = n + 1 /\ n \in Nat /\ m \in Nat
      /\ Append(t, x)[n + 1] = x /\ \A i \in 1..n : Append(t, x)[i] = t[i]
  BY LenProperties, AppendProperties
<1>2. /\ Len(u) = n + 1 + m
      /\ \A i \in 1..n + 1 : u[i] = Append(t, x)[i]
      /\ \A i \in 1..m : u[n + 1 + i] = r[i]
  BY <1>1, JoinIs
<1>3. u[n + 1] = x /\ (\A i \in 1..n : u[i] = t[i]) /\ n + 1 \in 1..Len(u)
  BY <1>1, <1>2
<1>4. \A i \in 1..Len(u) : i \in 1..n \/ i = n + 1 \/ (\E j \in 1..m : i = n + 1 + j)
  <2>1. \A i \in (n + 2)..(n + 1 + m) : i - n - 1 \in 1..m /\ i = n + 1 + (i - n - 1)
    BY <1>1
  <2>2. \A i \in 1..(n + 1 + m) : i \in 1..n \/ i = n + 1 \/ i \in (n + 2)..(n + 1 + m)
    BY <1>1
  <2>. QED  BY <1>2, <2>1, <2>2
<1>5. \A i \in 1..n : t[i].calls \in Nat
  <2>1. \A i \in 1..n : t[i] \in Message
    BY ElementOfSeq
  <2>. QED  BY <2>1 DEF Message
<1>. HIDE DEF u, n, m
<1>6. ASSUME NEW i \in 1..Len(u), u[i].role = "assistant"
      PROVE  /\ i + u[i].calls <= Len(u)
             /\ \A j \in (i + 1)..(i + u[i].calls) : u[j].role = "tool"
  <2>1. CASE i \in 1..n
    <3>1. /\ i + t[i].calls <= n
          /\ \A j \in (i + 1)..(i + t[i].calls) : t[j].role = "tool"
      BY <1>3, <1>6, <2>1 DEF Answered, n
    <3>2. \A j \in (i + 1)..(i + t[i].calls) : j \in 1..n
      BY <1>1, <1>5, <2>1, <3>1
    <3>3. \A j \in (i + 1)..(i + t[i].calls) : u[j].role = "tool"
      BY <1>3, <3>1, <3>2
    <3>4. \A c \in Nat : i + c <= n => i + c <= n + 1 + m
      BY <1>1, <2>1
    <3>5. i + t[i].calls <= Len(u)
      BY <1>2, <1>5, <2>1, <3>1, <3>4
    <3>. QED  BY <1>3, <2>1, <3>3, <3>5
  <2>2. CASE i = n + 1
    <3>1. x.calls = m /\ \A j \in 1..m : r[j].role = "tool"
      BY <1>3, <1>6, <2>2 DEF m
    <3>2. \A j \in (n + 2)..(n + 1 + m) : j - n - 1 \in 1..m /\ n + 1 + (j - n - 1) = j
      BY <1>1
    <3>3. \A j \in (n + 2)..(n + 1 + m) : u[j].role = "tool"
      BY <1>2, <3>1, <3>2
    <3>4. (n + 1) + 1 = n + 2 /\ (n + 1) + m = n + 1 + m
      BY <1>1
    <3>. QED  BY <1>1, <1>2, <1>3, <2>2, <3>1, <3>3, <3>4
  <2>3. ASSUME NEW j \in 1..m, i = n + 1 + j PROVE FALSE
    <3>1. u[i] = r[j]
      BY <1>2, <2>3
    <3>2. j \in 1..Len(r) /\ Len(r) # 0
      BY <1>1, <2>3 DEF m
    <3>3. r[j].role = "tool"
      BY <3>2
    <3>. QED  BY <1>6, <3>1, <3>3
  <2>. QED  BY <1>4, <2>1, <2>2, <2>3
<1>7. ASSUME NEW i \in 1..Len(u), u[i].role = "tool"
      PROVE  \E j \in 1..(i - 1) : u[j].role = "assistant" /\ i <= j + u[j].calls
  <2>1. CASE i \in 1..n
    <3>1. PICK j \in 1..(i - 1) : t[j].role = "assistant" /\ i <= j + t[j].calls
      BY <1>3, <1>7, <2>1 DEF Answered, n
    <3>2. j \in 1..n
      BY <1>1, <2>1
    <3>. QED  BY <1>3, <3>1, <3>2
  <2>2. CASE i = n + 1
    BY <1>3, <1>7, <2>2
  <2>3. ASSUME NEW j \in 1..m, i = n + 1 + j
        PROVE  \E l \in 1..(i - 1) : u[l].role = "assistant" /\ i <= l + u[l].calls
    <3>1. x.role = "assistant" /\ x.calls = m
      BY <1>1 DEF m
    <3>2. n + 1 \in 1..(i - 1) /\ i <= n + 1 + m
      BY <1>1, <2>3
    <3>. QED  BY <1>3, <3>1, <3>2
  <2>. QED  BY <1>4, <2>1, <2>2, <2>3
<1>8. Answered(u)
  BY <1>6, <1>7 DEF Answered
<1>. QED  BY <1>8 DEF u

(* What is left after the oldest steps: it starts with an assistant, whose *)
(* results are not those of a call before it.                              *)
LEMMA AnsweredRest ==
  ASSUME NEW t, t \in Seq(Message), Answered(t), NEW k, k \in 1..(Len(t) - 1),
         t[k + 1].role = "assistant"
  PROVE  Answered(SubSeq(t, k + 1, Len(t)))
<1>. DEFINE u == SubSeq(t, k + 1, Len(t))
            n == Len(t)
<1>1. n \in Nat /\ k \in Nat /\ k >= 1 /\ k + 1 <= n
  <2>1. n \in Nat
    BY LenProperties
  <2>. QED  BY <2>1
<1>2. Len(u) = n - k /\ \A i \in 1..(n - k) : u[i] = t[k + i]
  <2>1. PICK l : l = k + 1
    OBVIOUS
  <2>2. l \in 1..(Len(t) + 1) /\ Len(t) \in (l - 1)..Len(t)
    BY <1>1, <2>1
  <2>3. Len(u) = n - l + 1 /\ \A i \in 1..(n - l + 1) : u[i] = t[l + i - 1]
    BY <2>1, <2>2, CutIs
  <2>4. \A i \in 1..(n - k) : l + i - 1 = k + i /\ i \in 1..(n - l + 1)
    BY <1>1, <2>1
  <2>5. n - l + 1 = n - k
    BY <1>1, <2>1
  <2>. HIDE DEF u, n
  <2>. QED  BY <2>3, <2>4, <2>5
<1>3. \A i \in 1..(n - k) : k + i \in 1..n /\ t[k + i].calls \in Nat
  <2>1. \A i \in 1..n : t[i].calls \in Nat
    <3>1. \A i \in 1..n : t[i] \in Message
      BY ElementOfSeq
    <3>. QED  BY <3>1 DEF Message
  <2>. QED  BY <1>1, <2>1
<1>. HIDE DEF u, n
<1>4. ASSUME NEW i \in 1..(n - k), t[k + i].role = "assistant"
      PROVE  /\ i + t[k + i].calls <= n - k
             /\ \A j \in (i + 1)..(i + t[k + i].calls) : j \in 1..(n - k) /\ u[j].role = "tool"
  <2>1. /\ (k + i) + t[k + i].calls <= n
        /\ \A j \in ((k + i) + 1)..((k + i) + t[k + i].calls) : t[j].role = "tool"
    BY <1>3, <1>4 DEF Answered, n
  <2>2. PICK c \in Nat : c = t[k + i].calls
    BY <1>3
  <2>3. i + c <= n - k
    BY <1>1, <2>1, <2>2
  <2>4. \A j \in (i + 1)..(i + c) : j \in 1..(n - k) /\ k + j \in ((k + i) + 1)..((k + i) + c)
    BY <1>1, <2>3
  <2>5. \A j \in (i + 1)..(i + c) : t[k + j].role = "tool"
    BY <2>1, <2>2, <2>4
  <2>6. \A j \in (i + 1)..(i + c) : j \in 1..(n - k) /\ u[j].role = "tool"
    BY <1>2, <2>4, <2>5
  <2>. QED  BY <2>2, <2>3, <2>6
<1>5. ASSUME NEW i \in 1..(n - k), t[k + i].role = "tool"
      PROVE  \E j \in 1..(i - 1) : t[k + j].role = "assistant" /\ i <= j + t[k + j].calls
                                   /\ j \in 1..(n - k)
  <2>1. PICK l \in 1..((k + i) - 1) : t[l].role = "assistant" /\ k + i <= l + t[l].calls
    BY <1>3, <1>5 DEF Answered, n
  <2>2. l \in 1..n /\ i # 1
    BY <1>1, <1>5
  <2>3. l \in Nat /\ t[l].calls \in Nat
    <3>1. t[l] \in Message
      BY <2>2, ElementOfSeq DEF n
    <3>. QED  BY <1>1, <2>2, <3>1 DEF Message
  <2>4. CASE l <= k
    <3>1. \A j \in (l + 1)..(l + t[l].calls) : t[j].role = "tool"
      BY <2>1, <2>2 DEF Answered, n
    <3>2. k + 1 \in (l + 1)..(l + t[l].calls)
      BY <1>1, <2>1, <2>3, <2>4
    <3>. QED  BY <3>1, <3>2
  <2>5. CASE l > k
    <3>1. PICK j : j = l - k
      OBVIOUS
    <3>2. j \in 1..(i - 1) /\ k + j = l /\ j \in 1..(n - k)
      <4>1. l \in Nat /\ l <= (k + i) - 1 /\ l <= n /\ i \in Nat
        BY <1>1, <2>1, <2>2
      <4>. QED  BY <1>1, <2>5, <3>1, <4>1
    <3>3. \A c \in Nat : k + i <= l + c => i <= j + c
      BY <1>1, <2>3, <3>2
    <3>. QED  BY <2>1, <2>3, <3>2, <3>3
  <2>. QED  BY <1>1, <2>3, <2>4, <2>5
<1>6. Answered(u)
  BY <1>2, <1>4, <1>5 DEF Answered
<1>. QED  BY <1>6 DEF u

(* More work comes behind what the owner said,                             *)
LEMMA InOrderWork ==
  ASSUME NEW s, NEW t, NEW u, NEW m, InOrder(s, t, m),
         Len(t) \in Nat, Len(u) \in Nat, Len(t) <= Len(u), \A i \in 1..Len(t) : u[i] = t[i],
         \A i \in 1..Len(u) : i > Len(t) => u[i].role # "user"
  PROVE  InOrder(s, u, m)
<1>1. \A i \in 1..Len(u) : u[i].role = "user" => i \in 1..Len(t) /\ u[i] = t[i]
  OBVIOUS
<1>2. \A i \in 1..Len(t) : i \in 1..Len(u)
  OBVIOUS
<1>3. \A i \in 1..Len(u) : u[i].role = "user" => u[i].n \in 1..m
  BY <1>1 DEF InOrder
<1>4. \A i, j \in 1..Len(u) :
         i < j /\ u[i].role = "user" /\ u[j].role = "user" => u[i].n < u[j].n
  BY <1>1 DEF InOrder
<1>5. \A i \in 1..Len(s), j \in 1..Len(u) : u[j].role = "user" => s[i].n < u[j].n
  BY <1>1 DEF InOrder
<1>6. m > 0 => \/ \E i \in 1..Len(s) : s[i].n = m
               \/ \E i \in 1..Len(u) : u[i].role = "user" /\ u[i].n = m
  BY <1>2 DEF InOrder
<1>. QED  BY <1>3, <1>4, <1>5, <1>6 DEF InOrder

(* the next that the owner says comes last,                                *)
LEMMA InOrderNext ==
  ASSUME NEW s, NEW t, NEW u, NEW m, m \in Nat, InOrder(s, t, m),
         Len(t) \in Nat, Len(u) = Len(t) + 1, \A i \in 1..Len(t) : u[i] = t[i],
         u[Len(t) + 1].role = "user", u[Len(t) + 1].n = m + 1
  PROVE  InOrder(s, u, m + 1)
<1>1. \A i \in 1..Len(u) : i = Len(t) + 1 \/ (i \in 1..Len(t) /\ i < Len(t) + 1 /\ u[i] = t[i])
  OBVIOUS
<1>2. Len(t) + 1 \in 1..Len(u)
  OBVIOUS
<1>3. \A i \in 1..m : i \in 1..(m + 1) /\ i < m + 1
  OBVIOUS
<1>4. m + 1 \in 1..(m + 1)
  OBVIOUS
<1>5. \A i \in 1..Len(s) : s[i].role = "user" /\ s[i].n \in 1..(m + 1)
  BY <1>3 DEF InOrder
<1>6. \A i \in 1..Len(u) : u[i].role = "user" => u[i].n \in 1..(m + 1)
  BY <1>1, <1>3, <1>4 DEF InOrder
<1>7. ASSUME NEW i \in 1..Len(u), NEW j \in 1..Len(u),
             i < j, u[i].role = "user", u[j].role = "user"
      PROVE  u[i].n < u[j].n
  <2>1. i \in 1..Len(t) /\ u[i] = t[i]
    BY <1>1, <1>7
  <2>2. CASE j = Len(t) + 1
    BY <1>3, <1>7, <2>1, <2>2 DEF InOrder
  <2>3. CASE j \in 1..Len(t)
    BY <1>1, <1>7, <2>1, <2>3 DEF InOrder
  <2>. QED  BY <1>1, <2>2, <2>3
<1>8. ASSUME NEW i \in 1..Len(s), NEW j \in 1..Len(u), u[j].role = "user"
      PROVE  s[i].n < u[j].n
  <2>1. CASE j = Len(t) + 1
    BY <1>3, <2>1 DEF InOrder
  <2>2. CASE j \in 1..Len(t)
    BY <1>1, <1>8, <2>2 DEF InOrder
  <2>. QED  BY <1>1, <2>1, <2>2
<1>. QED  BY <1>2, <1>5, <1>6, <1>7, <1>8 DEF InOrder

(* the first of several may go,                                            *)
LEMMA InOrderTail ==
  ASSUME NEW s, s \in Seq(Message), NEW t, NEW m, InOrder(s, t, m), Len(s) > 1
  PROVE  InOrder(Tail(s), t, m)
<1>1. PICK r : r = Tail(s)
  OBVIOUS
<1>2. /\ Len(s) \in Nat /\ Len(r) = Len(s) - 1
      /\ \A i \in 1..Len(r) : r[i] = s[i + 1] /\ i + 1 \in 1..Len(s)
  <2>1. Len(s) \in Nat /\ s # <<>>
    BY LenProperties
  <2>2. Len(r) = Len(s) - 1 /\ \A i \in 1..Len(r) : r[i] = s[i + 1]
    BY <1>1, <2>1, HeadTailProperties
  <2>. QED  BY <2>1, <2>2
<1>3. \A i \in 1..Len(r) : r[i].role = "user" /\ r[i].n \in 1..m
  BY <1>2 DEF InOrder
<1>4. \A i, j \in 1..Len(r) : i < j => r[i].n < r[j].n
  <2>1. \A i, j \in 1..Len(r) : i < j => i + 1 < j + 1
    BY <1>2
  <2>. QED  BY <1>2, <2>1 DEF InOrder
<1>5. \A i \in 1..Len(r), j \in 1..Len(t) : t[j].role = "user" => r[i].n < t[j].n
  BY <1>2 DEF InOrder
<1>6. ASSUME NEW i \in 1..Len(s), s[i].n = m
      PROVE  \E j \in 1..Len(r) : r[j].n = m
  <2>1. CASE i = 1
    <3>1. 2 \in 1..Len(s) /\ 1 < 2 /\ i \in 1..Len(s)
      BY <1>2
    <3>2. s[1].n < s[2].n /\ s[2].n \in 1..m /\ s[1].n \in 1..m
      BY <2>1, <3>1 DEF InOrder
    <3>. QED  BY <1>6, <2>1, <3>2
  <2>2. CASE i # 1
    <3>1. i - 1 \in 1..Len(r) /\ (i - 1) + 1 = i
      BY <1>2, <2>2
    <3>. QED  BY <1>2, <1>6, <3>1
  <2>. QED  BY <2>1, <2>2
<1>7. m > 0 => \/ \E i \in 1..Len(r) : r[i].n = m
               \/ \E i \in 1..Len(t) : t[i].role = "user" /\ t[i].n = m
  BY <1>6 DEF InOrder
<1>8. InOrder(r, t, m)
  BY <1>1, <1>3, <1>4, <1>5, <1>7 DEF InOrder
<1>. QED  BY <1>1, <1>8

(* and what the owner said in the oldest steps is taken out of them.       *)
LEMMA InOrderFold ==
  ASSUME NEW s, s \in Seq(Message), NEW t, t \in Seq(Message), NEW m, InOrder(s, t, m),
         NEW k, k \in 1..(Len(t) - 1)
  PROVE  /\ s \o W!OwnersOf(SubSeq(t, 1, k)) \in Seq(Message)
         /\ InOrder(s \o W!OwnersOf(SubSeq(t, 1, k)), SubSeq(t, k + 1, Len(t)), m)
<1>. DEFINE T == {x \in Message : x.role = "user"}
<1>1. Len(t) \in Nat /\ k \in Nat /\ k >= 1 /\ k + 1 <= Len(t)
  <2>1. Len(t) \in Nat
    BY LenProperties
  <2>. QED  BY <2>1
<1>2. PICK l, n : l = k + 1 /\ n = Len(t)
  OBVIOUS
<1>3. PICK h, u : h = SubSeq(t, 1, k) /\ u = SubSeq(t, l, n)
  OBVIOUS
<1>4. h \in Seq(Message) /\ Len(h) = k /\ \A i \in 1..k : h[i] = t[i]
  <2>1. 1 \in 1..(Len(t) + 1) /\ k \in (1 - 1)..Len(t)
    BY <1>1
  <2>2. h \in Seq(Message) /\ Len(h) = k - 1 + 1 /\ \A i \in 1..(k - 1 + 1) : h[i] = t[1 + i - 1]
    BY <1>3, <2>1, CutIs
  <2>3. \A i \in 1..k : 1 + i - 1 = i
    BY <1>1
  <2>. QED  BY <1>1, <2>2, <2>3
<1>5. Len(u) = n - k /\ \A i \in 1..(n - k) : u[i] = t[k + i] /\ k + i \in 1..n
  <2>1. l \in 1..(Len(t) + 1) /\ n \in (l - 1)..Len(t)
    BY <1>1, <1>2
  <2>2. Len(u) = n - l + 1 /\ \A i \in 1..(n - l + 1) : u[i] = t[l + i - 1]
    BY <1>3, <2>1, CutIs
  <2>3. \A i \in 1..(n - k) : l + i - 1 = k + i /\ i \in 1..(n - l + 1) /\ k + i \in 1..n
    BY <1>1, <1>2
  <2>4. n - l + 1 = n - k
    BY <1>1, <1>2
  <2>. QED  BY <2>2, <2>3, <2>4
<1>6. PICK r, e : /\ r = W!OwnersOf(h) /\ r \in Seq(Message)
                  /\ PlacesOf(e, r, h, k, T)
  BY <1>4, OwnersAre
<1>7. /\ \A i \in 1..Len(r) : e[i] \in 1..k /\ e[i] \in 1..n
      /\ \A i \in 1..Len(r) : r[i] = t[e[i]] /\ t[e[i]].role = "user"
      /\ \A i, j \in 1..Len(r) : i < j => e[i] < e[j]
      /\ \A i \in 1..k : t[i].role = "user" => \E j \in 1..Len(r) : e[j] = i
  <2>1. \A i \in 1..Len(r) : e[i] \in 1..k /\ r[i] = h[e[i]] /\ h[e[i]] \in T
    BY <1>6 DEF PlacesOf
  <2>2. \A i \in 1..k : i \in 1..n
    BY <1>1, <1>2
  <2>3. \A i \in 1..k : h[i] = t[i] /\ h[i] \in Message
    BY <1>4, ElementOfSeq
  <2>4. \A i \in 1..k : t[i].role = "user" => h[i] \in T
    BY <2>3
  <2>5. /\ \A i, j \in 1..Len(r) : i < j => e[i] < e[j]
        /\ \A i \in 1..k : h[i] \in T => \E j \in 1..Len(r) : e[j] = i
    BY <1>6 DEF PlacesOf
  <2>. QED  BY <2>1, <2>2, <2>3, <2>4, <2>5
<1>. HIDE DEF T
<1>8. PICK v : v = s \o r
  OBVIOUS
<1>9. /\ v \in Seq(Message) /\ Len(v) = Len(s) + Len(r) /\ Len(s) \in Nat /\ Len(r) \in Nat
      /\ \A i \in 1..Len(s) : v[i] = s[i]
      /\ \A i \in 1..Len(r) : v[Len(s) + i] = r[i]
  BY <1>6, <1>8, JoinIs
<1>10. \A i \in 1..Len(v) : \/ i \in 1..Len(s) /\ v[i] = s[i]
                            \/ \E j \in 1..Len(r) : i = Len(s) + j /\ v[i] = t[e[j]]
  <2>1. \A i \in 1..Len(v) : i \in 1..Len(s) \/ (i - Len(s) \in 1..Len(r) /\ i = Len(s) + (i - Len(s)))
    BY <1>9
  <2>2. \A j \in 1..Len(r) : v[Len(s) + j] = t[e[j]]
    BY <1>7, <1>9
  <2> SUFFICES ASSUME NEW i \in 1..Len(v)
               PROVE  \/ i \in 1..Len(s) /\ v[i] = s[i]
                      \/ \E j \in 1..Len(r) : i = Len(s) + j /\ v[i] = t[e[j]]
    OBVIOUS
  <2>3. CASE i \in 1..Len(s)
    BY <1>9, <2>3
  <2>4. CASE i \notin 1..Len(s)
    <3>1. PICK j : j = i - Len(s)
      OBVIOUS
    <3>2. j \in 1..Len(r) /\ i = Len(s) + j
      BY <2>1, <2>4, <3>1
    <3>. QED  BY <2>2, <3>2
  <2>. QED  BY <2>3, <2>4
<1>11. ASSUME NEW i \in 1..Len(v) PROVE v[i].role = "user" /\ v[i].n \in 1..m
  <2>1. CASE i \in 1..Len(s)
    BY <1>9, <2>1 DEF InOrder
  <2>2. ASSUME NEW j \in 1..Len(r), v[i] = t[e[j]]
        PROVE  v[i].role = "user" /\ v[i].n \in 1..m
    <3>1. e[j] \in 1..Len(t) /\ t[e[j]].role = "user"
      BY <1>2, <1>7
    <3>. QED  BY <2>2, <3>1 DEF InOrder
  <2>. QED  BY <1>10, <2>1, <2>2
<1>12. ASSUME NEW i \in 1..Len(v), NEW j \in 1..Len(v), i < j PROVE v[i].n < v[j].n
  <2>1. CASE j \in 1..Len(s)
    <3>1. i \in 1..Len(s)
      BY <1>9, <1>12, <2>1
    <3>. QED  BY <1>9, <1>12, <2>1, <3>1 DEF InOrder
  <2>2. ASSUME NEW b \in 1..Len(r), j = Len(s) + b, v[j] = t[e[b]]
        PROVE  v[i].n < v[j].n
    <3>1. CASE i \in 1..Len(s)
      BY <1>2, <1>7, <1>9, <2>2, <3>1 DEF InOrder
    <3>2. ASSUME NEW a \in 1..Len(r), i = Len(s) + a, v[i] = t[e[a]]
          PROVE  v[i].n < v[j].n
      <4>1. a < b
        BY <1>9, <1>12, <2>2, <3>2
      <4>2. e[a] < e[b]
        BY <1>7, <4>1
      <4>. QED  BY <1>2, <1>7, <2>2, <3>2, <4>2 DEF InOrder
    <3>. QED  BY <1>10, <3>1, <3>2
  <2>. QED  BY <1>10, <2>1, <2>2
<1>13. \A i \in 1..Len(u) : u[i].role = "user" => u[i].n \in 1..m
  BY <1>2, <1>5 DEF InOrder
<1>14. \A i, j \in 1..Len(u) :
          i < j /\ u[i].role = "user" /\ u[j].role = "user" => u[i].n < u[j].n
  <2>1. \A i, j \in 1..(n - k) : i < j => k + i < k + j
    BY <1>1, <1>2
  <2>. QED  BY <1>2, <1>5, <2>1 DEF InOrder
<1>15. ASSUME NEW i \in 1..Len(v), NEW j \in 1..Len(u), u[j].role = "user"
       PROVE  v[i].n < u[j].n
  <2>1. u[j] = t[k + j] /\ k + j \in 1..n
    BY <1>5
  <2>2. CASE i \in 1..Len(s)
    BY <1>2, <1>9, <1>15, <2>1, <2>2 DEF InOrder
  <2>3. ASSUME NEW a \in 1..Len(r), i = Len(s) + a, v[i] = t[e[a]]
        PROVE  v[i].n < u[j].n
    <3>1. e[a] < k + j
      <4>1. e[a] \in 1..k /\ j \in 1..(n - k)
        BY <1>5, <1>7
      <4>. QED  BY <1>1, <1>2, <4>1
    <3>2. PICK x, y : x = e[a] /\ y = k + j
      OBVIOUS
    <3>3. x \in 1..Len(t) /\ y \in 1..Len(t) /\ x < y
          /\ t[x].role = "user" /\ t[y].role = "user"
      BY <1>2, <1>7, <1>15, <2>1, <3>1, <3>2
    <3>4. t[x].n < t[y].n
      BY <3>3 DEF InOrder
    <3>. QED  BY <2>1, <2>3, <3>2, <3>4
  <2>. QED  BY <1>10, <2>2, <2>3
<1>16. ASSUME m > 0
       PROVE  \/ \E i \in 1..Len(v) : v[i].n = m
              \/ \E i \in 1..Len(u) : u[i].role = "user" /\ u[i].n = m
  <2>1. ASSUME NEW i \in 1..Len(s), s[i].n = m PROVE \E j \in 1..Len(v) : v[j].n = m
    <3>1. i \in 1..Len(v)
      BY <1>9
    <3>. QED  BY <1>9, <2>1, <3>1
  <2>2. ASSUME NEW i \in 1..n, t[i].role = "user", t[i].n = m
        PROVE  \/ \E j \in 1..Len(v) : v[j].n = m
               \/ \E j \in 1..Len(u) : u[j].role = "user" /\ u[j].n = m
    <3>1. CASE i \in 1..k
      <4>1. PICK j \in 1..Len(r) : e[j] = i
        BY <1>7, <2>2, <3>1
      <4>2. Len(s) + j \in 1..Len(v)
        BY <1>9
      <4>3. v[Len(s) + j] = t[i]
        BY <1>7, <1>9, <4>1
      <4>. QED  BY <2>2, <4>2, <4>3
    <3>2. CASE i \notin 1..k
      <4>1. PICK j : j = i - k
        OBVIOUS
      <4>2. j \in 1..(n - k) /\ k + j = i
        BY <1>1, <1>2, <3>2, <4>1
      <4>. QED  BY <1>5, <2>2, <4>2
    <3>. QED  BY <3>1, <3>2
  <2>. QED  BY <1>2, <1>16, <2>1, <2>2 DEF InOrder
<1>17. InOrder(v, u, m)
  BY <1>11, <1>12, <1>13, <1>14, <1>15, <1>16 DEF InOrder
<1>. QED  BY <1>2, <1>3, <1>6, <1>8, <1>9, <1>17

(* Sizes and counts of the window are numbers.                             *)
LEMMA WindowNumbers ==
  /\ Preserved \in Nat /\ BudgetChars \in Nat /\ Allowance \in Nat
  /\ SummaryLimit \in Nat /\ W!ResultLimit \in Nat
<1>1. /\ Preserved \in Nat /\ BudgetChars \in Nat /\ Allowance \in Nat
      /\ SummaryLimit \in Nat
  BY WindowAssumption DEF W!WindowAssumption
<1>2. Allowance \div 4 \in Nat /\ BudgetChars \div 2 \in Nat
  BY <1>1
<1>. QED  BY <1>1, <1>2 DEF W!ResultLimit

LEMMA WindowInit == ASSUME W!Init PROVE WindowInv
<1>1. <<>> \in Seq(Message) /\ <<>> \in Seq({"work", "owner"}) /\ Len(<<>>) = 0 /\ 1..0 = {}
  BY EmptySeq
<1>2. WindowTypes
  BY <1>1, WindowNumbers DEF W!Init, WindowTypes
<1>3. Answered(tail) /\ InOrder(steering, tail, steers)
  BY <1>1 DEF W!Init, Answered, InOrder
<1>. QED  BY <1>2, <1>3 DEF W!Init, WindowInv

(* What a step leaves of the window is all right, too, when only its place *)
(* changes.                                                                *)
LEMMA WindowGoesOn ==
  ASSUME WindowInv, UNCHANGED <<summary, steering, tail, windowSteps, steers>>,
         at' \in {"boundary", "fit", "batch", "check", "asked"} \cup W!Ended,
         at' = "asked" => ~W!OverRequest
  PROVE  WindowInv'
<1>1. WindowTypes'
  BY DEF WindowInv, WindowTypes
<1>2. Answered(tail)' /\ InOrder(steering, tail, steers)'
  BY DEF WindowInv, Answered, InOrder
<1>3. (windowSteps > 0 => \E i \in 1..Len(tail) : tail[i].role = "assistant")'
  BY DEF WindowInv
<1>4. W!OverRequest' = W!OverRequest
  BY DEF W!OverRequest, W!Mandatory, W!Checkpoint
<1>. QED  BY <1>1, <1>2, <1>3, <1>4 DEF WindowInv

(* A fold moves what the owner said in the oldest steps, and notes the     *)
(* rest.                                                                   *)
LEMMA WindowFolds ==
  ASSUME WindowInv, W!FoldOldest, W!MayFold, at' \in {"batch", "fit"}
  PROVE  WindowInv'
<1>1. WindowTypes /\ Answered(tail) /\ InOrder(steering, tail, steers)
  BY DEF WindowInv
<1>2. tail \in Seq(Message) /\ steering \in Seq(Message) /\ summary \in Seq({"work", "owner"})
  BY <1>1 DEF WindowTypes
<1>3. PICK o : o = W!OldestStep
  OBVIOUS
<1>4. o \in 1..(Len(tail) - 1) /\ Len(tail) \in Nat /\ tail[o + 1].role = "assistant"
  BY <1>2, <1>3, OldestIs
<1>5. PICK h : h = SubSeq(tail, 1, o)
  OBVIOUS
<1>6. /\ steering' = steering \o W!OwnersOf(SubSeq(tail, 1, o))
      /\ tail' = SubSeq(tail, o + 1, Len(tail))
      /\ summary' = W!Noted(summary, W!Summarized(h))
      /\ windowSteps' = windowSteps /\ steers' = steers
  BY <1>3, <1>5 DEF W!FoldOldest, W!Rescued
<1>7. h \in Seq(Message)
  <2>1. 1 \in 1..(Len(tail) + 1) /\ o \in (1 - 1)..Len(tail)
    BY <1>4
  <2>. QED  BY <1>2, <1>5, <2>1, CutIs
<1>8. summary' \in Seq({"work", "owner"}) /\ Len(summary') <= SummaryLimit
  BY <1>2, <1>6, <1>7, SummarizedIs, NotedIs, WindowNumbers
<1>9. steering' \in Seq(Message) /\ InOrder(steering', tail', steers')
  BY <1>1, <1>2, <1>4, <1>6, InOrderFold
<1>10. /\ tail' \in Seq(Message) /\ Len(tail') = Len(tail) - o
       /\ \A i \in 1..Len(tail') : tail'[i] = tail[o + i]
  <2>1. PICK l, n : l = o + 1 /\ n = Len(tail)
    OBVIOUS
  <2>2. l \in 1..(Len(tail) + 1) /\ n \in (l - 1)..Len(tail)
    BY <1>4, <2>1
  <2>3. /\ SubSeq(tail, l, n) \in Seq(Message) /\ Len(SubSeq(tail, l, n)) = n - l + 1
        /\ \A i \in 1..(n - l + 1) : SubSeq(tail, l, n)[i] = tail[l + i - 1]
    BY <1>2, <2>2, CutIs
  <2>4. n - l + 1 = Len(tail) - o
    BY <1>4, <2>1
  <2>5. \A i \in 1..(Len(tail) - o) : l + i - 1 = o + i
    BY <1>4, <2>1
  <2>. QED  BY <1>6, <2>1, <2>3, <2>4, <2>5
<1>11. Answered(tail')
  BY <1>1, <1>2, <1>4, <1>6, AnsweredRest
<1>12. \E i \in 1..Len(tail') : tail'[i].role = "assistant"
  <2>1. 1 \in 1..Len(tail')
    BY <1>4, <1>10
  <2>. QED  BY <1>4, <1>10, <2>1
<1>13. WindowTypes'
  BY <1>1, <1>6, <1>8, <1>9, <1>10 DEF WindowTypes
<1>. QED  BY <1>9, <1>11, <1>12, <1>13 DEF WindowInv

(* What joins the tail is a correction, or calls and their results.        *)
LEMMA WindowTakes ==
  ASSUME WindowInv, W!TakeSteering
  PROVE  WindowInv'
<1>1. PICK size \in {0, 1, 2} :
        /\ steers' = IF size > 0 THEN steers + 1 ELSE steers
        /\ tail' = IF size > 0 THEN Append(tail, W!Owner(steers + 1, size)) ELSE tail
  BY DEF W!TakeSteering
<1>2. at' = "fit" /\ UNCHANGED <<summary, steering, windowSteps>>
  BY DEF W!TakeSteering
<1>3. CASE size = 0
  <2>1. UNCHANGED <<tail, steers>>
    BY <1>1, <1>3
  <2>. QED  BY <1>2, <2>1, WindowGoesOn
<1>4. CASE size # 0
  <2>1. PICK x : x = W!Owner(steers + 1, size)
    OBVIOUS
  <2>2. /\ x \in Message /\ x.role = "user" /\ x.n = steers + 1
        /\ tail' = Append(tail, x) /\ steers' = steers + 1
    BY <1>1, <1>4, <2>1 DEF WindowInv, WindowTypes, Message, W!Owner
  <2>3. /\ tail \in Seq(Message) /\ steering \in Seq(Message) /\ steers \in Nat
        /\ Answered(tail) /\ InOrder(steering, tail, steers)
    BY DEF WindowInv, WindowTypes
  <2>4. /\ tail' \in Seq(Message) /\ Len(tail) \in Nat /\ Len(tail') = Len(tail) + 1
        /\ tail'[Len(tail) + 1] = x /\ \A i \in 1..Len(tail) : tail'[i] = tail[i]
    BY <2>2, <2>3, AppendProperties, LenProperties
  <2>5. WindowTypes'
    BY <1>2, <2>2, <2>3, <2>4 DEF WindowInv, WindowTypes
  <2>6. Answered(tail')
    <3>1. <<>> \in Seq(Message) /\ Len(<<>>) = 0
      BY EmptySeq
    <3>2. Answered(Append(tail, x) \o <<>>)
      BY <2>2, <2>3, <3>1, AnsweredMore
    <3>3. Append(tail, x) \o <<>> = Append(tail, x)
      BY <2>2, <2>4, ConcatEmptySeq
    <3>. QED  BY <2>2, <3>2, <3>3
  <2>7. InOrder(steering, tail', steers + 1)
    BY <2>2, <2>3, <2>4, InOrderNext
  <2>8. windowSteps > 0 => \E i \in 1..Len(tail') : tail'[i].role = "assistant"
    <3>1. \A i \in 1..Len(tail) : i \in 1..Len(tail')
      BY <2>4
    <3>. QED  BY <2>4, <3>1 DEF WindowInv
  <2>. QED  BY <1>2, <2>2, <2>5, <2>6, <2>7, <2>8 DEF WindowInv
<1>. QED  BY <1>3, <1>4

LEMMA WindowAnswers ==
  ASSUME WindowInv, NEW r, r \in Seq(Message), \A i \in 1..Len(r) : r[i].role = "tool",
         tail' = Append(tail, W!Assistant(Len(r))) \o r,
         windowSteps' = windowSteps + 1, at' = "boundary",
         UNCHANGED <<summary, steering, steers>>
  PROVE  WindowInv'
<1>1. /\ tail \in Seq(Message) /\ steering \in Seq(Message) /\ windowSteps \in Nat
      /\ Answered(tail) /\ InOrder(steering, tail, steers)
  BY DEF WindowInv, WindowTypes
<1>2. PICK x : x = W!Assistant(Len(r))
  OBVIOUS
<1>3. /\ x \in Message /\ x.role = "assistant" /\ x.calls = Len(r) /\ Len(r) \in Nat
      /\ tail' = Append(tail, x) \o r
  <2>1. Len(r) \in Nat
    BY LenProperties
  <2>. QED  BY <1>2, <2>1 DEF Message, W!Assistant
<1>4. /\ Append(tail, x) \in Seq(Message) /\ Len(tail) \in Nat
      /\ Len(Append(tail, x)) = Len(tail) + 1
      /\ Append(tail, x)[Len(tail) + 1] = x
      /\ \A i \in 1..Len(tail) : Append(tail, x)[i] = tail[i]
  BY <1>1, <1>3, AppendProperties, LenProperties
<1>5. /\ tail' \in Seq(Message) /\ Len(tail') = Len(tail) + 1 + Len(r)
      /\ \A i \in 1..(Len(tail) + 1) : tail'[i] = Append(tail, x)[i]
      /\ \A i \in 1..Len(r) : tail'[Len(tail) + 1 + i] = r[i]
  BY <1>3, <1>4, JoinIs
<1>6. /\ \A i \in 1..Len(tail) : tail'[i] = tail[i]
      /\ tail'[Len(tail) + 1] = x /\ Len(tail) + 1 \in 1..Len(tail')
  BY <1>3, <1>4, <1>5
<1>7. \A i \in 1..Len(tail') : i > Len(tail) => tail'[i].role # "user"
  <2>1. \A i \in 1..(Len(tail) + 1 + Len(r)) : i > Len(tail) /\ i # Len(tail) + 1 =>
           i - Len(tail) - 1 \in 1..Len(r) /\ Len(tail) + 1 + (i - Len(tail) - 1) = i
    BY <1>3, <1>4
  <2>2. \A i \in 1..Len(tail') : i > Len(tail) /\ i # Len(tail) + 1 => tail'[i].role = "tool"
    BY <1>5, <2>1
  <2>. QED  BY <1>3, <1>6, <2>2
<1>8. InOrder(steering, tail', steers)
  <2>1. Len(tail') \in Nat /\ Len(tail) <= Len(tail')
    BY <1>3, <1>4, <1>5
  <2>. QED  BY <1>1, <1>4, <1>6, <1>7, <2>1, InOrderWork
<1>9. Answered(tail')
  BY <1>1, <1>3, AnsweredMore
<1>10. WindowTypes'
  BY <1>1, <1>5 DEF WindowInv, WindowTypes
<1>. QED  BY <1>3, <1>6, <1>8, <1>9, <1>10 DEF WindowInv

LEMMA WindowStepInv == ASSUME WindowInv, W!Next PROVE WindowInv'
<1>1. CASE W!TakeSteering
  BY <1>1, WindowTakes
<1>2. CASE W!BoundSteering
  <2>1. /\ summary \in Seq({"work", "owner"}) /\ <<"owner">> \in Seq({"work", "owner"})
        /\ steering \in Seq(Message) /\ Len(steering) > 1
        /\ InOrder(steering, tail, steers)
    BY <1>2 DEF WindowInv, WindowTypes, W!BoundSteering, W!TooMuchSteering
  <2>2. /\ summary' = W!Noted(summary, <<"owner">>) /\ steering' = Tail(steering)
        /\ at' = at /\ at = "fit" /\ UNCHANGED <<tail, windowSteps, steers>>
    BY <1>2 DEF W!BoundSteering
  <2>3. summary' \in Seq({"work", "owner"}) /\ Len(summary') <= SummaryLimit
    BY <2>1, <2>2, NotedIs, WindowNumbers
  <2>4. steering' \in Seq(Message)
    BY <2>1, <2>2
  <2>5. InOrder(steering', tail, steers)
    BY <2>1, <2>2, InOrderTail
  <2>6. WindowTypes'
    BY <2>2, <2>3, <2>4 DEF WindowInv, WindowTypes
  <2>7. Answered(tail')
    BY <2>2 DEF WindowInv
  <2>. QED  BY <2>2, <2>5, <2>6, <2>7 DEF WindowInv
<1>3. CASE W!Fold
  <2>1. W!FoldOldest /\ W!MayFold /\ at' \in {"batch", "fit"}
    BY <1>3 DEF W!Fold
  <2>. QED  BY <2>1, WindowFolds
<1>4. CASE W!FoldBatch
  <2>1. CASE W!FoldOldest /\ W!MayFold /\ at' = "batch"
    BY <2>1, WindowFolds
  <2>2. CASE at' = "fit" /\ UNCHANGED <<summary, steering, tail, windowSteps, steers>>
    BY <2>2, WindowGoesOn
  <2>. QED  BY <1>4, <2>1, <2>2 DEF W!FoldBatch
<1>5. CASE W!Folded \/ W!Ask \/ W!Reply \/ W!Fails \/ W!StepLimit \/ W!UnknownTool
  <2>1. UNCHANGED <<summary, steering, tail, windowSteps, steers>>
    BY <1>5 DEF W!Folded, W!Ask, W!Reply, W!Fails, W!StepLimit, W!UnknownTool
  <2>2. at' \in {"boundary", "fit", "batch", "check", "asked"} \cup W!Ended
    BY <1>5 DEF W!Folded, W!Ask, W!Reply, W!Fails, W!StepLimit, W!UnknownTool, W!Ended
  <2>3. at' = "asked" => ~W!OverRequest
    BY <1>5 DEF W!Folded, W!Ask, W!Reply, W!Fails, W!StepLimit, W!UnknownTool, W!Fits
  <2>. QED  BY <2>1, <2>2, <2>3, WindowGoesOn
<1>6. CASE W!RunCalls
  <2>1. PICK sizes \in {<<1>>, <<W!ResultLimit>>, <<1, W!ResultLimit>>} :
          tail' = Append(tail, W!Assistant(Len(sizes)))
                  \o [i \in 1..Len(sizes) |-> W!Result(sizes[i])]
    BY <1>6 DEF W!RunCalls
  <2>2. PICK r : r = [i \in 1..Len(sizes) |-> W!Result(sizes[i])]
    OBVIOUS
  <2>3. Len(sizes) \in Nat /\ \A i \in 1..Len(sizes) : sizes[i] \in Nat
    BY WindowNumbers
  <2>4. \A i \in 1..Len(sizes) : W!Result(sizes[i]) \in Message /\ W!Result(sizes[i]).role = "tool"
    BY <2>3 DEF Message, W!Result
  <2>5. r \in Seq(Message) /\ Len(r) = Len(sizes) /\ \A i \in 1..Len(r) : r[i].role = "tool"
    <3>1. r \in [1..Len(sizes) -> Message]
      BY <2>2, <2>4
    <3>2. r \in Seq(Message) /\ Len(r) = Len(sizes)
      BY <2>3, <3>1, IsASeq
    <3>. QED  BY <2>2, <2>4, <3>2
  <2>6. /\ tail' = Append(tail, W!Assistant(Len(r))) \o r
        /\ windowSteps' = windowSteps + 1 /\ at' = "boundary"
        /\ UNCHANGED <<summary, steering, steers>>
    BY <1>6, <2>1, <2>2, <2>5 DEF W!RunCalls
  <2>. QED  BY <2>5, <2>6, WindowAnswers
<1>7. CASE W!Truncated
  <2>1. PICK r : r = <<W!Result(1)>>
    OBVIOUS
  <2>2. r \in Seq(Message) /\ Len(r) = 1 /\ \A i \in 1..Len(r) : r[i].role = "tool"
    <3>1. W!Result(1) \in Message /\ W!Result(1).role = "tool"
      BY DEF Message, W!Result
    <3>. QED  BY <2>1, <3>1
  <2>3. tail \in Seq(Message) /\ W!Assistant(1) \in Message
    BY DEF WindowInv, WindowTypes, Message, W!Assistant
  <2>4. tail \o <<W!Assistant(1), W!Result(1)>> = Append(tail, W!Assistant(1)) \o r
    <3>1. PICK x, y : x = W!Assistant(1) /\ y = W!Result(1)
      OBVIOUS
    <3>2. x \in Message /\ y \in Message
      BY <3>1 DEF Message, W!Assistant, W!Result
    <3>3. tail \o <<x, y>> = Append(tail, x) \o <<y>>
      <4>1. <<x>> \in Seq(Message) /\ <<y>> \in Seq(Message) /\ <<x, y>> = <<x>> \o <<y>>
        <5>1. <<x>> \in Seq(Message) /\ <<y>> \in Seq(Message)
          BY <3>2
        <5>2. <<x, y>> = Append(<<x>>, y)
          BY <3>2
        <5>3. Append(<<x>>, y) = <<x>> \o <<y>>
          BY <3>2, <5>1, AppendIsConcat
        <5>. QED  BY <5>1, <5>2, <5>3
      <4>2. Append(tail, x) = tail \o <<x>>
        BY <2>3, <3>2, AppendIsConcat
      <4>. QED  BY <2>3, <4>1, <4>2, ConcatAssociative
    <3>. QED  BY <2>1, <3>1, <3>3
  <2>5. /\ tail' = Append(tail, W!Assistant(Len(r))) \o r
        /\ windowSteps' = windowSteps + 1 /\ at' = "boundary"
        /\ UNCHANGED <<summary, steering, steers>>
    BY <1>7, <2>2, <2>4 DEF W!Truncated, W!Counted
  <2>. QED  BY <2>2, <2>5, WindowAnswers
<1>. QED
  BY <1>1, <1>2, <1>3, <1>4, <1>5, <1>6, <1>7 DEF W!Next

(* With it, the requests are all right: every call has its results,        *)
LEMMA WindowHasResults == ASSUME WindowInv PROVE W!CallsHaveResults
  BY DEF WindowInv, Answered, W!CallsHaveResults

(* what the owner said is heard,                                           *)
LEMMA WindowIsHeard == ASSUME WindowInv PROVE W!CorrectionIsHeard
<1> SUFFICES ASSUME at = "asked" PROVE W!CorrectionIsHeard
  BY DEF W!CorrectionIsHeard
<1>1. /\ tail \in Seq(Message) /\ steering \in Seq(Message) /\ steers \in Nat
      /\ InOrder(steering, tail, steers)
      /\ windowSteps > 0 => \E i \in 1..Len(tail) : tail[i].role = "assistant"
  BY DEF WindowInv, WindowTypes
<1>2. PICK b : b = steering \o tail
  OBVIOUS
<1>. DEFINE n == Len(steering)
            T == {x \in Message : x.role = "user"}
<1>3. /\ b \in Seq(Message) /\ Len(b) = n + Len(tail) /\ n \in Nat /\ Len(tail) \in Nat
      /\ \A i \in 1..n : b[i] = steering[i]
      /\ \A i \in 1..Len(tail) : b[n + i] = tail[i]
  BY <1>1, <1>2, JoinIs
<1>. HIDE DEF n
<1>4. \A i \in 1..Len(b) : i \in 1..n \/ (\E j \in 1..Len(tail) : i = n + j)
  <2>1. \A i \in 1..Len(b) : i \in 1..n \/ (i - n \in 1..Len(tail) /\ i = n + (i - n))
    BY <1>3
  <2>. QED  BY <2>1
<1>5. ASSUME NEW i \in 1..Len(b), b[i].role = "user" PROVE b[i].n \in 1..steers
  <2>1. CASE i \in 1..n
    BY <1>1, <1>3, <2>1 DEF InOrder, n
  <2>2. ASSUME NEW j \in 1..Len(tail), i = n + j PROVE b[i].n \in 1..steers
    BY <1>1, <1>3, <1>5, <2>2 DEF InOrder
  <2>. QED  BY <1>4, <2>1, <2>2
<1>6. ASSUME NEW i \in 1..Len(b), NEW j \in 1..Len(b), i < j,
             b[i].role = "user", b[j].role = "user"
      PROVE  b[i].n < b[j].n
  <2>1. CASE j \in 1..n
    <3>1. i \in 1..n
      BY <1>3, <1>6, <2>1
    <3>. QED  BY <1>1, <1>3, <1>6, <2>1, <3>1 DEF InOrder, n
  <2>2. ASSUME NEW y \in 1..Len(tail), j = n + y PROVE b[i].n < b[j].n
    <3>1. b[j] = tail[y]
      BY <1>3, <2>2
    <3>2. CASE i \in 1..n
      BY <1>1, <1>3, <1>6, <3>1, <3>2 DEF InOrder, n
    <3>3. ASSUME NEW x \in 1..Len(tail), i = n + x PROVE b[i].n < b[j].n
      <4>1. b[i] = tail[x] /\ x < y
        BY <1>3, <1>6, <2>2, <3>3
      <4>. QED  BY <1>1, <1>6, <3>1, <4>1 DEF InOrder
    <3>. QED  BY <1>4, <3>2, <3>3
  <2>. QED  BY <1>4, <2>1, <2>2
<1>7. ASSUME steers > 0 PROVE \E i \in 1..Len(b) : b[i].role = "user" /\ b[i].n = steers
  <2>1. ASSUME NEW i \in 1..n, steering[i].n = steers
        PROVE  i \in 1..Len(b) /\ b[i].role = "user" /\ b[i].n = steers
    BY <1>1, <1>3, <2>1 DEF InOrder, n
  <2>2. ASSUME NEW i \in 1..Len(tail), tail[i].role = "user", tail[i].n = steers
        PROVE  n + i \in 1..Len(b) /\ b[n + i].role = "user" /\ b[n + i].n = steers
    BY <1>3, <2>2
  <2>3. \/ \E i \in 1..n : steering[i].n = steers
        \/ \E i \in 1..Len(tail) : tail[i].role = "user" /\ tail[i].n = steers
    BY <1>1, <1>7 DEF InOrder, n
  <2>. QED  BY <2>1, <2>2, <2>3
<1>8. PICK o, e : o = W!OwnersOf(b) /\ o \in Seq(Message) /\ PlacesOf(e, o, b, Len(b), T)
  BY <1>3, OwnersAre
<1>9. /\ \A i \in 1..Len(o) : e[i] \in 1..Len(b) /\ o[i] = b[e[i]] /\ b[e[i]].role = "user"
      /\ \A i, j \in 1..Len(o) : i < j => e[i] < e[j]
      /\ \A i \in 1..Len(b) : b[i].role = "user" => \E j \in 1..Len(o) : e[j] = i
  <2>1. \A i \in 1..Len(b) : b[i].role = "user" => b[i] \in T
    <3>1. \A i \in 1..Len(b) : b[i] \in Message
      BY <1>3, ElementOfSeq
    <3>. QED  BY <3>1
  <2>2. \A x \in T : x.role = "user"
    OBVIOUS
  <2>. HIDE DEF T
  <2>. QED  BY <1>8, <2>1, <2>2 DEF PlacesOf
<1>10. \A i, j \in 1..Len(o) : i < j => o[i].n < o[j].n
  BY <1>6, <1>9
<1>11. ASSUME steers > 0 PROVE o # <<>> /\ o[Len(o)].n = steers
  <2>1. PICK i \in 1..Len(b) : b[i].role = "user" /\ b[i].n = steers
    BY <1>7, <1>11
  <2>2. PICK j \in 1..Len(o) : e[j] = i
    BY <1>9, <2>1
  <2>3. Len(o) \in Nat /\ Len(o) \in 1..Len(o) /\ j \in 1..Len(o) /\ o[j].n = steers
    <3>1. Len(o) \in Nat
      BY <1>8, LenProperties
    <3>. QED  BY <1>9, <2>1, <2>2, <3>1
  <2>4. o # <<>>
    BY <2>3
  <2>5. o[Len(o)].n \in 1..steers
    BY <1>5, <1>9, <2>3
  <2>6. j < Len(o) => o[j].n < o[Len(o)].n
    BY <1>10, <2>3
  <2>7. CASE j = Len(o)
    BY <2>3, <2>4, <2>7
  <2>8. CASE j # Len(o)
    <3>1. j < Len(o)
      BY <2>3, <2>8
    <3>2. steers < o[Len(o)].n
      BY <2>3, <2>6, <3>1
    <3>. QED  BY <1>1, <2>5, <3>2
  <2>. QED  BY <2>7, <2>8
<1>. QED
  BY <1>1, <1>2, <1>8, <1>10, <1>11 DEF W!CorrectionIsHeard

(* and a request is no larger than the model takes.                        *)
LEMMA WindowFits == ASSUME WindowInv PROVE W!WithinAllowance
<1> SUFFICES ASSUME at = "asked" PROVE W!WithinAllowance
  BY DEF W!WithinAllowance
<1>1. /\ tail \in Seq(Message) /\ steering \in Seq(Message)
      /\ summary \in Seq({"work", "owner"}) /\ ~W!OverRequest
  BY DEF WindowInv, WindowTypes
<1>2. /\ W!Chars(steering \o tail) = W!Chars(steering) + W!Chars(tail)
      /\ W!Chars(steering) \in Nat /\ W!Chars(tail) \in Nat
  BY <1>1, CharsOfBoth
<1>3. W!Checkpoint \in Nat
  <2>1. Len(summary) \in Nat
    BY <1>1, LenProperties
  <2>. QED  BY <2>1 DEF W!Checkpoint
<1>4. ~ (Preserved + W!Checkpoint + W!Chars(steering) + W!Chars(tail) > Allowance)
  BY <1>1 DEF W!OverRequest, W!Mandatory
<1>5. Preserved + W!Checkpoint + W!Chars(steering \o tail) <= Allowance
  BY <1>2, <1>3, <1>4, WindowNumbers
<1>. QED  BY <1>5 DEF W!WithinAllowance

(* So does a step of another component.                                    *)
LEMMA WindowStays == ASSUME WindowInv, UNCHANGED windowVars PROVE WindowInv'
<1>1. at' = at /\ UNCHANGED <<summary, steering, tail, windowSteps, steers>>
  BY DEF windowVars
<1>. QED  BY <1>1, WindowGoesOn DEF WindowInv, WindowTypes

-----------------------------------------------------------------------------
(* Types                                                                   *)

(* What is proved of admission by itself.                                  *)
AP == INSTANCE ActiveTurns_proofs
       WITH Calls <- AdmissionCalls, Keys <- AdmissionKeys,
            key <- admissionKey, steerable <- admissionSteerable,
            joinable <- admissionJoinable, drained <- admissionDrained,
            returned <- admissionReturned

(* It is about the same calls and entries,                                 *)
LEMMA EntriesAreTheSame ==
  /\ AP!TypeOK <=> A!TypeOK
  /\ A!Init => AP!Init
  /\ AP!IsFiniteSet(AdmissionCalls) /\ AP!IsFiniteSet(Stoppers)
  /\ None \notin EntryIds \cup AdmissionCalls
<1>1. AP!TypeOK <=> A!TypeOK
  BY DEF A!TypeOK, AP!TypeOK, A!CallStates, AP!CallStates, A!StopStates, AP!StopStates,
         A!EntryType, AP!EntryType, A!TurnType, AP!TurnType
<1>2. A!Init => AP!Init
  BY DEF A!Init, AP!Init, A!NewEntry, AP!NewEntry, A!NoTurn, AP!NoTurn
<1>3. AP!IsFiniteSet(AdmissionCalls) /\ AP!IsFiniteSet(Stoppers)
  BY EntriesAssumption DEF A!FiniteCallers, A!IsFiniteSet, AP!IsFiniteSet
<1>4. None \notin EntryIds \cup AdmissionCalls
  BY EntriesAssumption DEF A!NoneAssumption
<1>. QED  BY <1>1, <1>2, <1>3, <1>4

(* and the same steps.                                                     *)
LEMMA EntriesStepTheSame ==
  ASSUME [A!Next]_A!vars
  PROVE  [AP!Next]_AP!vars
<1>. USE DEF A!inputVars, AP!inputVars, A!entryVars, AP!entryVars, A!readVars,
             AP!readVars, A!callVars, AP!callVars, A!stopVars, AP!stopVars,
             A!NoTurn, AP!NoTurn, A!NewEntry, AP!NewEntry, A!Live, AP!Live,
             A!Idle, AP!Idle, A!CanGrant, AP!CanGrant, A!GrantedBy,
             AP!GrantedBy, A!GrantNext, AP!GrantNext, A!StoreAndGrant,
             AP!StoreAndGrant, A!FinishPreparation, AP!FinishPreparation,
             A!Unreference, AP!Unreference, A!OwnsTurn, AP!OwnsTurn,
             A!CloseTurn, AP!CloseTurn, A!RemoveAt, AP!RemoveAt
<1>1. ASSUME NEW c \in AdmissionCalls, A!Arrive(c) PROVE AP!Arrive(c)
  BY <1>1 DEF A!Arrive, AP!Arrive
<1>2. ASSUME NEW c \in AdmissionCalls, A!Enqueue(c) PROVE AP!Enqueue(c)
  BY <1>2 DEF A!Enqueue, AP!Enqueue
<1>3. ASSUME NEW c \in AdmissionCalls, A!Cancel(c) PROVE AP!Cancel(c)
  BY <1>3 DEF A!Cancel, AP!Cancel
<1>4. ASSUME NEW c \in AdmissionCalls, A!GiveUpWaiting(c) PROVE AP!GiveUpWaiting(c)
  BY <1>4 DEF A!GiveUpWaiting, AP!GiveUpWaiting
<1>5. ASSUME NEW c \in AdmissionCalls, A!GiveUpGrant(c) PROVE AP!GiveUpGrant(c)
  BY <1>5 DEF A!GiveUpGrant, AP!GiveUpGrant
<1>6. ASSUME NEW c \in AdmissionCalls, A!DecideOwner(c) PROVE AP!DecideOwner(c)
  BY <1>6 DEF A!DecideOwner, AP!DecideOwner
<1>7. ASSUME NEW c \in AdmissionCalls, A!PrepareFails(c) PROVE AP!PrepareFails(c)
  BY <1>7 DEF A!PrepareFails, AP!PrepareFails
<1>8. ASSUME NEW c \in AdmissionCalls, A!PublishOwner(c) PROVE AP!PublishOwner(c)
  BY <1>8 DEF A!PublishOwner, AP!PublishOwner
<1>9. ASSUME NEW c \in AdmissionCalls, A!PublishSteer(c) PROVE AP!PublishSteer(c)
  BY <1>9 DEF A!PublishSteer, AP!PublishSteer
<1>10. ASSUME NEW c \in AdmissionCalls, A!ReturnFromAdmit(c) PROVE AP!ReturnFromAdmit(c)
  BY <1>10 DEF A!ReturnFromAdmit, AP!ReturnFromAdmit
<1>11. ASSUME NEW c \in AdmissionCalls, A!Pending(c) PROVE AP!Pending(c)
  BY <1>11 DEF A!Pending, AP!Pending
<1>12. ASSUME NEW c \in AdmissionCalls, A!Release(c) PROVE AP!Release(c)
  BY <1>12 DEF A!Release, AP!Release
<1>13. ASSUME NEW c \in AdmissionCalls, A!Cleanup(c) PROVE AP!Cleanup(c)
  BY <1>13 DEF A!Cleanup, AP!Cleanup
<1>14. ASSUME NEW c \in AdmissionCalls, A!ReleaseAgain(c) PROVE AP!ReleaseAgain(c)
  BY <1>14 DEF A!ReleaseAgain, AP!ReleaseAgain
<1>15. ASSUME NEW s \in Stoppers, A!FindEntry(s) PROVE AP!FindEntry(s)
  BY <1>15 DEF A!FindEntry, AP!FindEntry
<1>16. ASSUME NEW s \in Stoppers, A!MarkStopping(s) PROVE AP!MarkStopping(s)
  BY <1>16 DEF A!MarkStopping, AP!MarkStopping
<1>17. ASSUME NEW s \in Stoppers, A!ReturnFromStop(s) PROVE AP!ReturnFromStop(s)
  BY <1>17 DEF A!ReturnFromStop, AP!ReturnFromStop
<1>18. ASSUME UNCHANGED A!vars PROVE UNCHANGED AP!vars
  BY <1>18 DEF A!vars, AP!vars
<1>19. ASSUME A!Terminated PROVE UNCHANGED AP!vars
  BY <1>19, <1>18 DEF A!Terminated
<1>. QED
  BY <1>1, <1>2, <1>3, <1>4, <1>5, <1>6, <1>7, <1>8, <1>9, <1>10, <1>11, <1>12,
     <1>13, <1>14, <1>15, <1>16, <1>17, <1>18, <1>19 DEF A!Next, AP!Next

(* So the entries keep their types.                                        *)
LEMMA EntriesTyped ==
  /\ A!Init => A!TypeOK
  /\ A!TypeOK /\ [A!Next]_A!vars => A!TypeOK'
<1>1. A!Init => A!TypeOK
  BY EntriesAreTheSame, AP!InitType
<1>2. AP!TypeOK /\ [AP!Next]_AP!vars => AP!TypeOK'
  BY EntriesAreTheSame, AP!NextType
<1>. DEFINE P == AP!TypeOK <=> A!TypeOK
<1>3. P
  BY EntriesAreTheSame
<1>4. P'
  BY EntriesAreTheSame, PTL
<1>. QED  BY <1>1, <1>2, <1>3, <1>4, EntriesStepTheSame

(* A step of another component leaves the entries alone.                   *)
LEMMA EntriesStay == ASSUME A!TypeOK, UNCHANGED entriesVars PROVE A!TypeOK'
<1>1. UNCHANGED A!vars
  BY DEF entriesVars, A!vars, A!inputVars, A!entryVars, A!callVars, A!readVars, A!stopVars
<1>. QED  BY <1>1, EntriesTyped

(* What Run may have open, and what config.yaml may be.                    *)
DaemonHolds ==
    /\ file \in {None, "good", "unbuildable", "unloadable"}
    /\ held \subseteq {"database", "mcp", "gateway"}

LEMMA DaemonHoldsKept ==
  ASSUME DaemonHolds, N!Next \/ UNCHANGED daemonVars
  PROVE  DaemonHolds'
<1>1. CASE UNCHANGED <<file, held>>
  BY <1>1 DEF DaemonHolds
<1>2. CASE N!Build \/ N!Open \/ N!Unwind
  BY <1>2 DEF DaemonHolds, N!Build, N!Open, N!Unwind
<1>3. CASE N!InitializeConfig \/ N!CompleteSetup \/ N!Repair \/ N!Edit
  BY <1>3 DEF DaemonHolds, N!InitializeConfig, N!CompleteSetup, N!Repair, N!Edit, N!Loadable
<1>4. ASSUME NEW e \in Events, N!Enqueue(e) \/ N!HandleEvent(e) PROVE DaemonHolds'
  BY <1>1, <1>4 DEF N!Enqueue, N!HandleEvent
<1>5. CASE N!NeedsSetup \/ N!Fails \/ N!ExchangeToken \/ N!SetupExpires \/
           N!OpenFails \/ N!TakeEvent \/ N!Restart \/ N!LoopEnds \/ N!Returns
           \/ N!Shutdown \/ N!ShutdownTimesOut \/ N!Signal \/ N!OpenStream \/
           N!StreamEnds \/ N!ClockFires \/ N!HeartbeatTick \/ N!FinishHeartbeat
           \/ N!Paced
  BY <1>1, <1>5
     DEF N!NeedsSetup, N!Fails, N!ExchangeToken, N!SetupExpires, N!OpenFails,
         N!TakeEvent, N!Restart, N!LoopEnds, N!Returns, N!Shutdown,
         N!ShutdownTimesOut, N!Signal, N!OpenStream, N!StreamEnds,
         N!ClockFires, N!HeartbeatTick, N!FinishHeartbeat, N!Paced
<1>6. CASE UNCHANGED daemonVars
  BY <1>1, <1>6 DEF daemonVars
<1>. QED  BY <1>2, <1>3, <1>4, <1>5, <1>6, Zenon DEF N!Next

(* An event of the hub, and where a stream and a turn stand.               *)
Event == [kind : {"typing", "message"}, text : Texts \cup {None}, late : BOOLEAN]

StreamType ==
    [pc : {"none", "asked", "flushed", "open"}, thread : Threads \cup {None},
     registered : BOOLEAN, open : BOOLEAN, buffer : Seq(Event)]

ChatTurn ==
    [thread : Threads, text : Texts, pc : {"accepted", "running", "recorded", "delivered"}]

ChatTypes ==
    /\ live \subseteq Tabs /\ closing \in BOOLEAN
    /\ chatStream \in [Tabs -> StreamType]
    /\ \A t \in Tabs : Len(chatStream[t].buffer) <= BufferSize
    /\ turn \in ChatTurn \cup {None}
    /\ DOMAIN pane = Tabs
    /\ \A t \in Tabs : /\ DOMAIN pane[t] = {"thread", "history", "pending", "typing"}
                       /\ pane[t].thread \in Threads
    /\ \A f \in fetches : /\ DOMAIN f = {"tab", "thread", "rows"}
                          /\ f.tab \in Tabs /\ f.thread \in Threads

(* A step that offers nothing to a stream leaves one whose type is right.  *)
LEMMA ChatTypesInit == ASSUME C!Init PROVE ChatTypes
<1>1. \A t \in Tabs : chatStream[t] = C!NoStream
  BY DEF C!Init
<1>2. <<>> \in Seq(Event) /\ Len(<<>>) = 0 /\ 0 <= BufferSize
  BY EmptySeq, ChatAssumption DEF C!WebChatAssumption
<1>3. C!NoStream \in StreamType /\ Len(C!NoStream.buffer) <= BufferSize
  BY <1>2 DEF C!NoStream, StreamType
<1>4. chatStream \in [Tabs -> StreamType] /\ \A t \in Tabs : Len(chatStream[t].buffer) <= BufferSize
  BY <1>1, <1>3 DEF C!Init
<1>5. DOMAIN pane = Tabs /\ \A t \in Tabs : \E h \in Threads : pane[t] = C!Pane(h)
  BY DEF C!Init
<1>6. \A h \in Threads : /\ DOMAIN C!Pane(h) = {"thread", "history", "pending", "typing"}
                         /\ C!Pane(h).thread \in Threads
  BY DEF C!Pane
<1>7. \A t \in Tabs : /\ DOMAIN pane[t] = {"thread", "history", "pending", "typing"}
                      /\ pane[t].thread \in Threads
  BY <1>5, <1>6
<1>. QED  BY <1>4, <1>5, <1>7 DEF C!Init, ChatTypes

LEMMA ChatUnregisterTypes ==
  ASSUME ChatTypes, NEW t \in Tabs, C!Unregister(t)
  PROVE  /\ chatStream' \in [Tabs -> StreamType]
         /\ \A o \in Tabs : Len(chatStream'[o].buffer) <= BufferSize
<1>1. <<>> \in Seq(Event) /\ Len(<<>>) = 0 /\ 0 <= BufferSize
  BY EmptySeq, ChatAssumption DEF C!WebChatAssumption
<1>2. C!NoStream \in StreamType /\ Len(C!NoStream.buffer) <= BufferSize
  BY <1>1 DEF C!NoStream, StreamType
<1>3. chatStream' = [chatStream EXCEPT ![t] = C!NoStream]
  BY DEF C!Unregister
<1>. QED  BY <1>2, <1>3 DEF ChatTypes

LEMMA ChatBroadcastTypes ==
  ASSUME ChatTypes, NEW kind \in {"typing", "message"}, NEW text \in Texts \cup {None},
         C!Broadcast(kind, text)
  PROVE  /\ chatStream' \in [Tabs -> StreamType]
         /\ \A o \in Tabs : Len(chatStream'[o].buffer) <= BufferSize
<1>. DEFINE e(t) == [kind |-> kind, text |-> text, late |-> t \notin live /\ ~closing]
            d == [kind |-> kind, text |-> text, late |-> FALSE]
<1>1. \A t \in Tabs : chatStream'[t] = C!Offered(t, d)
  BY DEF C!Broadcast
<1>2. ASSUME NEW t \in Tabs
      PROVE  C!Offered(t, d) \in StreamType /\ Len(C!Offered(t, d).buffer) <= BufferSize
  <2>1. chatStream[t] \in StreamType /\ Len(chatStream[t].buffer) <= BufferSize
    BY DEF ChatTypes
  <2>2. [d EXCEPT !.late = t \notin live /\ ~closing] = e(t) /\ e(t) \in Event
    BY DEF Event
  <2>3. PICK b \in Seq(Event) : b = chatStream[t].buffer
    BY <2>1 DEF StreamType
  <2>4. Append(b, e(t)) \in Seq(Event) /\ Len(Append(b, e(t))) = Len(b) + 1 /\ Len(b) \in Nat
    BY <2>2, AppendProperties, LenProperties
  <2>5. CASE chatStream[t].registered /\ chatStream[t].thread = turn.thread
             /\ Len(chatStream[t].buffer) < BufferSize
    <3>1. C!Offered(t, d) = [chatStream[t] EXCEPT !.buffer = Append(b, e(t))]
      BY <2>2, <2>3, <2>5 DEF C!Offered
    <3>2. Len(b) + 1 <= BufferSize
      BY <2>3, <2>4, <2>5, ChatAssumption DEF C!WebChatAssumption
    <3>. HIDE DEF e, d
    <3>. QED  BY <2>1, <2>4, <3>1, <3>2 DEF StreamType
  <2>6. CASE ~ (chatStream[t].registered /\ chatStream[t].thread = turn.thread
                /\ Len(chatStream[t].buffer) < BufferSize)
    BY <2>1, <2>6 DEF C!Offered
  <2>. QED  BY <2>5, <2>6
<1>3. DOMAIN chatStream' = Tabs /\ chatStream' = [t \in Tabs |-> C!Offered(t, d)]
  BY DEF C!Broadcast
<1>. HIDE DEF d
<1>. QED  BY <1>2, <1>3

(* Every step of the web chat keeps the types.                             *)
LEMMA ChatTypesKept ==
  ASSUME ChatTypes, C!Next \/ UNCHANGED chatVars
  PROVE  ChatTypes'
<1>1. CASE UNCHANGED <<chatStream, live, closing, turn, pane, fetches>>
  BY <1>1 DEF ChatTypes
<1>2. ASSUME chatStream' \in [Tabs -> StreamType],
             \A o \in Tabs : Len(chatStream'[o].buffer) <= BufferSize,
             UNCHANGED <<live, pane, fetches>>,
             turn' \in ChatTurn \cup {None}, closing' \in BOOLEAN
      PROVE  ChatTypes'
  BY <1>2 DEF ChatTypes
<1>3. chatStream \in [Tabs -> StreamType] /\ turn \in ChatTurn \cup {None} /\ closing \in BOOLEAN
      /\ \A o \in Tabs : Len(chatStream[o].buffer) <= BufferSize
  BY DEF ChatTypes
<1>4. CASE C!CloseAccount
  <2>1. \A t \in Tabs : C!Gone(chatStream[t]) \in StreamType
                        /\ C!Gone(chatStream[t]).buffer = chatStream[t].buffer
    BY <1>3 DEF C!Gone, StreamType
  <2>2. /\ chatStream' = [t \in Tabs |-> IF chatStream[t].registered
                                         THEN C!Gone(chatStream[t]) ELSE chatStream[t]]
        /\ closing' = FALSE /\ UNCHANGED <<live, pane, fetches, turn>>
    BY <1>4 DEF C!CloseAccount
  <2>3. /\ chatStream' \in [Tabs -> StreamType]
        /\ \A o \in Tabs : Len(chatStream'[o].buffer) <= BufferSize
    BY <1>3, <2>1, <2>2
  <2>. QED  BY <1>2, <1>3, <2>2, <2>3
<1>5. CASE C!Revoke
  BY <1>5 DEF C!Revoke, ChatTypes
<1>6. ASSUME NEW t \in Tabs, C!Keepalive(t) \/ C!Leaves(t) \/ C!SeesClosed(t)
      PROVE  ChatTypes'
  <2>1. C!Unregister(t) /\ UNCHANGED <<live, closing, turn, pane, fetches>>
    BY <1>6 DEF C!Keepalive, C!Leaves, C!SeesClosed
  <2>. QED  BY <1>2, <1>3, <2>1, ChatUnregisterTypes
<1>7. ASSUME NEW t \in Tabs, NEW s \in StreamType, Len(s.buffer) <= BufferSize,
             chatStream' = [chatStream EXCEPT ![t] = s]
      PROVE  /\ chatStream' \in [Tabs -> StreamType]
             /\ \A o \in Tabs : Len(chatStream'[o].buffer) <= BufferSize
  BY <1>3, <1>7
<1>8. ASSUME NEW t \in Tabs, C!Connect(t) \/ C!Register(t) PROVE ChatTypes'
  <2>1. pane[t].thread \in Threads /\ chatStream[t] \in StreamType
    BY <1>3 DEF ChatTypes
  <2>2. PICK s \in StreamType : s.buffer = chatStream[t].buffer
                                /\ chatStream' = [chatStream EXCEPT ![t] = s]
    <3>1. CASE C!Connect(t)
      <4>1. chatStream' = [chatStream EXCEPT ![t] =
                [chatStream[t] EXCEPT !.pc = "asked", !.thread = pane[t].thread]]
        BY <1>3, <3>1 DEF C!Connect
      <4>. QED  BY <2>1, <4>1 DEF StreamType
    <3>2. CASE C!Register(t)
      <4>1. chatStream' = [chatStream EXCEPT ![t] =
                [chatStream[t] EXCEPT !.pc = "open", !.registered = TRUE, !.open = TRUE]]
        BY <1>3, <3>2 DEF C!Register
      <4>. QED  BY <2>1, <4>1 DEF StreamType
    <3>. QED  BY <1>8, <3>1, <3>2
  <2>3. UNCHANGED <<live, closing, turn, pane, fetches>>
    BY <1>8 DEF C!Connect, C!Register
  <2>. QED  BY <1>2, <1>3, <1>7, <2>2, <2>3
<1>9. ASSUME NEW t \in Tabs, NEW h \in Threads, NEW new,
             DOMAIN new = {"tab", "thread", "rows"}, new.tab = t, new.thread = h,
             fetches' \subseteq fetches \cup {new}
      PROVE  \A f \in fetches' : /\ DOMAIN f = {"tab", "thread", "rows"}
                                 /\ f.tab \in Tabs /\ f.thread \in Threads
  BY <1>9 DEF ChatTypes
<1>10. \A t \in Tabs : /\ DOMAIN C!Request(t) = {"tab", "thread", "rows"}
                       /\ C!Request(t).tab = t /\ C!Request(t).thread = pane[t].thread
                       /\ pane[t].thread \in Threads
  BY DEF C!Request, ChatTypes
<1>11. ASSUME NEW t \in Tabs, C!Flush(t) PROVE ChatTypes'
  <2>1. chatStream' = [chatStream EXCEPT ![t] = [chatStream[t] EXCEPT !.pc = "flushed"]]
    BY <1>3, <1>11 DEF C!Flush
  <2>2. PICK s \in StreamType : s.buffer = chatStream[t].buffer
                                /\ chatStream' = [chatStream EXCEPT ![t] = s]
    BY <1>3, <2>1 DEF StreamType
  <2>3. /\ chatStream' \in [Tabs -> StreamType]
        /\ \A o \in Tabs : Len(chatStream'[o].buffer) <= BufferSize
    BY <1>3, <1>7, <2>2
  <2>4. UNCHANGED <<live, closing, turn, pane>> /\ fetches' = fetches \cup {C!Request(t)}
    BY <1>11 DEF C!Flush
  <2>5. \A f \in fetches' : /\ DOMAIN f = {"tab", "thread", "rows"}
                            /\ f.tab \in Tabs /\ f.thread \in Threads
    BY <1>9, <1>10, <2>4
  <2>. QED  BY <2>3, <2>4, <2>5 DEF ChatTypes
<1>12. ASSUME NEW t \in Tabs, NEW p, pane' = [pane EXCEPT ![t] = p],
              DOMAIN p = {"thread", "history", "pending", "typing"}, p.thread \in Threads
       PROVE  /\ DOMAIN pane' = Tabs
              /\ \A o \in Tabs : /\ DOMAIN pane'[o] = {"thread", "history", "pending", "typing"}
                                 /\ pane'[o].thread \in Threads
  BY <1>12 DEF ChatTypes
<1>13. ASSUME NEW t \in Tabs, C!Take(t) PROVE ChatTypes'
  <2>1. PICK b \in Seq(Event) : b = chatStream[t].buffer /\ b # <<>> /\ Len(b) <= BufferSize
    BY <1>3, <1>13 DEF C!Take, StreamType
  <2>2. PICK e \in Event : e = Head(b)
    BY <2>1
  <2>3. Tail(b) \in Seq(Event) /\ Len(Tail(b)) <= BufferSize
    <3>1. Tail(b) \in Seq(Event) /\ Len(Tail(b)) = Len(b) - 1 /\ Len(b) \in Nat
      BY <2>1, HeadTailProperties, LenProperties
    <3>. QED  BY <2>1, <3>1, ChatAssumption DEF C!WebChatAssumption
  <2>4. /\ pane' = [pane EXCEPT ![t] = C!Drawn(pane[t], e)]
        /\ fetches' = IF e.kind = "message" THEN fetches \cup {C!Request(t)} ELSE fetches
        /\ chatStream' = [chatStream EXCEPT ![t] = [chatStream[t] EXCEPT !.buffer = Tail(b)]]
        /\ UNCHANGED <<live, closing, turn>>
    BY <1>3, <1>13, <2>1, <2>2 DEF C!Take, ChatTypes
  <2>5. PICK s \in StreamType : s.buffer = Tail(b) /\ chatStream' = [chatStream EXCEPT ![t] = s]
    BY <1>3, <2>3, <2>4 DEF StreamType
  <2>6. /\ chatStream' \in [Tabs -> StreamType]
        /\ \A o \in Tabs : Len(chatStream'[o].buffer) <= BufferSize
    BY <1>7, <2>3, <2>5
  <2>7. /\ DOMAIN C!Drawn(pane[t], e) = {"thread", "history", "pending", "typing"}
        /\ C!Drawn(pane[t], e).thread \in Threads
    <3>1. e.kind \in {"typing", "message"}
      BY <2>2 DEF Event
    <3>2. DOMAIN pane[t] = {"thread", "history", "pending", "typing"} /\ pane[t].thread \in Threads
      BY DEF ChatTypes
    <3>. QED  BY <3>1, <3>2 DEF C!Drawn
  <2>8. /\ DOMAIN pane' = Tabs
        /\ \A o \in Tabs : /\ DOMAIN pane'[o] = {"thread", "history", "pending", "typing"}
                           /\ pane'[o].thread \in Threads
    BY <1>12, <2>4, <2>7
  <2>9. fetches' \subseteq fetches \cup {C!Request(t)}
    BY <2>4
  <2>10. \A f \in fetches' : /\ DOMAIN f = {"tab", "thread", "rows"}
                             /\ f.tab \in Tabs /\ f.thread \in Threads
    BY <1>9, <1>10, <2>9
  <2>. QED  BY <1>3, <2>4, <2>6, <2>8, <2>10 DEF ChatTypes
<1>14. ASSUME NEW t \in Tabs, C!Switch(t) PROVE ChatTypes'
  <2>1. PICK h \in Threads \ {pane[t].thread} :
          /\ pane' = [pane EXCEPT ![t] = C!Pane(h)]
          /\ fetches' = fetches \cup {[tab |-> t, thread |-> h, rows |-> None]}
    BY <1>14 DEF C!Switch
  <2>2. C!Unregister(t) /\ UNCHANGED <<live, closing, turn>>
    BY <1>14 DEF C!Switch
  <2>3. /\ DOMAIN C!Pane(h) = {"thread", "history", "pending", "typing"}
        /\ C!Pane(h).thread \in Threads
    BY DEF C!Pane
  <2>4. /\ DOMAIN pane' = Tabs
        /\ \A o \in Tabs : /\ DOMAIN pane'[o] = {"thread", "history", "pending", "typing"}
                           /\ pane'[o].thread \in Threads
    BY <1>12, <2>1, <2>3
  <2>5. PICK f : f = [tab |-> t, thread |-> h, rows |-> None]
    OBVIOUS
  <2>6. DOMAIN f = {"tab", "thread", "rows"} /\ f.tab = t /\ f.thread = h /\ h \in Threads
    BY <2>5
  <2>7. fetches' \subseteq fetches \cup {f}
    BY <2>1, <2>5
  <2>8. \A g \in fetches' : /\ DOMAIN g = {"tab", "thread", "rows"}
                            /\ g.tab \in Tabs /\ g.thread \in Threads
    BY <1>9, <2>6, <2>7
  <2>. QED  BY <1>3, <2>2, <2>4, <2>8, ChatUnregisterTypes DEF ChatTypes
<1>15. CASE C!HistoryHandler
  <2>1. PICK f \in fetches :
          /\ fetches' = (fetches \ {f}) \cup {[f EXCEPT !.rows = record[f.thread]]}
          /\ UNCHANGED <<live, closing, chatStream, turn, pane>>
    BY <1>15 DEF C!HistoryHandler
  <2>2. DOMAIN f = {"tab", "thread", "rows"} /\ f.tab \in Tabs /\ f.thread \in Threads
    BY DEF ChatTypes
  <2>3. PICK g : g = [f EXCEPT !.rows = record[f.thread]]
    OBVIOUS
  <2>4. DOMAIN g = {"tab", "thread", "rows"} /\ g.tab = f.tab /\ g.thread = f.thread
    BY <2>2, <2>3
  <2>5. \A e \in fetches' : /\ DOMAIN e = {"tab", "thread", "rows"}
                            /\ e.tab \in Tabs /\ e.thread \in Threads
    BY <1>9, <2>1, <2>2, <2>3, <2>4
  <2>. QED  BY <2>1, <2>5 DEF ChatTypes
<1>16. CASE C!LoadHistory
  <2>1. PICK f \in fetches :
          /\ \E new : pane' = [pane EXCEPT ![f.tab].history = f.rows, ![f.tab].pending = new]
          /\ fetches' = fetches \ {f}
          /\ UNCHANGED <<live, closing, chatStream, turn>>
    BY <1>16 DEF C!LoadHistory
  <2>2. PICK new : pane' = [pane EXCEPT ![f.tab].history = f.rows, ![f.tab].pending = new]
    BY <2>1
  <2>3. f.tab \in Tabs
    BY DEF ChatTypes
  <2>4. pane' = [pane EXCEPT ![f.tab] = [pane[f.tab] EXCEPT !.history = f.rows, !.pending = new]]
    BY <2>2, <2>3 DEF ChatTypes
  <2>5. PICK p : p = [pane[f.tab] EXCEPT !.history = f.rows, !.pending = new]
    OBVIOUS
  <2>6. DOMAIN p = {"thread", "history", "pending", "typing"} /\ p.thread \in Threads
    BY <2>3, <2>5 DEF ChatTypes
  <2>7. /\ DOMAIN pane' = Tabs
        /\ \A o \in Tabs : /\ DOMAIN pane'[o] = {"thread", "history", "pending", "typing"}
                           /\ pane'[o].thread \in Threads
    BY <1>12, <2>3, <2>4, <2>5, <2>6
  <2>. QED  BY <2>1, <2>7 DEF ChatTypes
<1>17. ASSUME NEW t \in Tabs, C!HandleSend(t) PROVE ChatTypes'
  <2>1. PICK x \in Texts :
          /\ pane' = [pane EXCEPT ![t].pending = Append(@, x)]
          /\ turn' = [thread |-> pane[t].thread, text |-> x, pc |-> "accepted"]
    BY <1>17 DEF C!HandleSend
  <2>2. UNCHANGED <<live, closing, chatStream, fetches>>
    BY <1>17 DEF C!HandleSend
  <2>3. turn' \in ChatTurn
    BY <2>1 DEF ChatTurn, ChatTypes
  <2>4. PICK p : p = [pane[t] EXCEPT !.pending = Append(@, x)]
    OBVIOUS
  <2>5. DOMAIN p = {"thread", "history", "pending", "typing"} /\ p.thread \in Threads
    BY <2>4 DEF ChatTypes
  <2>6. pane' = [pane EXCEPT ![t] = p]
    BY <2>1, <2>4 DEF ChatTypes
  <2>7. /\ DOMAIN pane' = Tabs
        /\ \A o \in Tabs : /\ DOMAIN pane'[o] = {"thread", "history", "pending", "typing"}
                           /\ pane'[o].thread \in Threads
    BY <1>12, <2>5, <2>6
  <2>. QED  BY <2>2, <2>3, <2>7 DEF ChatTypes
<1>18. CASE C!Command \/ C!StartTyping \/ C!SendTyping \/ C!Deliver
  <2>1. turn # None /\ turn \in ChatTurn
    BY <1>3, <1>18 DEF C!Command, C!StartTyping, C!SendTyping, C!Deliver, C!At
  <2>2. turn.text \in Texts
    BY <2>1 DEF ChatTurn
  <2>3. C!Broadcast("message", turn.text) \/ C!Broadcast("typing", None)
    BY <1>18 DEF C!Command, C!StartTyping, C!SendTyping, C!Deliver
  <2>4. turn' \in ChatTurn
    BY <1>18, <2>1 DEF C!Command, C!StartTyping, C!SendTyping, C!Deliver, ChatTurn
  <2>5. UNCHANGED <<live, closing, pane, fetches>>
    BY <1>18 DEF C!Command, C!StartTyping, C!SendTyping, C!Deliver
  <2>6. /\ chatStream' \in [Tabs -> StreamType]
        /\ \A o \in Tabs : Len(chatStream'[o].buffer) <= BufferSize
    BY <2>2, <2>3, ChatBroadcastTypes
  <2>. QED  BY <1>2, <1>3, <2>4, <2>5, <2>6
<1>19. CASE C!Record \/ C!EndTurn
  <2>1. turn' \in ChatTurn \cup {None}
    BY <1>3, <1>19 DEF C!Record, C!EndTurn, C!At, ChatTurn
  <2>2. UNCHANGED <<live, closing, chatStream, pane, fetches>>
    BY <1>19 DEF C!Record, C!EndTurn
  <2>. QED  BY <2>1, <2>2 DEF ChatTypes
<1>20. CASE UNCHANGED chatVars
  BY <1>1, <1>20 DEF chatVars
<1>. QED
  BY <1>4, <1>5, <1>6, <1>8, <1>11, <1>13, <1>14, <1>15, <1>16, <1>17, <1>18,
     <1>19, <1>20 DEF C!Next

(* The choice of a model and the tries of a request.                       *)
SettingsTypes ==
    /\ chosen \in Aliases \cup {None}
    /\ level \in Levels \cup {None} /\ setting \in Levels \cup {None}
    /\ loaded \subseteq Aliases
    /\ DOMAIN call = {"at", "alias", "effort", "image", "tries"}
    /\ call.tries \in 0..2 /\ (call.at = "waiting" => call.tries # 2)
    /\ turns \in 0..MaxTurns /\ restarts \in 0..MaxRestarts

LEMMA SettingsTypesInit == ASSUME G!Init PROVE SettingsTypes
<1>1. Default \in Aliases /\ 0 \in 0..MaxTurns /\ 0 \in 0..MaxRestarts
  BY SettingsAssumption DEF G!SettingsAssumption
<1>. QED  BY <1>1 DEF G!Init, G!Idle, SettingsTypes

LEMMA SettingsTypesKept ==
  ASSUME SettingsTypes, G!Next \/ UNCHANGED settingsVars
  PROVE  SettingsTypes'
<1>1. CASE UNCHANGED <<chosen, level, setting, loaded, call, turns, restarts>>
  BY <1>1 DEF SettingsTypes
<1>2. MaxTurns \in Nat /\ MaxRestarts \in Nat
  BY SettingsAssumption DEF G!SettingsAssumption
<1>3. CASE G!Restart
  BY <1>2, <1>3 DEF SettingsTypes, G!Restart, G!Idle
<1>u. ASSUME UNCHANGED <<G!settings, G!files, turns, restarts>>,
            DOMAIN call' = DOMAIN call, call'.tries \in 0..2,
            call'.at = "waiting" => call'.tries # 2
     PROVE  SettingsTypes'
  BY <1>u DEF SettingsTypes, G!settings, G!files
<1>4. CASE G!BeginTurn
  <2>1. PICK seen \in BOOLEAN :
          call' = [G!Idle EXCEPT !.at = "chosen", !.alias = G!SelectedModel, !.image = seen]
    BY <1>4 DEF G!BeginTurn
  <2>2. /\ DOMAIN call' = {"at", "alias", "effort", "image", "tries"}
        /\ call'.tries = 0
    BY <2>1 DEF G!Idle
  <2>3. turns' \in 0..MaxTurns
    BY <1>2, <1>4 DEF SettingsTypes, G!BeginTurn
  <2>4. UNCHANGED <<chosen, level, setting, loaded, restarts>>
    BY <1>4 DEF G!BeginTurn, G!settings, G!files
  <2>. QED  BY <2>2, <2>3, <2>4 DEF SettingsTypes
<1>5. CASE G!EndTurn
  <2>1. /\ DOMAIN call' = DOMAIN call
        /\ call'.tries = 0
    BY <1>5 DEF G!EndTurn, G!Idle, SettingsTypes
  <2>. QED  BY <1>5, <1>u, <2>1 DEF G!EndTurn
<1>6. CASE G!ListModels \/ G!SupportsPart \/ G!ReadEffort
  <2>1. UNCHANGED <<G!settings, G!files, turns, restarts>>
    BY <1>6 DEF G!ListModels, G!SupportsPart, G!ReadEffort
  <2>2. /\ DOMAIN call' = DOMAIN call
        /\ call'.tries = call.tries
        /\ call'.at = call.at \/ call'.at # "waiting"
    BY <1>6 DEF G!ListModels, G!SupportsPart, G!ReadEffort, SettingsTypes
  <2>. QED  BY <1>u, <2>1, <2>2 DEF SettingsTypes
<1>7. CASE G!BuildRequest \/ G!Answer \/ G!Refused \/ G!Stop
  <2>1. UNCHANGED <<G!settings, G!files, turns, restarts>>
    BY <1>7 DEF G!BuildRequest, G!Answer, G!Refused, G!Stop
  <2>2. /\ DOMAIN call' = DOMAIN call
        /\ call'.tries = call.tries
        /\ call'.at # "waiting"
    BY <1>7 DEF G!BuildRequest, G!Answer, G!Refused, G!Stop, SettingsTypes
  <2>. QED  BY <1>u, <2>1, <2>2 DEF SettingsTypes
<1>8. CASE G!Fails
  <2>1. UNCHANGED <<G!settings, G!files, turns, restarts>>
    BY <1>8 DEF G!Fails
  <2>2. /\ DOMAIN call' = DOMAIN call
        /\ call'.tries = call.tries
        /\ call'.at = "waiting" => call.tries # 2
    BY <1>8 DEF G!Fails, G!LastTry, SettingsTypes
  <2>. QED  BY <1>u, <2>1, <2>2 DEF SettingsTypes
<1>9. CASE G!TryAgain
  <2>1. UNCHANGED <<G!settings, G!files, turns, restarts>>
    BY <1>9 DEF G!TryAgain
  <2>2. /\ DOMAIN call' = DOMAIN call
        /\ call'.tries = call.tries + 1
        /\ call'.at = "calling"
    BY <1>9 DEF G!TryAgain, SettingsTypes
  <2>3. call.tries \in 0..2 /\ call.tries # 2
    BY <1>9 DEF G!TryAgain, SettingsTypes
  <2>. QED  BY <1>u, <2>1, <2>2, <2>3
<1>10. CASE G!PickModel
  <2>1. UNCHANGED <<level, setting, loaded, call, turns, restarts>>
    BY <1>10 DEF G!PickModel, G!SelectModel, G!turning, G!files
  <2>. QED  BY <1>10, <2>1 DEF SettingsTypes, G!PickModel, G!SelectModel
<1>11. CASE G!WriteEffort \/ G!ResetEffort
  BY <1>11 DEF SettingsTypes, G!WriteEffort, G!ResetEffort, G!turning, G!files
<1>12. ASSUME NEW e \in Levels, G!CheckEffort(e) PROVE SettingsTypes'
  BY <1>12 DEF SettingsTypes, G!CheckEffort, G!turning, G!files
<1>13. ASSUME NEW x \in Adders, NEW a \in Aliases, G!CheckAdd(x, a) PROVE SettingsTypes'
  BY <1>1, <1>13 DEF G!CheckAdd, G!turning, G!settings
<1>14. ASSUME NEW x \in Adders, G!CatalogFails(x) \/ G!SetModelAlias(x)
       PROVE  SettingsTypes'
  BY <1>1, <1>14 DEF G!CatalogFails, G!SetModelAlias, G!turning, G!settings
<1>15. ASSUME NEW a \in Aliases, G!RemoveModelAlias(a) PROVE SettingsTypes'
  BY <1>1, <1>15 DEF G!RemoveModelAlias, G!turning, G!settings
<1>16. CASE UNCHANGED settingsVars
  BY <1>1, <1>16 DEF settingsVars
<1>. QED
  BY <1>3, <1>4, <1>5, <1>6, <1>7, <1>8, <1>9, <1>10, <1>11, <1>12, <1>13, <1>14,
     <1>15, <1>16
     DEF G!Next, G!TurnSteps

(* Together they are what the components promise of their types.           *)
LEMMA PromisedTypes ==
  /\ ChatTypes => C!TypeOK
  /\ SettingsTypes => G!TypeOK
  /\ DaemonHolds => file \in {None, "good", "unbuildable", "unloadable"}
  /\ DaemonHolds => held \subseteq {"database", "mcp", "gateway"}
  BY DEF ChatTypes, C!TypeOK, SettingsTypes, G!TypeOK, DaemonHolds

-----------------------------------------------------------------------------
(* The sum                                                                 *)

(* A turn's request is only made where settings or the window are.         *)
SumInv ==
    /\ TurnInv /\ JobInv /\ DaemonInv /\ ChatInv
    /\ A!TypeOK /\ DaemonHolds /\ ChatTypes
    /\ focus = "window" => WindowInv
    /\ focus = "settings" => SettingsInv /\ SettingsTypes

(* What a behaviour is not about is at rest where the components start.    *)
LEMMA SumStarts == ASSUME SumInit PROVE SumInv
<1>1. Init /\ S!Init /\ N!Init /\ C!Init /\ A!Init
  BY DEF SumInit, TurnsAtRest, SchedulesAtRest, DaemonAtRest, ChatAtRest, EntriesAtRest
<1>2. (focus = "settings" => G!Init) /\ (focus = "window" => W!Init)
  BY DEF SumInit
<1>3. TurnInv /\ JobInv /\ DaemonInv /\ ChatInv
  BY <1>1, TurnRunAssumption, SchedulesAssumption, TurnsInit, JobsInit, DaemonInit,
     ChatInit
<1>4. A!TypeOK /\ ChatTypes
  BY <1>1, EntriesTyped, ChatTypesInit
<1>5. DaemonHolds
  BY <1>1 DEF N!Init, DaemonHolds
<1>6. (focus = "settings" => SettingsInv /\ SettingsTypes)
      /\ (focus = "window" => WindowInv)
  BY <1>2, SettingsInit, SettingsTypesInit, WindowInit
<1>. QED  BY <1>3, <1>4, <1>5, <1>6 DEF SumInv

(* A step is one of the component that the behaviour is about, and leaves  *)
(* each of the others alone.                                               *)
LEMMA StepOfOne ==
  ASSUME [SumNext]_sumVars
  PROVE  /\ focus' = focus
         /\ Next \/ UNCHANGED turnsVars
         /\ A!Next \/ UNCHANGED entriesVars
         /\ S!Next \/ UNCHANGED schedulesVars
         /\ N!Next \/ UNCHANGED daemonVars
         /\ C!Next \/ UNCHANGED chatVars
         /\ focus = "window" => W!Next \/ UNCHANGED windowVars
         /\ focus = "settings" => G!Next \/ UNCHANGED settingsVars
<1>1. CASE UNCHANGED sumVars
  BY <1>1 DEF sumVars
<1>2. CASE SumNext
  BY <1>2 DEF SumNext, TurnsStep, EntriesStep, SchedulesStep, DaemonStep,
              ChatStep, WindowStep, SettingsStep
<1>. QED  BY <1>1, <1>2

(* Every step keeps the invariant of every component.                      *)
LEMMA SumKept ==
  ASSUME SumInv, [SumNext]_sumVars
  PROVE  SumInv'
<1>1. JobInv'
  BY StepOfOne, SchedulesAssumption, JobsStep, JobsStays DEF SumInv
<1>2. DaemonInv'
  BY StepOfOne, DaemonKept, DaemonStays DEF SumInv
<1>3. ChatInv'
  BY StepOfOne, ChatKept, ChatStays DEF SumInv
<1>4. ASSUME focus' = "settings" PROVE SettingsInv' /\ SettingsTypes'
  <2>1. focus = "settings" /\ (G!Next \/ UNCHANGED settingsVars)
    BY <1>4, StepOfOne
  <2>2. SettingsInv /\ SettingsTypes
    BY <2>1 DEF SumInv
  <2>. QED  BY <2>1, <2>2, SettingsKept, SettingsStays, SettingsTypesKept
<1>5. TurnInv'
  BY StepOfOne, TurnRunAssumption, TurnsNext, TurnsStay DEF SumInv
<1>6. ASSUME focus' = "window" PROVE WindowInv'
  BY <1>6, StepOfOne, WindowStepInv, WindowStays DEF SumInv
<1>7. A!TypeOK'
  BY StepOfOne, EntriesTyped, EntriesStay DEF SumInv
<1>8. DaemonHolds' /\ ChatTypes'
  BY StepOfOne, DaemonHoldsKept, ChatTypesKept DEF SumInv
<1>. QED  BY <1>1, <1>2, <1>3, <1>4, <1>5, <1>6, <1>7, <1>8 DEF SumInv

(* What turns, claims, the daemon, the streams and the settings keep, they *)
(* keep in every behaviour.                                                *)
THEOREM SumInductive == SumSpec => []SumInv
<1>1. SumInit => SumInv
  BY SumStarts
<1>2. SumInv /\ [SumNext]_sumVars => SumInv'
  BY SumKept
<1>. QED  BY <1>1, <1>2, PTL DEF SumSpec

(* A message is worked on by one turn, once, recorded once and by whoever  *)
(* had to record it, and an unprompted turn works on nothing but its own   *)
(* instruction: however many steers join, are read, are returned and are   *)
(* merged into follow-ups that are returned themselves (turns/run.go).     *)
THEOREM EachOnceAlways == SumSpec => []EachOnce
<1>1. SumInv => EachOnce
  BY TurnRunAssumption, TurnIsOnce DEF SumInv
<1>. QED  BY <1>1, SumInductive, PTL

(* Once everything is done every message was worked on by a turn, was a    *)
(* command, or was lost to a turn that failed or refused its own input: no *)
(* order of joining, reading, stopping and ending loses another            *)
(* (turns/run.go, loop.go).                                                *)
THEOREM NothingLostAlways == SumSpec => []NothingLost
<1>1. SumInv => NothingLost
  BY TurnRunAssumption, NoneIsLost DEF SumInv
<1>. QED  BY <1>1, SumInductive, PTL

(* A claimed run is in one worker's hands and never in nobody's, a job     *)
(* advances only past a run that was delivered, and a run in the ledger is *)
(* not delivered again while the ledger keeps it: whichever worker dies,   *)
(* conflicts or is too late (scheduler.go, dispatcher.go).                 *)
THEOREM JobsAlwaysSafe == SumSpec => JobsSafe
<1>1. SumInv => S!ClaimedByOne /\ S!CompletedWasDelivered /\ S!NoOrphanedClaim
  BY DEF SumInv, JobInv
<1>2. SumInv /\ [SumNext]_sumVars
        => [\A r \in S!Runs : delivered'[r] > delivered[r] =>
               recorded[r] = 0 \/ now > recorded[r] + Retention]_(S!vars)
  <2>1. SUFFICES ASSUME SumInv, [SumNext]_sumVars, ~ UNCHANGED S!vars,
                        NEW r \in S!Runs, delivered'[r] > delivered[r]
                 PROVE  recorded[r] = 0 \/ now > recorded[r] + Retention
    OBVIOUS
  <2>2. UNCHANGED schedulesVars => UNCHANGED S!vars
    BY DEF schedulesVars, S!vars, S!daemonVars, S!ledgerVars, S!workerVars
  <2>3. S!Next
    BY <2>1, <2>2, StepOfOne
  <2>. QED  BY <2>1, <2>3, SchedulesAssumption, JobsNotAgain DEF SumInv
<1>. QED
  BY <1>1, <1>2, SumInductive, PTL
     DEF SumSpec, JobsSafe, S!NotAgainOnceRecorded

(* The heartbeat's clock is armed again by whoever consumes it, nothing    *)
(* runs over closed stores, and no stream's channel is closed twice or     *)
(* sent to afterwards: in whichever order the daemon is drained, restarted *)
(* or stopped, and streams and sessions end (run.go, heartbeat.go,         *)
(* hub.go).                                                                *)
THEOREM DaemonAlwaysSafe == SumSpec => []DaemonSafe
<1>1. SumInv => DaemonSafe
  BY DaemonIsSafe DEF SumInv, DaemonSafe, ChatInv, C!NoPanic
<1>. QED  BY <1>1, SumInductive, PTL

(* What the owner said last is in the next request word for word, however  *)
(* often the live window was folded on the way, every call in it has its   *)
(* results right behind it, the request is no larger than the model takes, *)
(* and an image goes to no model that is known not to read it              *)
(* (compaction.go, loop.go, run.go, model.go).                             *)
THEOREM RequestsAlwaysSafe == SumSpec => []RequestsSafe
<1>1. SumInv => RequestsSafe
  BY WindowHasResults, WindowIsHeard, WindowFits
     DEF SumInv, RequestsSafe, SettingsInv, G!NotDropped
<1>. QED  BY <1>1, SumInductive, PTL

(* Every variable of what a behaviour is about keeps its type: admission's *)
(* entries, waiters and steers (turns.go), a turn's phase, steps and log   *)
(* (run.go), a job's row, claim and ledger (scheduler.go), what the daemon *)
(* holds open (run.go), the buffers of the streams and the messages a pane *)
(* shows (hub.go), the window and its summary (compaction.go), and the     *)
(* choice of a model and the tries of a request (model.go).                *)
THEOREM TypesAlwaysOK == SumSpec => []SumTypeOK
<1>1. SumInv => TypeOK /\ A!TypeOK /\ S!TypeOK /\ C!TypeOK
  BY PromisedTypes DEF SumInv, TurnInv, JobInv
<1>2. SumInv => N!TypeOK
  BY PromisedTypes DEF SumInv, DaemonInv, N!TypeOK
<1>3. WindowInv => W!TypeOK
  <2>1. SUFFICES ASSUME WindowTypes PROVE W!TypeOK
    BY DEF WindowInv
  <2>2. ASSUME NEW i \in 1..Len(tail) PROVE tail[i].role \in {"assistant", "tool", "user"}
    <3>1. tail[i] \in Message
      BY <2>1, ElementOfSeq DEF WindowTypes
    <3>. QED  BY <3>1 DEF Message
  <2>3. ASSUME NEW i \in 1..Len(summary) PROVE summary[i] \in {"work", "owner"}
    BY <2>1, ElementOfSeq DEF WindowTypes
  <2>. QED  BY <2>1, <2>2, <2>3 DEF WindowTypes, W!TypeOK
<1>4. SumInv => (focus = "window" => W!TypeOK) /\ (focus = "settings" => G!TypeOK)
  BY <1>3, PromisedTypes DEF SumInv
<1>5. SumInv => SumTypeOK
  BY <1>1, <1>2, <1>4 DEF SumTypeOK
<1>. QED  BY <1>5, SumInductive, PTL
=====================

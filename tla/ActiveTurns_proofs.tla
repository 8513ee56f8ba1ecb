-------------------------- MODULE ActiveTurns_proofs --------------------------
(***************************************************************************)
(* What is proved of ActiveTurns for any number of inputs, stoppers,       *)
(* conversations and entries.                                              *)
(***************************************************************************)
EXTENDS ActiveTurns, FiniteSetTheorems, SequenceTheorems, TLAPS

-----------------------------------------------------------------------------
(* The inductive invariant *)

(* A call between its grant and the end of its preparation. *)
PreparingIn(c, pcs, gr) == pcs[c] \in {"waiting", "prepared"} /\ c \in gr
Preparing(c) == PreparingIn(c, pc, granted)

(* The queue w of entry e holds calls that wait there, each once. *)
QueueOK(e, w, pcs, gr) ==
    /\ \A i \in 1..Len(w) :
         pcs[w[i]] = "waiting" /\ w[i] \notin gr /\ entry[w[i]] = e
    /\ \A i, j \in 1..Len(w) : w[i] = w[j] => i = j

(* The flag busy of entry e is the mutual exclusion of admission. *)
PreparingOK(e, busy, pcs, gr) ==
    /\ \A c \in Calls : PreparingIn(c, pcs, gr) /\ entry[c] = e => busy
    /\ \A c, d \in Calls :
         /\ PreparingIn(c, pcs, gr) /\ entry[c] = e
         /\ PreparingIn(d, pcs, gr) /\ entry[d] = e
         => c = d

AdmissionInv ==
    \A e \in EntryIds : /\ QueueOK(e, heap[e].waiters, pc, granted)
                        /\ PreparingOK(e, heap[e].preparing, pc, granted)

GrantInv ==
    \A c \in Calls : /\ c \in granted => pc[c] \notin {"idle", "acquired"}
                     /\ pc[c] = "prepared" => c \in granted

(* What a granted call found in its entry still holds when it publishes. *)
DecisionInv ==
    \A c \in Calls :
      /\ pc[c] = "prepared" => (owner[c] <=> ~Live(heap[entry[c]]))
      /\ Preparing(c) /\ Live(heap[entry[c]])
         => /\ joinable[c] /\ steerable[c]
            /\ heap[entry[c]].active.steerable
            /\ ~heap[entry[c]].active.stopping

(* Generations name executions: they are never given twice. *)
GenerationInv ==
    /\ \A e \in EntryIds : heap[e].active.generation <= heap[e].next
    /\ \A c \in Calls : generation[c] # 0 =>
         /\ pc[c] \in {"admitted", "running", "released", "cleaned", "finished"}
         /\ generation[c] <= heap[entry[c]].next
    /\ \A c \in Calls : Executing(c) =>
         generation[c] # 0 /\ OwnsTurn(c)
    /\ \A c, d \in Calls :
         /\ generation[c] # 0
         /\ generation[c] = generation[d]
         /\ entry[c] = entry[d]
         => c = d

(* References count the callers inside Admit or Stop. *)
InAdmit(c) == pc[c] \in {"acquired", "waiting", "prepared", "admitted",
                         "joining", "leaving"}
InStop(s) == stopPc[s] \in {"found", "missed", "marked"}

AdmitHolders(e) == {c \in Calls : InAdmit(c) /\ entry[c] = e}
StopHolders(e) == {s \in Stoppers : InStop(s) /\ stopEntry[s] = e}

ReferenceInv ==
    \A e \in EntryIds :
        heap[e].references =
            Cardinality(AdmitHolders(e)) + Cardinality(StopHolders(e))

(* Whoever may still act on an entry holds the one in the map. *)
MappedInv ==
    /\ \A c \in Calls :
         InAdmit(c) \/ Executing(c) => entries[key[c]] = entry[c]
    /\ \A s \in Stoppers : InStop(s) => entries[stopKey[s]] = stopEntry[s]

IInv == /\ TypeOK
        /\ AdmissionInv
        /\ GrantInv
        /\ DecisionInv
        /\ GenerationInv
        /\ ReferenceInv
        /\ MappedInv

-----------------------------------------------------------------------------
(* Lemmas about the entry operators *)

(* A new entry is an entry. *)
LEMMA NewEntryType == NewEntry \in EntryType
  BY DEF NewEntry, NoTurn, EntryType, TurnType

(* grantNextLocked changes who prepares and who waits, and nothing else. *)
LEMMA GrantNextFields ==
  ASSUME NEW en \in EntryType
  PROVE  /\ GrantNext(en) \in EntryType
         /\ GrantNext(en).next = en.next
         /\ GrantNext(en).active = en.active
         /\ GrantNext(en).references = en.references
         /\ CanGrant(en) => /\ GrantNext(en).preparing = TRUE
                            /\ GrantNext(en).waiters = Tail(en.waiters)
                            /\ en.waiters # <<>>
                            /\ ~en.preparing
         /\ ~CanGrant(en) => GrantNext(en) = en
<1>1. CanGrant(en) => en.waiters # <<>> /\ ~en.preparing
  BY DEF CanGrant
<1>2. CASE CanGrant(en)
  <2>1. GrantNext(en) = [en EXCEPT !.waiters = Tail(@), !.preparing = TRUE]
    BY <1>2 DEF GrantNext
  <2>2. Tail(en.waiters) \in Seq(Calls)
    BY <1>1, <1>2 DEF EntryType
  <2>. QED  BY <1>1, <1>2, <2>1, <2>2 DEF EntryType
<1>3. CASE ~CanGrant(en)
  BY <1>3 DEF GrantNext
<1>. QED  BY <1>2, <1>3

(* Fields of an entry, and entries with one field replaced. *)
LEMMA EntryFields ==
  ASSUME NEW en \in EntryType
  PROVE  /\ en.next \in Nat
         /\ en.active \in TurnType
         /\ en.active.pending \in Seq(Calls)
         /\ en.active.generation \in Nat
         /\ en.preparing \in BOOLEAN
         /\ en.waiters \in Seq(Calls)
         /\ en.references \in Int
  BY DEF EntryType, TurnType

(* An entry with one field replaced is an entry. *)
LEMMA EntryUpdates ==
  ASSUME NEW en \in EntryType
  PROVE  /\ \A w \in Seq(Calls) : [en EXCEPT !.waiters = w] \in EntryType
         /\ \A r \in Int : [en EXCEPT !.references = r] \in EntryType
         /\ \A b \in BOOLEAN : [en EXCEPT !.preparing = b] \in EntryType
         /\ \A t \in TurnType : [en EXCEPT !.active = t] \in EntryType
         /\ \A n \in Nat : [en EXCEPT !.next = n] \in EntryType
  BY DEF EntryType

(* So is a turn with another inbox, or one that is being stopped. *)
LEMMA TurnUpdates ==
  ASSUME NEW t \in TurnType
  PROVE  /\ \A p \in Seq(Calls) : [t EXCEPT !.pending = p] \in TurnType
         /\ [t EXCEPT !.stopping = TRUE] \in TurnType
  BY DEF TurnType

(* What leaving the head of a queue leaves. *)
LEMMA TailFacts ==
  ASSUME NEW S, NEW w \in Seq(S), w # <<>>
  PROVE  /\ Head(w) \in S
         /\ Head(w) = w[1]
         /\ Len(w) \in Nat /\ Len(w) >= 1
         /\ Tail(w) \in Seq(S)
         /\ Len(Tail(w)) = Len(w) - 1
         /\ \A i \in 1..Len(Tail(w)) : Tail(w)[i] = w[i+1]
  OBVIOUS

(* What removing the n-th of a queue leaves. *)
LEMMA RemoveAtFacts ==
  ASSUME NEW S, NEW w \in Seq(S), NEW n \in 1..Len(w)
  PROVE  /\ RemoveAt(w, n) \in Seq(S)
         /\ Len(RemoveAt(w, n)) = Len(w) - 1
         /\ \A i \in 1..(Len(w) - 1) :
              RemoveAt(w, n)[i] = IF i < n THEN w[i] ELSE w[i+1]
<1>. DEFINE front == SubSeq(w, 1, n-1)
            rest == SubSeq(w, n+1, Len(w))
<1>1. Len(w) \in Nat /\ \A i \in 1..Len(w) : w[i] \in S
  OBVIOUS
<1>2. /\ front \in Seq(S)
      /\ Len(front) = n - 1
      /\ \A i \in 1..(n-1) : front[i] = w[i]
  BY <1>1, SubSeqProperties
<1>3. /\ rest \in Seq(S)
      /\ Len(rest) = Len(w) - n
      /\ \A i \in 1..(Len(w) - n) : rest[i] = w[n+i]
  <2>1. /\ rest \in Seq(S)
        /\ Len(rest) = IF n+1 <= Len(w) THEN Len(w) - (n+1) + 1 ELSE 0
        /\ \A i \in 1..(Len(w) - (n+1) + 1) : rest[i] = w[n+1+i-1]
    <3>. HIDE DEF rest
    <3>1. n+1 \in Int /\ Len(w) \in Int /\ \A i \in (n+1)..Len(w) : w[i] \in S
      BY <1>1
    <3>. QED  BY <3>1, SubSeqProperties DEF rest
  <2>. QED  BY <1>1, <2>1
<1>. HIDE DEF front, rest
<1>4. /\ front \o rest \in Seq(S)
      /\ Len(front \o rest) = Len(front) + Len(rest)
      /\ \A i \in 1..(Len(front) + Len(rest)) :
           (front \o rest)[i] = IF i <= Len(front) THEN front[i]
                                ELSE rest[i - Len(front)]
  BY <1>2, <1>3, ConcatProperties
<1>5. RemoveAt(w, n) = front \o rest
  BY DEF RemoveAt, front, rest
<1>6. Len(front) + Len(rest) = Len(w) - 1
  BY <1>1, <1>2, <1>3
<1>7. ASSUME NEW i \in 1..(Len(w) - 1)
      PROVE  (front \o rest)[i] = IF i < n THEN w[i] ELSE w[i+1]
  <2>1. (front \o rest)[i] = IF i <= n-1 THEN front[i] ELSE rest[i - (n-1)]
    BY <1>2, <1>4, <1>6
  <2>2. CASE i < n
    BY <1>1, <1>2, <2>1, <2>2
  <2>3. CASE ~(i < n)
    <3>1. i - (n-1) \in 1..(Len(w) - n) /\ n + (i - (n-1)) = i + 1
      BY <1>1, <2>3
    <3>2. rest[i - (n-1)] = w[i+1]
      BY <1>3, <3>1
    <3>. QED  BY <1>1, <2>1, <2>3, <3>2
  <2>. QED  BY <2>2, <2>3
<1>. QED  BY <1>4, <1>5, <1>6, <1>7

-----------------------------------------------------------------------------
(* Type correctness *)

(* An entry.mu section stores a well-formed entry and grants calls only. *)
LEMMA StoreType ==
  ASSUME TypeOK, NEW e \in EntryIds, NEW en \in EntryType, StoreAndGrant(e, en)
  PROVE  /\ heap' \in [EntryIds -> EntryType]
         /\ granted' \subseteq Calls
<1>1. GrantNext(en) \in EntryType
  BY GrantNextFields
<1>2. GrantedBy(en) \subseteq Calls
  BY DEF GrantedBy, CanGrant, EntryType
<1>. QED  BY <1>1, <1>2 DEF TypeOK, StoreAndGrant

(* The first state has the types. *)
LEMMA InitType == Init => TypeOK
  BY NewEntryType DEF Init, TypeOK, CallStates, StopStates

(* Every step keeps the types. *)
LEMMA NextType == TypeOK /\ [Next]_vars => TypeOK'
<1>. SUFFICES ASSUME TypeOK, [Next]_vars PROVE TypeOK'
  OBVIOUS
<1>. USE DEF CallStates, StopStates
<1>a. heap \in [EntryIds -> EntryType]
  BY DEF TypeOK
<1>b. \A c \in Calls : pc[c] # "idle" => entry[c] \in EntryIds /\ heap[entry[c]] \in EntryType
  BY <1>a DEF TypeOK
<1>c. \A e \in EntryIds, r \in {-1, 1} :
        [heap EXCEPT ![e].references = @ + r] \in [EntryIds -> EntryType]
  <2>. SUFFICES ASSUME NEW e \in EntryIds, NEW r \in {-1, 1}
                PROVE  [heap EXCEPT ![e].references = @ + r] \in [EntryIds -> EntryType]
    OBVIOUS
  <2>1. heap[e] \in EntryType /\ heap[e].references + r \in Int
    BY <1>a, EntryFields
  <2>2. [heap[e] EXCEPT !.references = @ + r] \in EntryType
    BY <2>1, EntryUpdates
  <2>. QED  BY <1>a, <2>2
<1>1. ASSUME NEW c \in Calls, Arrive(c) PROVE TypeOK'
  <2>1. PICK e \in EntryIds : /\ entries' = [entries EXCEPT ![key[c]] = e]
                              /\ fresh' = fresh \ {e}
                              /\ heap' = [heap EXCEPT ![e].references = @ + 1]
                              /\ entry' = [entry EXCEPT ![c] = e]
    BY <1>1 DEF Arrive
  <2>2. heap' \in [EntryIds -> EntryType]
    BY <2>1, <1>c
  <2>. QED  BY <1>1, <2>1, <2>2 DEF Arrive, TypeOK, inputVars, readVars, stopVars
<1>2. ASSUME NEW c \in Calls, Enqueue(c) PROVE TypeOK'
  <2>1. entry[c] \in EntryIds /\ heap[entry[c]] \in EntryType
    BY <1>2, <1>b DEF Enqueue
  <2>2. Append(heap[entry[c]].waiters, c) \in Seq(Calls)
    BY <2>1, EntryFields
  <2>3. [heap[entry[c]] EXCEPT !.waiters = Append(@, c)] \in EntryType
    BY <2>1, <2>2, EntryUpdates
  <2>4. heap' \in [EntryIds -> EntryType] /\ granted' \subseteq Calls
    BY <1>2, <2>1, <2>3, StoreType DEF Enqueue
  <2>. QED  BY <1>2, <2>4 DEF Enqueue, TypeOK, inputVars, readVars, stopVars
<1>3. ASSUME NEW c \in Calls, Cancel(c) PROVE TypeOK'
  BY <1>3 DEF Cancel, TypeOK, inputVars, readVars, stopVars, entryVars
<1>4. ASSUME NEW c \in Calls, GiveUpWaiting(c) PROVE TypeOK'
  <2>1. entry[c] \in EntryIds /\ heap[entry[c]] \in EntryType
    BY <1>4, <1>b DEF GiveUpWaiting
  <2>2. PICK i \in 1..Len(heap[entry[c]].waiters) :
          StoreAndGrant(entry[c],
            [heap[entry[c]] EXCEPT !.waiters = RemoveAt(@, i)])
    BY <1>4 DEF GiveUpWaiting
  <2>3. RemoveAt(heap[entry[c]].waiters, i) \in Seq(Calls)
    BY <2>1, EntryFields, RemoveAtFacts
  <2>4. [heap[entry[c]] EXCEPT !.waiters = RemoveAt(@, i)] \in EntryType
    BY <2>1, <2>3, EntryUpdates
  <2>5. heap' \in [EntryIds -> EntryType] /\ granted' \subseteq Calls
    BY <2>1, <2>2, <2>4, StoreType
  <2>. QED  BY <1>4, <2>5 DEF GiveUpWaiting, TypeOK, inputVars, readVars, stopVars
<1>5. ASSUME NEW c \in Calls, GiveUpGrant(c) \/ PrepareFails(c) PROVE TypeOK'
  <2>1. entry[c] \in EntryIds /\ heap[entry[c]] \in EntryType
    BY <1>5, <1>b DEF GiveUpGrant, PrepareFails
  <2>2. [heap[entry[c]] EXCEPT !.preparing = FALSE] \in EntryType
    BY <2>1, EntryUpdates
  <2>3. heap' \in [EntryIds -> EntryType] /\ granted' \subseteq Calls
    BY <1>5, <2>1, <2>2, StoreType DEF GiveUpGrant, PrepareFails, FinishPreparation
  <2>. QED  BY <1>5, <2>3 DEF GiveUpGrant, PrepareFails, TypeOK, inputVars, readVars, stopVars
<1>6. ASSUME NEW c \in Calls, DecideOwner(c) PROVE TypeOK'
  BY <1>6 DEF DecideOwner, TypeOK, inputVars, readVars, stopVars, entryVars, Live
<1>7. ASSUME NEW c \in Calls, PublishOwner(c) PROVE TypeOK'
  <2>. DEFINE en == heap[entry[c]]
              turn == [generation |-> en.next + 1, steerable |-> steerable[c],
                       stopping |-> FALSE, pending |-> <<>>]
              stored == [[en EXCEPT !.next = @ + 1, !.active = turn]
                          EXCEPT !.preparing = FALSE]
  <2>1. entry[c] \in EntryIds /\ en \in EntryType
    BY <1>7, <1>b DEF PublishOwner
  <2>2. en.next + 1 \in Nat
    BY <2>1, EntryFields
  <2>3. turn \in TurnType
    <3>1. steerable[c] \in BOOLEAN
      BY DEF TypeOK
    <3>. QED  BY <2>2, <3>1 DEF TurnType
  <2>4. stored \in EntryType
    <3>. HIDE DEF en, turn
    <3>. QED  BY <2>1, <2>2, <2>3 DEF EntryType
  <2>5. heap' \in [EntryIds -> EntryType] /\ granted' \subseteq Calls
    BY <1>7, <2>1, <2>4, StoreType DEF PublishOwner, FinishPreparation
  <2>. QED  BY <1>7, <2>2, <2>5 DEF PublishOwner, TypeOK, inputVars, readVars, stopVars
<1>8. ASSUME NEW c \in Calls, PublishSteer(c) PROVE TypeOK'
  <2>. DEFINE en == heap[entry[c]]
              stored == [[en EXCEPT !.active.pending = Append(@, c)]
                          EXCEPT !.preparing = FALSE]
  <2>1. entry[c] \in EntryIds /\ en \in EntryType
    BY <1>8, <1>b DEF PublishSteer
  <2>2. Append(en.active.pending, c) \in Seq(Calls)
    BY <2>1, EntryFields
  <2>3. [en.active EXCEPT !.pending = Append(@, c)] \in TurnType
    BY <2>1, <2>2, EntryFields, TurnUpdates
  <2>4. stored \in EntryType
    <3>1. [en EXCEPT !.active.pending = Append(@, c)] \in EntryType
      BY <2>1, <2>3, EntryUpdates
    <3>. QED  BY <3>1, EntryUpdates
  <2>5. heap' \in [EntryIds -> EntryType] /\ granted' \subseteq Calls
    BY <1>8, <2>1, <2>4, StoreType DEF PublishSteer, FinishPreparation
  <2>. QED  BY <1>8, <2>5 DEF PublishSteer, TypeOK, inputVars, readVars, stopVars
<1>9. ASSUME NEW c \in Calls, ReturnFromAdmit(c) PROVE TypeOK'
  <2>1. entry[c] \in EntryIds /\ heap[entry[c]] \in EntryType
    BY <1>9, <1>b DEF ReturnFromAdmit
  <2>2. [heap[entry[c]] EXCEPT !.references = @ - 1] \in EntryType
    <3>1. heap[entry[c]].references - 1 \in Int
      BY <2>1, EntryFields
    <3>. QED  BY <2>1, <3>1, EntryUpdates
  <2>3. heap' \in [EntryIds -> EntryType]
    BY <1>9, <1>a, <2>2 DEF ReturnFromAdmit, Unreference
  <2>. QED  BY <1>9, <2>3 DEF ReturnFromAdmit, Unreference, TypeOK, inputVars, readVars, stopVars
<1>10. ASSUME NEW c \in Calls, Pending(c) PROVE TypeOK'
  <2>. DEFINE en == heap[entry[c]]
  <2>1. entry[c] \in EntryIds /\ en \in EntryType
    BY <1>10, <1>b DEF Pending
  <2>2. [en.active EXCEPT !.pending = <<>>] \in TurnType
    <3>1. <<>> \in Seq(Calls) /\ en.active \in TurnType
      BY <2>1, EntryFields
    <3>. QED  BY <3>1, TurnUpdates
  <2>3. [en EXCEPT !.active.pending = <<>>] \in EntryType
    BY <2>1, <2>2, EntryUpdates
  <2>4. heap' \in [EntryIds -> EntryType]
    BY <1>10, <1>a, <2>3 DEF Pending
  <2>5. drained' \in [Calls -> Seq(Calls)]
    <3>1. drained \in [Calls -> Seq(Calls)]
      BY DEF TypeOK
    <3>. QED  BY <1>10, <2>1, <3>1, EntryFields DEF Pending
  <2>. QED  BY <1>10, <2>4, <2>5 DEF Pending, TypeOK, inputVars, callVars, stopVars
<1>11. ASSUME NEW c \in Calls, pc[c] # "idle", CloseTurn(c)
       PROVE  /\ heap' \in [EntryIds -> EntryType] /\ granted' \subseteq Calls
              /\ returned' \in [Calls -> Seq(Calls)] /\ activeCount' \in Int
  <2>1. entry[c] \in EntryIds /\ heap[entry[c]] \in EntryType
    BY <1>11, <1>b
  <2>2. NoTurn \in TurnType
    BY DEF NoTurn, TurnType
  <2>3. [heap[entry[c]] EXCEPT !.active = NoTurn] \in EntryType
    BY <2>1, <2>2, EntryUpdates
  <2>4. heap' \in [EntryIds -> EntryType] /\ granted' \subseteq Calls
    BY <1>11, <2>1, <2>3, StoreType DEF CloseTurn
  <2>. QED  BY <1>11, <2>1, <2>4, EntryFields DEF CloseTurn, TypeOK
<1>12. ASSUME NEW c \in Calls, Release(c) PROVE TypeOK'
  <2>1. /\ heap' \in [EntryIds -> EntryType] /\ granted' \subseteq Calls
        /\ returned' \in [Calls -> Seq(Calls)] /\ activeCount' \in Int
    BY <1>11, <1>12 DEF Release
  <2>. QED  BY <1>12, <2>1 DEF Release, TypeOK, inputVars, stopVars
<1>13. ASSUME NEW c \in Calls, Cleanup(c) PROVE TypeOK'
  BY <1>13 DEF Cleanup, TypeOK, inputVars, readVars, stopVars
<1>14. ASSUME NEW c \in Calls, ReleaseAgain(c) PROVE TypeOK'
  <2>1. /\ heap' \in [EntryIds -> EntryType] /\ granted' \subseteq Calls
        /\ returned' \in [Calls -> Seq(Calls)] /\ activeCount' \in Int
    BY <1>11, <1>14 DEF ReleaseAgain, TypeOK
  <2>. QED  BY <1>14, <2>1 DEF ReleaseAgain, TypeOK, inputVars, stopVars
<1>15. ASSUME NEW s \in Stoppers, FindEntry(s) PROVE TypeOK'
  <2>1. CASE entries[stopKey[s]] = None
    BY <1>15, <2>1 DEF FindEntry, TypeOK, inputVars, callVars, readVars
  <2>2. CASE entries[stopKey[s]] # None
    <3>1. entries[stopKey[s]] \in EntryIds
      BY <2>2 DEF TypeOK
    <3>2. heap' \in [EntryIds -> EntryType]
      BY <1>15, <2>2, <3>1, <1>c DEF FindEntry
    <3>. QED  BY <1>15, <2>2, <3>1, <3>2 DEF FindEntry, TypeOK, inputVars, callVars, readVars
  <2>. QED  BY <2>1, <2>2
<1>16. ASSUME NEW s \in Stoppers, MarkStopping(s) PROVE TypeOK'
  <2>. DEFINE en == heap[stopEntry[s]]
  <2>1. stopEntry[s] \in EntryIds /\ en \in EntryType
    BY <1>16, <1>a DEF MarkStopping, TypeOK
  <2>2. [en EXCEPT !.active.stopping = TRUE] \in EntryType
    BY <2>1, EntryFields, TurnUpdates, EntryUpdates
  <2>3. heap' \in [EntryIds -> EntryType]
    BY <1>16, <1>a, <2>1, <2>2 DEF MarkStopping
  <2>. QED  BY <1>16, <2>3 DEF MarkStopping, TypeOK, inputVars, callVars, readVars
<1>17. ASSUME NEW s \in Stoppers, ReturnFromStop(s) PROVE TypeOK'
  <2>1. stopEntry[s] \in EntryIds /\ heap[stopEntry[s]] \in EntryType
    BY <1>17, <1>a DEF ReturnFromStop, TypeOK
  <2>2. [heap[stopEntry[s]] EXCEPT !.references = @ - 1] \in EntryType
    <3>1. heap[stopEntry[s]].references - 1 \in Int
      BY <2>1, EntryFields
    <3>. QED  BY <2>1, <3>1, EntryUpdates
  <2>3. heap' \in [EntryIds -> EntryType]
    BY <1>17, <1>a, <2>2 DEF ReturnFromStop, Unreference
  <2>. QED  BY <1>17, <2>3 DEF ReturnFromStop, Unreference, TypeOK, inputVars, callVars, readVars
<1>18. CASE UNCHANGED vars
  BY <1>18 DEF TypeOK, vars, inputVars, entryVars, callVars, readVars, stopVars
<1>. QED
  BY <1>1, <1>2, <1>3, <1>4, <1>5, <1>6, <1>7, <1>8, <1>9, <1>10, <1>12, <1>13,
     <1>14, <1>15, <1>16, <1>17, <1>18 DEF Next, Terminated

-----------------------------------------------------------------------------
(* Admission: the queue and the preparing flag *)

(* grantNextLocked keeps the queue and the mutual exclusion of its entry. *)
LEMMA GrantAdmission ==
  ASSUME NEW e \in EntryIds, NEW en \in EntryType, NEW pcs, NEW gr,
         QueueOK(e, en.waiters, pcs, gr),
         PreparingOK(e, en.preparing, pcs, gr)
  PROVE  /\ QueueOK(e, GrantNext(en).waiters, pcs, gr \cup GrantedBy(en))
         /\ PreparingOK(e, GrantNext(en).preparing, pcs, gr \cup GrantedBy(en))
         /\ \A c \in GrantedBy(en) :
               c \in Calls /\ pcs[c] = "waiting" /\ c \notin gr /\ entry[c] = e
<1>1. CASE CanGrant(en)
  <2>. DEFINE w == en.waiters
              h == Head(en.waiters)
  <2>1. /\ GrantNext(en).preparing = TRUE
        /\ GrantNext(en).waiters = Tail(w)
        /\ w # <<>> /\ ~en.preparing
    BY <1>1, GrantNextFields
  <2>2. /\ w \in Seq(Calls)
        /\ h = w[1] /\ h \in Calls /\ Len(w) \in Nat /\ Len(w) >= 1
        /\ Len(Tail(w)) = Len(w) - 1
        /\ \A i \in 1..Len(Tail(w)) : Tail(w)[i] = w[i+1]
    BY <2>1, EntryFields, TailFacts
  <2>3. GrantedBy(en) = {h}
    BY <1>1 DEF GrantedBy
  <2>4. pcs[h] = "waiting" /\ h \notin gr /\ entry[h] = e
    BY <2>2 DEF QueueOK
  <2>. HIDE DEF w, h
  <2>5. ASSUME NEW i \in 1..Len(Tail(w))
        PROVE  /\ i + 1 \in 1..Len(w) /\ 1 \in 1..Len(w)
               /\ Tail(w)[i] = w[i+1]
               /\ w[i+1] # h
    <3>1. i + 1 \in 1..Len(w) /\ 1 \in 1..Len(w) /\ i + 1 # 1
      BY <2>2
    <3>2. w[i+1] # w[1]
      BY <3>1 DEF QueueOK, w
    <3>. QED  BY <2>2, <3>1, <3>2
  <2>6. QueueOK(e, Tail(w), pcs, gr \cup {h})
    <3>1. ASSUME NEW i \in 1..Len(Tail(w))
          PROVE  /\ pcs[Tail(w)[i]] = "waiting"
                 /\ Tail(w)[i] \notin gr \cup {h}
                 /\ entry[Tail(w)[i]] = e
      BY <2>5 DEF QueueOK, w
    <3>2. ASSUME NEW i \in 1..Len(Tail(w)), NEW j \in 1..Len(Tail(w)),
                 Tail(w)[i] = Tail(w)[j]
          PROVE  i = j
      <4>1. /\ i + 1 \in 1..Len(w) /\ j + 1 \in 1..Len(w)
            /\ w[i+1] = w[j+1]
        BY <2>5, <3>2
      <4>2. i + 1 = j + 1
        BY <4>1 DEF QueueOK, w
      <4>. QED  BY <4>2
    <3>. QED  BY <3>1, <3>2 DEF QueueOK
  <2>7. PreparingOK(e, TRUE, pcs, gr \cup {h})
    <3>1. \A c \in Calls : PreparingIn(c, pcs, gr) => entry[c] # e
      BY <2>1 DEF PreparingOK
    <3>2. \A c \in Calls : PreparingIn(c, pcs, gr \cup {h}) /\ entry[c] = e => c = h
      BY <3>1 DEF PreparingIn
    <3>. QED  BY <3>2 DEF PreparingOK
  <2>. QED  BY <2>1, <2>2, <2>3, <2>4, <2>6, <2>7 DEF w
<1>2. CASE ~CanGrant(en)
  <2>1. GrantNext(en) = en /\ GrantedBy(en) = {}
    BY <1>2 DEF GrantNext, GrantedBy
  <2>. QED  BY <2>1
<1>. QED  BY <1>1, <1>2

(* The same for a whole entry.mu section: other entries are not disturbed. *)
LEMMA StoreAdmission ==
  ASSUME TypeOK, AdmissionInv,
         NEW e \in EntryIds, NEW en \in EntryType, NEW pcs,
         StoreAndGrant(e, en),
         QueueOK(e, en.waiters, pcs, granted),
         PreparingOK(e, en.preparing, pcs, granted),
         \A c \in Calls : entry[c] # e => pcs[c] = pc[c]
  PROVE  /\ \A f \in EntryIds :
               /\ QueueOK(f, heap'[f].waiters, pcs, granted')
               /\ PreparingOK(f, heap'[f].preparing, pcs, granted')
         /\ granted \subseteq granted'
         /\ \A c \in granted' \ granted :
               /\ c \in Calls /\ pcs[c] = "waiting" /\ entry[c] = e
               /\ CanGrant(en) /\ c = Head(en.waiters)
<1>1. /\ granted' = granted \cup GrantedBy(en)
      /\ heap'[e] = GrantNext(en)
      /\ \A f \in EntryIds : f # e => heap'[f] = heap[f]
  BY DEF StoreAndGrant, TypeOK
<1>2. /\ QueueOK(e, heap'[e].waiters, pcs, granted')
      /\ PreparingOK(e, heap'[e].preparing, pcs, granted')
      /\ \A c \in GrantedBy(en) : c \in Calls /\ pcs[c] = "waiting" /\ entry[c] = e
  <2>1. /\ QueueOK(e, GrantNext(en).waiters, pcs, granted \cup GrantedBy(en))
        /\ PreparingOK(e, GrantNext(en).preparing, pcs, granted \cup GrantedBy(en))
        /\ \A c \in GrantedBy(en) :
              c \in Calls /\ pcs[c] = "waiting" /\ c \notin granted /\ entry[c] = e
    BY GrantAdmission
  <2>. QED  BY <1>1, <2>1
<1>3. \A c \in GrantedBy(en) : CanGrant(en) /\ c = Head(en.waiters)
  BY DEF GrantedBy
<1>4. ASSUME NEW f \in EntryIds, f # e
      PROVE  /\ QueueOK(f, heap'[f].waiters, pcs, granted')
             /\ PreparingOK(f, heap'[f].preparing, pcs, granted')
  <2>1. /\ QueueOK(f, heap[f].waiters, pc, granted)
        /\ PreparingOK(f, heap[f].preparing, pc, granted)
        /\ heap'[f] = heap[f]
    BY <1>1, <1>4 DEF AdmissionInv
  <2>2. \A i \in 1..Len(heap[f].waiters) : heap[f].waiters[i] \in Calls
    <3>1. heap[f].waiters \in Seq(Calls)
      BY EntryFields DEF TypeOK
    <3>. QED  BY <3>1
  <2>3. QueueOK(f, heap[f].waiters, pcs, granted')
    BY <1>1, <1>2, <1>4, <2>1, <2>2 DEF QueueOK
  <2>4. \A c \in Calls : entry[c] = f =>
           (PreparingIn(c, pcs, granted') <=> PreparingIn(c, pc, granted))
    BY <1>1, <1>2, <1>4 DEF PreparingIn
  <2>5. PreparingOK(f, heap[f].preparing, pcs, granted')
    BY <2>1, <2>4 DEF PreparingOK
  <2>. QED  BY <2>1, <2>3, <2>5
<1>. QED  BY <1>1, <1>2, <1>3, <1>4

(* A step grants waiting calls that their entry can take. *)
NewGrants ==
    /\ granted \subseteq granted'
    /\ \A c \in granted' \ granted :
         /\ c \in Calls /\ pc'[c] = "waiting"
         /\ Live(heap'[entry'[c]])
            => /\ joinable'[c] /\ steerable'[c]
               /\ heap'[entry'[c]].active.steerable
               /\ ~heap'[entry'[c]].active.stopping

(* The calls that are granted, queued or preparing change nothing else. *)
LEMMA AdmissionNext ==
  TypeOK /\ AdmissionInv /\ GrantInv /\ [Next]_vars => AdmissionInv' /\ NewGrants
<1>. SUFFICES ASSUME TypeOK, AdmissionInv, GrantInv, [Next]_vars
              PROVE  AdmissionInv' /\ NewGrants
  OBVIOUS
<1>a. heap \in [EntryIds -> EntryType] /\ pc \in [Calls -> CallStates]
  BY DEF TypeOK
<1>b. \A c \in Calls : pc[c] # "idle" => entry[c] \in EntryIds /\ heap[entry[c]] \in EntryType
  BY <1>a DEF TypeOK
<1>c. \A e \in EntryIds : /\ heap[e].waiters \in Seq(Calls)
                          /\ Len(heap[e].waiters) \in Nat
                          /\ \A i \in 1..Len(heap[e].waiters) : heap[e].waiters[i] \in Calls
  BY <1>a, EntryFields
(* Actions that store an entry: StoreAdmission does the work. *)
<1>d. ASSUME NEW c \in Calls, NEW en \in EntryType, entry[c] \in EntryIds,
             StoreAndGrant(entry[c], en),
             QueueOK(entry[c], en.waiters, pc', granted),
             PreparingOK(entry[c], en.preparing, pc', granted),
             \A d \in Calls : d # c => pc'[d] = pc[d],
             entry' = entry, UNCHANGED inputVars
      PROVE  AdmissionInv' /\ NewGrants
  <2>1. /\ \A f \in EntryIds : /\ QueueOK(f, heap'[f].waiters, pc', granted')
                               /\ PreparingOK(f, heap'[f].preparing, pc', granted')
        /\ granted \subseteq granted'
        /\ \A d \in granted' \ granted :
              /\ d \in Calls /\ pc'[d] = "waiting" /\ entry[d] = entry[c]
              /\ CanGrant(en) /\ d = Head(en.waiters)
    BY <1>d, StoreAdmission
  <2>2. AdmissionInv'
    BY <1>d, <2>1 DEF AdmissionInv, QueueOK, PreparingOK
  <2>3. heap'[entry[c]].active = en.active
    BY <1>d, GrantNextFields DEF StoreAndGrant, TypeOK
  <2>4. NewGrants
    BY <1>d, <2>1, <2>3 DEF NewGrants, CanGrant, Live, inputVars
  <2>. QED  BY <2>2, <2>4
(* The one that prepares lets go: nobody else prepares in its entry. *)
<1>e. ASSUME NEW c \in Calls, Preparing(c), pc' = [pc EXCEPT ![c] = "leaving"]
                                            \/ pc' = [pc EXCEPT ![c] = "admitted"]
                                            \/ pc' = [pc EXCEPT ![c] = "joining"]
      PROVE  /\ QueueOK(entry[c], heap[entry[c]].waiters, pc', granted)
             /\ PreparingOK(entry[c], FALSE, pc', granted)
             /\ \A d \in Calls : d # c => pc'[d] = pc[d]
  <2>1. entry[c] \in EntryIds
    BY <1>b, <1>e DEF Preparing, PreparingIn
  <2>2. /\ QueueOK(entry[c], heap[entry[c]].waiters, pc, granted)
        /\ PreparingOK(entry[c], heap[entry[c]].preparing, pc, granted)
    BY <2>1 DEF AdmissionInv
  <2>3. pc'[c] \notin {"waiting", "prepared"} /\ \A d \in Calls : d # c => pc'[d] = pc[d]
    BY <1>a, <1>e
  <2>4. c \in granted
    BY <1>e DEF Preparing, PreparingIn
  <2>5. QueueOK(entry[c], heap[entry[c]].waiters, pc', granted)
    BY <1>c, <2>1, <2>2, <2>3, <2>4 DEF QueueOK
  <2>6. \A d \in Calls : entry[d] = entry[c] => ~PreparingIn(d, pc', granted)
    BY <1>e, <2>2, <2>3 DEF PreparingOK, PreparingIn, Preparing
  <2>. QED  BY <2>3, <2>5, <2>6 DEF PreparingOK
(* Actions that leave the queues, the flags and the grants alone. *)
<1>f. ASSUME granted' = granted,
             \A e \in EntryIds : /\ heap'[e].waiters = heap[e].waiters
                                 /\ heap'[e].preparing = heap[e].preparing,
             \A c \in Calls :
                /\ pc'[c] \in {"waiting", "prepared"} => pc[c] \in {"waiting", "prepared"}
                /\ pc[c] = "waiting" /\ c \notin granted => pc'[c] = "waiting"
                /\ pc[c] \in {"waiting", "prepared"} => entry'[c] = entry[c]
      PROVE  AdmissionInv' /\ NewGrants
  <2>. SUFFICES ASSUME NEW e \in EntryIds
                PROVE  /\ QueueOK(e, heap[e].waiters, pc, granted)'
                       /\ PreparingOK(e, heap[e].preparing, pc, granted)'
    BY <1>f DEF AdmissionInv, NewGrants
  <2>1. /\ QueueOK(e, heap[e].waiters, pc, granted)
        /\ PreparingOK(e, heap[e].preparing, pc, granted)
    BY DEF AdmissionInv
  <2>2. \A i \in 1..Len(heap[e].waiters) :
           LET d == heap[e].waiters[i] IN
           d \in Calls /\ pc'[d] = "waiting" /\ d \notin granted' /\ entry'[d] = e
    BY <1>c, <1>f, <2>1 DEF QueueOK
  <2>3. QueueOK(e, heap[e].waiters, pc, granted)'
    BY <1>f, <2>1, <2>2 DEF QueueOK
  <2>4. \A c \in Calls : PreparingIn(c, pc', granted') =>
           PreparingIn(c, pc, granted) /\ entry'[c] = entry[c]
    BY <1>f DEF PreparingIn
  <2>5. PreparingOK(e, heap[e].preparing, pc, granted)'
    BY <1>f, <2>1, <2>4 DEF PreparingOK
  <2>. QED  BY <2>3, <2>5
<1>1. ASSUME NEW c \in Calls, Arrive(c) PROVE AdmissionInv' /\ NewGrants
  <2>1. PICK e \in EntryIds : /\ heap' = [heap EXCEPT ![e].references = @ + 1]
                              /\ entry' = [entry EXCEPT ![c] = e]
    BY <1>1 DEF Arrive
  <2>2. \A f \in EntryIds : /\ heap'[f].waiters = heap[f].waiters
                            /\ heap'[f].preparing = heap[f].preparing
    BY <1>a, <2>1 DEF EntryType
  <2>3. \A d \in Calls : d # c => entry'[d] = entry[d] /\ pc'[d] = pc[d]
    BY <1>1, <1>a, <2>1 DEF TypeOK, Arrive
  <2>4. pc[c] = "idle" /\ pc'[c] = "acquired" /\ granted' = granted
    BY <1>1, <1>a DEF Arrive
  <2>. QED  BY <2>2, <2>3, <2>4, <1>f
<1>2. ASSUME NEW c \in Calls, Enqueue(c) PROVE AdmissionInv' /\ NewGrants
  <2>. DEFINE e == entry[c]
              w == heap[e].waiters
              en == [heap[e] EXCEPT !.waiters = Append(@, c)]
  <2>1. e \in EntryIds /\ heap[e] \in EntryType /\ w \in Seq(Calls) /\ Len(w) \in Nat
    BY <1>2, <1>b, <1>c DEF Enqueue
  <2>2. Append(w, c) \in Seq(Calls) /\ Len(Append(w, c)) = Len(w) + 1
        /\ \A i \in 1..(Len(w)+1) : Append(w, c)[i] = IF i <= Len(w) THEN w[i] ELSE c
    BY <2>1, AppendProperties
  <2>3. en \in EntryType /\ en.waiters = Append(w, c) /\ en.preparing = heap[e].preparing
    BY <2>1, <2>2, EntryUpdates DEF EntryType
  <2>4. /\ StoreAndGrant(e, en) /\ entry' = entry /\ pc[c] = "acquired"
        /\ UNCHANGED inputVars
        /\ pc' = [pc EXCEPT ![c] = "waiting"]
    BY <1>2 DEF Enqueue
  <2>5. c \notin granted /\ pc'[c] = "waiting" /\ \A d \in Calls : d # c => pc'[d] = pc[d]
    BY <1>a, <2>4 DEF GrantInv
  <2>6. /\ QueueOK(e, w, pc, granted)
        /\ PreparingOK(e, heap[e].preparing, pc, granted)
    BY <2>1 DEF AdmissionInv
  <2>. HIDE DEF e, w, en
  <2>7. \A i \in 1..Len(w) : w[i] # c /\ w[i] \in Calls
    BY <1>c, <2>1, <2>4, <2>6 DEF QueueOK, w
  <2>8. QueueOK(e, Append(w, c), pc', granted)
    <3>1. ASSUME NEW i \in 1..(Len(w)+1)
          PROVE  /\ pc'[Append(w, c)[i]] = "waiting"
                 /\ Append(w, c)[i] \notin granted
                 /\ entry[Append(w, c)[i]] = e
      <4>1. CASE i <= Len(w)
        BY <2>1, <2>2, <2>5, <2>6, <2>7, <4>1 DEF QueueOK
      <4>2. CASE ~(i <= Len(w))
        BY <2>1, <2>2, <2>5, <4>2 DEF e
      <4>. QED  BY <4>1, <4>2
    <3>2. ASSUME NEW i \in 1..(Len(w)+1), NEW j \in 1..(Len(w)+1),
                 Append(w, c)[i] = Append(w, c)[j]
          PROVE  i = j
      <4>1. CASE i <= Len(w) /\ j <= Len(w)
        BY <2>1, <2>2, <2>6, <3>2, <4>1 DEF QueueOK
      <4>2. CASE ~(i <= Len(w)) \/ ~(j <= Len(w))
        BY <2>1, <2>2, <2>7, <3>2, <4>2
      <4>. QED  BY <4>1, <4>2
    <3>. QED  BY <2>2, <3>1, <3>2 DEF QueueOK
  <2>9. PreparingOK(e, heap[e].preparing, pc', granted)
    BY <2>5, <2>6 DEF PreparingOK, PreparingIn
  <2>. QED  BY <1>d, <2>1, <2>3, <2>4, <2>5, <2>8, <2>9 DEF e
<1>3. ASSUME NEW c \in Calls, Cancel(c) PROVE AdmissionInv' /\ NewGrants
  BY <1>3, <1>f DEF Cancel, entryVars
<1>4. ASSUME NEW c \in Calls, GiveUpWaiting(c) PROVE AdmissionInv' /\ NewGrants
  <2>. DEFINE e == entry[c]
              w == heap[e].waiters
  <2>1. e \in EntryIds /\ heap[e] \in EntryType /\ w \in Seq(Calls) /\ Len(w) \in Nat
    BY <1>4, <1>b, <1>c DEF GiveUpWaiting
  <2>2. PICK n \in 1..Len(w) :
          w[n] = c /\ StoreAndGrant(e, [heap[e] EXCEPT !.waiters = RemoveAt(@, n)])
    BY <1>4 DEF GiveUpWaiting
  <2>. DEFINE en == [heap[e] EXCEPT !.waiters = RemoveAt(@, n)]
              r == RemoveAt(w, n)
  <2>3. /\ r \in Seq(Calls) /\ Len(r) = Len(w) - 1
        /\ \A i \in 1..(Len(w) - 1) : r[i] = IF i < n THEN w[i] ELSE w[i+1]
    BY <2>1, RemoveAtFacts
  <2>4. en \in EntryType /\ en.waiters = r /\ en.preparing = heap[e].preparing
    BY <2>1, <2>3, EntryUpdates DEF EntryType
  <2>5. /\ entry' = entry /\ UNCHANGED inputVars /\ c \notin granted /\ pc'[c] = "leaving"
        /\ \A d \in Calls : d # c => pc'[d] = pc[d]
    BY <1>4, <1>a DEF GiveUpWaiting
  <2>6. /\ QueueOK(e, w, pc, granted)
        /\ PreparingOK(e, heap[e].preparing, pc, granted)
    BY <2>1 DEF AdmissionInv
  <2>. HIDE DEF e, w, en, r
  <2>7. ASSUME NEW i \in 1..Len(r)
        PROVE  \E k \in 1..Len(w) : r[i] = w[k] /\ k # n /\ k = (IF i < n THEN i ELSE i + 1)
    <3>1. CASE i < n
      BY <2>1, <2>2, <2>3, <3>1
    <3>2. CASE ~(i < n)
      <4>1. i + 1 \in 1..Len(w) /\ i + 1 # n /\ r[i] = w[i+1]
        BY <2>1, <2>2, <2>3, <3>2
      <4>. QED  BY <3>2, <4>1
    <3>. QED  BY <3>1, <3>2
  <2>8. QueueOK(e, r, pc', granted)
    <3>1. ASSUME NEW i \in 1..Len(r)
          PROVE  pc'[r[i]] = "waiting" /\ r[i] \notin granted /\ entry[r[i]] = e
      <4>1. PICK k \in 1..Len(w) : r[i] = w[k] /\ k # n
        BY <2>7
      <4>2. w[k] # c /\ w[k] \in Calls
        BY <2>1, <2>2, <2>6, <4>1 DEF QueueOK
      <4>. QED  BY <2>5, <2>6, <4>1, <4>2 DEF QueueOK
    <3>2. ASSUME NEW i \in 1..Len(r), NEW j \in 1..Len(r), r[i] = r[j]
          PROVE  i = j
      <4>1. PICK k \in 1..Len(w) : r[i] = w[k] /\ k = (IF i < n THEN i ELSE i + 1)
        BY <2>7
      <4>2. PICK l \in 1..Len(w) : r[j] = w[l] /\ l = (IF j < n THEN j ELSE j + 1)
        BY <2>7
      <4>3. k = l
        BY <2>6, <3>2, <4>1, <4>2 DEF QueueOK
      <4>4. Len(r) \in Nat /\ n \in Nat
        BY <2>1, <2>3
      <4>. QED  BY <4>1, <4>2, <4>3, <4>4
    <3>. QED  BY <3>1, <3>2 DEF QueueOK
  <2>9. PreparingOK(e, heap[e].preparing, pc', granted)
    BY <2>5, <2>6 DEF PreparingOK, PreparingIn
  <2>10. StoreAndGrant(e, en)
    BY <2>2 DEF en
  <2>. QED  BY <1>d, <2>1, <2>4, <2>5, <2>8, <2>9, <2>10 DEF e
<1>5. ASSUME NEW c \in Calls, GiveUpGrant(c) \/ PrepareFails(c) PROVE AdmissionInv' /\ NewGrants
  <2>. DEFINE en == [heap[entry[c]] EXCEPT !.preparing = FALSE]
  <2>1. /\ Preparing(c) /\ pc' = [pc EXCEPT ![c] = "leaving"] /\ entry' = entry
        /\ StoreAndGrant(entry[c], en) /\ pc[c] # "idle" /\ UNCHANGED inputVars
    BY <1>5 DEF GiveUpGrant, PrepareFails, FinishPreparation, Preparing, PreparingIn, GrantInv
  <2>2. entry[c] \in EntryIds /\ heap[entry[c]] \in EntryType
    BY <2>1, <1>b
  <2>3. en \in EntryType /\ en.waiters = heap[entry[c]].waiters /\ en.preparing = FALSE
    BY <2>2, EntryUpdates DEF EntryType
  <2>. HIDE DEF en
  <2>. QED  BY <1>d, <1>e, <2>1, <2>2, <2>3
<1>6. ASSUME NEW c \in Calls, DecideOwner(c) PROVE AdmissionInv' /\ NewGrants
  <2>1. /\ granted' = granted /\ heap' = heap /\ entry' = entry
        /\ pc[c] = "waiting" /\ pc'[c] = "prepared" /\ c \in granted
        /\ \A d \in Calls : d # c => pc'[d] = pc[d]
    BY <1>6, <1>a DEF DecideOwner, entryVars
  <2>. QED  BY <2>1, <1>f
<1>7. ASSUME NEW c \in Calls, PublishOwner(c) PROVE AdmissionInv' /\ NewGrants
  <2>. DEFINE turn == [generation |-> heap[entry[c]].next + 1, steerable |-> steerable[c],
                       stopping |-> FALSE, pending |-> <<>>]
              en == [[heap[entry[c]] EXCEPT !.next = @ + 1, !.active = turn]
                       EXCEPT !.preparing = FALSE]
  <2>1. /\ Preparing(c) /\ pc' = [pc EXCEPT ![c] = "admitted"] /\ entry' = entry
        /\ StoreAndGrant(entry[c], en) /\ pc[c] # "idle" /\ UNCHANGED inputVars
    BY <1>7 DEF PublishOwner, FinishPreparation, Preparing, PreparingIn, GrantInv
  <2>2. /\ entry[c] \in EntryIds /\ heap[entry[c]] \in EntryType
        /\ heap[entry[c]].next + 1 \in Nat /\ steerable[c] \in BOOLEAN
    BY <2>1, <1>b, EntryFields DEF TypeOK
  <2>3. turn \in TurnType
    BY <2>2 DEF TurnType
  <2>. HIDE DEF turn
  <2>4. en \in EntryType /\ en.waiters = heap[entry[c]].waiters /\ en.preparing = FALSE
    BY <2>2, <2>3 DEF EntryType
  <2>. HIDE DEF en
  <2>. QED  BY <1>d, <1>e, <2>1, <2>2, <2>4
<1>8. ASSUME NEW c \in Calls, PublishSteer(c) PROVE AdmissionInv' /\ NewGrants
  <2>. DEFINE inbox == Append(heap[entry[c]].active.pending, c)
              en == [[heap[entry[c]] EXCEPT !.active.pending = Append(@, c)]
                       EXCEPT !.preparing = FALSE]
  <2>1. /\ Preparing(c) /\ pc' = [pc EXCEPT ![c] = "joining"] /\ entry' = entry
        /\ StoreAndGrant(entry[c], en) /\ pc[c] # "idle" /\ UNCHANGED inputVars
    BY <1>8 DEF PublishSteer, FinishPreparation, Preparing, PreparingIn, GrantInv
  <2>2. /\ entry[c] \in EntryIds /\ heap[entry[c]] \in EntryType
        /\ inbox \in Seq(Calls) /\ heap[entry[c]].active \in TurnType
    BY <2>1, <1>b, EntryFields
  <2>3. [heap[entry[c]].active EXCEPT !.pending = inbox] \in TurnType
    BY <2>2, TurnUpdates
  <2>. DEFINE joined == [heap[entry[c]].active EXCEPT !.pending = inbox]
  <2>4. en = [[heap[entry[c]] EXCEPT !.active = joined] EXCEPT !.preparing = FALSE]
    OBVIOUS
  <2>. HIDE DEF joined, inbox, en
  <2>5. en \in EntryType /\ en.waiters = heap[entry[c]].waiters /\ en.preparing = FALSE
    BY <2>2, <2>3, <2>4 DEF EntryType, joined
  <2>. QED  BY <1>d, <1>e, <2>1, <2>2, <2>5
<1>9. ASSUME NEW c \in Calls, ReturnFromAdmit(c) PROVE AdmissionInv' /\ NewGrants
  <2>1. \A f \in EntryIds : /\ heap'[f].waiters = heap[f].waiters
                            /\ heap'[f].preparing = heap[f].preparing
    BY <1>9, <1>a, <1>b DEF ReturnFromAdmit, Unreference, EntryType
  <2>2. /\ pc[c] \in {"leaving", "admitted", "joining"}
        /\ pc'[c] \in {"running", "joined", "refused"}
        /\ granted' = granted /\ entry' = entry
        /\ \A d \in Calls : d # c => pc'[d] = pc[d]
    BY <1>9, <1>a DEF ReturnFromAdmit
  <2>. QED  BY <2>1, <2>2, <1>f
<1>10. ASSUME NEW c \in Calls, Pending(c) PROVE AdmissionInv' /\ NewGrants
  <2>1. \A f \in EntryIds : /\ heap'[f].waiters = heap[f].waiters
                            /\ heap'[f].preparing = heap[f].preparing
    BY <1>10, <1>a, <1>b DEF Pending, EntryType
  <2>. QED  BY <1>10, <2>1, <1>f DEF Pending, callVars
<1>11. ASSUME NEW c \in Calls, CloseTurn(c), entry' = entry, UNCHANGED inputVars,
              pc[c] \in {"running", "cleaned"}, NEW to \in {"released", "finished"},
              pc' = [pc EXCEPT ![c] = to]
       PROVE  AdmissionInv' /\ NewGrants
  <2>. DEFINE e == entry[c]
              en == [heap[e] EXCEPT !.active = NoTurn]
  <2>1. e \in EntryIds /\ heap[e] \in EntryType
    BY <1>11, <1>b
  <2>2. NoTurn \in TurnType
    BY DEF NoTurn, TurnType
  <2>3. en \in EntryType /\ en.waiters = heap[e].waiters /\ en.preparing = heap[e].preparing
    BY <2>1, <2>2, EntryUpdates DEF EntryType
  <2>4. /\ QueueOK(e, heap[e].waiters, pc, granted)
        /\ PreparingOK(e, heap[e].preparing, pc, granted)
    BY <2>1 DEF AdmissionInv
  <2>5. /\ \A d \in Calls : d # c => pc'[d] = pc[d]
        /\ pc'[c] \notin {"waiting", "prepared"}
    BY <1>11, <1>a
  <2>6. QueueOK(e, heap[e].waiters, pc', granted)
    BY <1>c, <1>11, <2>1, <2>4, <2>5 DEF QueueOK
  <2>7. PreparingOK(e, heap[e].preparing, pc', granted)
    BY <1>11, <2>4, <2>5 DEF PreparingOK, PreparingIn
  <2>8. StoreAndGrant(e, en)
    BY <1>11 DEF CloseTurn
  <2>. HIDE DEF e, en
  <2>. QED  BY <1>d, <1>11, <2>1, <2>3, <2>5, <2>6, <2>7, <2>8 DEF e
<1>12. ASSUME NEW c \in Calls, Release(c) PROVE AdmissionInv' /\ NewGrants
  BY <1>11, <1>12 DEF Release
<1>13. ASSUME NEW c \in Calls, Cleanup(c) PROVE AdmissionInv' /\ NewGrants
  <2>1. /\ granted' = granted /\ heap' = heap /\ entry' = entry
        /\ pc[c] = "released" /\ pc'[c] = "cleaned"
        /\ \A d \in Calls : d # c => pc'[d] = pc[d]
    BY <1>13, <1>a DEF Cleanup
  <2>. QED  BY <2>1, <1>f
<1>14. ASSUME NEW c \in Calls, ReleaseAgain(c) PROVE AdmissionInv' /\ NewGrants
  <2>1. CASE OwnsTurn(c)
    BY <1>11, <1>14, <2>1 DEF ReleaseAgain
  <2>2. CASE ~OwnsTurn(c)
    <3>1. /\ granted' = granted /\ heap' = heap /\ entry' = entry
          /\ pc[c] = "cleaned" /\ pc'[c] = "finished"
          /\ \A d \in Calls : d # c => pc'[d] = pc[d]
      BY <1>14, <1>a, <2>2 DEF ReleaseAgain
    <3>. QED  BY <3>1, <1>f
  <2>. QED  BY <2>1, <2>2
<1>15. ASSUME NEW s \in Stoppers, FindEntry(s) \/ MarkStopping(s) \/ ReturnFromStop(s)
       PROVE  AdmissionInv' /\ NewGrants
  <2>1. \A f \in EntryIds : /\ heap'[f].waiters = heap[f].waiters
                            /\ heap'[f].preparing = heap[f].preparing
    <3>1. CASE FindEntry(s)
      <4>1. CASE entries[stopKey[s]] = None
        BY <3>1, <4>1 DEF FindEntry
      <4>2. CASE entries[stopKey[s]] # None
        <5>1. PICK e \in EntryIds : heap' = [heap EXCEPT ![e].references = @ + 1]
          BY <3>1, <4>2 DEF FindEntry, TypeOK
        <5>. QED  BY <5>1, <1>a DEF EntryType
      <4>. QED  BY <4>1, <4>2
    <3>2. CASE MarkStopping(s)
      <4>1. PICK e \in EntryIds : \E t : heap' \in {heap, [heap EXCEPT ![e].active = t]}
        <5>1. stopEntry[s] \in EntryIds
          BY <3>2 DEF MarkStopping, TypeOK
        <5>. QED  BY <3>2, <5>1 DEF MarkStopping
      <4>. QED  BY <4>1, <1>a DEF EntryType
    <3>3. CASE ReturnFromStop(s)
      BY <3>3, <1>a DEF ReturnFromStop, Unreference, EntryType
    <3>. QED  BY <1>15, <3>1, <3>2, <3>3
  <2>. QED  BY <1>15, <2>1, <1>f DEF FindEntry, MarkStopping, ReturnFromStop, callVars
<1>16. CASE UNCHANGED vars
  BY <1>16, <1>f DEF vars, entryVars, callVars
<1>. QED
  BY <1>1, <1>2, <1>3, <1>4, <1>5, <1>6, <1>7, <1>8, <1>9, <1>10, <1>12, <1>13,
     <1>14, <1>15, <1>16 DEF Next, Terminated

-----------------------------------------------------------------------------
(* What each action does to the turns and to the reference counts *)

SameTurns == \A f \in EntryIds : /\ heap'[f].active = heap[f].active
                                 /\ heap'[f].next = heap[f].next

SameReferences == \A f \in EntryIds : heap'[f].references = heap[f].references

(* Only entry e changes its turn, to t, and its generation counter, to n. *)
OnlyTurn(e, t, n) ==
    /\ e \in EntryIds
    /\ heap'[e].active = t
    /\ heap'[e].next = n
    /\ \A f \in EntryIds \ {e} : /\ heap'[f].active = heap[f].active
                                 /\ heap'[f].next = heap[f].next
    /\ SameReferences

(* Storing an entry and granting the next changes the queue alone. *)
LEMMA StoreFields ==
  ASSUME TypeOK, NEW e \in EntryIds, NEW en \in EntryType, StoreAndGrant(e, en)
  PROVE  /\ heap'[e].active = en.active
         /\ heap'[e].next = en.next
         /\ heap'[e].references = en.references
         /\ \A f \in EntryIds \ {e} : heap'[f] = heap[f]
  BY GrantNextFields DEF StoreAndGrant, TypeOK

(* Whoever has called has an entry. *)
LEMMA HeldEntry ==
  ASSUME TypeOK, NEW c \in Calls, pc[c] # "idle"
  PROVE  /\ entry[c] \in EntryIds
         /\ heap[entry[c]] \in EntryType
         /\ heap[entry[c]].active \in TurnType
  BY EntryFields DEF TypeOK

(* Queueing, giving up and failing touch neither turns nor references. *)
LEMMA QueueSteps ==
  ASSUME TypeOK, NEW c \in Calls,
         Enqueue(c) \/ GiveUpWaiting(c) \/ GiveUpGrant(c) \/ PrepareFails(c)
  PROVE  SameTurns /\ SameReferences
<1>. DEFINE e == entry[c]
<1>1. e \in EntryIds /\ heap[e] \in EntryType
  BY HeldEntry DEF Enqueue, GiveUpWaiting, GiveUpGrant, PrepareFails
<1>2. ASSUME NEW w \in Seq(Calls), StoreAndGrant(e, [heap[e] EXCEPT !.waiters = w])
      PROVE  SameTurns /\ SameReferences
  <2>1. /\ [heap[e] EXCEPT !.waiters = w] \in EntryType
        /\ [heap[e] EXCEPT !.waiters = w].active = heap[e].active
        /\ [heap[e] EXCEPT !.waiters = w].next = heap[e].next
        /\ [heap[e] EXCEPT !.waiters = w].references = heap[e].references
    BY <1>1, EntryUpdates DEF EntryType
  <2>. QED  BY <1>1, <1>2, <2>1, StoreFields DEF SameTurns, SameReferences
<1>3. CASE Enqueue(c)
  <2>1. Append(heap[e].waiters, c) \in Seq(Calls)
    BY <1>1, EntryFields
  <2>. QED  BY <1>2, <1>3, <2>1 DEF Enqueue
<1>4. CASE GiveUpWaiting(c)
  <2>1. PICK n \in 1..Len(heap[e].waiters) :
          StoreAndGrant(e, [heap[e] EXCEPT !.waiters = RemoveAt(@, n)])
    BY <1>4 DEF GiveUpWaiting
  <2>2. RemoveAt(heap[e].waiters, n) \in Seq(Calls)
    BY <1>1, EntryFields, RemoveAtFacts
  <2>. QED  BY <1>2, <2>1, <2>2
<1>5. CASE GiveUpGrant(c) \/ PrepareFails(c)
  <2>. DEFINE en == [heap[e] EXCEPT !.preparing = FALSE]
  <2>1. /\ en \in EntryType /\ en.active = heap[e].active
        /\ en.next = heap[e].next /\ en.references = heap[e].references
    BY <1>1, EntryUpdates DEF EntryType
  <2>2. StoreAndGrant(e, en)
    BY <1>5 DEF GiveUpGrant, PrepareFails, FinishPreparation
  <2>. HIDE DEF en
  <2>. QED  BY <1>1, <2>1, <2>2, StoreFields DEF SameTurns, SameReferences
<1>. QED  BY <1>3, <1>4, <1>5

(* Taking and returning a reference changes the count alone. *)
LEMMA CountSteps ==
  ASSUME TypeOK, NEW e \in EntryIds, NEW r \in {-1, 1},
         heap' = [heap EXCEPT ![e].references = @ + r]
  PROVE  /\ SameTurns
         /\ heap'[e].references = heap[e].references + r
         /\ \A f \in EntryIds \ {e} : heap'[f] = heap[f]
<1>1. heap \in [EntryIds -> EntryType]
  BY DEF TypeOK
<1>. QED  BY <1>1 DEF SameTurns, EntryType

(* An owner puts its turn, with a new generation, in its entry. *)
LEMMA PublishOwnerStep ==
  ASSUME TypeOK, NEW c \in Calls, PublishOwner(c)
  PROVE  OnlyTurn(entry[c],
                  [generation |-> heap[entry[c]].next + 1, steerable |-> steerable[c],
                   stopping |-> FALSE, pending |-> <<>>],
                  heap[entry[c]].next + 1)
<1>. DEFINE e == entry[c]
            turn == [generation |-> heap[e].next + 1, steerable |-> steerable[c],
                     stopping |-> FALSE, pending |-> <<>>]
            en == [[heap[e] EXCEPT !.next = @ + 1, !.active = turn]
                     EXCEPT !.preparing = FALSE]
<1>1. e \in EntryIds /\ heap[e] \in EntryType /\ heap[e].next + 1 \in Nat
  BY HeldEntry, EntryFields DEF PublishOwner
<1>2. turn \in TurnType
  <2>1. steerable[c] \in BOOLEAN
    BY DEF TypeOK
  <2>. QED  BY <1>1, <2>1 DEF TurnType
<1>3. StoreAndGrant(e, en)
  BY DEF PublishOwner, FinishPreparation
<1>. HIDE DEF turn
<1>4. /\ en \in EntryType /\ en.active = turn /\ en.next = heap[e].next + 1
      /\ en.references = heap[e].references
  BY <1>1, <1>2 DEF EntryType
<1>. HIDE DEF en
<1>5. OnlyTurn(e, turn, heap[e].next + 1)
  BY <1>1, <1>3, <1>4, StoreFields DEF OnlyTurn, SameReferences
<1>. QED  BY <1>5 DEF turn

(* A steer puts itself at the end of the inbox. *)
LEMMA PublishSteerStep ==
  ASSUME TypeOK, NEW c \in Calls, PublishSteer(c)
  PROVE  OnlyTurn(entry[c],
                  [heap[entry[c]].active EXCEPT !.pending = Append(@, c)],
                  heap[entry[c]].next)
<1>. DEFINE e == entry[c]
            turn == [heap[e].active EXCEPT !.pending = Append(@, c)]
            en == [[heap[e] EXCEPT !.active = turn] EXCEPT !.preparing = FALSE]
<1>1. e \in EntryIds /\ heap[e] \in EntryType
  BY HeldEntry DEF PublishSteer
<1>2. turn \in TurnType
  <2>1. Append(heap[e].active.pending, c) \in Seq(Calls) /\ heap[e].active \in TurnType
    BY <1>1, EntryFields
  <2>. QED  BY <2>1, TurnUpdates
<1>3. StoreAndGrant(e, en)
  BY DEF PublishSteer, FinishPreparation
<1>. HIDE DEF turn
<1>4. /\ en \in EntryType /\ en.active = turn /\ en.next = heap[e].next
      /\ en.references = heap[e].references
  BY <1>1, <1>2 DEF EntryType
<1>. HIDE DEF en
<1>5. OnlyTurn(e, turn, heap[e].next)
  BY <1>1, <1>3, <1>4, StoreFields DEF OnlyTurn, SameReferences
<1>. QED  BY <1>5 DEF turn

(* Drain empties the inbox. *)
LEMMA PendingStep ==
  ASSUME TypeOK, NEW c \in Calls, Pending(c)
  PROVE  OnlyTurn(entry[c], [heap[entry[c]].active EXCEPT !.pending = <<>>],
                  heap[entry[c]].next)
<1>1. entry[c] \in EntryIds /\ heap[entry[c]] \in EntryType
  BY HeldEntry DEF Pending
<1>2. heap' = [heap EXCEPT ![entry[c]].active =
                 [heap[entry[c]].active EXCEPT !.pending = <<>>]]
  BY DEF Pending
<1>3. heap \in [EntryIds -> EntryType]
  BY DEF TypeOK
<1>. QED  BY <1>1, <1>2, <1>3 DEF OnlyTurn, SameReferences, EntryType

(* Release leaves the entry without a turn. *)
LEMMA CloseTurnStep ==
  ASSUME TypeOK, NEW c \in Calls, pc[c] # "idle", CloseTurn(c)
  PROVE  OnlyTurn(entry[c], NoTurn, heap[entry[c]].next)
<1>. DEFINE e == entry[c]
            en == [heap[e] EXCEPT !.active = NoTurn]
<1>1. e \in EntryIds /\ heap[e] \in EntryType
  BY HeldEntry
<1>2. NoTurn \in TurnType
  BY DEF NoTurn, TurnType
<1>3. /\ en \in EntryType /\ en.active = NoTurn /\ en.next = heap[e].next
      /\ en.references = heap[e].references
  BY <1>1, <1>2, EntryUpdates DEF EntryType
<1>4. StoreAndGrant(e, en)
  BY DEF CloseTurn
<1>. HIDE DEF en
<1>. QED  BY <1>1, <1>3, <1>4, StoreFields DEF OnlyTurn, SameReferences

(* Stop marks the turn of an entry nobody prepares in. *)
LEMMA MarkStoppingStep ==
  ASSUME TypeOK, NEW s \in Stoppers, MarkStopping(s)
  PROVE  \/ heap' = heap
         \/ /\ ~heap[stopEntry[s]].preparing
            /\ OnlyTurn(stopEntry[s],
                        [heap[stopEntry[s]].active EXCEPT !.stopping = TRUE],
                        heap[stopEntry[s]].next)
<1>1. stopEntry[s] \in EntryIds
  BY DEF MarkStopping, TypeOK
<1>2. heap \in [EntryIds -> EntryType]
  BY DEF TypeOK
<1>3. \/ heap' = heap
      \/ heap' = [heap EXCEPT ![stopEntry[s]].active =
                    [heap[stopEntry[s]].active EXCEPT !.stopping = TRUE]]
  BY DEF MarkStopping
<1>4. ~heap[stopEntry[s]].preparing
  BY DEF MarkStopping
<1>5. CASE heap' # heap
  BY <1>1, <1>2, <1>3, <1>4, <1>5, ZenonT(40) DEF OnlyTurn, SameReferences, EntryType
<1>. QED  BY <1>5

-----------------------------------------------------------------------------
(* Grants and decisions *)

(* Where a granted call can be after a step, and what it then knows. *)
LEMMA PreparingSteps ==
  ASSUME TypeOK, GrantInv, [Next]_vars, NEW d \in Calls, d \in granted
  PROVE  /\ pc'[d] \notin {"idle", "acquired"}
         /\ entry'[d] = entry[d]
         /\ pc'[d] \in {"waiting", "prepared"} => pc[d] \in {"waiting", "prepared"}
         /\ pc'[d] = "prepared" =>
              \/ pc[d] = "prepared" /\ owner'[d] = owner[d]
              \/ owner'[d] = ~Live(heap[entry[d]]) /\ heap' = heap
<1>a. pc \in [Calls -> CallStates] /\ entry \in [Calls -> EntryIds \cup {None}]
      /\ owner \in [Calls -> BOOLEAN]
  BY DEF TypeOK
<1>b. pc[d] \notin {"idle", "acquired"}
  BY DEF GrantInv
<1>1. ASSUME NEW c \in Calls, Arrive(c) \/ Enqueue(c) \/ Cancel(c) \/ GiveUpWaiting(c)
                             \/ GiveUpGrant(c) \/ PrepareFails(c)
      PROVE  /\ pc'[d] \notin {"idle", "acquired"} /\ entry'[d] = entry[d]
             /\ owner'[d] = owner[d] /\ pc'[d] \in {pc[d], "leaving"}
  BY <1>a, <1>b, <1>1 DEF Arrive, Enqueue, Cancel, GiveUpWaiting, GiveUpGrant, PrepareFails
<1>2. ASSUME NEW c \in Calls, DecideOwner(c)
      PROVE  /\ pc'[d] \notin {"idle", "acquired"} /\ entry'[d] = entry[d]
             /\ \/ owner'[d] = owner[d] /\ pc'[d] = pc[d]
                \/ /\ owner'[d] = ~Live(heap[entry[d]]) /\ heap' = heap
                   /\ pc[d] = "waiting"
  BY <1>a, <1>b, <1>2 DEF DecideOwner, entryVars
<1>3. ASSUME NEW c \in Calls, PublishOwner(c) \/ PublishSteer(c) \/ ReturnFromAdmit(c)
                             \/ Pending(c) \/ Release(c) \/ Cleanup(c) \/ ReleaseAgain(c)
      PROVE  /\ pc'[d] \notin {"idle", "acquired"} /\ entry'[d] = entry[d]
             /\ owner'[d] = owner[d]
             /\ pc'[d] = pc[d] \/ pc'[d] \notin {"waiting", "prepared"}
  BY <1>a, <1>b, <1>3 DEF PublishOwner, PublishSteer, ReturnFromAdmit, Pending, Release,
                          Cleanup, ReleaseAgain, callVars
<1>4. ASSUME NEW s \in Stoppers, FindEntry(s) \/ MarkStopping(s) \/ ReturnFromStop(s)
      PROVE  pc' = pc /\ entry' = entry /\ owner' = owner
  BY <1>4 DEF FindEntry, MarkStopping, ReturnFromStop, callVars
<1>5. CASE UNCHANGED vars
  BY <1>b, <1>5 DEF vars, callVars
<1>. QED
  BY <1>b, <1>1, <1>2, <1>3, <1>4, <1>5 DEF Next, Terminated

(* Only waiting calls are granted, and only granted ones prepare. *)
LEMMA GrantStep ==
  TypeOK /\ AdmissionInv /\ GrantInv /\ [Next]_vars => GrantInv'
<1>. SUFFICES ASSUME TypeOK, AdmissionInv, GrantInv, [Next]_vars, NEW d \in Calls
              PROVE  /\ d \in granted' => pc'[d] \notin {"idle", "acquired"}
                     /\ pc'[d] = "prepared" => d \in granted'
  BY DEF GrantInv
<1>1. NewGrants
  BY AdmissionNext
<1>2. d \in granted' => pc'[d] \notin {"idle", "acquired"}
  BY <1>1, PreparingSteps DEF NewGrants
<1>3. pc'[d] = "prepared" => pc[d] = "prepared" \/ d \in granted
  <2>a. pc \in [Calls -> CallStates]
    BY DEF TypeOK
  <2>1. ASSUME NEW c \in Calls, DecideOwner(c)
        PROVE  pc'[d] = pc[d] \/ d \in granted
    BY <2>a, <2>1 DEF DecideOwner
  <2>2. ASSUME NEW c \in Calls,
               Arrive(c) \/ Enqueue(c) \/ Cancel(c) \/ GiveUpWaiting(c) \/ GiveUpGrant(c)
               \/ PrepareFails(c) \/ PublishOwner(c) \/ PublishSteer(c)
               \/ ReturnFromAdmit(c) \/ Pending(c) \/ Release(c) \/ Cleanup(c)
               \/ ReleaseAgain(c)
        PROVE  pc'[d] = pc[d] \/ pc'[d] # "prepared"
    BY <2>a, <2>2 DEF Arrive, Enqueue, Cancel, GiveUpWaiting, GiveUpGrant, PrepareFails,
                 PublishOwner, PublishSteer, ReturnFromAdmit, Pending, Release, Cleanup,
                 ReleaseAgain, callVars
  <2>3. ASSUME NEW s \in Stoppers, FindEntry(s) \/ MarkStopping(s) \/ ReturnFromStop(s)
        PROVE  pc' = pc
    BY <2>3 DEF FindEntry, MarkStopping, ReturnFromStop, callVars
  <2>4. CASE UNCHANGED vars
    BY <2>4 DEF vars, callVars
  <2>. QED  BY <2>1, <2>2, <2>3, <2>4 DEF Next, Terminated
<1>. QED  BY <1>1, <1>2, <1>3 DEF NewGrants, GrantInv

(* While a call prepares, nobody else begins, stops or ends the turn there. *)
LEMMA PreparedTurn ==
  ASSUME TypeOK, AdmissionInv, GrantInv, [Next]_vars, NEW d \in Calls,
         Preparing(d), pc'[d] \in {"waiting", "prepared"}
  PROVE  /\ heap'[entry[d]].active.generation = heap[entry[d]].active.generation
         /\ heap'[entry[d]].active.steerable = heap[entry[d]].active.steerable
         /\ heap'[entry[d]].active.stopping = heap[entry[d]].active.stopping
<1>. DEFINE e == entry[d]
            Goal == /\ heap'[e].active.generation = heap[e].active.generation
                    /\ heap'[e].active.steerable = heap[e].active.steerable
                    /\ heap'[e].active.stopping = heap[e].active.stopping
<1>a. pc \in [Calls -> CallStates]
  BY DEF TypeOK
<1>b. e \in EntryIds /\ heap[e] \in EntryType /\ heap[e].active \in TurnType
  BY HeldEntry DEF Preparing, PreparingIn
<1>c. heap[e].preparing /\ \A c \in Calls : Preparing(c) /\ entry[c] = e => c = d
  BY <1>b DEF AdmissionInv, PreparingOK, Preparing
<1>1. ASSUME SameTurns PROVE Goal
  BY <1>b, <1>1 DEF SameTurns
<1>2. ASSUME NEW f, NEW t, NEW n, OnlyTurn(f, t, n),
             f = e => /\ t.generation = heap[e].active.generation
                      /\ t.steerable = heap[e].active.steerable
                      /\ t.stopping = heap[e].active.stopping
      PROVE  Goal
  BY <1>b, <1>2 DEF OnlyTurn
<1>3. ASSUME NEW c \in Calls, Arrive(c) PROVE Goal
  <2>1. PICK f \in EntryIds : heap' = [heap EXCEPT ![f].references = @ + 1]
    BY <1>3 DEF Arrive
  <2>. QED  BY <1>1, <2>1, CountSteps
<1>4. ASSUME NEW c \in Calls,
             Enqueue(c) \/ GiveUpWaiting(c) \/ GiveUpGrant(c) \/ PrepareFails(c)
      PROVE  Goal
  BY <1>1, <1>4, QueueSteps
<1>5. ASSUME NEW c \in Calls, Cancel(c) \/ DecideOwner(c) \/ Cleanup(c) PROVE Goal
  BY <1>5 DEF Cancel, DecideOwner, Cleanup, entryVars
<1>6. ASSUME NEW c \in Calls, PublishOwner(c) \/ PublishSteer(c) PROVE Goal
  <2>1. Preparing(c) /\ pc'[c] \notin {"waiting", "prepared"}
    BY <1>a, <1>6 DEF PublishOwner, PublishSteer, Preparing, PreparingIn, GrantInv
  <2>2. entry[c] # e
    BY <1>c, <2>1
  <2>. QED  BY <1>2, <1>6, <2>2, PublishOwnerStep, PublishSteerStep
<1>7. ASSUME NEW c \in Calls, ReturnFromAdmit(c) PROVE Goal
  <2>1. entry[c] \in EntryIds
    BY <1>7, HeldEntry DEF ReturnFromAdmit
  <2>2. heap' = [heap EXCEPT ![entry[c]].references = @ - 1]
    BY <1>7 DEF ReturnFromAdmit, Unreference
  <2>3. heap' = [heap EXCEPT ![entry[c]].references = @ + (-1)]
    <3>1. heap[entry[c]].references \in Int
      BY <2>1, EntryFields DEF TypeOK
    <3>. QED  BY <2>2, <3>1
  <2>. QED  BY <1>1, <2>1, <2>3, CountSteps
<1>8. ASSUME NEW c \in Calls, Pending(c) PROVE Goal
  <2>1. /\ [heap[e].active EXCEPT !.pending = <<>>].generation = heap[e].active.generation
        /\ [heap[e].active EXCEPT !.pending = <<>>].steerable = heap[e].active.steerable
        /\ [heap[e].active EXCEPT !.pending = <<>>].stopping = heap[e].active.stopping
    BY <1>b DEF TurnType
  <2>. QED  BY <1>2, <1>8, <2>1, PendingStep
<1>9. ASSUME NEW c \in Calls, pc[c] # "idle", CloseTurn(c) PROVE Goal
  <2>1. entry[c] # e
    BY <1>9, <1>c DEF CloseTurn
  <2>. QED  BY <1>2, <1>9, <2>1, CloseTurnStep
<1>10. ASSUME NEW c \in Calls, Release(c) \/ ReleaseAgain(c) PROVE Goal
  BY <1>9, <1>10 DEF Release, ReleaseAgain
<1>11. ASSUME NEW s \in Stoppers, FindEntry(s) PROVE Goal
  <2>1. CASE entries[stopKey[s]] = None
    BY <1>11, <2>1 DEF FindEntry
  <2>2. CASE entries[stopKey[s]] # None
    <3>1. PICK f \in EntryIds : heap' = [heap EXCEPT ![f].references = @ + 1]
      BY <1>11, <2>2 DEF FindEntry, TypeOK
    <3>. QED  BY <1>1, <3>1, CountSteps
  <2>. QED  BY <2>1, <2>2
<1>12. ASSUME NEW s \in Stoppers, MarkStopping(s) PROVE Goal
  <2>1. CASE heap' = heap
    BY <2>1
  <2>2. CASE heap' # heap
    <3>1. /\ ~heap[stopEntry[s]].preparing
          /\ OnlyTurn(stopEntry[s],
                      [heap[stopEntry[s]].active EXCEPT !.stopping = TRUE],
                      heap[stopEntry[s]].next)
      BY <1>12, <2>2, MarkStoppingStep
    <3>. QED  BY <1>2, <1>c, <3>1
  <2>. QED  BY <2>1, <2>2
<1>13. ASSUME NEW s \in Stoppers, ReturnFromStop(s) PROVE Goal
  <2>1. stopEntry[s] \in EntryIds
    BY <1>13 DEF ReturnFromStop, TypeOK
  <2>2. heap' = [heap EXCEPT ![stopEntry[s]].references = @ - 1]
    BY <1>13 DEF ReturnFromStop, Unreference
  <2>3. heap' = [heap EXCEPT ![stopEntry[s]].references = @ + (-1)]
    <3>1. heap[stopEntry[s]].references \in Int
      BY <2>1, EntryFields DEF TypeOK
    <3>. QED  BY <2>2, <3>1
  <2>. QED  BY <1>1, <2>1, <2>3, CountSteps
<1>14. CASE UNCHANGED vars
  BY <1>14 DEF vars, entryVars
<1>. QED
  BY <1>3, <1>4, <1>5, <1>6, <1>7, <1>8, <1>10, <1>11, <1>12, <1>13, <1>14
     DEF Next, Terminated

(* What a granted call found in its entry holds on. *)
LEMMA DecisionNext ==
  TypeOK /\ AdmissionInv /\ GrantInv /\ DecisionInv /\ [Next]_vars => DecisionInv'
<1>. SUFFICES ASSUME TypeOK, AdmissionInv, GrantInv, DecisionInv, [Next]_vars,
                     NEW d \in Calls
              PROVE  /\ pc'[d] = "prepared" => (owner'[d] <=> ~Live(heap'[entry'[d]]))
                     /\ PreparingIn(d, pc', granted') /\ Live(heap'[entry'[d]])
                        => /\ joinable'[d] /\ steerable'[d]
                           /\ heap'[entry'[d]].active.steerable
                           /\ ~heap'[entry'[d]].active.stopping
  BY DEF DecisionInv, Preparing, PreparingIn
<1>1. NewGrants /\ GrantInv'
  BY AdmissionNext, GrantStep
<1>2. joinable' = joinable /\ steerable' = steerable
  BY DEF Next, Terminated, vars, inputVars, Arrive, Enqueue, Cancel, GiveUpWaiting,
         GiveUpGrant, DecideOwner, PrepareFails, PublishOwner, PublishSteer,
         ReturnFromAdmit, Pending, Release, Cleanup, ReleaseAgain, FindEntry,
         MarkStopping, ReturnFromStop
<1>3. CASE d \in granted /\ pc'[d] \in {"waiting", "prepared"}
  <2>1. Preparing(d) /\ entry'[d] = entry[d]
    BY <1>3, PreparingSteps DEF Preparing, PreparingIn
  <2>2. /\ heap'[entry[d]].active.generation = heap[entry[d]].active.generation
        /\ heap'[entry[d]].active.steerable = heap[entry[d]].active.steerable
        /\ heap'[entry[d]].active.stopping = heap[entry[d]].active.stopping
    BY <1>3, <2>1, PreparedTurn
  <2>3. Live(heap'[entry[d]]) <=> Live(heap[entry[d]])
    BY <2>2 DEF Live
  <2>4. pc'[d] = "prepared" => (owner'[d] <=> ~Live(heap[entry[d]]))
    BY <1>3, PreparingSteps DEF DecisionInv
  <2>5. Live(heap[entry[d]])
           => /\ joinable[d] /\ steerable[d]
              /\ heap[entry[d]].active.steerable
              /\ ~heap[entry[d]].active.stopping
    BY <2>1 DEF DecisionInv
  <2>. QED  BY <1>2, <2>1, <2>2, <2>3, <2>4, <2>5
<1>4. CASE d \in granted' \ granted
  BY <1>1, <1>4 DEF NewGrants
<1>5. CASE d \notin granted'
  BY <1>1, <1>5 DEF GrantInv, PreparingIn
<1>6. CASE pc'[d] \notin {"waiting", "prepared"}
  BY <1>6 DEF PreparingIn
<1>. QED  BY <1>3, <1>4, <1>5, <1>6

-----------------------------------------------------------------------------
(* Generations *)

(* Generations go on naming executions. *)
LEMMA GenerationNext ==
  TypeOK /\ AdmissionInv /\ GrantInv /\ DecisionInv /\ GenerationInv /\ [Next]_vars
  => GenerationInv'
<1>. SUFFICES ASSUME TypeOK, AdmissionInv, GrantInv, DecisionInv, GenerationInv, [Next]_vars
              PROVE  GenerationInv'
  OBVIOUS
<1>. DEFINE Owned == {"admitted", "running", "released", "cleaned", "finished"}
<1>a. /\ pc \in [Calls -> CallStates] /\ generation \in [Calls -> Nat]
      /\ entry \in [Calls -> EntryIds \cup {None}]
      /\ \A e \in EntryIds : /\ heap[e].next \in Nat /\ heap[e].active.generation \in Nat
                              /\ heap[e].active \in TurnType
  BY EntryFields DEF TypeOK
<1>b. \A c \in Calls : pc[c] # "idle" => entry[c] \in EntryIds
  BY DEF TypeOK
(* The calls keep their generations and nobody new executes. *)
<1>. DEFINE CallsKeep ==
       /\ generation' = generation
       /\ \A c \in Calls :
            /\ pc[c] \in Owned => entry'[c] = entry[c] /\ pc'[c] \in Owned
            /\ pc'[c] \in {"admitted", "running"} => pc[c] \in {"admitted", "running"}
<1>1. ASSUME CallsKeep,
             \A e \in EntryIds : /\ heap'[e].next = heap[e].next
                                 /\ heap'[e].active.generation \in {0, heap[e].active.generation},
             \A c \in Calls : pc'[c] \in {"admitted", "running"} =>
                heap'[entry[c]].active.generation = heap[entry[c]].active.generation
      PROVE  GenerationInv'
  <2>1. \A e \in EntryIds : heap'[e].active.generation <= heap'[e].next
    BY <1>a, <1>1 DEF GenerationInv
  <2>2. ASSUME NEW c \in Calls, generation'[c] # 0
        PROVE  /\ pc'[c] \in Owned
               /\ generation'[c] <= heap'[entry'[c]].next
               /\ entry'[c] = entry[c]
    <3>1. generation[c] # 0 /\ pc[c] \in Owned /\ generation[c] <= heap[entry[c]].next
      BY <1>1, <2>2 DEF GenerationInv
    <3>2. entry[c] \in EntryIds /\ entry'[c] = entry[c]
      BY <1>b, <1>1, <3>1
    <3>. QED  BY <1>1, <3>1, <3>2
  <2>3. ASSUME NEW c \in Calls, pc'[c] \in {"admitted", "running"}
        PROVE  generation'[c] # 0 /\ heap'[entry'[c]].active.generation = generation'[c]
    <3>1. generation[c] # 0 /\ heap[entry[c]].active.generation = generation[c]
          /\ entry'[c] = entry[c]
      BY <1>1, <2>3 DEF GenerationInv, Executing, OwnsTurn
    <3>. QED  BY <1>1, <2>3, <3>1
  <2>4. ASSUME NEW c \in Calls, NEW d \in Calls, generation'[c] # 0,
               generation'[c] = generation'[d], entry'[c] = entry'[d]
        PROVE  c = d
    <3>1. entry[c] = entry[d]
      BY <2>2, <2>4
    <3>. QED  BY <1>1, <2>4, <3>1 DEF GenerationInv
  <2>. QED  BY <2>1, <2>2, <2>3, <2>4 DEF GenerationInv, Executing, OwnsTurn
<1>2. ASSUME CallsKeep, SameTurns PROVE GenerationInv'
  <2>1. ASSUME NEW c \in Calls, pc'[c] \in {"admitted", "running"}
        PROVE  heap'[entry[c]].active.generation = heap[entry[c]].active.generation
    BY <1>b, <1>2, <2>1 DEF SameTurns
  <2>. QED  BY <1>1, <1>2, <2>1 DEF SameTurns
<1>3. ASSUME CallsKeep, NEW f, NEW t, OnlyTurn(f, t, heap[f].next),
             t.generation = heap[f].active.generation
      PROVE  GenerationInv'
  <2>1. \A e \in EntryIds : /\ heap'[e].next = heap[e].next
                            /\ heap'[e].active.generation = heap[e].active.generation
    BY <1>3 DEF OnlyTurn
  <2>2. ASSUME NEW c \in Calls, pc'[c] \in {"admitted", "running"}
        PROVE  heap'[entry[c]].active.generation = heap[entry[c]].active.generation
    BY <1>b, <1>3, <2>1, <2>2
  <2>. QED  BY <1>1, <1>3, <2>1, <2>2
<1>4. ASSUME NEW c \in Calls, Arrive(c) PROVE GenerationInv'
  <2>1. PICK f \in EntryIds : /\ heap' = [heap EXCEPT ![f].references = @ + 1]
                              /\ entry' = [entry EXCEPT ![c] = f]
    BY <1>4 DEF Arrive
  <2>2. CallsKeep
    BY <1>4, <1>a, <2>1 DEF Arrive
  <2>. QED  BY <1>2, <2>1, <2>2, CountSteps
<1>5. ASSUME NEW c \in Calls,
             Enqueue(c) \/ GiveUpWaiting(c) \/ GiveUpGrant(c) \/ PrepareFails(c)
      PROVE  GenerationInv'
  <2>1. CallsKeep
    BY <1>5, <1>a DEF Enqueue, GiveUpWaiting, GiveUpGrant, PrepareFails
  <2>. QED  BY <1>2, <1>5, <2>1, QueueSteps
<1>6. ASSUME NEW c \in Calls, Cancel(c) \/ DecideOwner(c) \/ Cleanup(c) PROVE GenerationInv'
  <2>1. CallsKeep
    BY <1>6, <1>a DEF Cancel, DecideOwner, Cleanup
  <2>2. SameTurns
    BY <1>6 DEF Cancel, DecideOwner, Cleanup, entryVars, SameTurns
  <2>. QED  BY <1>2, <2>1, <2>2
<1>7. ASSUME NEW c \in Calls, PublishOwner(c) PROVE GenerationInv'
  <2>. DEFINE e == entry[c]
              new == heap[e].next + 1
  <2>1. /\ e \in EntryIds /\ new \in Nat /\ new # 0
        /\ heap'[e].active.generation = new /\ heap'[e].next = new
        /\ \A f \in EntryIds \ {e} : /\ heap'[f].active = heap[f].active
                                     /\ heap'[f].next = heap[f].next
    <3>1. e \in EntryIds /\ heap[e].next \in Nat
      BY <1>7, <1>a, <1>b DEF PublishOwner
    <3>2. OnlyTurn(e, [generation |-> new, steerable |-> steerable[c],
                       stopping |-> FALSE, pending |-> <<>>], new)
      BY <1>7, PublishOwnerStep
    <3>3. new \in Nat /\ new # 0
      BY <3>1
    <3>. QED  BY <3>1, <3>2, <3>3 DEF OnlyTurn
  <2>2. /\ generation'[c] = new
        /\ \A d \in Calls \ {c} : generation'[d] = generation[d] /\ pc'[d] = pc[d]
        /\ pc'[c] = "admitted" /\ entry' = entry
    BY <1>7, <1>a DEF PublishOwner
  <2>3. ~Live(heap[e])
    BY <1>7 DEF PublishOwner, DecisionInv
  <2>4. \A d \in Calls : generation[d] # 0 /\ entry[d] = e => generation[d] <= heap[e].next
    BY DEF GenerationInv
  <2>5. \A d \in Calls : Executing(d) => entry[d] # e
    BY <2>3 DEF GenerationInv, OwnsTurn, Live
  <2>. HIDE DEF e, new
  <2>6. \A f \in EntryIds : heap'[f].active.generation <= heap'[f].next
    BY <2>1, <1>a DEF GenerationInv
  <2>7. ASSUME NEW d \in Calls, generation'[d] # 0
        PROVE  /\ pc'[d] \in Owned
               /\ generation'[d] <= heap'[entry'[d]].next
    <3>1. CASE d = c
      BY <2>1, <2>2, <3>1 DEF e
    <3>2. CASE d # c
      <4>1. /\ generation[d] # 0 /\ pc'[d] \in Owned /\ entry[d] \in EntryIds
            /\ generation[d] <= heap[entry[d]].next
        BY <1>b, <2>2, <2>7, <3>2 DEF GenerationInv
      <4>2. heap[entry[d]].next <= heap'[entry[d]].next
        BY <1>a, <2>1, <4>1 DEF new
      <4>. QED  BY <1>a, <2>1, <2>2, <3>2, <4>1, <4>2
    <3>. QED  BY <3>1, <3>2
  <2>8. ASSUME NEW d \in Calls, pc'[d] \in {"admitted", "running"}
        PROVE  generation'[d] # 0 /\ heap'[entry'[d]].active.generation = generation'[d]
    <3>1. CASE d = c
      BY <2>1, <2>2, <3>1 DEF e
    <3>2. CASE d # c
      <4>1. Executing(d) /\ entry[d] # e /\ entry[d] \in EntryIds
        BY <1>b, <2>2, <2>5, <2>8, <3>2 DEF Executing
      <4>. QED  BY <2>1, <2>2, <3>2, <4>1 DEF GenerationInv, OwnsTurn
    <3>. QED  BY <3>1, <3>2
  <2>9. ASSUME NEW d1 \in Calls, NEW d2 \in Calls, generation'[d1] # 0,
               generation'[d1] = generation'[d2], entry'[d1] = entry'[d2]
        PROVE  d1 = d2
    <3>1. \A d \in Calls \ {c} : entry[d] = e => generation'[d] # new
      BY <1>a, <2>1, <2>2, <2>4 DEF new
    <3>2. CASE d1 = c \/ d2 = c
      BY <2>2, <2>9, <3>1, <3>2 DEF e
    <3>3. CASE d1 # c /\ d2 # c
      BY <2>2, <2>9, <3>3 DEF GenerationInv
    <3>. QED  BY <3>2, <3>3
  <2>. QED  BY <2>6, <2>7, <2>8, <2>9 DEF GenerationInv, Executing, OwnsTurn
<1>8. ASSUME NEW c \in Calls, PublishSteer(c) \/ Pending(c) PROVE GenerationInv'
  <2>1. CallsKeep
    BY <1>8, <1>a DEF PublishSteer, Pending, callVars
  <2>2. entry[c] \in EntryIds /\ heap[entry[c]].active \in TurnType
    BY <1>8, HeldEntry DEF PublishSteer, Pending
  <2>3. \A p : [heap[entry[c]].active EXCEPT !.pending = p].generation
               = heap[entry[c]].active.generation
    BY <2>2 DEF TurnType
  <2>4. CASE PublishSteer(c)
    <3>1. OnlyTurn(entry[c], [heap[entry[c]].active EXCEPT !.pending = Append(@, c)],
                   heap[entry[c]].next)
      BY <2>4, PublishSteerStep
    <3>. QED  BY <1>3, <2>1, <2>3, <3>1
  <2>5. CASE Pending(c)
    <3>1. OnlyTurn(entry[c], [heap[entry[c]].active EXCEPT !.pending = <<>>],
                   heap[entry[c]].next)
      BY <2>5, PendingStep
    <3>. QED  BY <1>3, <2>1, <2>3, <3>1
  <2>. QED  BY <1>8, <2>4, <2>5
<1>9. ASSUME NEW c \in Calls, ReturnFromAdmit(c) PROVE GenerationInv'
  <2>1. entry[c] \in EntryIds
    BY <1>9, HeldEntry DEF ReturnFromAdmit
  <2>2. heap' = [heap EXCEPT ![entry[c]].references = @ + (-1)]
    <3>1. heap[entry[c]].references \in Int
      BY <2>1, EntryFields DEF TypeOK
    <3>. QED  BY <1>9, <3>1 DEF ReturnFromAdmit, Unreference
  <2>3. CallsKeep
    BY <1>9, <1>a DEF ReturnFromAdmit
  <2>. QED  BY <1>2, <2>1, <2>2, <2>3, CountSteps
<1>10. ASSUME NEW c \in Calls, pc[c] \in {"running", "cleaned"}, CloseTurn(c), entry' = entry,
              generation' = generation,
              NEW to \in {"released", "finished"}, pc' = [pc EXCEPT ![c] = to]
       PROVE  GenerationInv'
  <2>1. OnlyTurn(entry[c], NoTurn, heap[entry[c]].next)
    BY <1>10, CloseTurnStep
  <2>2. CallsKeep
    BY <1>10, <1>a
  <2>3. \A d \in Calls : Executing(d) /\ entry[d] = entry[c] => d = c
    BY <1>10 DEF CloseTurn, OwnsTurn, GenerationInv
  <2>4. ASSUME NEW d \in Calls, pc'[d] \in {"admitted", "running"}
        PROVE  heap'[entry[d]].active.generation = heap[entry[d]].active.generation
    <3>1. d # c /\ Executing(d) /\ entry[d] \in EntryIds /\ entry[d] # entry[c]
      BY <1>10, <1>a, <1>b, <2>2, <2>3, <2>4 DEF Executing
    <3>. QED  BY <2>1, <3>1 DEF OnlyTurn
  <2>5. \A e \in EntryIds : /\ heap'[e].next = heap[e].next
                            /\ heap'[e].active.generation \in {0, heap[e].active.generation}
    BY <2>1 DEF OnlyTurn, NoTurn
  <2>. QED  BY <1>1, <2>2, <2>4, <2>5
<1>11. ASSUME NEW c \in Calls, Release(c) PROVE GenerationInv'
  BY <1>10, <1>11 DEF Release
<1>12. ASSUME NEW c \in Calls, ReleaseAgain(c) PROVE GenerationInv'
  <2>1. CASE OwnsTurn(c)
    BY <1>10, <1>12, <2>1 DEF ReleaseAgain
  <2>2. CASE ~OwnsTurn(c)
    <3>1. CallsKeep /\ heap' = heap
      BY <1>12, <1>a, <2>2 DEF ReleaseAgain
    <3>. QED  BY <1>2, <3>1 DEF SameTurns
  <2>. QED  BY <2>1, <2>2
<1>13. ASSUME NEW s \in Stoppers, FindEntry(s) \/ MarkStopping(s) \/ ReturnFromStop(s)
       PROVE  GenerationInv'
  <2>1. CallsKeep
    BY <1>13 DEF FindEntry, MarkStopping, ReturnFromStop, callVars
  <2>2. CASE FindEntry(s)
    <3>1. CASE entries[stopKey[s]] = None
      BY <1>2, <2>1, <2>2, <3>1 DEF FindEntry, SameTurns
    <3>2. CASE entries[stopKey[s]] # None
      <4>1. PICK f \in EntryIds : heap' = [heap EXCEPT ![f].references = @ + 1]
        BY <2>2, <3>2 DEF FindEntry, TypeOK
      <4>. QED  BY <1>2, <2>1, <4>1, CountSteps
    <3>. QED  BY <3>1, <3>2
  <2>3. CASE MarkStopping(s)
    <3>1. CASE heap' = heap
      BY <1>2, <2>1, <3>1 DEF SameTurns
    <3>2. CASE heap' # heap
      <4>1. OnlyTurn(stopEntry[s], [heap[stopEntry[s]].active EXCEPT !.stopping = TRUE],
                     heap[stopEntry[s]].next)
        BY <2>3, <3>2, MarkStoppingStep
      <4>2. [heap[stopEntry[s]].active EXCEPT !.stopping = TRUE].generation
              = heap[stopEntry[s]].active.generation
        BY <1>a, <4>1 DEF OnlyTurn, TurnType
      <4>. QED  BY <1>3, <2>1, <4>1, <4>2
    <3>. QED  BY <3>1, <3>2
  <2>4. CASE ReturnFromStop(s)
    <3>1. stopEntry[s] \in EntryIds
      BY <2>4 DEF ReturnFromStop, TypeOK
    <3>2. heap' = [heap EXCEPT ![stopEntry[s]].references = @ + (-1)]
      <4>1. heap[stopEntry[s]].references \in Int
        BY <3>1, EntryFields DEF TypeOK
      <4>. QED  BY <2>4, <4>1 DEF ReturnFromStop, Unreference
    <3>. QED  BY <1>2, <2>1, <3>1, <3>2, CountSteps
  <2>. QED  BY <1>13, <2>2, <2>3, <2>4
<1>14. CASE UNCHANGED vars
  <2>1. CallsKeep /\ SameTurns
    BY <1>14 DEF vars, callVars, entryVars, SameTurns
  <2>. QED  BY <1>2, <2>1
<1>. QED
  BY <1>4, <1>5, <1>6, <1>7, <1>8, <1>9, <1>11, <1>12, <1>13, <1>14 DEF Next, Terminated

-----------------------------------------------------------------------------
(* Reference counts and the map of entries *)

(* One element more, or one less, in a finite set. *)
LEMMA CountOneMore ==
  ASSUME NEW S, NEW T, NEW x, IsFiniteSet(S), x \notin S, T = S \cup {x}
  PROVE  Cardinality(T) = Cardinality(S) + 1
  BY FS_AddElement

(* One member less counts one less. *)
LEMMA CountOneLess ==
  ASSUME NEW S, NEW T, NEW x, IsFiniteSet(S), x \in S, T = S \ {x}
  PROVE  Cardinality(T) = Cardinality(S) - 1
  BY FS_RemoveElement

(* Those who hold an entry can be counted, before and after a step. *)
LEMMA FiniteHolders ==
  ASSUME NEW e
  PROVE  /\ IsFiniteSet(AdmitHolders(e)) /\ Cardinality(AdmitHolders(e)) \in Nat
         /\ IsFiniteSet(StopHolders(e)) /\ Cardinality(StopHolders(e)) \in Nat
         /\ IsFiniteSet(AdmitHolders(e)') /\ Cardinality(AdmitHolders(e)') \in Nat
         /\ IsFiniteSet(StopHolders(e)') /\ Cardinality(StopHolders(e)') \in Nat
<1>1. /\ AdmitHolders(e) \in SUBSET Calls /\ StopHolders(e) \in SUBSET Stoppers
      /\ AdmitHolders(e)' \in SUBSET Calls /\ StopHolders(e)' \in SUBSET Stoppers
  BY DEF AdmitHolders, StopHolders
<1>2. /\ IsFiniteSet(AdmitHolders(e)) /\ IsFiniteSet(StopHolders(e))
      /\ IsFiniteSet(AdmitHolders(e)') /\ IsFiniteSet(StopHolders(e)')
  BY <1>1, FiniteCallers, FS_Subset
<1>. QED  BY <1>2, FS_CardinalityType

(* A step that changes no count and no holder. *)
SameHolders ==
    /\ \A c \in Calls : /\ InAdmit(c)' <=> InAdmit(c)
                        /\ InAdmit(c) => entry'[c] = entry[c]
    /\ \A s \in Stoppers : /\ InStop(s)' <=> InStop(s)
                           /\ InStop(s) => stopEntry'[s] = stopEntry[s]

(* The same holders count the same. *)
LEMMA SameHoldersCount ==
  ASSUME SameHolders, NEW e
  PROVE  AdmitHolders(e)' = AdmitHolders(e) /\ StopHolders(e)' = StopHolders(e)
  BY DEF SameHolders, AdmitHolders, StopHolders

(* References go on counting holders. *)
LEMMA ReferenceNext ==
  TypeOK /\ ReferenceInv /\ [Next]_vars => ReferenceInv'
<1>. SUFFICES ASSUME TypeOK, ReferenceInv, [Next]_vars PROVE ReferenceInv'
  OBVIOUS
<1>a. /\ pc \in [Calls -> CallStates] /\ entry \in [Calls -> EntryIds \cup {None}]
      /\ stopPc \in [Stoppers -> StopStates]
      /\ stopEntry \in [Stoppers -> EntryIds \cup {None}]
      /\ \A e \in EntryIds : heap[e].references \in Int
  BY EntryFields DEF TypeOK
<1>b. \A e \in EntryIds :
         heap[e].references = Cardinality(AdmitHolders(e)) + Cardinality(StopHolders(e))
  BY DEF ReferenceInv
<1>1. ASSUME SameHolders, SameReferences PROVE ReferenceInv'
  BY <1>1, <1>b, SameHoldersCount DEF ReferenceInv, SameReferences
(* One caller comes in, or goes out, on entry e. *)
<1>2. ASSUME NEW e \in EntryIds, NEW r \in {-1, 1},
             heap' = [heap EXCEPT ![e].references = @ + r],
             \A f \in EntryIds \ {e} :
                AdmitHolders(f)' = AdmitHolders(f) /\ StopHolders(f)' = StopHolders(f),
             Cardinality(AdmitHolders(e)') + Cardinality(StopHolders(e)')
               = Cardinality(AdmitHolders(e)) + Cardinality(StopHolders(e)) + r
      PROVE  ReferenceInv'
  <2>1. /\ heap'[e].references = heap[e].references + r
        /\ \A f \in EntryIds \ {e} : heap'[f] = heap[f]
    BY <1>2, CountSteps
  <2>. QED  BY <1>b, <1>2, <2>1 DEF ReferenceInv
<1>3. ASSUME NEW c \in Calls, Arrive(c) PROVE ReferenceInv'
  <2>1. PICK e \in EntryIds : /\ heap' = [heap EXCEPT ![e].references = @ + 1]
                              /\ entry' = [entry EXCEPT ![c] = e]
    BY <1>3 DEF Arrive
  <2>2. /\ ~InAdmit(c) /\ InAdmit(c)' /\ entry'[c] = e
        /\ \A d \in Calls \ {c} : (InAdmit(d)' <=> InAdmit(d)) /\ entry'[d] = entry[d]
        /\ stopPc' = stopPc /\ stopEntry' = stopEntry
    BY <1>3, <1>a, <2>1 DEF Arrive, InAdmit, stopVars
  <2>3. \A f \in EntryIds : StopHolders(f)' = StopHolders(f)
    BY <2>2 DEF StopHolders, InStop
  <2>4. /\ c \notin AdmitHolders(e) /\ AdmitHolders(e)' = AdmitHolders(e) \cup {c}
        /\ \A f \in EntryIds \ {e} : AdmitHolders(f)' = AdmitHolders(f)
    BY <2>2 DEF AdmitHolders
  <2>5. Cardinality(AdmitHolders(e)') = Cardinality(AdmitHolders(e)) + 1
    BY <2>4, FiniteHolders, CountOneMore
  <2>6. Cardinality(AdmitHolders(e)') + Cardinality(StopHolders(e)')
         = Cardinality(AdmitHolders(e)) + Cardinality(StopHolders(e)) + 1
    BY <2>3, <2>5, FiniteHolders
  <2>. QED  BY <1>2, <2>1, <2>3, <2>4, <2>6
<1>4. ASSUME NEW c \in Calls,
             Enqueue(c) \/ GiveUpWaiting(c) \/ GiveUpGrant(c) \/ PrepareFails(c)
      PROVE  ReferenceInv'
  <2>1. SameHolders
    BY <1>4, <1>a DEF Enqueue, GiveUpWaiting, GiveUpGrant, PrepareFails, SameHolders,
                      InAdmit, InStop, stopVars
  <2>. QED  BY <1>1, <1>4, <2>1, QueueSteps
<1>5. ASSUME NEW c \in Calls, Cancel(c) \/ DecideOwner(c) \/ Cleanup(c) PROVE ReferenceInv'
  <2>1. SameHolders
    BY <1>5, <1>a DEF Cancel, DecideOwner, Cleanup, SameHolders, InAdmit, InStop, stopVars
  <2>2. SameReferences
    BY <1>5 DEF Cancel, DecideOwner, Cleanup, SameReferences, entryVars
  <2>. QED  BY <1>1, <2>1, <2>2
<1>6. ASSUME NEW c \in Calls, PublishOwner(c) \/ PublishSteer(c) \/ Pending(c)
      PROVE  ReferenceInv'
  <2>1. SameHolders
    BY <1>6, <1>a DEF PublishOwner, PublishSteer, Pending, SameHolders, InAdmit, InStop,
                      stopVars, callVars
  <2>2. SameReferences
    BY <1>6, PublishOwnerStep, PublishSteerStep, PendingStep DEF OnlyTurn
  <2>. QED  BY <1>1, <2>1, <2>2
<1>7. ASSUME NEW c \in Calls, ReturnFromAdmit(c) PROVE ReferenceInv'
  <2>1. PICK e \in EntryIds : e = entry[c]
    BY <1>7, HeldEntry DEF ReturnFromAdmit
  <2>2. heap' = [heap EXCEPT ![e].references = @ + (-1)]
    BY <1>7, <1>a, <2>1 DEF ReturnFromAdmit, Unreference
  <2>3. /\ InAdmit(c) /\ ~InAdmit(c)' /\ entry' = entry
        /\ \A d \in Calls \ {c} : InAdmit(d)' <=> InAdmit(d)
        /\ stopPc' = stopPc /\ stopEntry' = stopEntry
    BY <1>7, <1>a DEF ReturnFromAdmit, InAdmit, stopVars
  <2>4. \A f \in EntryIds : StopHolders(f)' = StopHolders(f)
    BY <2>3 DEF StopHolders, InStop
  <2>5. /\ c \in AdmitHolders(e) /\ AdmitHolders(e)' = AdmitHolders(e) \ {c}
        /\ \A f \in EntryIds \ {e} : AdmitHolders(f)' = AdmitHolders(f)
    BY <2>1, <2>3 DEF AdmitHolders
  <2>6. Cardinality(AdmitHolders(e)') = Cardinality(AdmitHolders(e)) - 1
    BY <2>5, FiniteHolders, CountOneLess
  <2>7. Cardinality(AdmitHolders(e)') + Cardinality(StopHolders(e)')
         = Cardinality(AdmitHolders(e)) + Cardinality(StopHolders(e)) + (-1)
    BY <2>1, <2>4, <2>6, FiniteHolders
  <2>. QED  BY <1>2, <2>1, <2>2, <2>4, <2>5, <2>7
<1>8. ASSUME NEW c \in Calls, Release(c) \/ ReleaseAgain(c) PROVE ReferenceInv'
  <2>1. SameHolders
    BY <1>8, <1>a DEF Release, ReleaseAgain, SameHolders, InAdmit, InStop, stopVars
  <2>2. SameReferences
    <3>1. CASE CloseTurn(c)
      BY <1>8, <3>1, CloseTurnStep DEF Release, ReleaseAgain, OnlyTurn
    <3>2. CASE heap' = heap
      BY <3>2 DEF SameReferences
    <3>. QED  BY <1>8, <3>1, <3>2 DEF Release, ReleaseAgain
  <2>. QED  BY <1>1, <2>1, <2>2
<1>9. ASSUME NEW s \in Stoppers, FindEntry(s) PROVE ReferenceInv'
  <2>1. CASE entries[stopKey[s]] = None
    <3>1. SameHolders
      BY <1>9, <1>a, <2>1 DEF FindEntry, SameHolders, InAdmit, InStop, callVars
    <3>. QED  BY <1>1, <1>9, <2>1, <3>1 DEF FindEntry, SameReferences
  <2>2. CASE entries[stopKey[s]] # None
    <3>1. PICK e \in EntryIds : /\ heap' = [heap EXCEPT ![e].references = @ + 1]
                                /\ stopEntry' = [stopEntry EXCEPT ![s] = e]
      BY <1>9, <2>2 DEF FindEntry, TypeOK
    <3>2. /\ ~InStop(s) /\ InStop(s)' /\ stopEntry'[s] = e
          /\ \A d \in Stoppers \ {s} :
                (InStop(d)' <=> InStop(d)) /\ stopEntry'[d] = stopEntry[d]
          /\ pc' = pc /\ entry' = entry
      BY <1>9, <1>a, <2>2, <3>1 DEF FindEntry, InStop, callVars
    <3>3. \A f \in EntryIds : AdmitHolders(f)' = AdmitHolders(f)
      BY <3>2 DEF AdmitHolders, InAdmit
    <3>4. /\ s \notin StopHolders(e) /\ StopHolders(e)' = StopHolders(e) \cup {s}
          /\ \A f \in EntryIds \ {e} : StopHolders(f)' = StopHolders(f)
      BY <3>2 DEF StopHolders
    <3>5. Cardinality(StopHolders(e)') = Cardinality(StopHolders(e)) + 1
      BY <3>4, FiniteHolders, CountOneMore
    <3>6. Cardinality(AdmitHolders(e)') + Cardinality(StopHolders(e)')
           = Cardinality(AdmitHolders(e)) + Cardinality(StopHolders(e)) + 1
      BY <3>3, <3>5, FiniteHolders
    <3>. QED  BY <1>2, <3>1, <3>3, <3>4, <3>6
  <2>. QED  BY <2>1, <2>2
<1>10. ASSUME NEW s \in Stoppers, MarkStopping(s) PROVE ReferenceInv'
  <2>1. SameHolders
    BY <1>10, <1>a DEF MarkStopping, SameHolders, InAdmit, InStop, callVars
  <2>2. SameReferences
    BY <1>10, MarkStoppingStep DEF OnlyTurn, SameReferences
  <2>. QED  BY <1>1, <2>1, <2>2
<1>11. ASSUME NEW s \in Stoppers, ReturnFromStop(s) PROVE ReferenceInv'
  <2>1. PICK e \in EntryIds : e = stopEntry[s]
    BY <1>11 DEF ReturnFromStop, TypeOK
  <2>2. heap' = [heap EXCEPT ![e].references = @ + (-1)]
    BY <1>11, <1>a, <2>1 DEF ReturnFromStop, Unreference
  <2>3. /\ InStop(s) /\ ~InStop(s)' /\ stopEntry' = stopEntry
        /\ \A d \in Stoppers \ {s} : InStop(d)' <=> InStop(d)
        /\ pc' = pc /\ entry' = entry
    BY <1>11, <1>a DEF ReturnFromStop, InStop, callVars
  <2>4. \A f \in EntryIds : AdmitHolders(f)' = AdmitHolders(f)
    BY <2>3 DEF AdmitHolders, InAdmit
  <2>5. /\ s \in StopHolders(e) /\ StopHolders(e)' = StopHolders(e) \ {s}
        /\ \A f \in EntryIds \ {e} : StopHolders(f)' = StopHolders(f)
    BY <2>1, <2>3 DEF StopHolders
  <2>6. Cardinality(StopHolders(e)') = Cardinality(StopHolders(e)) - 1
    BY <2>5, FiniteHolders, CountOneLess
  <2>7. Cardinality(AdmitHolders(e)') + Cardinality(StopHolders(e)')
         = Cardinality(AdmitHolders(e)) + Cardinality(StopHolders(e)) + (-1)
    BY <2>1, <2>4, <2>6, FiniteHolders
  <2>. QED  BY <1>2, <2>1, <2>2, <2>4, <2>5, <2>7
<1>12. CASE UNCHANGED vars
  <2>1. SameHolders /\ SameReferences
    BY <1>12 DEF vars, entryVars, callVars, stopVars, SameHolders, SameReferences,
                 InAdmit, InStop
  <2>. QED  BY <1>1, <2>1
<1>. QED
  BY <1>3, <1>4, <1>5, <1>6, <1>7, <1>8, <1>9, <1>10, <1>11, <1>12 DEF Next, Terminated

(* Whoever holds an entry goes on holding the one in the map. *)
LEMMA MappedNext ==
  TypeOK /\ GenerationInv /\ ReferenceInv /\ MappedInv /\ [Next]_vars
  /\ TypeOK' /\ GenerationInv' /\ ReferenceInv' => MappedInv'
<1>. SUFFICES ASSUME TypeOK, GenerationInv, ReferenceInv, MappedInv, [Next]_vars,
                     TypeOK', GenerationInv', ReferenceInv'
              PROVE  MappedInv'
  OBVIOUS
<1>. DEFINE Held(c) == InAdmit(c) \/ Executing(c)
<1>a. /\ pc \in [Calls -> CallStates] /\ entry \in [Calls -> EntryIds \cup {None}]
      /\ entries \in [Keys -> EntryIds \cup {None}] /\ key \in [Calls -> Keys]
      /\ stopPc \in [Stoppers -> StopStates] /\ stopKey \in [Stoppers -> Keys]
      /\ stopEntry \in [Stoppers -> EntryIds \cup {None}]
  BY DEF TypeOK
<1>b. /\ \A c \in Calls : Held(c) => entry[c] \in EntryIds
      /\ \A s \in Stoppers : InStop(s) => stopEntry[s] \in EntryIds
  BY DEF TypeOK, InAdmit, Executing, InStop
<1>c. key' = key /\ stopKey' = stopKey
  BY DEF Next, Terminated, vars, inputVars, Arrive, Enqueue, Cancel, GiveUpWaiting,
         GiveUpGrant, DecideOwner, PrepareFails, PublishOwner, PublishSteer,
         ReturnFromAdmit, Pending, Release, Cleanup, ReleaseAgain, FindEntry,
         MarkStopping, ReturnFromStop
(* Nobody new holds an entry and the map does not change. *)
<1>. DEFINE NobodyNew ==
       /\ \A c \in Calls : Held(c)' => Held(c) /\ entry'[c] = entry[c]
       /\ \A s \in Stoppers : InStop(s)' => InStop(s) /\ stopEntry'[s] = stopEntry[s]
<1>1. ASSUME NobodyNew, entries' = entries PROVE MappedInv'
  BY <1>1, <1>c DEF MappedInv
(* An entry leaves the map: it is idle, so nobody holds it. *)
<1>2. ASSUME NobodyNew, NEW k \in Keys, NEW e \in EntryIds,
             entries' = IF Idle(heap'[e]) /\ entries[k] = e
                        THEN [entries EXCEPT ![k] = None] ELSE entries
      PROVE  MappedInv'
  <2>1. CASE Idle(heap'[e]) /\ entries[k] = e
    <3>1. heap'[e].references = 0 /\ ~Live(heap'[e])
      BY <2>1 DEF Idle
    <3>2. /\ \A c \in Calls : InAdmit(c)' => entry'[c] # e
          /\ \A s \in Stoppers : InStop(s)' => stopEntry'[s] # e
      <4>1. /\ Cardinality(AdmitHolders(e)') \in Nat /\ Cardinality(StopHolders(e)') \in Nat
            /\ IsFiniteSet(AdmitHolders(e)') /\ IsFiniteSet(StopHolders(e)')
        BY FiniteHolders
      <4>2. Cardinality(AdmitHolders(e)') = 0 /\ Cardinality(StopHolders(e)') = 0
        BY <3>1, <4>1 DEF ReferenceInv
      <4>3. AdmitHolders(e)' = {} /\ StopHolders(e)' = {}
        BY <4>1, <4>2, FS_EmptySet
      <4>. QED  BY <4>3 DEF AdmitHolders, StopHolders
    <3>3. \A c \in Calls : Executing(c)' => entry'[c] # e
      BY <3>1 DEF GenerationInv, OwnsTurn, Live
    <3>4. \A l \in Keys : entries[l] # e => entries'[l] = entries[l]
      BY <1>2, <1>a, <2>1
    <3>. QED  BY <1>2, <1>c, <1>a, <3>2, <3>3, <3>4 DEF MappedInv
  <2>2. CASE ~(Idle(heap'[e]) /\ entries[k] = e)
    BY <1>1, <1>2, <2>2
  <2>. QED  BY <2>1, <2>2
<1>3. ASSUME NEW c \in Calls, Arrive(c) PROVE MappedInv'
  <2>1. PICK e \in EntryIds :
          /\ IF entries[key[c]] = None THEN e \in fresh ELSE e = entries[key[c]]
          /\ entries' = [entries EXCEPT ![key[c]] = e]
          /\ entry' = [entry EXCEPT ![c] = e]
    BY <1>3 DEF Arrive
  <2>2. /\ \A d \in Calls \ {c} : entry'[d] = entry[d] /\ pc'[d] = pc[d]
        /\ entry'[c] = e /\ stopPc' = stopPc /\ stopEntry' = stopEntry
    BY <1>3, <1>a, <2>1 DEF Arrive, stopVars
  <2>3. entries'[key[c]] = e /\ \A k \in Keys : entries[k] # None => entries'[k] = entries[k]
    BY <1>a, <2>1
  <2>4. ASSUME NEW d \in Calls, Held(d)' PROVE entries'[key'[d]] = entry'[d]
    <3>1. CASE d = c
      BY <1>c, <2>2, <2>3, <3>1
    <3>2. CASE d # c
      <4>1. Held(d) /\ entry'[d] = entry[d]
        BY <2>2, <2>4, <3>2 DEF InAdmit, Executing
      <4>2. entries[key[d]] = entry[d] /\ entries[key[d]] # None
        BY <1>b, <4>1, NoneAssumption DEF MappedInv
      <4>. QED  BY <1>a, <1>c, <2>3, <4>1, <4>2
    <3>. QED  BY <3>1, <3>2
  <2>5. ASSUME NEW s \in Stoppers, InStop(s)' PROVE entries'[stopKey'[s]] = stopEntry'[s]
    <3>1. InStop(s) /\ stopEntry'[s] = stopEntry[s]
      BY <2>2, <2>5 DEF InStop
    <3>2. entries[stopKey[s]] = stopEntry[s] /\ entries[stopKey[s]] # None
      BY <1>b, <3>1, NoneAssumption DEF MappedInv
    <3>. QED  BY <1>a, <1>c, <2>3, <3>1, <3>2
  <2>. QED  BY <2>4, <2>5 DEF MappedInv
<1>4. ASSUME NEW c \in Calls,
             Enqueue(c) \/ Cancel(c) \/ GiveUpWaiting(c) \/ GiveUpGrant(c) \/ DecideOwner(c)
             \/ PrepareFails(c) \/ PublishOwner(c) \/ PublishSteer(c) \/ Pending(c)
             \/ Release(c) \/ ReleaseAgain(c)
      PROVE  MappedInv'
  <2>1. NobodyNew
    BY <1>4, <1>a DEF Enqueue, Cancel, GiveUpWaiting, GiveUpGrant, DecideOwner, PrepareFails,
                 PublishOwner, PublishSteer, Pending, Release, ReleaseAgain, callVars,
                 stopVars, InAdmit, Executing, InStop
  <2>2. entries' = entries
    BY <1>4 DEF Enqueue, Cancel, GiveUpWaiting, GiveUpGrant, DecideOwner, PrepareFails,
                PublishOwner, PublishSteer, Pending, Release, ReleaseAgain, entryVars
  <2>. QED  BY <1>1, <2>1, <2>2
<1>5. ASSUME NEW c \in Calls, ReturnFromAdmit(c) PROVE MappedInv'
  <2>1. NobodyNew
    BY <1>5, <1>a DEF ReturnFromAdmit, stopVars, InAdmit, Executing, InStop
  <2>2. entry[c] \in EntryIds /\ heap \in [EntryIds -> EntryType] /\ key[c] \in Keys
    BY <1>5, HeldEntry DEF ReturnFromAdmit, TypeOK
  <2>3. entries' = IF Idle(heap'[entry[c]]) /\ entries[key[c]] = entry[c]
                   THEN [entries EXCEPT ![key[c]] = None] ELSE entries
    BY <1>5, <2>2 DEF ReturnFromAdmit, Unreference
  <2>. QED  BY <1>2, <2>1, <2>2, <2>3
<1>6. ASSUME NEW c \in Calls, Cleanup(c) PROVE MappedInv'
  <2>1. NobodyNew
    BY <1>6, <1>a DEF Cleanup, stopVars, InAdmit, Executing, InStop
  <2>2. entry[c] \in EntryIds /\ key[c] \in Keys /\ heap' = heap
    BY <1>6, HeldEntry DEF Cleanup, TypeOK
  <2>3. entries' = IF Idle(heap'[entry[c]]) /\ entries[key[c]] = entry[c]
                   THEN [entries EXCEPT ![key[c]] = None] ELSE entries
    BY <1>6, <2>2 DEF Cleanup
  <2>. QED  BY <1>2, <2>1, <2>2, <2>3
<1>7. ASSUME NEW s \in Stoppers, FindEntry(s) PROVE MappedInv'
  <2>1. /\ \A d \in Stoppers \ {s} : stopPc'[d] = stopPc[d] /\ stopEntry'[d] = stopEntry[d]
        /\ pc' = pc /\ entry' = entry /\ entries' = entries
        /\ InStop(s)' => stopEntry'[s] = entries[stopKey[s]]
    BY <1>7, <1>a DEF FindEntry, callVars, InStop
  <2>. QED  BY <1>c, <2>1 DEF MappedInv, InAdmit, Executing, InStop
<1>8. ASSUME NEW s \in Stoppers, MarkStopping(s) PROVE MappedInv'
  <2>1. NobodyNew /\ entries' = entries
    BY <1>8, <1>a DEF MarkStopping, callVars, InAdmit, Executing, InStop
  <2>. QED  BY <1>1, <2>1
<1>9. ASSUME NEW s \in Stoppers, ReturnFromStop(s) PROVE MappedInv'
  <2>1. NobodyNew
    BY <1>9, <1>a DEF ReturnFromStop, callVars, InAdmit, Executing, InStop
  <2>2. stopEntry[s] \in EntryIds /\ heap \in [EntryIds -> EntryType] /\ stopKey[s] \in Keys
    BY <1>9, <1>b, <1>a DEF ReturnFromStop, InStop, TypeOK
  <2>3. entries' = IF Idle(heap'[stopEntry[s]]) /\ entries[stopKey[s]] = stopEntry[s]
                   THEN [entries EXCEPT ![stopKey[s]] = None] ELSE entries
    BY <1>9, <2>2 DEF ReturnFromStop, Unreference
  <2>. QED  BY <1>2, <2>1, <2>2, <2>3
<1>10. CASE UNCHANGED vars
  <2>1. NobodyNew /\ entries' = entries
    BY <1>10 DEF vars, entryVars, callVars, stopVars, InAdmit, Executing, InStop
  <2>. QED  BY <1>1, <2>1
<1>. QED
  BY <1>3, <1>4, <1>5, <1>6, <1>7, <1>8, <1>9, <1>10 DEF Next, Terminated

-----------------------------------------------------------------------------
(* The theorems *)

(* The first state satisfies the inductive invariant. *)
LEMMA InitInv == Init => IInv
<1>. SUFFICES ASSUME Init PROVE IInv
  OBVIOUS
<1>1. TypeOK
  BY InitType
<1>2. \A e \in EntryIds : heap[e] = NewEntry
  BY DEF Init
<1>3. AdmissionInv
  BY <1>2 DEF Init, NewEntry, AdmissionInv, QueueOK, PreparingOK, PreparingIn
<1>4. GrantInv /\ DecisionInv
  BY DEF Init, GrantInv, DecisionInv, Preparing, PreparingIn
<1>5. GenerationInv
  BY <1>2 DEF Init, NewEntry, NoTurn, GenerationInv, Executing
<1>6. ReferenceInv
  <2>1. \A e : AdmitHolders(e) = {} /\ StopHolders(e) = {}
    BY DEF Init, AdmitHolders, StopHolders, InAdmit, InStop
  <2>2. Cardinality({}) = 0
    BY FS_EmptySet
  <2>3. NewEntry.references = 0
    BY DEF NewEntry
  <2>4. \A e \in EntryIds :
           heap[e].references = Cardinality(AdmitHolders(e)) + Cardinality(StopHolders(e))
    BY <1>2, <2>1, <2>2, <2>3
  <2>. QED  BY <2>4 DEF ReferenceInv
<1>7. MappedInv
  BY DEF Init, MappedInv, InAdmit, Executing, InStop
<1>. QED  BY <1>1, <1>3, <1>4, <1>5, <1>6, <1>7 DEF IInv

(* Every step keeps it. *)
LEMMA NextInv == IInv /\ [Next]_vars => IInv'
  BY NextType, AdmissionNext, GrantStep, DecisionNext, GenerationNext, ReferenceNext,
     MappedNext DEF IInv

(* The inductive invariant holds in every reachable state. *)
THEOREM Inductive == Spec => []IInv
<1>1. Init => IInv
  BY InitInv
<1>2. IInv /\ [Next]_vars => IInv'
  BY NextInv
<1>. QED  BY <1>1, <1>2, PTL DEF Spec

(* Type correctness of the admission registry (turns.go). *)
THEOREM TypeCorrect == Spec => []TypeOK
  BY Inductive, PTL DEF IInv

(***************************************************************************)
(* A conversation never has two executions at once, for any number of      *)
(* inputs and stops: both hold the entry of their key (MappedInv), that    *)
(* entry has one turn (OwnsTurn) and generations are unique.               *)
(***************************************************************************)
THEOREM OneOwnerAlways == Spec => []OneOwner
<1>1. IInv => OneOwner
  <2>. SUFFICES ASSUME IInv, NEW c \in Calls, NEW d \in Calls,
                       Executing(c), Executing(d), key[c] = key[d]
                PROVE  c = d
    BY DEF OneOwner
  <2>1. entry[c] = entry[d]
    BY DEF IInv, MappedInv
  <2>2. generation[c] # 0 /\ generation[c] = generation[d]
    BY <2>1 DEF IInv, GenerationInv, OwnsTurn
  <2>. QED  BY <2>1, <2>2 DEF IInv, GenerationInv
<1>. QED  BY <1>1, Inductive, PTL

(* The decision an input publishes with is never stale. *)
THEOREM DecisionAlwaysHolds == Spec => []DecisionHolds
<1>1. IInv => DecisionHolds
  BY DEF IInv, DecisionInv, GrantInv, Preparing, PreparingIn, DecisionHolds
<1>. QED  BY <1>1, Inductive, PTL

-----------------------------------------------------------------------------
(* Who executes what *)

(***************************************************************************)
(* The map gives each conversation an entry of its own that is allocated;  *)
(* a live turn is executed by a call that holds its entry; and a call that *)
(* has executed keeps the generation it was given.                         *)
(***************************************************************************)
AllocatedApart ==
    /\ \A k \in Keys : entries[k] # None => entries[k] \notin fresh
    /\ \A j, k \in Keys : entries[j] = entries[k] /\ entries[k] # None => j = k

LiveIsExecuted ==
    \A e \in EntryIds : Live(heap[e]) => \E c \in Calls : Executing(c) /\ entry[c] = e

KeepsGeneration ==
    \A c \in Calls :
        pc[c] \in {"released", "cleaned", "finished"} => generation[c] # 0

OwnedInv == AllocatedApart /\ LiveIsExecuted /\ KeepsGeneration

(* The inputs of a run never change. *)
LEMMA InputsStay == [Next]_vars => UNCHANGED <<key, steerable, joinable, stopKey>>
  BY DEF Next, Terminated, vars, inputVars, Arrive, Enqueue, Cancel, GiveUpWaiting,
         GiveUpGrant, DecideOwner, PrepareFails, PublishOwner, PublishSteer,
         ReturnFromAdmit, Pending, Release, Cleanup, ReleaseAgain, FindEntry,
         MarkStopping, ReturnFromStop

(* An entry that is not allocated has no turn. *)
LEMMA FreshIsIdle ==
  ASSUME IInv, OwnedInv, NEW e \in fresh
  PROVE  ~Live(heap[e])
<1>1. e \in EntryIds
  BY DEF IInv, TypeOK
<1>2. ASSUME NEW c \in Calls, Executing(c), entry[c] = e PROVE FALSE
  <2>1. entries[key[c]] = e /\ key[c] \in Keys /\ e # None
    BY <1>1, <1>2, NoneAssumption DEF IInv, MappedInv, TypeOK
  <2>. QED  BY <2>1 DEF OwnedInv, AllocatedApart
<1>. QED  BY <1>1, <1>2 DEF OwnedInv, LiveIsExecuted

(* A call that is done with its execution no longer owns the turn.         *)
LEMMA DoneIsNotOwner ==
  ASSUME IInv, OwnedInv, NEW c \in Calls, pc[c] \in {"released", "cleaned", "finished"}
  PROVE  ~OwnsTurn(c)
<1>. SUFFICES ASSUME OwnsTurn(c) PROVE FALSE
  OBVIOUS
<1>1. generation[c] # 0 /\ entry[c] \in EntryIds
  BY HeldEntry DEF OwnedInv, KeepsGeneration, IInv
<1>2. Live(heap[entry[c]])
  BY <1>1 DEF OwnsTurn, Live
<1>3. PICK d \in Calls : Executing(d) /\ entry[d] = entry[c]
  BY <1>1, <1>2 DEF OwnedInv, LiveIsExecuted
<1>4. generation[d] = generation[c]
  BY <1>3 DEF OwnsTurn, IInv, GenerationInv
<1>5. c = d
  BY <1>1, <1>3, <1>4 DEF IInv, GenerationInv
<1>. QED  BY <1>3, <1>5 DEF Executing

(* The map changes where an entry is allocated for a key without one, and  *)
(* where an idle one leaves.                                               *)
MapShrinks == /\ \A k \in Keys : entries'[k] \in {entries[k], None}
              /\ fresh' = fresh

MapGrows == \E k \in Keys, e \in fresh :
               /\ entries[k] = None
               /\ entries' = [entries EXCEPT ![k] = e]
               /\ fresh' = fresh \ {e}

(* A step of the program lets the map grow or shrink, by one entry.        *)
LEMMA MapStep ==
  ASSUME IInv, OwnedInv, [Next]_vars
  PROVE  MapShrinks \/ MapGrows
<1>a. entries \in [Keys -> EntryIds \cup {None}] /\ key \in [Calls -> Keys]
      /\ stopKey \in [Stoppers -> Keys] /\ fresh \subseteq EntryIds
  BY DEF IInv, TypeOK
<1>1. ASSUME NEW c \in Calls, Arrive(c) PROVE MapShrinks \/ MapGrows
  <2>1. PICK e \in EntryIds :
          /\ IF entries[key[c]] = None THEN e \in fresh ELSE e = entries[key[c]]
          /\ entries' = [entries EXCEPT ![key[c]] = e]
          /\ fresh' = fresh \ {e}
    BY <1>1 DEF Arrive
  <2>2. CASE entries[key[c]] = None
    BY <1>a, <2>1, <2>2 DEF MapGrows
  <2>3. CASE entries[key[c]] # None
    <3>1. e = entries[key[c]] /\ e \notin fresh /\ key[c] \in Keys
      BY <1>a, <2>1, <2>3 DEF OwnedInv, AllocatedApart
    <3>2. fresh' = fresh
      BY <2>1, <3>1
    <3>3. \A k \in Keys : entries'[k] = entries[k]
      BY <1>a, <2>1, <3>1
    <3>. QED  BY <3>2, <3>3 DEF MapShrinks
  <2>. QED  BY <2>2, <2>3
<1>2. ASSUME NEW c \in Calls,
             Enqueue(c) \/ Cancel(c) \/ GiveUpWaiting(c) \/ GiveUpGrant(c) \/ DecideOwner(c)
             \/ PrepareFails(c) \/ PublishOwner(c) \/ PublishSteer(c) \/ Pending(c)
             \/ Release(c) \/ ReleaseAgain(c)
      PROVE  MapShrinks
  BY <1>2 DEF MapShrinks, Enqueue, Cancel, GiveUpWaiting, GiveUpGrant, DecideOwner,
              PrepareFails, PublishOwner, PublishSteer, Pending, Release, ReleaseAgain,
              entryVars
<1>3. ASSUME NEW c \in Calls, ReturnFromAdmit(c) \/ Cleanup(c) PROVE MapShrinks
  <2>1. entries' \in {entries, [entries EXCEPT ![key[c]] = None]} /\ fresh' = fresh
    BY <1>3 DEF ReturnFromAdmit, Unreference, Cleanup
  <2>. QED  BY <1>a, <2>1 DEF MapShrinks
<1>4. ASSUME NEW s \in Stoppers, FindEntry(s) \/ MarkStopping(s) PROVE MapShrinks
  BY <1>4 DEF MapShrinks, FindEntry, MarkStopping
<1>5. ASSUME NEW s \in Stoppers, ReturnFromStop(s) PROVE MapShrinks
  <2>1. entries' \in {entries, [entries EXCEPT ![stopKey[s]] = None]} /\ fresh' = fresh
    BY <1>5 DEF ReturnFromStop, Unreference
  <2>. QED  BY <1>a, <2>1 DEF MapShrinks
<1>6. CASE UNCHANGED vars
  BY <1>6 DEF MapShrinks, vars, entryVars
<1>. QED
  BY <1>1, <1>2, <1>3, <1>4, <1>5, <1>6 DEF Next, Terminated

(* A call maps its conversation to a fresh entry or unmaps one: the entries *)
(* of the others stay theirs.                                              *)
LEMMA AllocatedApartNext ==
  ASSUME IInv, OwnedInv, [Next]_vars
  PROVE  AllocatedApart'
<1>a. entries \in [Keys -> EntryIds \cup {None}] /\ fresh \subseteq EntryIds
  BY DEF IInv, TypeOK
<1>b. /\ \A k \in Keys : entries[k] # None => entries[k] \notin fresh
      /\ \A j, k \in Keys : entries[j] = entries[k] /\ entries[k] # None => j = k
  BY DEF OwnedInv, AllocatedApart
<1>1. CASE MapShrinks
  BY <1>b, <1>1 DEF AllocatedApart, MapShrinks
<1>2. ASSUME NEW k \in Keys, NEW e \in fresh, entries[k] = None,
             entries' = [entries EXCEPT ![k] = e], fresh' = fresh \ {e}
      PROVE  AllocatedApart'
  <2>1. /\ entries'[k] = e
        /\ \A j \in Keys : j # k => entries'[j] = entries[j]
        /\ \A j \in Keys : entries[j] # e
    BY <1>a, <1>b, <1>2, NoneAssumption
  <2>. QED  BY <1>b, <1>2, <2>1 DEF AllocatedApart
<1>. QED  BY <1>1, <1>2, MapStep DEF MapGrows

(* What a call does to the turn of its entry is one of these, and the      *)
(* executions of all the others go on.                                     *)
LEMMA LiveIsExecutedNext ==
  ASSUME IInv, OwnedInv, [Next]_vars
  PROVE  LiveIsExecuted' /\ KeepsGeneration'
<1>a. /\ pc \in [Calls -> CallStates] /\ entry \in [Calls -> EntryIds \cup {None}]
      /\ generation \in [Calls -> Nat]
      /\ \A e \in EntryIds : heap[e].next \in Nat
  BY EntryFields DEF IInv, TypeOK
<1>t. TypeOK
  BY DEF IInv
<1>b. \A e \in EntryIds : Live(heap[e]) => \E c \in Calls : Executing(c) /\ entry[c] = e
  BY DEF OwnedInv, LiveIsExecuted
<1>c. \A c \in Calls : pc[c] \in {"released", "cleaned", "finished"} => generation[c] # 0
  BY DEF OwnedInv, KeepsGeneration
<1>. DEFINE Stay == /\ \A c \in Calls : Executing(c) => Executing(c)' /\ entry'[c] = entry[c]
                    /\ generation' = generation
                    /\ \A c \in Calls : pc'[c] \in {"released", "cleaned", "finished"}
                                        => pc[c] \in {"released", "cleaned", "finished"}
(* No execution ends, and no turn begins. *)
<1>1. ASSUME Stay,
             \A e \in EntryIds : heap'[e].active.generation = heap[e].active.generation
      PROVE  LiveIsExecuted' /\ KeepsGeneration'
  <2>1. LiveIsExecuted'
    <3>1. SUFFICES ASSUME NEW e \in EntryIds, Live(heap'[e])
                   PROVE  \E c \in Calls : Executing(c)' /\ entry'[c] = e
      BY DEF LiveIsExecuted
    <3>2. Live(heap[e])
      BY <1>1, <3>1 DEF Live
    <3>. QED  BY <1>b, <1>1, <3>2
  <2>2. KeepsGeneration'
    BY <1>c, <1>1 DEF KeepsGeneration
  <2>. QED  BY <2>1, <2>2
<1>2. ASSUME NEW c \in Calls, Arrive(c) PROVE LiveIsExecuted' /\ KeepsGeneration'
  <2>1. PICK e \in EntryIds : /\ heap' = [heap EXCEPT ![e].references = @ + 1]
                              /\ entry' = [entry EXCEPT ![c] = e]
    BY <1>2 DEF Arrive
  <2>2. SameTurns
    BY <1>t, <2>1, CountSteps
  <2>3. Stay
    BY <1>a, <1>2, <2>1 DEF Arrive, Executing
  <2>. HIDE DEF Stay
  <2>. QED  BY <1>1, <2>2, <2>3 DEF SameTurns
<1>3. ASSUME NEW c \in Calls,
             Enqueue(c) \/ GiveUpWaiting(c) \/ GiveUpGrant(c) \/ PrepareFails(c)
      PROVE  LiveIsExecuted' /\ KeepsGeneration'
  <2>1. SameTurns
    BY <1>t, <1>3, QueueSteps
  <2>2. Stay
    BY <1>a, <1>3 DEF Enqueue, GiveUpWaiting, GiveUpGrant, PrepareFails, Executing
  <2>. HIDE DEF Stay
  <2>. QED  BY <1>1, <2>1, <2>2 DEF SameTurns
<1>4. ASSUME NEW c \in Calls, Cancel(c) \/ DecideOwner(c) \/ Cleanup(c)
      PROVE  LiveIsExecuted' /\ KeepsGeneration'
  <2>1. heap' = heap
    BY <1>4 DEF Cancel, DecideOwner, Cleanup, entryVars
  <2>2. Stay
    BY <1>a, <1>4 DEF Cancel, DecideOwner, Cleanup, Executing
  <2>. HIDE DEF Stay
  <2>. QED  BY <1>1, <2>1, <2>2
<1>5. ASSUME NEW c \in Calls, ReturnFromAdmit(c) PROVE LiveIsExecuted' /\ KeepsGeneration'
  <2>1. heap' = [heap EXCEPT ![entry[c]].references = @ + (-1)] /\ entry[c] \in EntryIds
    <3>1. entry[c] \in EntryIds /\ heap[entry[c]] \in EntryType
      BY <1>t, <1>5, HeldEntry DEF ReturnFromAdmit
    <3>. QED  BY <1>5, <3>1, EntryFields DEF ReturnFromAdmit, Unreference
  <2>2. SameTurns
    BY <1>t, <2>1, CountSteps
  <2>3. Stay
    BY <1>a, <1>5 DEF ReturnFromAdmit, Executing
  <2>. HIDE DEF Stay
  <2>. QED  BY <1>1, <2>2, <2>3 DEF SameTurns
<1>6. ASSUME NEW c \in Calls, PublishSteer(c) \/ Pending(c)
      PROVE  LiveIsExecuted' /\ KeepsGeneration'
  <2>1. \A e \in EntryIds : heap'[e].active.generation = heap[e].active.generation
    <3>1. \E t : /\ OnlyTurn(entry[c], t, heap[entry[c]].next)
                 /\ t.generation = heap[entry[c]].active.generation
      <4>1. heap[entry[c]].active \in TurnType
        BY <1>t, <1>6, HeldEntry DEF PublishSteer, Pending
      <4>2. \A p : [heap[entry[c]].active EXCEPT !.pending = p].generation
                     = heap[entry[c]].active.generation
        BY <4>1 DEF TurnType
      <4>. QED  BY <1>t, <1>6, <4>2, PublishSteerStep, PendingStep
    <3>. QED  BY <3>1 DEF OnlyTurn
  <2>2. Stay
    BY <1>a, <1>6 DEF PublishSteer, Pending, callVars, Executing
  <2>. HIDE DEF Stay
  <2>. QED  BY <1>1, <2>1, <2>2
<1>7. ASSUME NEW c \in Calls, PublishOwner(c) PROVE LiveIsExecuted' /\ KeepsGeneration'
  <2>1. /\ entry[c] \in EntryIds
        /\ \A f \in EntryIds \ {entry[c]} : heap'[f].active = heap[f].active
    BY <1>t, <1>7, PublishOwnerStep DEF OnlyTurn
  <2>2. /\ Executing(c)' /\ entry' = entry
        /\ \A d \in Calls \ {c} : pc'[d] = pc[d] /\ generation'[d] = generation[d]
        /\ \A d \in Calls : Executing(d) => Executing(d)'
    BY <1>a, <1>7 DEF PublishOwner, Executing
  <2>3. LiveIsExecuted'
    <3>1. SUFFICES ASSUME NEW e \in EntryIds, Live(heap'[e])
                   PROVE  \E d \in Calls : Executing(d)' /\ entry'[d] = e
      BY DEF LiveIsExecuted
    <3>2. CASE e = entry[c]
      BY <2>2, <3>2
    <3>3. CASE e # entry[c]
      <4>1. Live(heap[e])
        BY <2>1, <3>1, <3>3 DEF Live
      <4>. QED  BY <1>b, <2>2, <4>1
    <3>. QED  BY <3>2, <3>3
  <2>4. pc'[c] = "admitted"
    BY <1>a, <1>7 DEF PublishOwner
  <2>5. KeepsGeneration'
    BY <1>c, <2>2, <2>4 DEF KeepsGeneration
  <2>. QED  BY <2>3, <2>5
<1>8. ASSUME NEW c \in Calls, Release(c) PROVE LiveIsExecuted' /\ KeepsGeneration'
  <2>1. OnlyTurn(entry[c], NoTurn, heap[entry[c]].next)
    BY <1>t, <1>8, CloseTurnStep DEF Release
  <2>2. /\ pc[c] = "running" /\ entry' = entry /\ generation' = generation
        /\ \A d \in Calls \ {c} : pc'[d] = pc[d]
    BY <1>a, <1>8 DEF Release
  <2>3. LiveIsExecuted'
    <3>1. SUFFICES ASSUME NEW e \in EntryIds, Live(heap'[e])
                   PROVE  \E d \in Calls : Executing(d)' /\ entry'[d] = e
      BY DEF LiveIsExecuted
    <3>2. e # entry[c] /\ Live(heap[e])
      BY <2>1, <3>1 DEF OnlyTurn, Live, NoTurn
    <3>3. PICK d \in Calls : Executing(d) /\ entry[d] = e
      BY <1>b, <3>2
    <3>. QED  BY <2>2, <3>2, <3>3 DEF Executing
  <2>4. generation[c] # 0
    BY <2>2 DEF Executing, IInv, GenerationInv
  <2>5. KeepsGeneration'
    BY <1>c, <2>2, <2>4 DEF KeepsGeneration
  <2>. QED  BY <2>3, <2>5
<1>9. ASSUME NEW c \in Calls, ReleaseAgain(c) PROVE LiveIsExecuted' /\ KeepsGeneration'
  <2>1. heap' = heap
    <3>1. pc[c] = "cleaned"
      BY <1>9 DEF ReleaseAgain
    <3>2. ~OwnsTurn(c)
      BY <3>1, DoneIsNotOwner
    <3>. QED  BY <1>9, <3>2 DEF ReleaseAgain
  <2>2. Stay
    BY <1>a, <1>9 DEF ReleaseAgain, Executing
  <2>. HIDE DEF Stay
  <2>. QED  BY <1>1, <2>1, <2>2
<1>10. ASSUME NEW s \in Stoppers, FindEntry(s) \/ MarkStopping(s) \/ ReturnFromStop(s)
       PROVE  LiveIsExecuted' /\ KeepsGeneration'
  <2>1. \A e \in EntryIds : heap'[e].active.generation = heap[e].active.generation
    <3>1. CASE FindEntry(s)
      <4>1. CASE entries[stopKey[s]] = None
        BY <3>1, <4>1 DEF FindEntry
      <4>2. CASE entries[stopKey[s]] # None
        <5>1. PICK e \in EntryIds : heap' = [heap EXCEPT ![e].references = @ + 1]
          BY <1>t, <3>1, <4>2 DEF FindEntry, TypeOK
        <5>. QED  BY <1>t, <5>1, CountSteps DEF SameTurns
      <4>. QED  BY <4>1, <4>2
    <3>2. CASE MarkStopping(s)
      <4>1. CASE heap' = heap
        BY <4>1
      <4>2. CASE heap' # heap
        <5>1. /\ OnlyTurn(stopEntry[s], [heap[stopEntry[s]].active EXCEPT !.stopping = TRUE],
                          heap[stopEntry[s]].next)
              /\ heap[stopEntry[s]].active \in TurnType
          BY <1>t, <3>2, <4>2, MarkStoppingStep, EntryFields DEF OnlyTurn, TypeOK
        <5>2. [heap[stopEntry[s]].active EXCEPT !.stopping = TRUE].generation
                = heap[stopEntry[s]].active.generation
          BY <5>1 DEF TurnType
        <5>. QED  BY <5>1, <5>2 DEF OnlyTurn
      <4>. QED  BY <4>1, <4>2
    <3>3. CASE ReturnFromStop(s)
      <4>1. stopEntry[s] \in EntryIds /\ heap[stopEntry[s]] \in EntryType
        BY <1>t, <3>3 DEF ReturnFromStop, TypeOK
      <4>2. heap' = [heap EXCEPT ![stopEntry[s]].references = @ + (-1)]
        BY <3>3, <4>1, EntryFields DEF ReturnFromStop, Unreference
      <4>. QED  BY <1>t, <4>1, <4>2, CountSteps DEF SameTurns
    <3>. QED  BY <1>10, <3>1, <3>2, <3>3
  <2>2. Stay
    BY <1>a, <1>10 DEF FindEntry, MarkStopping, ReturnFromStop, callVars, Executing
  <2>. HIDE DEF Stay
  <2>. QED  BY <1>1, <2>1, <2>2
<1>11. CASE UNCHANGED vars
  <2>1. Stay /\ heap' = heap
    BY <1>11 DEF vars, callVars, entryVars, Executing
  <2>. HIDE DEF Stay
  <2>. QED  BY <1>1, <2>1
<1>. QED
  BY <1>2, <1>3, <1>4, <1>5, <1>6, <1>7, <1>8, <1>9, <1>10, <1>11 DEF Next, Terminated

(* Together they are inductive on top of IInv.                             *)
LEMMA OwnedNext == IInv /\ OwnedInv /\ [Next]_vars => OwnedInv'
  BY AllocatedApartNext, LiveIsExecutedNext DEF OwnedInv

(* And they hold where nobody has been admitted.                           *)
LEMMA OwnedInit == Init => OwnedInv
<1>. SUFFICES ASSUME Init PROVE OwnedInv
  OBVIOUS
<1>1. \A e \in EntryIds : heap[e] = NewEntry
  BY DEF Init
<1>2. LiveIsExecuted
  BY <1>1 DEF LiveIsExecuted, Live, NewEntry, NoTurn
<1>3. AllocatedApart /\ KeepsGeneration
  BY DEF Init, AllocatedApart, KeepsGeneration
<1>. QED  BY <1>2, <1>3 DEF OwnedInv

-----------------------------------------------------------------------------
(* The refinement of Conversations *)

(***************************************************************************)
(* What the mapping makes of the entries: the execution of a conversation  *)
(* is the call that executes with its key, and its inbox and what it takes *)
(* are those of the turn in that call's entry.                             *)
(***************************************************************************)
TurnsAreRuns ==
    /\ \A c \in Calls : Executing(c) =>
         /\ Running[key[c]] = c
         /\ Inbox[key[c]] = heap[entry[c]].active.pending
         /\ key[c] \in Taking <=> /\ heap[entry[c]].active.steerable
                                  /\ ~heap[entry[c]].active.stopping
    /\ \A k \in Keys : (\A c \in Calls : Executing(c) => key[c] # k) =>
         Running[k] = None /\ Inbox[k] = <<>> /\ k \notin Taking

(* The mapping's choice of an owner is the call that executes, and the only *)
(* one.                                                                    *)
LEMMA TurnsRun == IInv /\ OwnedInv => TurnsAreRuns
<1>. SUFFICES ASSUME IInv, OwnedInv PROVE TurnsAreRuns
  OBVIOUS
<1>a. key \in [Calls -> Keys]
  BY DEF IInv, TypeOK
<1>1. ASSUME NEW c \in Calls, Executing(c)
      PROVE  /\ Running[key[c]] = c
             /\ Inbox[key[c]] = heap[entry[c]].active.pending
             /\ key[c] \in Taking <=> /\ heap[entry[c]].active.steerable
                                      /\ ~heap[entry[c]].active.stopping
  <2>1. /\ entries[key[c]] = entry[c] /\ entry[c] # None
        /\ generation[c] # 0 /\ heap[entry[c]].active.generation = generation[c]
        /\ key[c] \in Keys
    <3>1. pc[c] # "idle" /\ entry[c] \in EntryIds
      BY <1>1, HeldEntry DEF Executing, IInv
    <3>. QED  BY <1>a, <1>1, <3>1, NoneAssumption DEF IInv, MappedInv, GenerationInv, OwnsTurn
  <2>2. HasTurn(key[c])
    BY <2>1 DEF HasTurn, Live
  <2>3. \A d \in Calls : entry[d] = entry[c] /\ generation[d] = generation[c] <=> d = c
    BY <2>1 DEF IInv, GenerationInv
  <2>4. (CHOOSE d \in Calls : /\ entry[d] = entries[key[c]]
                              /\ generation[d] = Mapped(key[c]).generation) = c
    BY <2>1, <2>3 DEF Mapped
  <2>5. Running[key[c]] = c
    BY <2>1, <2>2, <2>4 DEF Running
  <2>6. Mapped(key[c]) = heap[entry[c]].active
    BY <2>1 DEF Mapped
  <2>. QED  BY <2>1, <2>2, <2>5, <2>6 DEF Inbox, Taking
<1>2. ASSUME NEW k \in Keys, \A c \in Calls : Executing(c) => key[c] # k
      PROVE  Running[k] = None /\ Inbox[k] = <<>> /\ k \notin Taking
  <2>1. ~HasTurn(k)
    <3>1. SUFFICES ASSUME HasTurn(k) PROVE FALSE
      OBVIOUS
    <3>2. entries[k] \in EntryIds /\ Live(heap[entries[k]])
      BY <3>1 DEF HasTurn, IInv, TypeOK
    <3>3. PICK c \in Calls : Executing(c) /\ entry[c] = entries[k]
      BY <3>2 DEF OwnedInv, LiveIsExecuted
    <3>4. entries[key[c]] = entries[k] /\ entries[k] # None /\ key[c] \in Keys
      BY <1>a, <3>2, <3>3, NoneAssumption DEF IInv, MappedInv
    <3>5. key[c] = k
      BY <3>4 DEF OwnedInv, AllocatedApart
    <3>. QED  BY <1>2, <3>3, <3>5
  <2>. QED  BY <2>1 DEF Running, Inbox, Taking
<1>. QED  BY <1>1, <1>2 DEF TurnsAreRuns

(* The mapped variables are functions and sets over the conversations.     *)
ViewForm ==
    /\ Running = [k \in Keys |-> Running[k]]
    /\ Inbox = [k \in Keys |-> Inbox[k]]
    /\ Taking \subseteq Keys

(* That form is by definition.                                             *)
LEMMA ViewFormed == ViewForm
  BY DEF ViewForm, Running, Inbox, Taking

(* The steps of the mapped variables: one call's fate, and one view.       *)
LEMMA FateStep ==
  ASSUME NEW c \in Calls, NEW p, pc \in [Calls -> CallStates], pc' = [pc EXCEPT ![c] = p]
  PROVE  /\ Fate[c] = FateAt(pc[c])
         /\ Fate' = [Fate EXCEPT ![c] = FateAt(p)]
         /\ FateAt(p) = FateAt(pc[c]) => Fate' = Fate
<1>1. \A d \in Calls : Fate[d] = FateAt(pc[d])
  BY DEF Fate
<1>2. Fate' = [d \in Calls |-> FateAt(pc'[d])] /\ Fate = [d \in Calls |-> FateAt(pc[d])]
  BY DEF Fate, FateAt
<1>3. \A d \in Calls : pc'[d] = IF d = c THEN p ELSE pc[d]
  OBVIOUS
<1>. QED  BY ONLY <1>1, <1>2, <1>3, c \in Calls

SameView(k) == /\ Running'[k] = Running[k]
               /\ Inbox'[k] = Inbox[k]
               /\ k \in Taking' <=> k \in Taking

(* Where the turns, the map of live entries and the executions stay, so    *)
(* does what the mapping shows of every conversation.                      *)
LEMMA SameViews ==
  ASSUME \A k \in Keys : SameView(k)
  PROVE  Running' = Running /\ Inbox' = Inbox /\ Taking' = Taking
<1>1. /\ Running = [k \in Keys |-> Running[k]] /\ Inbox = [k \in Keys |-> Inbox[k]]
      /\ Taking \subseteq Keys
  BY ViewFormed DEF ViewForm
<1>v. ViewForm'
  BY ViewFormed, PTL
<1>2. /\ Running' = [k \in Keys |-> Running'[k]] /\ Inbox' = [k \in Keys |-> Inbox'[k]]
      /\ Taking' \subseteq Keys
  BY <1>v DEF ViewForm
<1>3. \A k \in Keys : Running'[k] = Running[k] /\ Inbox'[k] = Inbox[k]
  BY DEF SameView
<1>4. Running' = Running /\ Inbox' = Inbox
  BY ONLY <1>1, <1>2, <1>3
<1>5. Taking' = Taking
  BY <1>1, <1>2 DEF SameView
<1>. QED  BY <1>4, <1>5

(* Where one entry changes its turn, it shows in its own conversation only. *)
LEMMA OneView ==
  ASSUME NEW k \in Keys, \A j \in Keys \ {k} : SameView(j)
  PROVE  /\ Running' = [Running EXCEPT ![k] = Running'[k]]
         /\ Inbox' = [Inbox EXCEPT ![k] = Inbox'[k]]
         /\ Taking' = IF k \in Taking' THEN Taking \cup {k} ELSE Taking \ {k}
         /\ Running'[k] = Running[k] => Running' = Running
         /\ Inbox'[k] = Inbox[k] => Inbox' = Inbox
         /\ (k \in Taking' <=> k \in Taking) => Taking' = Taking
<1>1. /\ Running = [j \in Keys |-> Running[j]] /\ Inbox = [j \in Keys |-> Inbox[j]]
      /\ Taking \subseteq Keys
  BY ViewFormed DEF ViewForm
<1>v. ViewForm'
  BY ViewFormed, PTL
<1>2. /\ Running' = [j \in Keys |-> Running'[j]] /\ Inbox' = [j \in Keys |-> Inbox'[j]]
      /\ Taking' \subseteq Keys
  BY <1>v DEF ViewForm
<1>3. \A j \in Keys : j # k => Running'[j] = Running[j] /\ Inbox'[j] = Inbox[j]
  BY DEF SameView
<1>4. /\ Running' = [Running EXCEPT ![k] = Running'[k]]
      /\ Running'[k] = Running[k] => Running' = Running
  BY ONLY <1>1, <1>2, <1>3
<1>5. /\ Inbox' = [Inbox EXCEPT ![k] = Inbox'[k]]
      /\ Inbox'[k] = Inbox[k] => Inbox' = Inbox
  BY ONLY <1>1, <1>2, <1>3
<1>6. \A j \in Keys : j # k => (j \in Taking' <=> j \in Taking)
  BY DEF SameView
<1>7. /\ Taking' = IF k \in Taking' THEN Taking \cup {k} ELSE Taking \ {k}
      /\ (k \in Taking' <=> k \in Taking) => Taking' = Taking
  BY ONLY <1>1, <1>2, <1>6, k \in Keys
<1>. QED  BY <1>4, <1>5, <1>7

(* Where the same calls execute with the same turns, the view is the same. *)
LEMMA ViewKept ==
  ASSUME TurnsAreRuns, TurnsAreRuns', key' = key, NEW k \in Keys,
         \A c \in Calls : key[c] = k =>
            /\ Executing(c)' <=> Executing(c)
            /\ Executing(c) => heap'[entry'[c]].active = heap[entry[c]].active
  PROVE  SameView(k)
<1>1. CASE \A c \in Calls : Executing(c) => key[c] # k
  <2>1. \A c \in Calls : Executing(c)' => key'[c] # k
    BY <1>1
  <2>. QED  BY <1>1, <2>1 DEF TurnsAreRuns, SameView
<1>2. ASSUME NEW c \in Calls, Executing(c), key[c] = k PROVE SameView(k)
  <2>1. Executing(c)' /\ key'[c] = k /\ heap'[entry'[c]].active = heap[entry[c]].active
    BY <1>2
  <2>2. /\ Running[k] = c /\ Inbox[k] = heap[entry[c]].active.pending
        /\ k \in Taking <=> /\ heap[entry[c]].active.steerable
                            /\ ~heap[entry[c]].active.stopping
    BY <1>2 DEF TurnsAreRuns
  <2>3. /\ Running'[k] = c /\ Inbox'[k] = heap'[entry'[c]].active.pending
        /\ k \in Taking' <=> /\ heap'[entry'[c]].active.steerable
                             /\ ~heap'[entry'[c]].active.stopping
    BY <2>1 DEF TurnsAreRuns
  <2>. QED  BY <2>1, <2>2, <2>3 DEF SameView
<1>. QED  BY <1>1, <1>2

(* What each place of a call means for its fate.                           *)
LEMMA FateValues ==
    /\ FateAt("idle") = "outside"
    /\ \A p \in {"acquired", "waiting", "prepared"} : FateAt(p) = "waiting"
    /\ \A p \in {"leaving", "refused"} : FateAt(p) = "refused"
    /\ \A p \in {"admitted", "running"} : FateAt(p) = "running"
    /\ \A p \in {"joining", "joined"} : FateAt(p) = "joined"
    /\ \A p \in {"released", "cleaned", "finished"} : FateAt(p) = "finished"
  BY DEF FateAt

(* Nobody begins or ends an execution, or changes the turn of one.         *)
Silent == /\ SameTurns
          /\ \A d \in Calls : /\ Executing(d)' <=> Executing(d)
                              /\ Executing(d) => entry'[d] = entry[d]
          /\ UNCHANGED <<key, steerable, joinable, drained, returned>>

(* The steps that Conversations sees in the fate of one call only.         *)
SilentCall(c) ==
    \/ Arrive(c) \/ Enqueue(c) \/ Cancel(c) \/ GiveUpWaiting(c) \/ GiveUpGrant(c)
    \/ DecideOwner(c) \/ PrepareFails(c) \/ ReturnFromAdmit(c) \/ Cleanup(c)
    \/ ReleaseAgain(c)

(* They are silent.                                                        *)
LEMMA SilentCalls ==
  ASSUME IInv, OwnedInv, NEW c \in Calls, SilentCall(c)
  PROVE  Silent
<1>a. /\ pc \in [Calls -> CallStates] /\ entry \in [Calls -> EntryIds \cup {None}]
      /\ TypeOK
  BY DEF IInv, TypeOK
<1>1. CASE Arrive(c)
  <2>1. PICK e \in EntryIds : /\ heap' = [heap EXCEPT ![e].references = @ + 1]
                              /\ entry' = [entry EXCEPT ![c] = e]
    BY <1>1 DEF Arrive
  <2>2. SameTurns
    BY <1>a, <2>1, CountSteps
  <2>. QED  BY <1>a, <1>1, <2>1, <2>2 DEF Silent, Arrive, Executing, inputVars, readVars
<1>2. CASE Enqueue(c) \/ GiveUpWaiting(c) \/ GiveUpGrant(c) \/ PrepareFails(c)
  <2>1. SameTurns
    BY <1>a, <1>2, QueueSteps
  <2>. QED
    BY <1>a, <1>2, <2>1 DEF Silent, Enqueue, GiveUpWaiting, GiveUpGrant, PrepareFails,
                            Executing, inputVars, readVars
<1>3. CASE Cancel(c) \/ DecideOwner(c) \/ Cleanup(c)
  <2>1. heap' = heap
    BY <1>3 DEF Cancel, DecideOwner, Cleanup, entryVars
  <2>2. SameTurns
    BY <2>1 DEF SameTurns
  <2>. QED  BY <1>a, <1>3, <2>2 DEF Silent, Cancel, DecideOwner, Cleanup, Executing,
                                    inputVars, readVars
<1>4. CASE ReturnFromAdmit(c)
  <2>1. entry[c] \in EntryIds /\ heap[entry[c]] \in EntryType
    BY <1>a, <1>4, HeldEntry DEF ReturnFromAdmit
  <2>2. heap' = [heap EXCEPT ![entry[c]].references = @ + (-1)]
    BY <1>4, <2>1, EntryFields DEF ReturnFromAdmit, Unreference
  <2>3. SameTurns
    BY <1>a, <2>1, <2>2, CountSteps
  <2>. QED  BY <1>a, <1>4, <2>3 DEF Silent, ReturnFromAdmit, Executing, inputVars, readVars
<1>5. CASE ReleaseAgain(c)
  <2>1. pc[c] = "cleaned"
    BY <1>5 DEF ReleaseAgain
  <2>2. ~OwnsTurn(c)
    BY <2>1, DoneIsNotOwner
  <2>3. heap' = heap /\ returned' = returned
    BY <1>5, <2>2 DEF ReleaseAgain
  <2>4. SameTurns
    BY <2>3 DEF SameTurns
  <2>. QED  BY <1>a, <1>5, <2>3, <2>4 DEF Silent, ReleaseAgain, Executing, inputVars
<1>. QED  BY <1>1, <1>2, <1>3, <1>4, <1>5 DEF SilentCall

(* Nor does a /stop that marks nothing show in the abstract specification. *)
LEMMA SilentStops ==
  ASSUME IInv, NEW s \in Stoppers,
         \/ FindEntry(s) \/ ReturnFromStop(s)
         \/ MarkStopping(s) /\ heap' = heap
  PROVE  Silent /\ pc' = pc
<1>a. TypeOK
  BY DEF IInv
<1>1. pc' = pc /\ entry' = entry /\ UNCHANGED <<key, steerable, joinable, drained, returned>>
  BY DEF FindEntry, MarkStopping, ReturnFromStop, callVars, inputVars, readVars
<1>2. SameTurns
  <2>1. CASE heap' = heap
    BY <2>1 DEF SameTurns
  <2>2. CASE FindEntry(s) /\ heap' # heap
    <3>1. entries[stopKey[s]] # None
      BY <2>2 DEF FindEntry
    <3>2. PICK e \in EntryIds : heap' = [heap EXCEPT ![e].references = @ + 1]
      BY <1>a, <2>2, <3>1 DEF FindEntry, TypeOK
    <3>. QED  BY <1>a, <3>2, CountSteps
  <2>3. CASE ReturnFromStop(s)
    <3>1. stopEntry[s] \in EntryIds /\ heap[stopEntry[s]] \in EntryType
      BY <1>a, <2>3 DEF ReturnFromStop, TypeOK
    <3>2. heap' = [heap EXCEPT ![stopEntry[s]].references = @ + (-1)]
      BY <2>3, <3>1, EntryFields DEF ReturnFromStop, Unreference
    <3>. QED  BY <1>a, <3>1, <3>2, CountSteps
  <2>. QED  BY <2>1, <2>2, <2>3
<1>. QED  BY <1>1, <1>2 DEF Silent, Executing

(* A silent step changes no view.                                          *)
LEMMA SilentViews ==
  ASSUME IInv, TurnsAreRuns, TurnsAreRuns', Silent
  PROVE  Running' = Running /\ Inbox' = Inbox /\ Taking' = Taking
<1>1. ASSUME NEW d \in Calls, Executing(d)
      PROVE  heap'[entry'[d]].active = heap[entry[d]].active
  <2>1. entry[d] \in EntryIds
    BY <1>1, HeldEntry DEF IInv, Executing
  <2>. QED  BY <1>1, <2>1 DEF Silent, SameTurns
<1>2. ASSUME NEW k \in Keys PROVE SameView(k)
  <2>1. key' = key /\ \A c \in Calls : Executing(c)' <=> Executing(c)
    BY DEF Silent
  <2>. QED  BY <1>1, <2>1, ViewKept
<1>. QED  BY <1>2, SameViews

(* Two conversations have entries of their own.                            *)
LEMMA EntriesApart ==
  ASSUME IInv, OwnedInv, NEW k \in Keys, entries[k] # None,
         NEW d \in Calls, Executing(d)
  PROVE  /\ entry[d] = entries[k] <=> key[d] = k
         /\ entry[d] \in EntryIds /\ generation[d] # 0
         /\ heap[entry[d]].active.generation = generation[d]
         /\ Live(heap[entry[d]])
<1>1. entries[key[d]] = entry[d] /\ key[d] \in Keys /\ entry[d] \in EntryIds
  BY HeldEntry DEF Executing, IInv, TypeOK, MappedInv
<1>2. generation[d] # 0 /\ heap[entry[d]].active.generation = generation[d]
  BY DEF IInv, GenerationInv, OwnsTurn
<1>3. entry[d] = entries[k] <=> key[d] = k
  BY <1>1 DEF OwnedInv, AllocatedApart
<1>. QED  BY <1>1, <1>2, <1>3 DEF Live

(* A change of the turn of one conversation changes no other view.         *)
LEMMA OtherViews ==
  ASSUME IInv, OwnedInv, TurnsAreRuns, TurnsAreRuns', key' = key, entry' = entry,
         NEW k \in Keys, entries[k] # None, NEW t, NEW n, OnlyTurn(entries[k], t, n),
         \A d \in Calls : key[d] # k => (Executing(d)' <=> Executing(d))
  PROVE  \A j \in Keys \ {k} : SameView(j)
<1>1. SUFFICES ASSUME NEW j \in Keys \ {k} PROVE SameView(j)
  OBVIOUS
<1>2. ASSUME NEW c \in Calls, key[c] = j, Executing(c)
      PROVE  heap'[entry'[c]].active = heap[entry[c]].active
  <2>1. entry[c] \in EntryIds \ {entries[k]}
    BY <1>2, EntriesApart
  <2>. QED  BY <2>1 DEF OnlyTurn
<1>. QED  BY <1>2, ViewKept

(* A silent step of a call is the abstract step of its fate, or a stutter. *)
LEMMA SilentRefines ==
  ASSUME IInv, OwnedInv, TurnsAreRuns, TurnsAreRuns', NEW c \in Calls, SilentCall(c)
  PROVE  [Promise!Next]_(Promise!vars)
<1>a. pc \in [Calls -> CallStates]
  BY DEF IInv, TypeOK
<1>1. /\ UNCHANGED <<key, steerable, joinable, drained, returned>>
      /\ Running' = Running /\ Inbox' = Inbox /\ Taking' = Taking
  BY SilentCalls, SilentViews DEF Silent
<1>2. CASE Arrive(c)
  <2>1. pc[c] = "idle" /\ pc' = [pc EXCEPT ![c] = "acquired"]
    BY <1>2 DEF Arrive
  <2>2. Fate[c] = FateAt(pc[c]) /\ Fate' = [Fate EXCEPT ![c] = FateAt("acquired")]
    BY <1>a, <2>1, FateStep
  <2>f. Fate[c] = "outside" /\ Fate' = [Fate EXCEPT ![c] = "waiting"]
    BY <2>1, <2>2, FateValues
  <2>3. Promise!Ask(c)
    BY <1>1, <2>f DEF Promise!Ask, Promise!Becomes
  <2>. QED  BY <2>3 DEF Promise!Next
<1>3. CASE GiveUpWaiting(c) \/ GiveUpGrant(c) \/ PrepareFails(c)
  <2>1. pc[c] \in {"waiting", "prepared"} /\ pc' = [pc EXCEPT ![c] = "leaving"]
    BY <1>3 DEF GiveUpWaiting, GiveUpGrant, PrepareFails
  <2>2. Fate[c] = FateAt(pc[c]) /\ Fate' = [Fate EXCEPT ![c] = FateAt("leaving")]
    BY <1>a, <2>1, FateStep
  <2>f. Fate[c] = "waiting" /\ Fate' = [Fate EXCEPT ![c] = "refused"]
    BY <2>1, <2>2, FateValues
  <2>3. Promise!Refuse(c)
    BY <1>1, <2>f DEF Promise!Refuse, Promise!Becomes
  <2>. QED  BY <2>3 DEF Promise!Next
<1>4. CASE \/ Enqueue(c) \/ Cancel(c) \/ DecideOwner(c) \/ ReturnFromAdmit(c)
           \/ Cleanup(c) \/ ReleaseAgain(c)
  <2>1. \E p : pc' = [pc EXCEPT ![c] = p] /\ FateAt(p) = FateAt(pc[c])
    <3>1. CASE Enqueue(c)
      BY <3>1, FateValues DEF Enqueue
    <3>2. CASE Cancel(c)
      <4>1. pc' = [pc EXCEPT ![c] = pc[c]]
        BY <1>a, <3>2 DEF Cancel
      <4>. QED  BY <4>1
    <3>3. CASE DecideOwner(c)
      BY <3>3, FateValues DEF DecideOwner
    <3>4. CASE ReturnFromAdmit(c)
      <4>1. CASE pc[c] = "admitted"
        <5>1. pc' = [pc EXCEPT ![c] = "running"]
          BY <3>4, <4>1 DEF ReturnFromAdmit
        <5>. QED  BY <4>1, <5>1, FateValues
      <4>2. CASE pc[c] = "joining"
        <5>1. pc' = [pc EXCEPT ![c] = "joined"]
          BY <3>4, <4>2 DEF ReturnFromAdmit
        <5>. QED  BY <4>2, <5>1, FateValues
      <4>3. CASE pc[c] = "leaving"
        <5>1. pc' = [pc EXCEPT ![c] = "refused"]
          BY <3>4, <4>3 DEF ReturnFromAdmit
        <5>. QED  BY <4>3, <5>1, FateValues
      <4>. QED  BY <3>4, <4>1, <4>2, <4>3 DEF ReturnFromAdmit
    <3>5. CASE Cleanup(c)
      BY <3>5, FateValues DEF Cleanup
    <3>6. CASE ReleaseAgain(c)
      BY <3>6, FateValues DEF ReleaseAgain
    <3>. QED  BY <1>4, <3>1, <3>2, <3>3, <3>4, <3>5, <3>6
  <2>2. Fate' = Fate
    BY <1>a, <2>1, FateStep
  <2>. QED  BY <1>1, <2>2 DEF Promise!vars
<1>. QED  BY <1>2, <1>3, <1>4 DEF SilentCall

(* The input establishes a new execution: no other ran there.              *)
LEMMA BeginRefines ==
  ASSUME IInv, OwnedInv, TurnsAreRuns, TurnsAreRuns', NEW c \in Calls, PublishOwner(c)
  PROVE  Promise!Begin(c)
<1>. DEFINE k == key[c]
            turn == [generation |-> heap[entry[c]].next + 1, steerable |-> steerable[c],
                     stopping |-> FALSE, pending |-> <<>>]
<1>a. pc \in [Calls -> CallStates] /\ k \in Keys /\ steerable[c] \in BOOLEAN /\ TypeOK
  BY DEF IInv, TypeOK
<1>b. /\ pc[c] = "prepared" /\ pc' = [pc EXCEPT ![c] = "admitted"]
      /\ UNCHANGED <<key, steerable, joinable, entry, drained, returned>>
  BY DEF PublishOwner, inputVars, readVars
<1>c. entries[k] = entry[c] /\ entry[c] # None
  BY <1>b, HeldEntry, NoneAssumption DEF IInv, MappedInv, InAdmit, TypeOK
<1>1. OnlyTurn(entries[k], turn, heap[entry[c]].next + 1)
  BY <1>a, <1>c, PublishOwnerStep
<1>2. Fate[c] = "waiting" /\ Fate' = [Fate EXCEPT ![c] = "running"]
  <2>1. Fate[c] = FateAt(pc[c]) /\ Fate' = [Fate EXCEPT ![c] = FateAt("admitted")]
    BY <1>a, <1>b, FateStep
  <2>. QED  BY <1>b, <2>1, FateValues
<1>3. \A d \in Calls : Executing(d) => key[d] # k
  <2>1. SUFFICES ASSUME NEW d \in Calls, Executing(d), key[d] = k PROVE FALSE
    OBVIOUS
  <2>2. Live(heap[entry[c]])
    BY <1>a, <1>c, <2>1, EntriesApart
  <2>. QED  BY <1>b, <2>2 DEF PublishOwner, IInv, DecisionInv
<1>4. Running[k] = None /\ Inbox[k] = <<>> /\ k \notin Taking
  BY <1>a, <1>3 DEF TurnsAreRuns
<1>5. Running'[k] = c /\ Inbox'[k] = <<>> /\ (k \in Taking' <=> steerable[c])
  <2>1. Executing(c)' /\ key'[c] = k /\ entry'[c] = entry[c]
    BY <1>a, <1>b DEF Executing
  <2>2. /\ heap'[entry[c]].active.pending = <<>>
        /\ heap'[entry[c]].active.steerable = steerable[c]
        /\ heap'[entry[c]].active.stopping = FALSE
    BY <1>1, <1>c DEF OnlyTurn
  <2>. QED  BY <2>1, <2>2 DEF TurnsAreRuns
<1>6. \A d \in Calls : key[d] # k => (Executing(d)' <=> Executing(d))
  BY <1>a, <1>b DEF Executing
<1>. HIDE DEF turn
<1>7. \A j \in Keys \ {k} : SameView(j)
  BY <1>a, <1>b, <1>c, <1>1, <1>6, OtherViews
<1>8. /\ Running' = [Running EXCEPT ![k] = c]
      /\ Inbox' = Inbox
      /\ Taking' = IF steerable[c] THEN Taking \cup {k} ELSE Taking
  <2>1. /\ Running' = [Running EXCEPT ![k] = Running'[k]]
        /\ Inbox'[k] = Inbox[k] => Inbox' = Inbox
        /\ Taking' = IF k \in Taking' THEN Taking \cup {k} ELSE Taking \ {k}
    BY <1>a, <1>7, OneView
  <2>. QED  BY <1>4, <1>5, <2>1
<1>. QED  BY <1>2, <1>4, <1>8, <1>b DEF Promise!Begin, Promise!Becomes

(* The input is published to the execution that is running, which takes it. *)
LEMMA JoinRefines ==
  ASSUME IInv, OwnedInv, TurnsAreRuns, TurnsAreRuns', NEW c \in Calls, PublishSteer(c)
  PROVE  Promise!Join(c)
<1>. DEFINE k == key[c]
            en == heap[entry[c]]
            turn == [en.active EXCEPT !.pending = Append(@, c)]
<1>a. pc \in [Calls -> CallStates] /\ k \in Keys /\ TypeOK
  BY DEF IInv, TypeOK
<1>b. /\ pc[c] = "prepared" /\ ~owner[c] /\ pc' = [pc EXCEPT ![c] = "joining"]
      /\ UNCHANGED <<key, steerable, joinable, entry, drained, returned>>
  BY DEF PublishSteer, inputVars, readVars
<1>c. /\ entries[k] = entry[c] /\ entry[c] # None /\ entry[c] \in EntryIds
      /\ en.active \in TurnType
  BY <1>a, <1>b, HeldEntry, NoneAssumption DEF IInv, MappedInv, InAdmit
<1>1. OnlyTurn(entries[k], turn, en.next)
  BY <1>a, <1>c, PublishSteerStep
<1>2. Fate[c] = "waiting" /\ Fate' = [Fate EXCEPT ![c] = "joined"]
  <2>1. Fate[c] = FateAt(pc[c]) /\ Fate' = [Fate EXCEPT ![c] = FateAt("joining")]
    BY <1>a, <1>b, FateStep
  <2>. QED  BY <1>b, <2>1, FateValues
<1>3. /\ Live(en) /\ joinable[c] /\ steerable[c]
      /\ en.active.steerable /\ ~en.active.stopping
  BY <1>b DEF IInv, DecisionInv, GrantInv, Preparing, PreparingIn
<1>4. PICK d \in Calls : Executing(d) /\ entry[d] = entry[c]
  BY <1>c, <1>3 DEF OwnedInv, LiveIsExecuted
<1>5. key[d] = k
  BY <1>a, <1>c, <1>4, EntriesApart
<1>6. Running[k] = d /\ Inbox[k] = en.active.pending /\ k \in Taking
  BY <1>3, <1>4, <1>5 DEF TurnsAreRuns
<1>7. \A o \in Calls : Executing(o)' <=> Executing(o)
  BY <1>a, <1>b DEF Executing
<1>8. Running'[k] = d /\ Inbox'[k] = Append(Inbox[k], c) /\ k \in Taking'
  <2>1. Executing(d)' /\ key'[d] = k /\ entry'[d] = entry[c]
    BY <1>b, <1>4, <1>5, <1>7
  <2>2. /\ heap'[entry[c]].active.pending = Append(en.active.pending, c)
        /\ heap'[entry[c]].active.steerable = en.active.steerable
        /\ heap'[entry[c]].active.stopping = en.active.stopping
    BY <1>1, <1>c DEF OnlyTurn, TurnType
  <2>3. /\ Running'[k] = d /\ Inbox'[k] = heap'[entry[c]].active.pending
        /\ k \in Taking' <=> /\ heap'[entry[c]].active.steerable
                             /\ ~heap'[entry[c]].active.stopping
    BY <2>1 DEF TurnsAreRuns
  <2>. QED  BY <1>3, <1>6, <2>2, <2>3
<1>. HIDE DEF turn, en
<1>9. \A j \in Keys \ {k} : SameView(j)
  BY <1>a, <1>b, <1>c, <1>1, <1>7, OtherViews
<1>10. Running' = Running /\ Taking' = Taking /\ Inbox' = [Inbox EXCEPT ![k] = Append(@, c)]
  <2>1. /\ Running'[k] = Running[k] => Running' = Running
        /\ Inbox' = [Inbox EXCEPT ![k] = Inbox'[k]]
        /\ (k \in Taking' <=> k \in Taking) => Taking' = Taking
    BY <1>a, <1>9, OneView
  <2>. QED  BY <1>6, <1>8, <2>1
<1>. QED  BY <1>2, <1>3, <1>6, <1>10, <1>b DEF Promise!Join, Promise!Becomes

(* An execution reads its inbox.                                           *)
LEMMA ReadRefines ==
  ASSUME IInv, OwnedInv, TurnsAreRuns, TurnsAreRuns', NEW c \in Calls, Pending(c)
  PROVE  Promise!Read(c)
<1>. DEFINE k == key[c]
            en == heap[entry[c]]
            turn == [en.active EXCEPT !.pending = <<>>]
<1>a. k \in Keys /\ TypeOK
  BY DEF IInv, TypeOK
<1>b. /\ pc[c] = "running" /\ pc' = pc
      /\ drained' = [drained EXCEPT ![c] = @ \o en.active.pending]
      /\ UNCHANGED <<key, steerable, joinable, entry, returned>>
  BY DEF Pending, inputVars, callVars
<1>c. /\ entries[k] = entry[c] /\ entry[c] # None /\ entry[c] \in EntryIds
      /\ en.active \in TurnType
  BY <1>a, <1>b, HeldEntry, NoneAssumption DEF IInv, MappedInv, Executing
<1>1. OnlyTurn(entries[k], turn, en.next)
  BY <1>a, <1>c, PendingStep
<1>2. Fate' = Fate
  BY <1>b DEF Fate
<1>3. /\ Executing(c) /\ Executing(c)'
      /\ \A o \in Calls : Executing(o)' <=> Executing(o)
  BY <1>b DEF Executing
<1>4. /\ Running[k] = c /\ Inbox[k] = en.active.pending
      /\ k \in Taking <=> en.active.steerable /\ ~en.active.stopping
  BY <1>3 DEF TurnsAreRuns
<1>5. /\ Running'[k] = c /\ Inbox'[k] = <<>>
      /\ k \in Taking' <=> k \in Taking
  <2>1. key'[c] = k /\ entry'[c] = entry[c]
    BY <1>b
  <2>2. /\ heap'[entry[c]].active.pending = <<>>
        /\ heap'[entry[c]].active.steerable = en.active.steerable
        /\ heap'[entry[c]].active.stopping = en.active.stopping
    BY <1>1, <1>c DEF OnlyTurn, TurnType
  <2>. QED  BY <1>3, <1>4, <2>1, <2>2 DEF TurnsAreRuns
<1>. HIDE DEF turn, en
<1>6. \A j \in Keys \ {k} : SameView(j)
  BY <1>a, <1>b, <1>c, <1>1, <1>3, OtherViews
<1>7. Running' = Running /\ Taking' = Taking /\ Inbox' = [Inbox EXCEPT ![k] = <<>>]
  <2>1. /\ Running'[k] = Running[k] => Running' = Running
        /\ Inbox' = [Inbox EXCEPT ![k] = Inbox'[k]]
        /\ (k \in Taking' <=> k \in Taking) => Taking' = Taking
    BY <1>a, <1>6, OneView
  <2>. QED  BY <1>4, <1>5, <2>1
<1>. QED  BY <1>2, <1>4, <1>7, <1>b DEF Promise!Read

(* An execution ends and gets back what it has not read.                   *)
LEMMA EndRefines ==
  ASSUME IInv, OwnedInv, TurnsAreRuns, TurnsAreRuns', NEW c \in Calls, Release(c)
  PROVE  Promise!End(c)
<1>. DEFINE k == key[c]
            en == heap[entry[c]]
<1>a. pc \in [Calls -> CallStates] /\ k \in Keys /\ TypeOK
  BY DEF IInv, TypeOK
<1>b. /\ pc[c] = "running" /\ pc' = [pc EXCEPT ![c] = "released"]
      /\ returned' = [returned EXCEPT ![c] = en.active.pending]
      /\ UNCHANGED <<key, steerable, joinable, entry, drained>>
  BY DEF Release, CloseTurn, inputVars
<1>c. entries[k] = entry[c] /\ entry[c] # None
  BY <1>a, <1>b, HeldEntry, NoneAssumption DEF IInv, MappedInv, Executing
<1>1. OnlyTurn(entries[k], NoTurn, en.next)
  BY <1>a, <1>b, <1>c, CloseTurnStep DEF Release
<1>2. Fate[c] = "running" /\ Fate' = [Fate EXCEPT ![c] = "finished"]
  <2>1. Fate[c] = FateAt(pc[c]) /\ Fate' = [Fate EXCEPT ![c] = FateAt("released")]
    BY <1>a, <1>b, FateStep
  <2>. QED  BY <1>b, <2>1, FateValues
<1>3. /\ Executing(c) /\ ~Executing(c)'
      /\ \A d \in Calls : d # c => (Executing(d)' <=> Executing(d))
  BY <1>a, <1>b DEF Executing
<1>4. Running[k] = c /\ Inbox[k] = en.active.pending
  BY <1>3 DEF TurnsAreRuns
<1>5. Running'[k] = None /\ Inbox'[k] = <<>> /\ k \notin Taking'
  <2>1. ASSUME NEW d \in Calls, Executing(d)', key'[d] = k PROVE FALSE
    <3>1. d # c /\ Executing(d) /\ key[d] = k
      BY <1>3, <1>b, <2>1
    <3>. QED  BY <1>4, <3>1 DEF TurnsAreRuns
  <2>. QED  BY <1>a, <2>1 DEF TurnsAreRuns
<1>. HIDE DEF en
<1>6. \A j \in Keys \ {k} : SameView(j)
  BY <1>a, <1>b, <1>c, <1>1, <1>3, OtherViews
<1>7. /\ Running' = [Running EXCEPT ![k] = None]
      /\ Inbox' = [Inbox EXCEPT ![k] = <<>>]
      /\ Taking' = Taking \ {k}
  <2>1. /\ Running' = [Running EXCEPT ![k] = Running'[k]]
        /\ Inbox' = [Inbox EXCEPT ![k] = Inbox'[k]]
        /\ Taking' = IF k \in Taking' THEN Taking \cup {k} ELSE Taking \ {k}
    BY <1>a, <1>6, OneView
  <2>. QED  BY <1>5, <2>1
<1>. QED  BY <1>2, <1>4, <1>7, <1>b DEF Promise!End, Promise!Becomes

(* A stopped execution takes nothing more.                                 *)
LEMMA StopRefines ==
  ASSUME IInv, OwnedInv, TurnsAreRuns, TurnsAreRuns', NEW s \in Stoppers,
         MarkStopping(s), heap' # heap
  PROVE  Promise!Stop(stopKey[s])
<1>. DEFINE k == stopKey[s]
            en == heap[stopEntry[s]]
            turn == [en.active EXCEPT !.stopping = TRUE]
<1>a. k \in Keys /\ TypeOK
  BY DEF IInv, TypeOK
<1>b. /\ stopPc[s] = "found" /\ Live(en) /\ pc' = pc /\ entry' = entry
      /\ UNCHANGED <<key, steerable, joinable, drained, returned>>
  BY DEF MarkStopping, inputVars, callVars, readVars
<1>c. /\ entries[k] = stopEntry[s] /\ stopEntry[s] # None /\ stopEntry[s] \in EntryIds
      /\ en.active \in TurnType
  BY <1>a, <1>b, NoneAssumption, EntryFields DEF IInv, MappedInv, InStop, TypeOK
<1>1. OnlyTurn(entries[k], turn, en.next)
  BY <1>a, <1>c, MarkStoppingStep
<1>2. Fate' = Fate
  BY <1>b DEF Fate
<1>3. \A d \in Calls : Executing(d)' <=> Executing(d)
  BY <1>b DEF Executing
<1>4. PICK d \in Calls : Executing(d) /\ entry[d] = entries[k]
  BY <1>b, <1>c DEF OwnedInv, LiveIsExecuted
<1>5. key[d] = k
  BY <1>a, <1>c, <1>4, EntriesApart
<1>6. Running[k] = d /\ Inbox[k] = en.active.pending /\ d # None
  BY <1>c, <1>4, <1>5, NoneAssumption DEF TurnsAreRuns
<1>7. Running'[k] = d /\ Inbox'[k] = Inbox[k] /\ k \notin Taking'
  <2>1. Executing(d)' /\ key'[d] = k /\ entry'[d] = stopEntry[s]
    BY <1>b, <1>c, <1>3, <1>4, <1>5
  <2>2. /\ heap'[stopEntry[s]].active.pending = en.active.pending
        /\ heap'[stopEntry[s]].active.stopping = TRUE
    BY <1>1, <1>c DEF OnlyTurn, TurnType
  <2>. QED  BY <1>6, <2>1, <2>2 DEF TurnsAreRuns
<1>. HIDE DEF turn, en
<1>8. \A j \in Keys \ {k} : SameView(j)
  BY <1>a, <1>b, <1>c, <1>1, <1>3, OtherViews
<1>9. Running' = Running /\ Inbox' = Inbox /\ Taking' = Taking \ {k}
  <2>1. /\ Running'[k] = Running[k] => Running' = Running
        /\ Inbox'[k] = Inbox[k] => Inbox' = Inbox
        /\ Taking' = IF k \in Taking' THEN Taking \cup {k} ELSE Taking \ {k}
    BY <1>a, <1>8, OneView
  <2>. QED  BY <1>6, <1>7, <2>1
<1>. QED  BY <1>2, <1>6, <1>9, <1>b DEF Promise!Stop

-----------------------------------------------------------------------------
(* The admission registry starts like Conversations.                       *)
LEMMA InitRefines == Init => Promise!Init
<1>. SUFFICES ASSUME Init PROVE Promise!Init
  OBVIOUS
<1>1. Fate = [c \in Calls |-> "outside"]
  BY FateValues DEF Init, Fate
<1>2. \A k \in Keys : ~HasTurn(k)
  BY DEF Init, HasTurn
<1>3. Running = [k \in Keys |-> None] /\ Taking = {} /\ Inbox = [k \in Keys |-> <<>>]
  BY <1>2 DEF Running, Taking, Inbox
<1>. QED  BY <1>1, <1>3 DEF Init, Promise!Init

(* Every step of the admission registry is a step of Conversations, or a   *)
(* stutter.                                                                *)
LEMMA NextRefines ==
  ASSUME IInv, OwnedInv, TurnsAreRuns, TurnsAreRuns', [Next]_vars
  PROVE  [Promise!Next]_(Promise!vars)
<1>a. key \in [Calls -> Keys] /\ stopKey \in [Stoppers -> Keys]
  BY DEF IInv, TypeOK
<1>1. ASSUME NEW c \in Calls, SilentCall(c) PROVE [Promise!Next]_(Promise!vars)
  BY <1>1, SilentRefines
<1>2. ASSUME NEW c \in Calls, PublishOwner(c) PROVE [Promise!Next]_(Promise!vars)
  <2>1. Promise!Begin(c)
    BY <1>2, BeginRefines
  <2>. QED  BY <2>1 DEF Promise!Next
<1>3. ASSUME NEW c \in Calls, PublishSteer(c) PROVE [Promise!Next]_(Promise!vars)
  <2>1. Promise!Join(c)
    BY <1>3, JoinRefines
  <2>. QED  BY <2>1 DEF Promise!Next
<1>4. ASSUME NEW c \in Calls, Pending(c) PROVE [Promise!Next]_(Promise!vars)
  <2>1. Promise!Read(c)
    BY <1>4, ReadRefines
  <2>. QED  BY <2>1 DEF Promise!Next
<1>5. ASSUME NEW c \in Calls, Release(c) PROVE [Promise!Next]_(Promise!vars)
  <2>1. Promise!End(c)
    BY <1>5, EndRefines
  <2>. QED  BY <2>1 DEF Promise!Next
<1>6. ASSUME NEW s \in Stoppers, FindEntry(s) \/ MarkStopping(s) \/ ReturnFromStop(s)
      PROVE  [Promise!Next]_(Promise!vars)
  <2>1. CASE MarkStopping(s) /\ heap' # heap
    <3>1. Promise!Stop(stopKey[s]) /\ stopKey[s] \in Keys
      BY <1>a, <2>1, StopRefines
    <3>. QED  BY <3>1 DEF Promise!Next
  <2>2. CASE ~(MarkStopping(s) /\ heap' # heap)
    <3>1. Silent /\ pc' = pc
      BY <1>6, <2>2, SilentStops
    <3>2. Running' = Running /\ Inbox' = Inbox /\ Taking' = Taking
      BY <3>1, SilentViews
    <3>3. Fate' = Fate
      BY <3>1 DEF Fate
    <3>. QED  BY <3>1, <3>2, <3>3 DEF Silent, Promise!vars
  <2>. QED  BY <2>1, <2>2
<1>7. CASE UNCHANGED vars
  <2>1. Silent /\ pc' = pc
    BY <1>7 DEF vars, inputVars, entryVars, callVars, readVars, Silent, SameTurns, Executing
  <2>2. Running' = Running /\ Inbox' = Inbox /\ Taking' = Taking
    BY <2>1, SilentViews
  <2>3. Fate' = Fate
    BY <2>1 DEF Fate
  <2>. QED  BY <2>1, <2>2, <2>3 DEF Silent, Promise!vars
<1>. QED
  BY <1>1, <1>2, <1>3, <1>4, <1>5, <1>6, <1>7 DEF Next, Terminated, SilentCall

(* The two inductive invariants hold together.                             *)
LEMMA OwnedInductive == Spec => [](IInv /\ OwnedInv)
<1>1. Init => IInv /\ OwnedInv
  BY InitInv, OwnedInit
<1>2. (IInv /\ OwnedInv) /\ [Next]_vars => (IInv /\ OwnedInv)'
  BY NextInv, OwnedNext
<1>. QED  BY <1>1, <1>2, PTL DEF Spec

(***************************************************************************)
(* The entries, waiters and generations implement Conversations.           *)
(***************************************************************************)
THEOREM Refinement == Spec => ImplementsConversations
<1>1. Init => Promise!Init
  BY InitRefines
<1>2. IInv /\ OwnedInv => TurnsAreRuns
  BY TurnsRun
<1>3. IInv /\ OwnedInv /\ TurnsAreRuns /\ TurnsAreRuns' /\ [Next]_vars
        => [Promise!Next]_(Promise!vars)
  BY NextRefines
<1>. QED  BY <1>1, <1>2, <1>3, OwnedInductive, PTL DEF Spec, ImplementsConversations, Promise!Spec

-----------------------------------------------------------------------------
(* What an entry owes to those who use it *)

(* The queue v that a section of call c makes of the queue w.              *)
QueueStep(c, w, v) ==
    \/ v = w
    \/ pc[c] = "acquired" /\ v = Append(w, c)
    \/ \E i \in 1..Len(w) : w[i] = c /\ v = RemoveAt(w, i) /\ pc'[c] = "leaving"

(* A section that may grant: it ends a preparation, or c prepares nothing. *)
Section(c, e, en) ==
    /\ e = entry[c] /\ e \in EntryIds /\ en \in EntryType
    /\ StoreAndGrant(e, en)
    /\ QueueStep(c, heap[e].waiters, en.waiters)
    /\ \/ ~en.preparing
       \/ en.preparing = heap[e].preparing /\ c \notin granted

(* The calls' steps that end in such a section.                            *)
GrantingCall(c) ==
    \/ Enqueue(c) \/ GiveUpWaiting(c) \/ GiveUpGrant(c) \/ PrepareFails(c)
    \/ PublishOwner(c) \/ PublishSteer(c) \/ Release(c)

(* The calls that grant do so in one section on their own entry, and make a *)
(* QueueStep of its queue.                                                 *)
LEMMA GrantingSections ==
  ASSUME TypeOK, GrantInv, NEW c \in Calls, GrantingCall(c)
  PROVE  \E en \in EntryType : Section(c, entry[c], en)
<1>. DEFINE e == entry[c]
            w == heap[entry[c]].waiters
<1>1. /\ e \in EntryIds /\ heap[e] \in EntryType /\ w \in Seq(Calls)
      /\ heap[e].active \in TurnType /\ heap[e].next \in Nat
  <2>1. pc[c] # "idle"
    BY DEF GrantingCall, Enqueue, GiveUpWaiting, GiveUpGrant, PrepareFails, PublishOwner,
           PublishSteer, Release
  <2>. QED  BY <2>1, HeldEntry, EntryFields
<1>2. CASE Enqueue(c)
  <2>. DEFINE en == [heap[e] EXCEPT !.waiters = Append(@, c)]
  <2>1. /\ en \in EntryType /\ en.waiters = Append(w, c)
        /\ en.preparing = heap[e].preparing
    <3>1. Append(w, c) \in Seq(Calls)
      BY <1>1
    <3>. QED  BY <1>1, <3>1 DEF EntryType
  <2>2. StoreAndGrant(e, en) /\ pc[c] = "acquired" /\ c \notin granted
    BY <1>2 DEF Enqueue, GrantInv
  <2>. QED  BY <1>1, <2>1, <2>2 DEF Section, QueueStep
<1>3. CASE GiveUpWaiting(c)
  <2>1. PICK i \in 1..Len(w) :
          w[i] = c /\ StoreAndGrant(e, [heap[e] EXCEPT !.waiters = RemoveAt(@, i)])
    BY <1>3 DEF GiveUpWaiting
  <2>. DEFINE en == [heap[e] EXCEPT !.waiters = RemoveAt(@, i)]
  <2>2. RemoveAt(w, i) \in Seq(Calls)
    BY <1>1, RemoveAtFacts
  <2>3. /\ en \in EntryType /\ en.waiters = RemoveAt(w, i)
        /\ en.preparing = heap[e].preparing
    BY <1>1, <2>2 DEF EntryType
  <2>4. pc'[c] = "leaving" /\ c \notin granted
    BY <1>3 DEF GiveUpWaiting, TypeOK
  <2>. QED  BY <1>1, <2>1, <2>3, <2>4 DEF Section, QueueStep
<1>4. CASE GiveUpGrant(c) \/ PrepareFails(c)
  <2>. DEFINE en == [heap[e] EXCEPT !.preparing = FALSE]
  <2>1. en \in EntryType /\ en.waiters = w /\ ~en.preparing
    BY <1>1 DEF EntryType
  <2>2. StoreAndGrant(e, en)
    BY <1>4 DEF GiveUpGrant, PrepareFails, FinishPreparation
  <2>. QED  BY <1>1, <2>1, <2>2 DEF Section, QueueStep
<1>5. CASE PublishOwner(c)
  <2>. DEFINE turn == [generation |-> heap[e].next + 1, steerable |-> steerable[c],
                       stopping |-> FALSE, pending |-> <<>>]
              en == [[heap[e] EXCEPT !.next = @ + 1, !.active = turn]
                       EXCEPT !.preparing = FALSE]
  <2>1. turn \in TurnType
    <3>1. steerable[c] \in BOOLEAN
      BY DEF TypeOK
    <3>. QED  BY <1>1, <3>1 DEF TurnType
  <2>2. StoreAndGrant(e, en)
    BY <1>5 DEF PublishOwner, FinishPreparation
  <2>. HIDE DEF turn
  <2>3. en \in EntryType /\ en.waiters = w /\ ~en.preparing
    <3>1. heap[e].next + 1 \in Nat
      BY <1>1
    <3>. QED  BY <1>1, <2>1, <3>1 DEF EntryType
  <2>. QED  BY <1>1, <2>2, <2>3 DEF Section, QueueStep
<1>6. CASE PublishSteer(c)
  <2>. DEFINE turn == [heap[e].active EXCEPT !.pending = Append(@, c)]
              en == [[heap[e] EXCEPT !.active = turn] EXCEPT !.preparing = FALSE]
  <2>1. turn \in TurnType
    <3>1. Append(heap[e].active.pending, c) \in Seq(Calls)
      BY <1>1, EntryFields
    <3>. QED  BY <1>1, <3>1, TurnUpdates
  <2>2. StoreAndGrant(e, en)
    BY <1>6 DEF PublishSteer, FinishPreparation
  <2>. HIDE DEF turn
  <2>3. en \in EntryType /\ en.waiters = w /\ ~en.preparing
    BY <1>1, <2>1 DEF EntryType
  <2>. QED  BY <1>1, <2>2, <2>3 DEF Section, QueueStep
<1>7. CASE Release(c)
  <2>. DEFINE en == [heap[e] EXCEPT !.active = NoTurn]
  <2>1. NoTurn \in TurnType
    BY DEF NoTurn, TurnType
  <2>2. StoreAndGrant(e, en) /\ ~heap[e].preparing
    BY <1>7 DEF Release, CloseTurn
  <2>3. en \in EntryType /\ en.waiters = w /\ en.preparing = heap[e].preparing
    BY <1>1, <2>1 DEF EntryType
  <2>. QED  BY <1>1, <2>2, <2>3 DEF Section, QueueStep
<1>. QED  BY <1>2, <1>3, <1>4, <1>5, <1>6, <1>7 DEF GrantingCall

(* Who is first in the queue after a section.                              *)
LEMMA FirstAfter ==
  ASSUME NEW c \in Calls, NEW w \in Seq(Calls), NEW v \in Seq(Calls), v # <<>>,
         QueueStep(c, w, v)
  PROVE  \/ Head(v) = c /\ pc[c] = "acquired" /\ w = <<>>
         \/ Len(w) >= 1 /\ Head(v) = w[1]
         \/ Len(w) >= 2 /\ Head(v) = w[2] /\ w[1] = c /\ pc'[c] = "leaving"
<1>1. Len(w) \in Nat /\ Len(v) \in Nat /\ Len(v) >= 1 /\ Head(v) = v[1]
  BY EmptySeq, LenProperties
<1>2. CASE v = w
  BY <1>1, <1>2
<1>3. CASE pc[c] = "acquired" /\ v = Append(w, c)
  <2>1. CASE Len(w) = 0
    BY <1>1, <1>3, <2>1
  <2>2. CASE Len(w) # 0
    BY <1>1, <1>3, <2>2
  <2>. QED  BY <2>1, <2>2
<1>4. ASSUME NEW i \in 1..Len(w), w[i] = c, v = RemoveAt(w, i), pc'[c] = "leaving"
      PROVE  \/ Len(w) >= 1 /\ Head(v) = w[1]
             \/ Len(w) >= 2 /\ Head(v) = w[2] /\ w[1] = c
  <2>1. /\ Len(RemoveAt(w, i)) = Len(w) - 1
        /\ \A j \in 1..(Len(w) - 1) : RemoveAt(w, i)[j] = IF j < i THEN w[j] ELSE w[j + 1]
    BY <1>1, RemoveAtFacts
  <2>2. Len(w) >= 2 /\ v[1] = IF 1 < i THEN w[1] ELSE w[2]
    BY <1>1, <1>4, <2>1
  <2>3. CASE i = 1
    BY <1>1, <1>4, <2>2, <2>3
  <2>4. CASE i # 1
    BY <1>1, <2>2, <2>4
  <2>. QED  BY <2>3, <2>4
<1>. QED  BY <1>2, <1>3, <1>4 DEF QueueStep

(* Nobody is granted again and again: a section grants the first of the    *)
(* queue at most, and no other step grants anyone.                         *)
QuietCall(c) ==
    \/ Arrive(c) \/ Cancel(c) \/ DecideOwner(c) \/ ReturnFromAdmit(c) \/ Pending(c)
    \/ Cleanup(c) \/ ReleaseAgain(c)

(* Such a step grants nobody.                                              *)
LEMMA QuietSteps ==
  ASSUME IInv, OwnedInv, NEW c \in Calls, QuietCall(c)
  PROVE  granted' = granted
<1>1. CASE ReleaseAgain(c)
  <2>1. ~OwnsTurn(c)
    BY <1>1, DoneIsNotOwner DEF ReleaseAgain
  <2>. QED  BY <1>1, <2>1 DEF ReleaseAgain
<1>. QED
  BY <1>1 DEF QuietCall, Arrive, Cancel, DecideOwner, ReturnFromAdmit, Pending, Cleanup, callVars

(* A section changes the entry it is about, and grants the head of the queue *)
(* if that may go ahead.                                                   *)
LEMMA SectionEffect ==
  ASSUME TypeOK, NEW c \in Calls, NEW e, NEW en, Section(c, e, en)
  PROVE  /\ e \in EntryIds /\ heap'[e] = GrantNext(en)
         /\ \A f \in EntryIds \ {e} : heap'[f] = heap[f]
         /\ granted' = granted \cup GrantedBy(en)
         /\ \A g \in granted' \ granted : CanGrant(en) /\ g = Head(en.waiters)
<1>1. /\ heap' = [heap EXCEPT ![e] = GrantNext(en)] /\ e \in EntryIds
      /\ granted' = granted \cup GrantedBy(en)
  BY DEF Section, StoreAndGrant
<1>2. heap \in [EntryIds -> EntryType]
  BY DEF TypeOK
<1>. QED  BY <1>1, <1>2 DEF GrantedBy

-----------------------------------------------------------------------------
(* Nobody is forgotten *)

(* Where the queue stays and the turn takes no more than before, nobody    *)
(* becomes able to go ahead.                                               *)
LEMMA NoneForgotten ==
  ASSUME NobodyForgotten, UNCHANGED <<joinable, steerable>>,
         \A f \in EntryIds :
            /\ heap'[f].waiters = heap[f].waiters
            /\ heap'[f].preparing = heap[f].preparing
            /\ heap'[f].active.generation = heap[f].active.generation
            /\ heap'[f].active.steerable = heap[f].active.steerable
            /\ heap[f].active.stopping => heap'[f].active.stopping
  PROVE  NobodyForgotten'
<1>. SUFFICES ASSUME NEW f \in EntryIds PROVE ~CanGrant(heap[f])'
  BY DEF NobodyForgotten
<1>1. ~CanGrant(heap[f])
  BY DEF NobodyForgotten
<1>. QED  BY <1>1 DEF CanGrant, Live

(* A section that leaves somebody able to go ahead grants that one itself: *)
(* the next step finds nobody forgotten.                                   *)
LEMMA ForgottenNext ==
  ASSUME IInv, OwnedInv, NobodyForgotten, [Next]_vars
  PROVE  NobodyForgotten'
<1>a. /\ TypeOK /\ GrantInv /\ heap \in [EntryIds -> EntryType]
      /\ UNCHANGED <<joinable, steerable>>
  BY InputsStay DEF IInv, TypeOK
<1>1. ASSUME NEW c \in Calls, GrantingCall(c) PROVE NobodyForgotten'
  <2>1. PICK en \in EntryType : Section(c, entry[c], en)
    BY <1>a, <1>1, GrantingSections
  <2>2. /\ entry[c] \in EntryIds /\ heap'[entry[c]] = GrantNext(en)
        /\ \A f \in EntryIds \ {entry[c]} : heap'[f] = heap[f]
    BY <1>a, <2>1, SectionEffect
  <2>3. SUFFICES ASSUME NEW f \in EntryIds PROVE ~CanGrant(heap[f])'
    BY DEF NobodyForgotten
  <2>4. CASE f = entry[c] /\ CanGrant(en)
    <3>1. GrantNext(en).preparing = TRUE
      BY <2>4, GrantNextFields
    <3>2. heap'[f].preparing
      BY <2>2, <2>4, <3>1
    <3>. QED  BY <3>2 DEF CanGrant
  <2>5. CASE f = entry[c] /\ ~CanGrant(en)
    <3>1. heap'[f] = en
      BY <2>2, <2>5, GrantNextFields
    <3>. QED  BY <1>a, <2>5, <3>1 DEF CanGrant
  <2>6. CASE f # entry[c]
    <3>1. heap'[f] = heap[f] /\ ~CanGrant(heap[f])
      BY <2>2, <2>6 DEF NobodyForgotten
    <3>. QED  BY <1>a, <3>1 DEF CanGrant
  <2>. QED  BY <2>4, <2>5, <2>6
<1>2. ASSUME NEW e \in EntryIds, NEW r \in Int, heap' = [heap EXCEPT ![e].references = r]
      PROVE  NobodyForgotten'
  <2>1. \A f \in EntryIds : /\ heap'[f].waiters = heap[f].waiters
                            /\ heap'[f].preparing = heap[f].preparing
                            /\ heap'[f].active = heap[f].active
    BY <1>a, <1>2 DEF EntryType
  <2>. QED  BY <1>a, <2>1, NoneForgotten
<1>3. CASE heap' = heap
  BY <1>a, <1>3, NoneForgotten
<1>4. ASSUME NEW c \in Calls, Arrive(c) PROVE NobodyForgotten'
  <2>1. PICK e \in EntryIds : heap' = [heap EXCEPT ![e].references = @ + 1]
    BY <1>4 DEF Arrive
  <2>2. heap[e].references + 1 \in Int
    BY <1>a, EntryFields
  <2>. QED  BY <1>2, <2>1, <2>2
<1>5. ASSUME NEW c \in Calls, ReturnFromAdmit(c) PROVE NobodyForgotten'
  <2>1. entry[c] \in EntryIds /\ heap[entry[c]] \in EntryType
    BY <1>a, <1>5, HeldEntry DEF ReturnFromAdmit
  <2>2. heap' = [heap EXCEPT ![entry[c]].references = @ - 1]
    BY <1>5 DEF ReturnFromAdmit, Unreference
  <2>3. heap[entry[c]].references - 1 \in Int
    BY <2>1, EntryFields
  <2>. QED  BY <1>2, <2>1, <2>2, <2>3
<1>6. ASSUME NEW c \in Calls, Pending(c) PROVE NobodyForgotten'
  <2>1. entry[c] \in EntryIds
    BY <1>a, <1>6, HeldEntry DEF Pending
  <2>2. \A f \in EntryIds :
            /\ heap'[f].waiters = heap[f].waiters
            /\ heap'[f].preparing = heap[f].preparing
            /\ heap'[f].active.generation = heap[f].active.generation
            /\ heap'[f].active.steerable = heap[f].active.steerable
            /\ heap'[f].active.stopping = heap[f].active.stopping
    <3>1. heap' = [heap EXCEPT ![entry[c]].active.pending = <<>>]
      BY <1>6 DEF Pending
    <3>2. heap'[entry[c]] = [heap[entry[c]] EXCEPT !.active.pending = <<>>]
      BY <1>a, <2>1, <3>1
    <3>3. /\ heap'[entry[c]].waiters = heap[entry[c]].waiters
          /\ heap'[entry[c]].preparing = heap[entry[c]].preparing
          /\ heap'[entry[c]].active = [heap[entry[c]].active EXCEPT !.pending = <<>>]
      BY <1>a, <2>1, <3>2 DEF EntryType
    <3>4. heap[entry[c]].active \in TurnType
      BY <1>a, <2>1, EntryFields
    <3>5. \A f \in EntryIds \ {entry[c]} : heap'[f] = heap[f]
      BY <1>a, <3>1
    <3>. QED  BY <3>3, <3>4, <3>5 DEF TurnType
  <2>. QED  BY <1>a, <2>2, NoneForgotten
<1>7. ASSUME NEW c \in Calls, Cancel(c) \/ DecideOwner(c) \/ Cleanup(c) \/ ReleaseAgain(c)
      PROVE  heap' = heap
  <2>1. CASE ReleaseAgain(c)
    <3>1. ~OwnsTurn(c)
      BY <2>1, DoneIsNotOwner DEF ReleaseAgain
    <3>. QED  BY <2>1, <3>1 DEF ReleaseAgain
  <2>. QED  BY <1>7, <2>1 DEF Cancel, DecideOwner, Cleanup, entryVars
<1>8. ASSUME NEW s \in Stoppers, FindEntry(s) PROVE NobodyForgotten'
  <2>1. CASE entries[stopKey[s]] = None
    BY <1>3, <1>8, <2>1 DEF FindEntry
  <2>2. CASE entries[stopKey[s]] # None
    <3>1. PICK e \in EntryIds : heap' = [heap EXCEPT ![e].references = @ + 1]
      BY <1>a, <1>8, <2>2 DEF FindEntry, TypeOK
    <3>2. heap[e].references + 1 \in Int
      BY <1>a, EntryFields
    <3>. QED  BY <1>2, <3>1, <3>2
  <2>. QED  BY <2>1, <2>2
<1>9. ASSUME NEW s \in Stoppers, ReturnFromStop(s) PROVE NobodyForgotten'
  <2>1. stopEntry[s] \in EntryIds
    BY <1>a, <1>9 DEF ReturnFromStop, TypeOK
  <2>2. heap' = [heap EXCEPT ![stopEntry[s]].references = @ - 1]
    BY <1>9 DEF ReturnFromStop, Unreference
  <2>3. heap[stopEntry[s]].references - 1 \in Int
    BY <1>a, <2>1, EntryFields
  <2>. QED  BY <1>2, <2>1, <2>2, <2>3
<1>10. ASSUME NEW s \in Stoppers, MarkStopping(s), heap' # heap PROVE NobodyForgotten'
  <2>1. stopEntry[s] \in EntryIds
    BY <1>a, <1>10 DEF MarkStopping, TypeOK
  <2>2. heap' = [heap EXCEPT ![stopEntry[s]].active.stopping = TRUE]
    BY <1>10 DEF MarkStopping
  <2>3. heap'[stopEntry[s]] = [heap[stopEntry[s]] EXCEPT !.active.stopping = TRUE]
    BY <1>a, <2>1, <2>2
  <2>4. /\ heap'[stopEntry[s]].waiters = heap[stopEntry[s]].waiters
        /\ heap'[stopEntry[s]].preparing = heap[stopEntry[s]].preparing
        /\ heap'[stopEntry[s]].active = [heap[stopEntry[s]].active EXCEPT !.stopping = TRUE]
    BY <1>a, <2>1, <2>3 DEF EntryType
  <2>5. heap[stopEntry[s]].active \in TurnType
    BY <1>a, <2>1, EntryFields
  <2>6. \A f \in EntryIds \ {stopEntry[s]} : heap'[f] = heap[f]
    BY <1>a, <2>2
  <2>7. \A f \in EntryIds :
            /\ heap'[f].waiters = heap[f].waiters
            /\ heap'[f].preparing = heap[f].preparing
            /\ heap'[f].active.generation = heap[f].active.generation
            /\ heap'[f].active.steerable = heap[f].active.steerable
            /\ heap[f].active.stopping => heap'[f].active.stopping
    BY <2>4, <2>5, <2>6 DEF TurnType
  <2>. QED  BY <1>a, <2>7, NoneForgotten
<1>11. CASE UNCHANGED vars
  BY <1>3, <1>11 DEF vars, entryVars
<1>. QED
  BY <1>1, <1>3, <1>4, <1>5, <1>6, <1>7, <1>8, <1>9, <1>10, <1>11
     DEF Next, Terminated, GrantingCall

-----------------------------------------------------------------------------
(* Nobody is overtaken *)

(* A section grants the first of the queue it leaves, which is the first of *)
(* the queue it found, but for one that gives up: nobody is overtaken.     *)
LEMMA FirstComeNext ==
  ASSUME IInv, OwnedInv, [Next]_vars
  PROVE  FirstCome
<1>a. TypeOK /\ GrantInv /\ AdmissionInv
  BY DEF IInv
<1>1. ASSUME NEW c \in Calls, GrantingCall(c) PROVE FirstCome
  <2>1. PICK en \in EntryType : Section(c, entry[c], en)
    BY <1>a, <1>1, GrantingSections
  <2>. DEFINE w == heap[entry[c]].waiters
  <2>2. entry[c] \in EntryIds /\ w \in Seq(Calls) /\ en.waiters \in Seq(Calls)
    BY <1>a, <2>1, EntryFields DEF Section, TypeOK
  <2>. SUFFICES ASSUME NEW e \in EntryIds,
                       NEW i \in 1..Len(heap[e].waiters), NEW j \in 1..Len(heap[e].waiters),
                       i < j, heap[e].waiters[j] \in granted' \ granted
                PROVE  pc'[heap[e].waiters[i]] = "leaving"
    BY DEF FirstCome
  <2>3. CanGrant(en) /\ heap[e].waiters[j] = Head(en.waiters)
    BY <1>a, <2>1, SectionEffect
  <2>4. en.waiters # <<>> /\ QueueStep(c, w, en.waiters)
    BY <2>1, <2>3 DEF CanGrant, Section
  <2>q. /\ \A m \in 1..Len(heap[e].waiters) :
             pc[heap[e].waiters[m]] = "waiting" /\ entry[heap[e].waiters[m]] = e
        /\ \A m, n \in 1..Len(heap[e].waiters) :
             heap[e].waiters[m] = heap[e].waiters[n] => m = n
        /\ \A m \in 1..Len(w) : entry[w[m]] = entry[c]
        /\ Len(heap[e].waiters) \in Nat
    <3>1. heap[e] \in EntryType /\ heap[entry[c]] \in EntryType
      BY <1>a, <2>2 DEF TypeOK
    <3>2. heap[e].waiters \in Seq(Calls) /\ Len(heap[e].waiters) \in Nat
      BY <3>1, EntryFields, LenProperties
    <3>3. QueueOK(e, heap[e].waiters, pc, granted)
          /\ QueueOK(entry[c], w, pc, granted)
      BY <1>a, <2>2 DEF AdmissionInv
    <3>. QED  BY <3>2, <3>3 DEF QueueOK
  <2>5. CASE Head(en.waiters) = c /\ pc[c] = "acquired"
    BY <2>3, <2>5, <2>q
  <2>6. CASE Len(w) >= 1 /\ Head(en.waiters) = w[1]
    <3>1. 1 \in 1..Len(w)
      BY <2>2, <2>6
    <3>2. e = entry[c]
      BY <2>3, <2>6, <2>q, <3>1
    <3>3. j = 1
      BY <2>3, <2>6, <2>q, <3>1, <3>2
    <3>. QED  BY <3>3, <2>q
  <2>7. CASE Len(w) >= 2 /\ Head(en.waiters) = w[2] /\ w[1] = c /\ pc'[c] = "leaving"
    <3>1. 2 \in 1..Len(w)
      BY <2>2, <2>7
    <3>2. e = entry[c]
      <4>1. entry[w[2]] = entry[c]
        BY <2>q, <3>1
      <4>. QED  BY <2>3, <2>7, <2>q, <4>1
    <3>3. j = 2
      BY <2>3, <2>7, <2>q, <3>1, <3>2
    <3>4. i = 1
      BY <3>3, <2>q
    <3>. QED  BY <2>7, <3>2, <3>4
  <2>. QED  BY <2>2, <2>4, <2>5, <2>6, <2>7, FirstAfter
<1>2. ASSUME granted' = granted PROVE FirstCome
  BY <1>2 DEF FirstCome
<1>3. ASSUME NEW c \in Calls, QuietCall(c) PROVE granted' = granted
  BY <1>3, QuietSteps
<1>4. ASSUME NEW s \in Stoppers, FindEntry(s) \/ MarkStopping(s) \/ ReturnFromStop(s)
      PROVE  granted' = granted
  BY <1>4 DEF FindEntry, MarkStopping, ReturnFromStop, callVars
<1>5. CASE UNCHANGED vars
  BY <1>2, <1>5 DEF vars, callVars
<1>. QED
  BY <1>1, <1>2, <1>3, <1>4, <1>5 DEF Next, Terminated, GrantingCall, QuietCall

-----------------------------------------------------------------------------
(* Active() counts the executions *)

(* t.active goes up with the execution that begins and down with the one that *)
(* ends.                                                                   *)
LEMMA CountsNext ==
  ASSUME IInv, OwnedInv, CountsExecutions, [Next]_vars
  PROVE  CountsExecutions'
<1>. DEFINE Now == {c \in Calls : Executing(c)}
            Then == {c \in Calls : Executing(c)'}
<1>a. pc \in [Calls -> CallStates]
  BY DEF IInv, TypeOK
<1>b. activeCount = Cardinality(Now) /\ IsFiniteSet(Now)
  BY FiniteCallers, FS_Subset DEF CountsExecutions
<1>c. CountsExecutions' <=> activeCount' = Cardinality(Then)
  BY DEF CountsExecutions
<1>1. ASSUME Then = Now, activeCount' = activeCount PROVE CountsExecutions'
  BY <1>b, <1>c, <1>1
<1>2. ASSUME NEW c \in Calls, SilentCall(c) PROVE Then = Now /\ activeCount' = activeCount
  <2>1. Silent
    BY <1>2, SilentCalls
  <2>2. activeCount' = activeCount
    <3>1. CASE ReleaseAgain(c)
      <4>1. ~OwnsTurn(c)
        BY <3>1, DoneIsNotOwner DEF ReleaseAgain
      <4>. QED  BY <3>1, <4>1 DEF ReleaseAgain
    <3>. QED
      BY <1>2, <3>1 DEF SilentCall, Arrive, Enqueue, Cancel, GiveUpWaiting, GiveUpGrant,
                  DecideOwner, PrepareFails, ReturnFromAdmit, Cleanup, entryVars
  <2>. QED  BY <2>1, <2>2 DEF Silent
<1>3. ASSUME NEW c \in Calls, PublishOwner(c) PROVE CountsExecutions'
  <2>1. c \notin Now /\ Then = Now \cup {c} /\ activeCount' = activeCount + 1
    BY <1>a, <1>3 DEF PublishOwner, Executing
  <2>. HIDE DEF Now, Then
  <2>2. Cardinality(Then) = Cardinality(Now) + 1
    BY <1>b, <2>1, CountOneMore
  <2>. QED  BY <1>b, <1>c, <2>1, <2>2
<1>4. ASSUME NEW c \in Calls, Release(c) PROVE CountsExecutions'
  <2>1. c \in Now /\ Then = Now \ {c} /\ activeCount' = activeCount - 1
    BY <1>a, <1>4 DEF Release, CloseTurn, Executing
  <2>. HIDE DEF Now, Then
  <2>2. Cardinality(Then) = Cardinality(Now) - 1
    BY <1>b, <2>1, CountOneLess
  <2>. QED  BY <1>b, <1>c, <2>1, <2>2
<1>5. ASSUME NEW c \in Calls, PublishSteer(c) \/ Pending(c)
      PROVE  Then = Now /\ activeCount' = activeCount
  BY <1>a, <1>5 DEF PublishSteer, Pending, callVars, Executing
<1>6. ASSUME NEW s \in Stoppers, FindEntry(s) \/ MarkStopping(s) \/ ReturnFromStop(s)
      PROVE  Then = Now /\ activeCount' = activeCount
  BY <1>6 DEF FindEntry, MarkStopping, ReturnFromStop, callVars, Executing
<1>7. CASE UNCHANGED vars
  BY <1>1, <1>7 DEF vars, entryVars, callVars, Executing
<1>. HIDE DEF Now, Then
<1>. QED
  BY <1>1, <1>2, <1>3, <1>4, <1>5, <1>6, <1>7 DEF Next, Terminated, SilentCall

-----------------------------------------------------------------------------
(* No entry is left behind *)

(* An entry that is preparing prepares some call.                          *)
FlagInv ==
    \A e \in EntryIds : heap[e].preparing => \E c \in Calls : Preparing(c) /\ entry[c] = e

(***************************************************************************)
(* A mapped entry that is idle is about to be removed: the owner that has  *)
(* released it has not cleaned up yet.                                     *)
(***************************************************************************)
Reclaimed(k) == \E c \in Calls : pc[c] = "released" /\ key[c] = k /\ entry[c] = entries[k]

ReclaimInv ==
    \A k \in Keys : entries[k] # None => ~Idle(heap[entries[k]]) \/ Reclaimed(k)

(* A call that prepares goes on doing so, unless the step is its own.      *)
LEMMA FlagNext ==
  ASSUME IInv, OwnedInv, FlagInv, [Next]_vars
  PROVE  FlagInv'
<1>a. /\ TypeOK /\ GrantInv /\ AdmissionInv /\ pc \in [Calls -> CallStates]
      /\ entry \in [Calls -> EntryIds \cup {None}] /\ heap \in [EntryIds -> EntryType]
      /\ \A c \in Calls : pc[c] # "idle" => entry[c] \in EntryIds
  BY DEF IInv, TypeOK
<1>b. NewGrants
  BY <1>a, AdmissionNext
(* The preparing flags stay, and so do those who prepare. *)
<1>1. ASSUME \A e \in EntryIds : heap'[e].preparing = heap[e].preparing,
             \A d \in Calls : Preparing(d) => Preparing(d)' /\ entry'[d] = entry[d]
      PROVE  FlagInv'
  <2>1. SUFFICES ASSUME NEW e \in EntryIds, heap'[e].preparing
                 PROVE  \E d \in Calls : Preparing(d)' /\ entry'[d] = e
    BY DEF FlagInv
  <2>2. PICK d \in Calls : Preparing(d) /\ entry[d] = e
    BY <1>1, <2>1 DEF FlagInv
  <2>. QED  BY <1>1, <2>2
<1>2. ASSUME NEW c \in Calls, GrantingCall(c) PROVE FlagInv'
  <2>1. PICK en \in EntryType : Section(c, entry[c], en)
    BY <1>a, <1>2, GrantingSections
  <2>2. /\ entry[c] \in EntryIds /\ heap'[entry[c]] = GrantNext(en)
        /\ \A f \in EntryIds \ {entry[c]} : heap'[f] = heap[f]
        /\ granted' = granted \cup GrantedBy(en)
    BY <1>a, <2>1, SectionEffect
  <2>3. /\ entry' = entry
        /\ \A d \in Calls \ {c} : pc'[d] = pc[d]
    BY <1>a, <1>2 DEF GrantingCall, Enqueue, GiveUpWaiting, GiveUpGrant, PrepareFails,
                 PublishOwner, PublishSteer, Release
  <2>4. \A d \in Calls \ {c} : Preparing(d) => Preparing(d)'
    BY <2>2, <2>3 DEF Preparing, PreparingIn
  <2>5. SUFFICES ASSUME NEW e \in EntryIds, heap'[e].preparing
                 PROVE  \E d \in Calls : Preparing(d)' /\ entry'[d] = e
    BY DEF FlagInv
  <2>6. CASE e # entry[c]
    <3>1. PICK d \in Calls : Preparing(d) /\ entry[d] = e
      BY <2>2, <2>5, <2>6 DEF FlagInv
    <3>. QED  BY <2>3, <2>4, <2>6, <3>1
  <2>7. CASE e = entry[c] /\ ~CanGrant(en)
    <3>1. heap'[e].preparing = en.preparing
      BY <2>2, <2>7, GrantNextFields
    <3>2. heap[e].preparing /\ c \notin granted
      BY <2>1, <2>5, <2>7, <3>1 DEF Section
    <3>3. PICK d \in Calls : Preparing(d) /\ entry[d] = e
      BY <3>2 DEF FlagInv
    <3>4. d # c
      BY <3>2, <3>3 DEF Preparing, PreparingIn
    <3>. QED  BY <2>3, <2>4, <3>3, <3>4
  <2>8. CASE e = entry[c] /\ CanGrant(en)
    <3>. DEFINE w == heap[e].waiters
                h == Head(en.waiters)
    <3>1. /\ w \in Seq(Calls) /\ en.waiters \in Seq(Calls) /\ en.waiters # <<>>
          /\ QueueStep(c, w, en.waiters) /\ Len(w) \in Nat
      <4>1. heap[e] \in EntryType
        BY <1>a
      <4>. QED  BY <2>1, <2>8, <4>1, EntryFields, LenProperties DEF Section, CanGrant
    <3>2. h \in granted' /\ h \in Calls
      <4>1. h \in Calls
        BY <3>1, TailFacts
      <4>. QED  BY <2>2, <2>8, <4>1 DEF GrantedBy
    <3>3. entry[h] = e /\ h \notin granted
      <4>1. \A i \in 1..Len(w) : w[i] \notin granted /\ entry[w[i]] = e
        BY <1>a DEF AdmissionInv, QueueOK
      <4>2. CASE h = c /\ pc[c] = "acquired"
        BY <1>a, <2>8, <4>2 DEF GrantInv
      <4>3. CASE Len(w) >= 1 /\ h = w[1]
        <5>1. 1 \in 1..Len(w)
          BY <3>1, <4>3
        <5>. QED  BY <4>1, <4>3, <5>1
      <4>4. CASE Len(w) >= 2 /\ h = w[2]
        <5>1. 2 \in 1..Len(w)
          BY <3>1, <4>4
        <5>. QED  BY <4>1, <4>4, <5>1
      <4>. QED  BY <3>1, <4>2, <4>3, <4>4, FirstAfter
    <3>4. pc'[h] = "waiting"
      BY <1>b, <3>2, <3>3 DEF NewGrants
    <3>5. Preparing(h)'
      BY <3>2, <3>4 DEF Preparing, PreparingIn
    <3>. QED  BY <2>3, <3>2, <3>3, <3>5
  <2>. QED  BY <2>6, <2>7, <2>8
<1>3. ASSUME NEW c \in Calls, Arrive(c) PROVE FlagInv'
  <2>1. PICK e \in EntryIds : /\ heap' = [heap EXCEPT ![e].references = @ + 1]
                              /\ entry' = [entry EXCEPT ![c] = e]
    BY <1>3 DEF Arrive
  <2>2. \A f \in EntryIds : heap'[f].preparing = heap[f].preparing
    BY <1>a, <2>1 DEF EntryType
  <2>3. /\ pc[c] = "idle" /\ pc' = [pc EXCEPT ![c] = "acquired"] /\ granted' = granted
    BY <1>3 DEF Arrive
  <2>4. \A d \in Calls : Preparing(d) => Preparing(d)' /\ entry'[d] = entry[d]
    BY <1>a, <2>1, <2>3 DEF Preparing, PreparingIn
  <2>. QED  BY <1>1, <2>2, <2>4
<1>4. ASSUME NEW c \in Calls, QuietCall(c), ~Arrive(c) PROVE FlagInv'
  <2>1. granted' = granted
    BY <1>4, QuietSteps
  <2>2. \A d \in Calls : Preparing(d) => Preparing(d)' /\ entry'[d] = entry[d]
    BY <1>a, <1>4, <2>1 DEF QuietCall, Cancel, DecideOwner, ReturnFromAdmit, Pending,
                  Cleanup, ReleaseAgain, callVars, Preparing, PreparingIn
  <2>3. \A f \in EntryIds : heap'[f].preparing = heap[f].preparing
    <3>1. CASE ReturnFromAdmit(c)
      <4>1. heap' = [heap EXCEPT ![entry[c]].references = @ - 1]
        BY <3>1 DEF ReturnFromAdmit, Unreference
      <4>. QED  BY <1>a, <4>1 DEF EntryType
    <3>2. CASE Pending(c)
      <4>1. heap' = [heap EXCEPT ![entry[c]].active.pending = <<>>]
        BY <3>2 DEF Pending
      <4>. QED  BY <1>a, <4>1 DEF EntryType
    <3>3. CASE ReleaseAgain(c)
      <4>1. ~OwnsTurn(c)
        BY <3>3, DoneIsNotOwner DEF ReleaseAgain
      <4>. QED  BY <3>3, <4>1 DEF ReleaseAgain
    <3>. QED
      BY <1>4, <3>1, <3>2, <3>3 DEF QuietCall, Cancel, DecideOwner, Cleanup, entryVars
  <2>. QED  BY <1>1, <2>2, <2>3
<1>5. ASSUME NEW s \in Stoppers, FindEntry(s) \/ MarkStopping(s) \/ ReturnFromStop(s)
      PROVE  FlagInv'
  <2>1. \A d \in Calls : Preparing(d) => Preparing(d)' /\ entry'[d] = entry[d]
    BY <1>5 DEF FindEntry, MarkStopping, ReturnFromStop, callVars, Preparing, PreparingIn
  <2>2. \A f \in EntryIds : heap'[f].preparing = heap[f].preparing
    <3>1. CASE FindEntry(s)
      <4>1. heap' = heap \/ heap' = [heap EXCEPT ![entries[stopKey[s]]].references = @ + 1]
        BY <3>1 DEF FindEntry
      <4>2. CASE heap' = heap
        BY <4>2
      <4>3. CASE heap' = [heap EXCEPT ![entries[stopKey[s]]].references = @ + 1]
        BY <1>a, <4>3 DEF EntryType
      <4>. QED  BY <4>1, <4>2, <4>3
    <3>2. CASE ReturnFromStop(s)
      <4>1. heap' = [heap EXCEPT ![stopEntry[s]].references = @ - 1]
        BY <3>2 DEF ReturnFromStop, Unreference
      <4>. QED  BY <1>a, <4>1 DEF EntryType
    <3>3. CASE MarkStopping(s)
      <4>1. heap' = heap \/ heap' = [heap EXCEPT ![stopEntry[s]].active.stopping = TRUE]
        BY <3>3 DEF MarkStopping
      <4>2. CASE heap' = heap
        BY <4>2
      <4>3. CASE heap' = [heap EXCEPT ![stopEntry[s]].active.stopping = TRUE]
        BY <1>a, <4>3 DEF EntryType
      <4>. QED  BY <4>1, <4>2, <4>3
    <3>. QED  BY <1>5, <3>1, <3>2, <3>3
  <2>. QED  BY <1>1, <2>1, <2>2
<1>6. CASE UNCHANGED vars
  <2>1. /\ \A f \in EntryIds : heap'[f].preparing = heap[f].preparing
        /\ \A d \in Calls : Preparing(d) => Preparing(d)' /\ entry'[d] = entry[d]
    BY <1>6 DEF vars, entryVars, callVars, Preparing, PreparingIn
  <2>. QED  BY <1>1, <2>1
<1>. QED
  BY <1>2, <1>3, <1>4, <1>5, <1>6 DEF Next, Terminated, GrantingCall, QuietCall

(* Whoever is inside Admit or Stop keeps the entry from being idle.        *)
HeldIsBusy ==
    /\ \A c \in Calls : InAdmit(c) => ~Idle(heap[entry[c]])
    /\ \A s \in Stoppers : InStop(s) => ~Idle(heap[stopEntry[s]])

(* The references say so: they count those who are inside.                 *)
LEMMA HeldBusy == IInv => HeldIsBusy
<1>. SUFFICES ASSUME IInv PROVE HeldIsBusy
  OBVIOUS
<1>1. ASSUME NEW e \in EntryIds, heap[e].references = 0
      PROVE  AdmitHolders(e) = {} /\ StopHolders(e) = {}
  <2>1. Cardinality(AdmitHolders(e)) + Cardinality(StopHolders(e)) = 0
    BY <1>1 DEF IInv, ReferenceInv
  <2>2. Cardinality(AdmitHolders(e)) = 0 /\ Cardinality(StopHolders(e)) = 0
    BY <2>1, FiniteHolders
  <2>3. IsFiniteSet(AdmitHolders(e)) /\ IsFiniteSet(StopHolders(e))
    BY FiniteHolders
  <2>. QED  BY <2>2, <2>3, FS_EmptySet
<1>2. ASSUME NEW c \in Calls, InAdmit(c) PROVE ~Idle(heap[entry[c]])
  <2>1. entry[c] \in EntryIds /\ c \in AdmitHolders(entry[c])
    BY <1>2, HeldEntry DEF IInv, InAdmit, AdmitHolders
  <2>. QED  BY <1>1, <2>1 DEF Idle
<1>3. ASSUME NEW s \in Stoppers, InStop(s) PROVE ~Idle(heap[stopEntry[s]])
  <2>1. stopEntry[s] \in EntryIds /\ s \in StopHolders(stopEntry[s])
    BY <1>3 DEF IInv, TypeOK, InStop, StopHolders
  <2>. QED  BY <1>1, <2>1 DEF Idle
<1>. QED  BY <1>2, <1>3 DEF HeldIsBusy

(* Where neither the entry of a conversation nor who is about to clean it  *)
(* up changes, ReclaimInv stays.                                           *)
ReclaimAt(k) == entries[k] # None => ~Idle(heap[entries[k]]) \/ Reclaimed(k)

(* The entry of k is as it was, and so are the calls that will clean it up. *)
LEMMA Undisturbed ==
  ASSUME ReclaimInv, NEW k \in Keys, key' = key, entries'[k] = entries[k],
         entries[k] # None => (Idle(heap[entries[k]])' => Idle(heap[entries[k]])),
         \A d \in Calls : pc[d] = "released" /\ key[d] = k =>
            pc'[d] = "released" /\ entry'[d] = entry[d]
  PROVE  ReclaimAt(k)'
<1>. SUFFICES ASSUME entries'[k] # None, Idle(heap[entries[k]])' PROVE Reclaimed(k)'
  BY DEF ReclaimAt
<1>1. Reclaimed(k)
  BY DEF ReclaimInv
<1>2. PICK d \in Calls : pc[d] = "released" /\ key[d] = k /\ entry[d] = entries[k]
  BY <1>1 DEF Reclaimed
<1>. QED  BY <1>2 DEF Reclaimed

(* Every step that may leave an entry idle removes it from the map, or is the *)
(* Release of an owner whose Cleanup comes.                                *)
LEMMA ReclaimNext ==
  ASSUME IInv, IInv', HeldIsBusy', OwnedInv, ReclaimInv, [Next]_vars
  PROVE  ReclaimInv'
<1>a. /\ TypeOK /\ GrantInv /\ pc \in [Calls -> CallStates]
      /\ entry \in [Calls -> EntryIds \cup {None}] /\ heap \in [EntryIds -> EntryType]
      /\ key \in [Calls -> Keys] /\ stopKey \in [Stoppers -> Keys]
      /\ entries \in [Keys -> EntryIds \cup {None}]
      /\ UNCHANGED <<key, stopKey>>
  BY InputsStay DEF IInv, TypeOK
<1>. SUFFICES ASSUME NEW k \in Keys PROVE ReclaimAt(k)'
  BY DEF ReclaimInv, ReclaimAt
<1>b. \A j \in Keys : entries[j] = entries[k] /\ entries[k] # None => j = k
  BY DEF OwnedInv, AllocatedApart
<1>c. \A c \in Calls : InAdmit(c) \/ Executing(c) => entries[key[c]] = entry[c]
  BY DEF IInv, MappedInv
(* A caller that is inside afterwards. *)
<1>1. ASSUME NEW c \in Calls, InAdmit(c)', key[c] = k PROVE ReclaimAt(k)'
  <2>1. entries'[k] = entry'[c]
    BY <1>1, <1>a DEF IInv, MappedInv
  <2>2. ~Idle(heap[entry[c]])'
    BY <1>1 DEF HeldIsBusy
  <2>. QED  BY <2>1, <2>2 DEF ReclaimAt
<1>2. ASSUME NEW c \in Calls, Arrive(c) PROVE ReclaimAt(k)'
  <2>1. PICK e \in EntryIds :
          /\ IF entries[key[c]] = None THEN e \in fresh ELSE e = entries[key[c]]
          /\ entries' = [entries EXCEPT ![key[c]] = e]
          /\ heap' = [heap EXCEPT ![e].references = @ + 1]
          /\ entry' = [entry EXCEPT ![c] = e]
    BY <1>2 DEF Arrive
  <2>2. pc[c] = "idle" /\ pc' = [pc EXCEPT ![c] = "acquired"]
    BY <1>2 DEF Arrive
  <2>3. CASE key[c] = k
    <3>1. InAdmit(c)'
      BY <1>a, <2>2 DEF InAdmit
    <3>. QED  BY <1>1, <2>3, <3>1
  <2>4. CASE key[c] # k
    <3>1. entries'[k] = entries[k]
      BY <1>a, <2>1, <2>4
    <3>2. entries[k] # None => entries[k] # e
      BY <1>a, <1>b, <2>1, <2>4 DEF OwnedInv, AllocatedApart
    <3>3. entries[k] # None => heap'[entries[k]] = heap[entries[k]]
      BY <1>a, <2>1, <3>2
    <3>4. \A d \in Calls : pc[d] = "released" => pc'[d] = "released" /\ entry'[d] = entry[d]
      BY <1>a, <2>1, <2>2
    <3>5. entries[k] # None => (Idle(heap[entries[k]])' => Idle(heap[entries[k]]))
      BY <3>1, <3>3 DEF Idle, Live
    <3>. QED  BY <1>a, <3>1, <3>4, <3>5, Undisturbed
  <2>. QED  BY <2>3, <2>4
(* A section on another conversation's entry. *)
<1>3. ASSUME NEW c \in Calls, InAdmit(c) \/ Executing(c), key[c] # k,
             \A f \in EntryIds \ {entry[c]} : heap'[f] = heap[f],
             \A j \in Keys \ {key[c]} : entries'[j] = entries[j],
             \A d \in Calls \ {c} : pc'[d] = pc[d], entry' = entry
      PROVE  ReclaimAt(k)'
  <2>1. entries'[k] = entries[k]
    BY <1>3
  <2>2. entries[k] # None => entries[k] \in EntryIds \ {entry[c]}
    BY <1>a, <1>b, <1>c, <1>3
  <2>3. entries[k] # None => (Idle(heap[entries[k]])' => Idle(heap[entries[k]]))
    BY <1>3, <2>1, <2>2 DEF Idle, Live
  <2>4. \A d \in Calls : pc[d] = "released" /\ key[d] = k =>
                            pc'[d] = "released" /\ entry'[d] = entry[d]
    BY <1>3
  <2>. QED  BY <1>a, <2>1, <2>3, <2>4, Undisturbed
<1>4. ASSUME NEW c \in Calls, GrantingCall(c) PROVE ReclaimAt(k)'
  <2>1. PICK en \in EntryType : Section(c, entry[c], en)
    BY <1>a, <1>4, GrantingSections
  <2>2. \A f \in EntryIds \ {entry[c]} : heap'[f] = heap[f]
    BY <1>a, <2>1, SectionEffect
  <2>3. entries' = entries /\ entry' = entry /\ \A d \in Calls \ {c} : pc'[d] = pc[d]
    BY <1>a, <1>4 DEF GrantingCall, Enqueue, GiveUpWaiting, GiveUpGrant, PrepareFails,
                 PublishOwner, PublishSteer, Release
  <2>4. InAdmit(c) \/ Executing(c)
    BY <1>4 DEF GrantingCall, Enqueue, GiveUpWaiting, GiveUpGrant, PrepareFails,
                 PublishOwner, PublishSteer, Release, InAdmit, Executing
  <2>5. CASE key[c] # k
    BY <1>3, <2>2, <2>3, <2>4, <2>5
  <2>6. CASE key[c] = k /\ ~Release(c)
    <3>1. InAdmit(c)'
      BY <1>a, <1>4, <2>6 DEF GrantingCall, Enqueue, GiveUpWaiting, GiveUpGrant,
                 PrepareFails, PublishOwner, PublishSteer, InAdmit
    <3>. QED  BY <1>1, <2>6, <3>1
  <2>7. CASE key[c] = k /\ Release(c)
    <3>1. pc'[c] = "released" /\ entries[k] = entry[c]
      BY <1>a, <1>c, <2>7 DEF Release, Executing
    <3>2. Reclaimed(k)'
      BY <1>a, <2>3, <2>7, <3>1 DEF Reclaimed
    <3>. QED  BY <3>2 DEF ReclaimAt
  <2>. QED  BY <2>5, <2>6, <2>7
<1>5. ASSUME NEW c \in Calls, Cancel(c) \/ DecideOwner(c) PROVE ReclaimAt(k)'
  <2>1. /\ entries' = entries /\ heap' = heap /\ entry' = entry
        /\ \A d \in Calls : pc[d] = "released" => pc'[d] = "released"
    BY <1>a, <1>5 DEF Cancel, DecideOwner, entryVars
  <2>. QED  BY <1>a, <2>1, Undisturbed DEF Idle, Live
<1>6. ASSUME NEW c \in Calls, ReturnFromAdmit(c) PROVE ReclaimAt(k)'
  <2>. DEFINE e == entry[c]
              en == [heap[e] EXCEPT !.references = @ - 1]
  <2>1. /\ heap' = [heap EXCEPT ![e] = en]
        /\ entries' = IF Idle(en) /\ entries[key[c]] = e
                      THEN [entries EXCEPT ![key[c]] = None] ELSE entries
        /\ entry' = entry /\ \A d \in Calls \ {c} : pc'[d] = pc[d]
    BY <1>a, <1>6 DEF ReturnFromAdmit, Unreference
  <2>2. InAdmit(c) /\ e \in EntryIds
    BY <1>a, <1>6, HeldEntry DEF ReturnFromAdmit, InAdmit
  <2>. HIDE DEF en
  <2>3. CASE key[c] # k
    BY <1>a, <1>3, <2>1, <2>2, <2>3
  <2>4. CASE key[c] = k
    <3>1. entries[k] = e
      BY <1>c, <2>2, <2>4
    <3>2. SUFFICES ASSUME entries'[k] # None PROVE ~Idle(heap[entries[k]])'
      BY DEF ReclaimAt
    <3>3. ~Idle(en) /\ entries'[k] = e
      BY <1>a, <2>1, <2>4, <3>1, <3>2
    <3>4. heap'[entries'[k]] = en
      BY <1>a, <2>1, <2>2, <3>3
    <3>. QED  BY <3>3, <3>4 DEF Idle, Live
  <2>. QED  BY <2>3, <2>4
<1>7. ASSUME NEW c \in Calls, Pending(c) PROVE ReclaimAt(k)'
  <2>1. /\ entries' = entries /\ entry' = entry /\ pc' = pc
        /\ heap' = [heap EXCEPT ![entry[c]].active.pending = <<>>]
    BY <1>7 DEF Pending, callVars
  <2>2. \A f \in EntryIds : Idle(heap'[f]) <=> Idle(heap[f])
    <3>1. \A f \in EntryIds \ {entry[c]} : heap'[f] = heap[f]
      BY <1>a, <2>1
    <3>2. entry[c] \in EntryIds
      BY <1>a, <1>7, HeldEntry DEF Pending
    <3>3. /\ heap'[entry[c]].waiters = heap[entry[c]].waiters
          /\ heap'[entry[c]].preparing = heap[entry[c]].preparing
          /\ heap'[entry[c]].references = heap[entry[c]].references
          /\ heap'[entry[c]].active.generation = heap[entry[c]].active.generation
      BY <1>a, <2>1, <3>2 DEF EntryType, TurnType
    <3>. QED  BY <3>1, <3>3 DEF Idle, Live
  <2>3. entries[k] # None => (Idle(heap[entries[k]])' => Idle(heap[entries[k]]))
    BY <1>a, <2>1, <2>2 DEF Idle, Live
  <2>. QED  BY <1>a, <2>1, <2>3, Undisturbed
<1>8. ASSUME NEW c \in Calls, Cleanup(c) PROVE ReclaimAt(k)'
  <2>1. /\ pc[c] = "released" /\ pc' = [pc EXCEPT ![c] = "cleaned"]
        /\ heap' = heap /\ entry' = entry
        /\ entries' = IF entries[key[c]] = entry[c] /\ Idle(heap[entry[c]])
                      THEN [entries EXCEPT ![key[c]] = None] ELSE entries
    BY <1>8 DEF Cleanup
  <2>2. SUFFICES ASSUME entries'[k] # None, Idle(heap[entries[k]])' PROVE Reclaimed(k)'
    BY DEF ReclaimAt
  <2>3. entries'[k] = entries[k]
    BY <1>a, <2>1, <2>2
  <2>4. entries[k] # None /\ Idle(heap[entries[k]])
    BY <2>1, <2>2, <2>3 DEF Idle, Live
  <2>5. PICK d \in Calls : pc[d] = "released" /\ key[d] = k /\ entry[d] = entries[k]
    BY <2>4 DEF ReclaimInv, Reclaimed
  <2>6. d # c
    BY <1>a, <2>1, <2>2, <2>4, <2>5
  <2>7. pc'[d] = "released"
    BY <1>a, <2>1, <2>5, <2>6
  <2>. QED  BY <1>a, <2>1, <2>3, <2>5, <2>7 DEF Reclaimed
<1>9. ASSUME NEW c \in Calls, ReleaseAgain(c) PROVE ReclaimAt(k)'
  <2>1. ~OwnsTurn(c) /\ pc[c] = "cleaned"
    BY <1>9, DoneIsNotOwner DEF ReleaseAgain
  <2>2. /\ entries' = entries /\ heap' = heap /\ entry' = entry
        /\ \A d \in Calls : pc[d] = "released" => pc'[d] = "released"
    BY <1>a, <1>9, <2>1 DEF ReleaseAgain
  <2>. QED  BY <1>a, <2>2, Undisturbed DEF Idle, Live
(* Stop, the same way. *)
<1>10. ASSUME NEW s \in Stoppers, InStop(s)', stopKey[s] = k PROVE ReclaimAt(k)'
  <2>1. entries'[k] = stopEntry'[s]
    BY <1>10, <1>a DEF IInv, MappedInv
  <2>2. ~Idle(heap[stopEntry[s]])'
    BY <1>10 DEF HeldIsBusy
  <2>. QED  BY <2>1, <2>2 DEF ReclaimAt
<1>11. ASSUME NEW e, NEW j \in Keys, entries[j] = e, e # None, j # k,
              \A f \in EntryIds \ {e} : heap'[f] = heap[f],
              \A i \in Keys \ {j} : entries'[i] = entries[i], pc' = pc, entry' = entry
       PROVE  ReclaimAt(k)'
  <2>1. entries'[k] = entries[k]
    BY <1>11
  <2>2. entries[k] # None => entries[k] \in EntryIds \ {e}
    BY <1>a, <1>b, <1>11
  <2>3. entries[k] # None => (Idle(heap[entries[k]])' => Idle(heap[entries[k]]))
    BY <1>11, <2>1, <2>2 DEF Idle, Live
  <2>. QED  BY <1>a, <1>11, <2>1, <2>3, Undisturbed
<1>12. ASSUME UNCHANGED <<entries, heap, pc, entry>> PROVE ReclaimAt(k)'
  BY <1>a, <1>12, Undisturbed DEF Idle, Live
<1>13. ASSUME NEW s \in Stoppers, FindEntry(s) PROVE ReclaimAt(k)'
  <2>1. entries' = entries /\ pc' = pc /\ entry' = entry
    BY <1>13 DEF FindEntry, callVars
  <2>2. CASE entries[stopKey[s]] = None
    BY <1>12, <1>13, <2>1, <2>2 DEF FindEntry
  <2>3. CASE entries[stopKey[s]] # None
    <3>1. heap' = [heap EXCEPT ![entries[stopKey[s]]].references = @ + 1]
      BY <1>13, <2>3 DEF FindEntry
    <3>2. InStop(s)'
      BY <1>13, <2>3 DEF FindEntry, InStop, IInv, TypeOK
    <3>3. \A f \in EntryIds \ {entries[stopKey[s]]} : heap'[f] = heap[f]
      BY <1>a, <3>1
    <3>4. CASE stopKey[s] # k
      BY <1>a, <1>11, <2>1, <2>3, <3>3, <3>4
    <3>. QED  BY <1>10, <3>2, <3>4
  <2>. QED  BY <2>2, <2>3
<1>14. ASSUME NEW s \in Stoppers, MarkStopping(s) PROVE ReclaimAt(k)'
  <2>1. /\ entries' = entries /\ pc' = pc /\ entry' = entry
        /\ \A f \in EntryIds \ {stopEntry[s]} : heap'[f] = heap[f]
    BY <1>a, <1>14 DEF MarkStopping, callVars
  <2>2. InStop(s)' /\ InStop(s)
    BY <1>14 DEF MarkStopping, InStop, IInv, TypeOK
  <2>3. entries[stopKey[s]] = stopEntry[s] /\ stopEntry[s] # None
    BY <2>2, NoneAssumption DEF IInv, TypeOK, MappedInv, InStop
  <2>4. CASE stopKey[s] # k
    BY <1>a, <1>11, <2>1, <2>3, <2>4
  <2>. QED  BY <1>10, <2>2, <2>4
<1>15. ASSUME NEW s \in Stoppers, ReturnFromStop(s) PROVE ReclaimAt(k)'
  <2>. DEFINE e == stopEntry[s]
              en == [heap[e] EXCEPT !.references = @ - 1]
  <2>1. /\ heap' = [heap EXCEPT ![e] = en]
        /\ entries' = IF Idle(en) /\ entries[stopKey[s]] = e
                      THEN [entries EXCEPT ![stopKey[s]] = None] ELSE entries
        /\ entry' = entry /\ pc' = pc
    BY <1>15 DEF ReturnFromStop, Unreference, callVars
  <2>2. InStop(s) /\ e \in EntryIds
    BY <1>15 DEF ReturnFromStop, InStop, IInv, TypeOK
  <2>3. entries[stopKey[s]] = e /\ e # None
    BY <2>2, NoneAssumption DEF IInv, MappedInv
  <2>. HIDE DEF en
  <2>4. CASE stopKey[s] # k
    BY <1>a, <1>11, <2>1, <2>3, <2>4
  <2>5. CASE stopKey[s] = k
    <3>2. SUFFICES ASSUME entries'[k] # None PROVE ~Idle(heap[entries[k]])'
      BY DEF ReclaimAt
    <3>3. ~Idle(en) /\ entries'[k] = e
      BY <1>a, <2>1, <2>3, <2>5, <3>2
    <3>4. heap'[entries'[k]] = en
      BY <1>a, <2>1, <2>2, <3>3
    <3>. QED  BY <3>3, <3>4 DEF Idle, Live
  <2>. QED  BY <2>4, <2>5
<1>16. CASE UNCHANGED vars
  BY <1>12, <1>16 DEF vars, entryVars, callVars
<1>. QED
  BY <1>2, <1>4, <1>5, <1>6, <1>7, <1>8, <1>9, <1>13, <1>14, <1>15, <1>16
     DEF Next, Terminated, GrantingCall

(* Whoever uses an entry has the one of the map, and an idle map is empty. *)
LEMMA HoldsMapped ==
  ASSUME IInv, OwnedInv, FlagInv, ReclaimInv
  PROVE  HoldsMappedEntry
<1>1. /\ \A c \in Calls :
            pc[c] \in {"acquired", "waiting", "prepared", "admitted",
                       "joining", "leaving", "running"}
            => entries[key[c]] = entry[c]
      /\ \A s \in Stoppers :
            stopPc[s] \in {"found", "missed", "marked"}
            => entries[stopKey[s]] = stopEntry[s]
  BY DEF IInv, MappedInv, InAdmit, Executing, InStop
<1>2. ASSUME Quiescent, NEW k \in Keys, entries[k] # None PROVE FALSE
  <2>. DEFINE e == entries[k]
  <2>1. e \in EntryIds /\ heap[e] \in EntryType
    BY <1>2 DEF IInv, TypeOK
  <2>2. \A c \in Calls : pc[c] \in {"refused", "joined", "finished"}
    BY <1>2 DEF Quiescent
  <2>3. ~Live(heap[e])
    BY <2>1, <2>2 DEF OwnedInv, LiveIsExecuted, Executing
  <2>4. ~heap[e].preparing
    BY <2>1, <2>2 DEF FlagInv, Preparing, PreparingIn
  <2>5. heap[e].waiters = <<>>
    <3>1. SUFFICES ASSUME heap[e].waiters # <<>> PROVE FALSE
      OBVIOUS
    <3>2. heap[e].waiters \in Seq(Calls)
      BY <2>1, EntryFields
    <3>3. 1 \in 1..Len(heap[e].waiters) /\ heap[e].waiters[1] \in Calls
      BY <3>1, <3>2, TailFacts
    <3>4. pc[heap[e].waiters[1]] = "waiting"
      BY <2>1, <3>3 DEF IInv, AdmissionInv, QueueOK
    <3>. QED  BY <2>2, <3>3, <3>4
  <2>6. heap[e].references = 0
    <3>1. AdmitHolders(e) = {}
      BY <2>2 DEF AdmitHolders, InAdmit
    <3>2. StopHolders(e) = {}
      BY <1>2 DEF Quiescent, StopHolders, InStop
    <3>. QED  BY <2>1, <3>1, <3>2, FS_EmptySet DEF IInv, ReferenceInv
  <2>7. ~Reclaimed(k)
    BY <2>2 DEF Reclaimed
  <2>. QED  BY <1>2, <2>3, <2>4, <2>5, <2>6, <2>7 DEF ReclaimInv, Idle
<1>. QED  BY <1>1, <1>2 DEF HoldsMappedEntry

-----------------------------------------------------------------------------
(* An accepted steer is in one place *)

(* Of two sets of places, the input that has joined is at one place of one *)
(* of them, and one that has not joined is at none.                        *)
Once(g, w, joined) ==
    IF joined THEN \E p : (g = {p} /\ w = {}) \/ (g = {} /\ w = {p})
    ELSE g = {} /\ w = {}

Joined(c) == pc[c] \in {"joining", "joined"}

(* AcceptedOnce says so of every input.                                    *)
AllOnce ==
    \A c \in Calls : Once(PlacesIn(Given, c), PlacesIn(Inboxes, c), Joined(c))

(* The property is AllOnce, in the words of the places.                    *)
LEMMA AcceptedMeans == AcceptedOnce <=> AllOnce
<1>. SUFFICES ASSUME NEW c \in Calls, NEW g, NEW w
              PROVE  (IF pc[c] \in {"joining", "joined"}
                      THEN \E p \in g \cup w : \/ g = {p} /\ w = {}
                                               \/ g = {} /\ w = {p}
                      ELSE g = {} /\ w = {})
                     <=> Once(g, w, Joined(c))
  BY DEF AcceptedOnce, AllOnce
<1>1. (\E p \in g \cup w : \/ g = {p} /\ w = {}
                           \/ g = {} /\ w = {p})
      <=> \E p : (g = {p} /\ w = {}) \/ (g = {} /\ w = {p})
  OBVIOUS
<1>. QED  BY <1>1 DEF Once, Joined

(* The places of an input are the pairs at which it is.                    *)
AllAt(s, box, c) ==
    /\ \A o, i : <<o, i>> \in s <=> o \in DOMAIN box /\ i \in DOMAIN box[o] /\ box[o][i] = c
    /\ \A p \in s : \E o, i : p = <<o, i>>

(* PlacesIn gives just these pairs.                                        *)
LEMMA PlacesAre ==
  ASSUME NEW box, NEW c
  PROVE  AllAt(PlacesIn(box, c), box, c)
<1>. DEFINE Of(o) == {<<o, i>> : i \in {j \in DOMAIN box[o] : box[o][j] = c}}
<1>1. PlacesIn(box, c) = UNION {Of(o) : o \in DOMAIN box}
  BY DEF PlacesIn
<1>2. \A p : p \in PlacesIn(box, c) <=> \E o \in DOMAIN box : p \in Of(o)
  <2>. HIDE DEF Of
  <2>. QED  BY <1>1
<1>3. \A o, p : p \in Of(o) <=> \E i \in DOMAIN box[o] : box[o][i] = c /\ p = <<o, i>>
  OBVIOUS
<1>. HIDE DEF Of
<1>4. ASSUME NEW o, NEW i
      PROVE  <<o, i>> \in PlacesIn(box, c) <=>
               o \in DOMAIN box /\ i \in DOMAIN box[o] /\ box[o][i] = c
  <2>1. ASSUME <<o, i>> \in PlacesIn(box, c)
        PROVE  o \in DOMAIN box /\ i \in DOMAIN box[o] /\ box[o][i] = c
    <3>1. PICK q \in DOMAIN box : <<o, i>> \in Of(q)
      BY <1>2, <2>1
    <3>2. PICK j \in DOMAIN box[q] : box[q][j] = c /\ <<o, i>> = <<q, j>>
      BY <1>3, <3>1
    <3>. QED  BY <3>2
  <2>2. ASSUME o \in DOMAIN box, i \in DOMAIN box[o], box[o][i] = c
        PROVE  <<o, i>> \in PlacesIn(box, c)
    <3>1. <<o, i>> \in Of(o)
      BY <1>3, <2>2
    <3>. QED  BY <1>2, <2>2, <3>1
  <2>. QED  BY <2>1, <2>2
<1>5. ASSUME NEW p \in PlacesIn(box, c) PROVE \E o, i : p = <<o, i>>
  BY <1>2, <1>3
<1>. QED  BY <1>4, <1>5 DEF AllAt

(* Two sets of pairs are the same if they hold the same pairs.             *)
LEMMA SamePlaces ==
  ASSUME NEW s, NEW t,
         \A p \in s : \E o, i : p = <<o, i>>, \A p \in t : \E o, i : p = <<o, i>>,
         \A o, i : <<o, i>> \in s <=> <<o, i>> \in t
  PROVE  s = t
<1>1. ASSUME NEW p \in s PROVE p \in t
  <2>1. PICK o, i : p = <<o, i>>
    BY <1>1
  <2>. QED  BY <2>1
<1>2. ASSUME NEW p \in t PROVE p \in s
  <2>1. PICK o, i : p = <<o, i>>
    BY <1>2
  <2>. QED  BY <2>1
<1>. QED  BY <1>1, <1>2

(* In u, x is appended to the sequence that w has at e.                    *)
Appends(D, B, w, u, e, x) ==
    /\ w \in [B -> Seq(D)] /\ u \in [B -> Seq(D)] /\ e \in B /\ x \in D
    /\ u[e] = Append(w[e], x) /\ \A f \in B \ {e} : u[f] = w[f]

(* In q, the sequence t is put after the one that r has at o.              *)
Takes(D, A, r, q, o, t) ==
    /\ r \in [A -> Seq(D)] /\ q \in [A -> Seq(D)] /\ o \in A /\ t \in Seq(D)
    /\ q[o] = r[o] \o t /\ \A f \in A \ {o} : q[f] = r[f]

(* In u, the sequence t that w has at e is given up.                       *)
Clears(D, B, w, u, e, t) ==
    /\ w \in [B -> Seq(D)] /\ u \in [B -> Seq(D)] /\ e \in B /\ w[e] = t
    /\ u[e] = <<>> /\ \A f \in B \ {e} : u[f] = w[f]

(* An input that has not joined and is appended to an inbox is there only. *)
LEMMA OnceSent ==
  ASSUME NEW D, NEW B, NEW w, NEW u, NEW e, NEW x, NEW c, NEW before, NEW after,
         Appends(D, B, w, u, e, x), AllAt(before, w, c), AllAt(after, u, c)
  PROVE  /\ c # x => after = before
         /\ c = x /\ before = {} => after = {<<e, Len(w[e]) + 1>>}
<1>. USE DEF Appends
<1>. PICK n : n = Len(w[e])
  OBVIOUS
<1>1. /\ u[e] = Append(w[e], x) /\ w[e] \in Seq(D) /\ n \in Nat
      /\ DOMAIN u = B /\ DOMAIN w = B
      /\ \A f \in B \ {e} : u[f] = w[f]
  BY LenProperties
<1>2. /\ DOMAIN u[e] = 1..(n + 1) /\ DOMAIN w[e] = 1..n
      /\ \A i \in 1..n : u[e][i] = w[e][i]
      /\ u[e][n + 1] = x
  BY <1>1, LenProperties, AppendProperties
<1>3. /\ n + 1 \notin 1..n
      /\ \A i : i \in 1..(n + 1) <=> i \in 1..n \/ i = n + 1
  BY <1>1
<1>4. ASSUME NEW f, NEW i
      PROVE  <<f, i>> \in after <=> <<f, i>> \in before \/ (f = e /\ i = n + 1 /\ c = x)
  <2>1. <<f, i>> \in after <=> f \in B /\ i \in DOMAIN u[f] /\ u[f][i] = c
    BY <1>1 DEF AllAt
  <2>2. <<f, i>> \in before <=> f \in B /\ i \in DOMAIN w[f] /\ w[f][i] = c
    BY <1>1 DEF AllAt
  <2>3. CASE f = e
    <3>1. <<f, i>> \in after <=> i \in 1..(n + 1) /\ u[e][i] = c
      BY <1>2, <2>1, <2>3
    <3>2. <<f, i>> \in before <=> i \in 1..n /\ w[e][i] = c
      BY <1>2, <2>2, <2>3
    <3>. QED  BY ONLY <1>2, <1>3, <2>3, <3>1, <3>2
  <2>4. CASE f # e
    BY <1>1, <2>1, <2>2, <2>4
  <2>. QED  BY <2>3, <2>4
<1>5. /\ \A p \in after : \E f, i : p = <<f, i>>
      /\ \A p \in before : \E f, i : p = <<f, i>>
  BY DEF AllAt
<1>6. ASSUME c # x PROVE after = before
  <2>1. \A f, i : <<f, i>> \in after <=> <<f, i>> \in before
    BY ONLY <1>4, <1>6
  <2>. QED  BY ONLY <1>5, <2>1, SamePlaces
<1>7. ASSUME c = x, before = {} PROVE after = {<<e, n + 1>>}
  <2>1. \A f, i : <<f, i>> \in after <=> f = e /\ i = n + 1
    <3>1. ASSUME NEW f, NEW i PROVE <<f, i>> \in after <=> f = e /\ i = n + 1
      <4>1. <<f, i>> \notin before
        BY <1>7
      <4>. QED  BY ONLY <1>4, <1>7, <4>1
    <3>. QED  BY ONLY <3>1
  <2>. QED  BY ONLY <1>5, <2>1
<1>. QED  BY <1>6, <1>7

(* What an owner takes out of an inbox it has itself.                      *)
LEMMA OnceMoved ==
  ASSUME NEW D, NEW A, NEW B, NEW r, NEW w, NEW o, NEW e, NEW q, NEW u, NEW c, NEW joined,
         NEW t, Takes(D, A, r, q, o, t), Clears(D, B, w, u, e, t),
         NEW given, NEW inbox, NEW given2, NEW inbox2,
         AllAt(given, r, c), AllAt(inbox, w, c), AllAt(given2, q, c), AllAt(inbox2, u, c),
         Once(given, inbox, joined)
  PROVE  Once(given2, inbox2, joined)
<1>. USE DEF Takes, Clears
<1>. PICK n, m : n = Len(r[o]) /\ m = Len(w[e])
  OBVIOUS
<1>a. /\ r[o] \in Seq(D) /\ w[e] \in Seq(D) /\ n \in Nat /\ m \in Nat
      /\ DOMAIN q = A /\ DOMAIN r = A /\ DOMAIN u = B /\ DOMAIN w = B
      /\ q[o] = r[o] \o w[e] /\ u[e] = <<>> /\ o \in A
      /\ \A f \in A \ {o} : q[f] = r[f]
      /\ \A f \in B \ {e} : u[f] = w[f]
  BY LenProperties
<1>b. /\ DOMAIN q[o] = 1..(n + m) /\ DOMAIN r[o] = 1..n
      /\ DOMAIN w[e] = 1..m /\ DOMAIN u[e] = {}
      /\ \A i \in 1..(n + m) : q[o][i] = IF i <= n THEN r[o][i] ELSE w[e][i - n]
  BY <1>a, LenProperties, ConcatProperties
<1>c. /\ \A f, i : <<f, i>> \in given <=> f \in A /\ i \in DOMAIN r[f] /\ r[f][i] = c
      /\ \A f, i : <<f, i>> \in given2 <=> f \in A /\ i \in DOMAIN q[f] /\ q[f][i] = c
      /\ \A f, i : <<f, i>> \in inbox <=> f \in B /\ i \in DOMAIN w[f] /\ w[f][i] = c
      /\ \A f, i : <<f, i>> \in inbox2 <=> f \in B /\ i \in DOMAIN u[f] /\ u[f][i] = c
  BY <1>a DEF AllAt
<1>d. /\ \A p \in given : \E f, i : p = <<f, i>>
      /\ \A p \in given2 : \E f, i : p = <<f, i>>
      /\ \A p \in inbox : \E f, i : p = <<f, i>>
      /\ \A p \in inbox2 : \E f, i : p = <<f, i>>
  BY DEF AllAt
<1>1. \A f, i : <<f, i>> \in inbox2 <=> <<f, i>> \in inbox /\ f # e
  <2>1. ASSUME NEW f, NEW i, f = e PROVE <<f, i>> \notin inbox2
    BY ONLY <1>b, <1>c, <2>1
  <2>2. ASSUME NEW f, NEW i, f # e PROVE <<f, i>> \in inbox2 <=> <<f, i>> \in inbox
    <3>1. f \in B => u[f] = w[f]
      BY ONLY <1>a, <2>2
    <3>. QED  BY ONLY <1>c, <3>1
  <2>. QED  BY ONLY <2>1, <2>2
<1>2. ASSUME NEW f, NEW i
      PROVE  <<f, i>> \in given2 <=>
               \/ <<f, i>> \in given
               \/ f = o /\ i \in Int /\ <<e, i - n>> \in inbox
  <2>1. CASE f # o
    <3>1. f \in A => q[f] = r[f]
      BY ONLY <1>a, <2>1
    <3>. QED  BY ONLY <1>c, <2>1, <3>1
  <2>2. CASE f = o
    <3>1. i \in 1..(n + m) <=> i \in 1..n \/ (i \in Int /\ i - n \in 1..m)
      BY <1>a
    <3>2. <<f, i>> \in given2 <=> i \in 1..(n + m) /\ q[o][i] = c
      <4>1. <<o, i>> \in given2 <=> o \in A /\ i \in DOMAIN q[o] /\ q[o][i] = c
        BY ONLY <1>c
      <4>. QED  BY ONLY <1>b, <2>2, <4>1, <1>a
    <3>3. <<f, i>> \in given <=> i \in 1..n /\ r[o][i] = c
      <4>1. <<o, i>> \in given <=> o \in A /\ i \in DOMAIN r[o] /\ r[o][i] = c
        BY ONLY <1>c
      <4>. QED  BY ONLY <1>b, <2>2, <4>1, <1>a
    <3>4. <<e, i - n>> \in inbox <=> i - n \in 1..m /\ w[e][i - n] = c
      BY <1>b, <1>c
    <3>5. i \in 1..n => i <= n /\ ~(i - n \in 1..m)
      BY <1>a
    <3>6. i \in Int /\ i - n \in 1..m => ~(i <= n)
      BY <1>a
    <3>. QED  BY ONLY <1>b, <2>2, <3>1, <3>2, <3>3, <3>4, <3>5, <3>6
  <2>. QED  BY <2>1, <2>2
<1>3. ASSUME inbox = {} PROVE given2 = given /\ inbox2 = {}
  <2>1. \A f, i : <<f, i>> \in given2 <=> <<f, i>> \in given
    BY ONLY <1>2, <1>3
  <2>2. given2 = given
    BY ONLY <1>d, <2>1, SamePlaces
  <2>3. inbox2 = {}
    BY ONLY <1>1, <1>3, <1>d
  <2>. QED  BY <2>2, <2>3
<1>4. ASSUME NEW p, given = {}, inbox = {p}
      PROVE  \E s : \/ given2 = {s} /\ inbox2 = {}
                    \/ given2 = {} /\ inbox2 = {s}
  <2>1. PICK g, j : p = <<g, j>>
    BY <1>4, <1>d
  <2>2. \A f, i : <<f, i>> \in inbox <=> f = g /\ i = j
    BY ONLY <1>4, <2>1
  <2>3. CASE g # e
    <3>1. \A f, i : <<f, i>> \notin given2
      <4>1. ASSUME NEW f, NEW i PROVE <<f, i>> \notin given2
        <5>1. <<f, i>> \notin given
          BY <1>4
        <5>2. <<e, i - n>> \notin inbox
          BY ONLY <2>2, <2>3
        <5>. QED  BY ONLY <1>2, <5>1, <5>2
      <4>. QED  BY ONLY <4>1
    <3>2. given2 = {}
      BY ONLY <1>d, <3>1
    <3>3. \A f, i : <<f, i>> \in inbox2 <=> f = g /\ i = j
      BY ONLY <1>1, <2>2, <2>3
    <3>4. inbox2 = {<<g, j>>}
      BY ONLY <1>d, <3>3
    <3>. QED  BY <3>2, <3>4
  <2>4. CASE g = e
    <3>1. \A f, i : <<f, i>> \notin inbox2
      BY ONLY <1>1, <2>2, <2>4
    <3>2. inbox2 = {}
      BY ONLY <1>d, <3>1
    <3>3. j \in 1..m
      BY ONLY <1>b, <1>c, <2>2, <2>4
    <3>4. \A f, i : <<f, i>> \in given2 <=> f = o /\ i = n + j
      <4>1. ASSUME NEW f, NEW i PROVE <<f, i>> \in given2 <=> f = o /\ i = n + j
        <5>1. <<f, i>> \notin given
          BY <1>4
        <5>2. <<e, i - n>> \in inbox <=> i - n = j
          BY ONLY <2>2, <2>4
        <5>3. i \in Int /\ i - n = j <=> i = n + j
          <6>1. n \in Int /\ j \in Int
            BY ONLY <1>a, <3>3
          <6>2. CASE i \in Int
            BY ONLY <6>1, <6>2
          <6>3. CASE i \notin Int
            <7>1. n + j \in Int
              BY ONLY <6>1
            <7>. QED  BY ONLY <6>3, <7>1
          <6>. QED  BY ONLY <6>2, <6>3
        <5>. QED  BY ONLY <1>2, <5>1, <5>2, <5>3
      <4>. QED  BY ONLY <4>1
    <3>5. given2 = {<<o, n + j>>}
      BY ONLY <1>d, <3>4
    <3>. QED  BY <3>2, <3>5
  <2>. QED  BY <2>3, <2>4
<1>. QED  BY <1>3, <1>4 DEF Once

(***************************************************************************)
(* Release writes what it gives back once, and the inbox of an entry       *)
(* without a turn is empty: what is appended to it is never overwritten.   *)
(***************************************************************************)
InboxInv ==
    /\ \A c \in Calls : returned[c] # <<>> => pc[c] \in {"released", "cleaned", "finished"}
    /\ \A e \in EntryIds : ~Live(heap[e]) => heap[e].active.pending = <<>>

(* AcceptedOnce holds of a later state if the places of each input do.     *)
LEMMA AcceptedThen ==
  AcceptedOnce' <=>
    \A c \in Calls : Once(PlacesIn(Given', c), PlacesIn(Inboxes', c), Joined(c)')
<1>1. AcceptedOnce' <=> AllOnce'
  BY AcceptedMeans, PTL
<1>. QED  BY <1>1 DEF AllOnce, Once, PlacesIn

(* The sequences and the joined calls determine whether it holds.          *)
LEMMA AcceptedStays ==
  ASSUME AcceptedOnce, Given' = Given, Inboxes' = Inboxes,
         \A c \in Calls : Joined(c)' <=> Joined(c)
  PROVE  AcceptedOnce'
<1>1. \A c \in Calls : Once(PlacesIn(Given, c), PlacesIn(Inboxes, c), Joined(c))
  BY AcceptedMeans DEF AllOnce
<1>. QED  BY <1>1, AcceptedThen DEF Once

(* So does an owner that takes the inbox of its entry.                     *)
LEMMA AcceptedMoves ==
  ASSUME TypeOK, AcceptedOnce, NEW c \in Calls, NEW e \in EntryIds,
         Given' = [Given EXCEPT ![c] = Given[c] \o Inboxes[e]],
         Inboxes' = [Inboxes EXCEPT ![e] = <<>>],
         \A d \in Calls : Joined(d)' <=> Joined(d)
  PROVE  AcceptedOnce'
<1>1. Given \in [Calls -> Seq(Calls)] /\ Inboxes \in [EntryIds -> Seq(Calls)]
  BY EntryFields DEF TypeOK, Given, Inboxes
<1>2. SUFFICES ASSUME NEW d \in Calls
               PROVE  Once(PlacesIn(Given', d), PlacesIn(Inboxes', d), Joined(d)')
  BY AcceptedThen
<1>3. Once(PlacesIn(Given, d), PlacesIn(Inboxes, d), Joined(d))
  BY AcceptedMeans DEF AllOnce
<1>. PICK r, w, q, u, given, inbox, given2, inbox2 :
        /\ r = Given /\ w = Inboxes /\ q = Given' /\ u = Inboxes'
        /\ given = PlacesIn(r, d) /\ inbox = PlacesIn(w, d)
        /\ given2 = PlacesIn(q, d) /\ inbox2 = PlacesIn(u, d)
  OBVIOUS
<1>4. AllAt(given, r, d) /\ AllAt(inbox, w, d) /\ AllAt(given2, q, d) /\ AllAt(inbox2, u, d)
  BY PlacesAre
<1>5. /\ Takes(Calls, Calls, r, q, c, w[e])
      /\ Clears(Calls, EntryIds, w, u, e, w[e])
  <2>1. r[c] \in Seq(Calls) /\ w[e] \in Seq(Calls)
    BY <1>1
  <2>2. r[c] \o w[e] \in Seq(Calls) /\ <<>> \in Seq(Calls)
    BY <2>1, ConcatProperties
  <2>. QED  BY <1>1, <2>1, <2>2 DEF Takes, Clears
<1>6. Once(given, inbox, Joined(d))
  BY <1>3
<1>7. Once(given2, inbox2, Joined(d))
  BY ONLY <1>4, <1>5, <1>6, OnceMoved
<1>. QED  BY <1>7 DEF Once

(* And an input that joins and is appended to an inbox.                    *)
LEMMA AcceptedSent ==
  ASSUME TypeOK, AcceptedOnce, NEW c \in Calls, NEW e \in EntryIds,
         Given' = Given, Inboxes' = [Inboxes EXCEPT ![e] = Append(Inboxes[e], c)],
         ~Joined(c), Joined(c)', \A d \in Calls \ {c} : Joined(d)' <=> Joined(d)
  PROVE  AcceptedOnce'
<1>1. Inboxes \in [EntryIds -> Seq(Calls)]
  BY EntryFields DEF TypeOK, Inboxes
<1>2. SUFFICES ASSUME NEW d \in Calls
               PROVE  Once(PlacesIn(Given, d), PlacesIn(Inboxes', d), Joined(d)')
  BY AcceptedThen
<1>3. Once(PlacesIn(Given, d), PlacesIn(Inboxes, d), Joined(d))
  BY AcceptedMeans DEF AllOnce
<1>. PICK w, u, before, after :
        /\ w = Inboxes /\ u = Inboxes'
        /\ before = PlacesIn(w, d) /\ after = PlacesIn(u, d)
  OBVIOUS
<1>4. AllAt(before, w, d) /\ AllAt(after, u, d)
  BY PlacesAre
<1>5. Appends(Calls, EntryIds, w, u, e, c)
  <2>1. w[e] \in Seq(Calls)
    BY <1>1
  <2>2. Append(w[e], c) \in Seq(Calls)
    BY <2>1, AppendProperties
  <2>. QED  BY <1>1, <2>1, <2>2 DEF Appends
<1>6. /\ d # c => after = before
      /\ d = c /\ before = {} => \E p : after = {p}
  <2>1. ASSUME d # c PROVE after = before
    BY ONLY <1>4, <1>5, <2>1, OnceSent
  <2>2. ASSUME d = c, before = {} PROVE \E p : after = {p}
    <3>1. after = {<<e, Len(w[e]) + 1>>}
      BY ONLY <1>4, <1>5, <2>2, OnceSent
    <3>. QED  BY <3>1
  <2>. QED  BY <2>1, <2>2
<1>7. CASE d = c
  BY <1>3, <1>6, <1>7 DEF Once
<1>8. CASE d # c
  <2>1. Joined(d)' <=> Joined(d)
    BY <1>8
  <2>. QED  BY <1>3, <1>6, <1>8, <2>1 DEF Once
<1>. QED  BY <1>7, <1>8

(* A steer moves from its preparation to an inbox, from there to what its  *)
(* owner has drained or been given back, and stays.                        *)
LEMMA AcceptedNext ==
  ASSUME IInv, OwnedInv, InboxInv, AcceptedOnce, [Next]_vars
  PROVE  AcceptedOnce' /\ InboxInv'
<1>a. /\ TypeOK /\ pc \in [Calls -> CallStates]
      /\ drained \in [Calls -> Seq(Calls)] /\ returned \in [Calls -> Seq(Calls)]
      /\ \A e \in EntryIds : heap[e].active \in TurnType
  BY EntryFields DEF IInv, TypeOK
(* The inboxes and what the owners have stay. *)
<1>1. ASSUME \A f \in EntryIds : /\ heap'[f].active.pending = heap[f].active.pending
                                 /\ heap'[f].active.generation = heap[f].active.generation,
             UNCHANGED <<drained, returned>>,
             \A d \in Calls : /\ Joined(d)' <=> Joined(d)
                              /\ pc[d] \in {"released", "cleaned", "finished"}
                                 => pc'[d] \in {"released", "cleaned", "finished"}
      PROVE  AcceptedOnce' /\ InboxInv'
  <2>1. Given' = Given /\ Inboxes' = Inboxes
    BY <1>1 DEF Given, Inboxes
  <2>2. AcceptedOnce'
    BY <1>1, <2>1, AcceptedStays
  <2>3. InboxInv'
    BY <1>1 DEF InboxInv, Live
  <2>. QED  BY <2>2, <2>3
<1>2. ASSUME NEW c \in Calls, SilentCall(c) PROVE AcceptedOnce' /\ InboxInv'
  <2>1. Silent
    BY <1>2, SilentCalls
  <2>2. \A d \in Calls : /\ Joined(d)' <=> Joined(d)
                         /\ pc[d] \in {"released", "cleaned", "finished"}
                            => pc'[d] \in {"released", "cleaned", "finished"}
    BY <1>a, <1>2 DEF SilentCall, Arrive, Enqueue, Cancel, GiveUpWaiting, GiveUpGrant,
                DecideOwner, PrepareFails, ReturnFromAdmit, Cleanup, ReleaseAgain, Joined
  <2>. QED  BY <1>1, <2>1, <2>2 DEF Silent, SameTurns
<1>3. ASSUME NEW s \in Stoppers, FindEntry(s) \/ MarkStopping(s) \/ ReturnFromStop(s)
      PROVE  AcceptedOnce' /\ InboxInv'
  <2>1. \A f \in EntryIds : /\ heap'[f].active.pending = heap[f].active.pending
                            /\ heap'[f].active.generation = heap[f].active.generation
    <3>1. CASE FindEntry(s)
      <4>1. CASE entries[stopKey[s]] = None
        BY <3>1, <4>1 DEF FindEntry
      <4>2. CASE entries[stopKey[s]] # None
        <5>1. PICK e \in EntryIds : heap' = [heap EXCEPT ![e].references = @ + 1]
          BY <1>a, <3>1, <4>2 DEF FindEntry, TypeOK
        <5>. QED  BY <1>a, <5>1, CountSteps DEF SameTurns
      <4>. QED  BY <4>1, <4>2
    <3>2. CASE MarkStopping(s)
      <4>1. CASE heap' = heap
        BY <4>1
      <4>2. CASE heap' # heap
        <5>1. /\ OnlyTurn(stopEntry[s], [heap[stopEntry[s]].active EXCEPT !.stopping = TRUE],
                          heap[stopEntry[s]].next)
              /\ heap[stopEntry[s]].active \in TurnType
          BY <1>a, <3>2, <4>2, MarkStoppingStep DEF OnlyTurn
        <5>. QED  BY <5>1 DEF OnlyTurn, TurnType
      <4>. QED  BY <4>1, <4>2
    <3>3. CASE ReturnFromStop(s)
      <4>1. stopEntry[s] \in EntryIds /\ heap[stopEntry[s]] \in EntryType
        BY <1>a, <3>3 DEF ReturnFromStop, TypeOK
      <4>2. heap' = [heap EXCEPT ![stopEntry[s]].references = @ + (-1)]
        BY <3>3, <4>1, EntryFields DEF ReturnFromStop, Unreference
      <4>. QED  BY <1>a, <4>1, <4>2, CountSteps DEF SameTurns
    <3>. QED  BY <1>3, <3>1, <3>2, <3>3
  <2>2. UNCHANGED <<drained, returned, pc>>
    BY <1>3 DEF FindEntry, MarkStopping, ReturnFromStop, callVars, readVars
  <2>. QED  BY <1>1, <2>1, <2>2 DEF Joined
<1>4. ASSUME NEW c \in Calls, PublishOwner(c) PROVE AcceptedOnce' /\ InboxInv'
  <2>. DEFINE turn == [generation |-> heap[entry[c]].next + 1, steerable |-> steerable[c],
                       stopping |-> FALSE, pending |-> <<>>]
  <2>1. OnlyTurn(entry[c], turn, heap[entry[c]].next + 1)
    BY <1>a, <1>4, PublishOwnerStep
  <2>2. heap[entry[c]].active.pending = <<>> /\ entry[c] \in EntryIds
    <3>1. ~Live(heap[entry[c]])
      BY <1>4 DEF PublishOwner, IInv, DecisionInv
    <3>. QED  BY <2>1, <3>1 DEF InboxInv, OnlyTurn
  <2>3. \A f \in EntryIds : heap'[f].active.pending = heap[f].active.pending
    BY <2>1, <2>2 DEF OnlyTurn
  <2>4. /\ UNCHANGED <<drained, returned>> /\ pc[c] = "prepared"
        /\ pc' = [pc EXCEPT ![c] = "admitted"]
    BY <1>4 DEF PublishOwner, readVars
  <2>5. Given' = Given /\ Inboxes' = Inboxes
    BY <2>3, <2>4 DEF Given, Inboxes
  <2>6. \A d \in Calls : Joined(d)' <=> Joined(d)
    BY <1>a, <2>4 DEF Joined
  <2>7. AcceptedOnce'
    BY <2>5, <2>6, AcceptedStays
  <2>8. InboxInv'
    <3>1. \A d \in Calls : returned'[d] # <<>> => pc'[d] \in {"released", "cleaned", "finished"}
      BY <1>a, <2>4 DEF InboxInv
    <3>2. \A e \in EntryIds : ~Live(heap'[e]) => heap'[e].active.pending = <<>>
      <4>1. SUFFICES ASSUME NEW e \in EntryIds, ~Live(heap'[e])
                     PROVE  heap'[e].active.pending = <<>>
        OBVIOUS
      <4>2. CASE e = entry[c]
        BY <2>2, <2>3, <4>2
      <4>3. CASE e # entry[c]
        BY <2>1, <4>1, <4>3 DEF OnlyTurn, Live, InboxInv
      <4>. QED  BY <4>2, <4>3
    <3>. QED  BY <3>1, <3>2 DEF InboxInv, Live
  <2>. QED  BY <2>7, <2>8
<1>5. ASSUME NEW c \in Calls, PublishSteer(c) PROVE AcceptedOnce' /\ InboxInv'
  <2>1. OnlyTurn(entry[c], [heap[entry[c]].active EXCEPT !.pending = Append(@, c)],
                 heap[entry[c]].next)
    BY <1>a, <1>5, PublishSteerStep
  <2>2. /\ entry[c] \in EntryIds
        /\ heap'[entry[c]].active.pending = Append(heap[entry[c]].active.pending, c)
        /\ heap'[entry[c]].active.generation = heap[entry[c]].active.generation
    BY <1>a, <2>1 DEF OnlyTurn, TurnType
  <2>3. /\ UNCHANGED <<drained, returned>> /\ pc[c] = "prepared"
        /\ pc' = [pc EXCEPT ![c] = "joining"]
    BY <1>5 DEF PublishSteer, readVars
  <2>4. Given' = Given /\ Inboxes' = [Inboxes EXCEPT ![entry[c]] = Append(Inboxes[entry[c]], c)]
    BY <2>1, <2>2, <2>3 DEF Given, Inboxes, OnlyTurn
  <2>5. ~Joined(c) /\ Joined(c)' /\ \A d \in Calls \ {c} : Joined(d)' <=> Joined(d)
    BY <1>a, <2>3 DEF Joined
  <2>6. AcceptedOnce'
    BY <1>a, <2>2, <2>4, <2>5, AcceptedSent
  <2>7. InboxInv'
    <3>1. \A d \in Calls : returned'[d] # <<>> => pc'[d] \in {"released", "cleaned", "finished"}
      BY <1>a, <2>3 DEF InboxInv
    <3>2. \A e \in EntryIds : ~Live(heap'[e]) => heap'[e].active.pending = <<>>
      <4>1. Live(heap[entry[c]])
        BY <1>5 DEF PublishSteer, IInv, DecisionInv
      <4>2. Live(heap'[entry[c]])
        BY <2>2, <4>1 DEF Live
      <4>3. \A e \in EntryIds \ {entry[c]} : heap'[e].active = heap[e].active
        BY <2>1 DEF OnlyTurn
      <4>. QED  BY <4>2, <4>3 DEF Live, InboxInv
    <3>. QED  BY <3>1, <3>2 DEF InboxInv, Live
  <2>. QED  BY <2>6, <2>7
(* The inbox of an entry is taken by its owner. *)
<1>6. ASSUME NEW c \in Calls, NEW e \in EntryIds,
             Given' = [Given EXCEPT ![c] = Given[c] \o Inboxes[e]],
             \A f \in EntryIds \ {e} : heap'[f].active = heap[f].active,
             heap'[e].active.pending = <<>>, \A d \in Calls : Joined(d)' <=> Joined(d),
             \A d \in Calls : returned'[d] # <<>> => pc'[d] \in {"released", "cleaned", "finished"}
      PROVE  AcceptedOnce' /\ InboxInv'
  <2>1. Inboxes' = [Inboxes EXCEPT ![e] = <<>>]
    BY <1>6 DEF Inboxes
  <2>2. AcceptedOnce'
    BY <1>a, <1>6, <2>1, AcceptedMoves
  <2>3. InboxInv'
    BY <1>6 DEF InboxInv, Live
  <2>. QED  BY <2>2, <2>3
<1>7. ASSUME NEW c \in Calls, Pending(c) PROVE AcceptedOnce' /\ InboxInv'
  <2>1. OnlyTurn(entry[c], [heap[entry[c]].active EXCEPT !.pending = <<>>],
                 heap[entry[c]].next)
    BY <1>a, <1>7, PendingStep
  <2>2. entry[c] \in EntryIds /\ heap'[entry[c]].active.pending = <<>>
    BY <1>a, <2>1 DEF OnlyTurn, TurnType
  <2>3. /\ pc[c] = "running" /\ pc' = pc /\ returned' = returned
        /\ drained' = [drained EXCEPT ![c] = @ \o heap[entry[c]].active.pending]
    BY <1>7 DEF Pending, callVars
  <2>4. returned[c] = <<>>
    BY <2>3 DEF InboxInv
  <2>5. Given' = [Given EXCEPT ![c] = Given[c] \o Inboxes[entry[c]]]
    <3>1. /\ Given[c] = drained[c] \o <<>>
          /\ Inboxes[entry[c]] = heap[entry[c]].active.pending
          /\ drained[c] \in Seq(Calls) /\ heap[entry[c]].active.pending \in Seq(Calls)
      BY <1>a, <2>2, <2>4 DEF Given, Inboxes, TurnType
    <3>2. drained[c] \o <<>> = drained[c]
      BY <3>1, ConcatEmptySeq
    <3>3. (drained[c] \o heap[entry[c]].active.pending) \o <<>>
            = drained[c] \o heap[entry[c]].active.pending
      BY <3>1, ConcatEmptySeq
    <3>4. \A d \in Calls : Given'[d] = IF d = c THEN Given[c] \o Inboxes[entry[c]] ELSE Given[d]
      BY <1>a, <2>3, <2>4, <3>1, <3>2, <3>3 DEF Given
    <3>. QED  BY <3>4 DEF Given
  <2>6. \A d \in Calls : Joined(d)' <=> Joined(d)
    BY <2>3 DEF Joined
  <2>7. \A d \in Calls : returned'[d] # <<>> => pc'[d] \in {"released", "cleaned", "finished"}
    BY <2>3 DEF InboxInv
  <2>8. \A f \in EntryIds \ {entry[c]} : heap'[f].active = heap[f].active
    BY <2>1 DEF OnlyTurn
  <2>. QED  BY ONLY <1>6, <2>2, <2>5, <2>6, <2>7, <2>8, c \in Calls
<1>8. ASSUME NEW c \in Calls, Release(c) PROVE AcceptedOnce' /\ InboxInv'
  <2>1. OnlyTurn(entry[c], NoTurn, heap[entry[c]].next)
    BY <1>a, <1>8, CloseTurnStep DEF Release
  <2>2. entry[c] \in EntryIds /\ heap'[entry[c]].active.pending = <<>>
    BY <2>1 DEF OnlyTurn, NoTurn
  <2>3. /\ pc[c] = "running" /\ pc' = [pc EXCEPT ![c] = "released"] /\ drained' = drained
        /\ returned' = [returned EXCEPT ![c] = heap[entry[c]].active.pending]
    BY <1>8 DEF Release, CloseTurn
  <2>4. returned[c] = <<>>
    BY <2>3 DEF InboxInv
  <2>5. Given' = [Given EXCEPT ![c] = Given[c] \o Inboxes[entry[c]]]
    <3>1. /\ Given[c] = drained[c] \o <<>>
          /\ Inboxes[entry[c]] = heap[entry[c]].active.pending
          /\ drained[c] \in Seq(Calls)
      BY <1>a, <2>2, <2>4 DEF Given, Inboxes
    <3>2. drained[c] \o <<>> = drained[c]
      BY <3>1, ConcatEmptySeq
    <3>4. \A d \in Calls : Given'[d] = IF d = c THEN Given[c] \o Inboxes[entry[c]] ELSE Given[d]
      BY <1>a, <2>3, <3>1, <3>2 DEF Given
    <3>. QED  BY <3>4 DEF Given
  <2>6. \A d \in Calls : Joined(d)' <=> Joined(d)
    BY <1>a, <2>3 DEF Joined
  <2>7. \A d \in Calls : returned'[d] # <<>> => pc'[d] \in {"released", "cleaned", "finished"}
    BY <1>a, <2>3 DEF InboxInv
  <2>8. \A f \in EntryIds \ {entry[c]} : heap'[f].active = heap[f].active
    BY <2>1 DEF OnlyTurn
  <2>. QED  BY ONLY <1>6, <2>2, <2>5, <2>6, <2>7, <2>8, c \in Calls
<1>9. CASE UNCHANGED vars
  BY <1>1, <1>9 DEF vars, entryVars, callVars, readVars, Joined
<1>. QED
  BY <1>2, <1>3, <1>4, <1>5, <1>7, <1>8, <1>9 DEF Next, Terminated, SilentCall

-----------------------------------------------------------------------------
(* The invariant of the entries, and what it gives *)

Served == /\ IInv /\ OwnedInv
          /\ FlagInv /\ ReclaimInv /\ InboxInv
          /\ NobodyForgotten /\ AcceptedOnce /\ CountsExecutions

(* Nothing is admitted, waiting, counted or held at first.                 *)
LEMMA ServedInit == Init => Served
<1>. SUFFICES ASSUME Init PROVE Served
  OBVIOUS
<1>1. IInv /\ OwnedInv
  BY InitInv, OwnedInit
<1>2. \A e \in EntryIds : /\ heap[e].waiters = <<>> /\ ~heap[e].preparing
                          /\ ~Live(heap[e]) /\ heap[e].active.pending = <<>>
  BY DEF Init, NewEntry, NoTurn, Live
<1>3. \A c \in Calls : pc[c] = "idle" /\ drained[c] = <<>> /\ returned[c] = <<>>
  BY DEF Init
<1>4. NobodyForgotten /\ FlagInv
  BY <1>2 DEF NobodyForgotten, CanGrant, FlagInv
<1>5. ReclaimInv /\ InboxInv
  BY <1>2, <1>3 DEF ReclaimInv, InboxInv, Init
<1>6. CountsExecutions
  <2>1. {c \in Calls : Executing(c)} = {}
    BY <1>3 DEF Executing
  <2>. QED  BY <2>1, FS_EmptySet DEF CountsExecutions, Init
<1>7. AcceptedOnce
  <2>1. SUFFICES ASSUME NEW c \in Calls
                 PROVE  Once(PlacesIn(Given, c), PlacesIn(Inboxes, c), Joined(c))
    BY AcceptedMeans DEF AllOnce
  <2>2. /\ DOMAIN Given = Calls /\ \A d \in Calls : Given[d] = <<>> \o <<>>
        /\ DOMAIN Inboxes = EntryIds /\ \A e \in EntryIds : Inboxes[e] = <<>>
    BY <1>2, <1>3 DEF Given, Inboxes
  <2>3. <<>> \o <<>> = <<>> /\ DOMAIN <<>> = {}
    OBVIOUS
  <2>4. PlacesIn(Given, c) = {} /\ PlacesIn(Inboxes, c) = {}
    <3>1. AllAt(PlacesIn(Given, c), Given, c) /\ AllAt(PlacesIn(Inboxes, c), Inboxes, c)
      BY PlacesAre
    <3>. QED  BY <2>2, <2>3, <3>1 DEF AllAt
  <2>5. ~Joined(c)
    BY <1>3 DEF Joined
  <2>. QED  BY <2>4, <2>5 DEF Once
<1>. QED  BY <1>1, <1>4, <1>5, <1>6, <1>7 DEF Served

(* The invariants of the entries are inductive together.                   *)
LEMMA ServedNext == Served /\ [Next]_vars => Served' /\ FirstCome
<1>. SUFFICES ASSUME Served, [Next]_vars PROVE Served' /\ FirstCome
  OBVIOUS
<1>1. IInv' /\ OwnedInv'
  BY NextInv, OwnedNext DEF Served
<1>2. HeldIsBusy'
  <2>1. IInv' => HeldIsBusy'
    BY HeldBusy, PTL
  <2>. QED  BY <1>1, <2>1
<1>3. ReclaimInv'
  BY <1>1, <1>2, ReclaimNext DEF Served
<1>4. FlagInv' /\ NobodyForgotten' /\ CountsExecutions'
  BY FlagNext, ForgottenNext, CountsNext DEF Served
<1>5. AcceptedOnce' /\ InboxInv'
  BY AcceptedNext DEF Served
<1>6. FirstCome
  BY FirstComeNext DEF Served
<1>. QED  BY <1>1, <1>3, <1>4, <1>5, <1>6 DEF Served

(***************************************************************************)
(* Of any number of inputs and stops nobody who waits is forgotten or      *)
(* overtaken, an accepted steer is in one place, Active() counts the       *)
(* executions, and whoever uses an entry has the one of the map.           *)
(***************************************************************************)
THEOREM EntriesAlwaysSafe == Spec => EntriesSafe
<1>1. Served => NobodyForgotten /\ AcceptedOnce /\ CountsExecutions /\ HoldsMappedEntry
  BY HoldsMapped DEF Served
<1>2. Init => Served
  BY ServedInit
<1>3. Served /\ [Next]_vars => Served'
  BY ServedNext
<1>4. Served /\ [Next]_vars => FirstCome \/ UNCHANGED vars
  BY ServedNext
<1>. QED  BY <1>1, <1>2, <1>3, <1>4, PTL DEF Spec, EntriesSafe, NoOvertaking
=============================================================================

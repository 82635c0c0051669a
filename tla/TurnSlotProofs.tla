---------------------------- MODULE TurnSlotProofs ----------------------------
(***************************************************************************)
(* Theorems about TurnSlot, for every set of turns and cancellers, with    *)
(* and without DELETE, and for any number of restarts.                     *)
(***************************************************************************)
EXTENDS TurnSlot, SequenceTheorems, TLAPS

USE TurnSlotAssumption DEF TurnSlotAssumption

-------------------------------------------------------------------------------
(* Type correctness.                                                       *)

LEMMA InitType == Init => TypeOK
<1> SUFFICES ASSUME Init PROVE TypeOK
  OBVIOUS
<1>1. pending \in Seq(Turn) /\ offered \in Seq(Turn) /\ started \in Seq(Turn)
  BY DEF Init
<1>2. /\ phase \in [Turn -> Phase]
      /\ next \in [Turn -> Turn \cup {NoTurn}]
      /\ outcome \in [Turn -> SessionStatus]
      /\ cancelled \in [Turn -> BOOLEAN]
      /\ emitted \in [Turn -> Nat]
  BY DEF Init, Phase, SessionStatus
<1>3. /\ canceller \in [Canceller -> [pc : CancelPc, turn : Turn \cup {NoTurn}]]
      /\ delete \in [pc : DeletePc, awaits : Turn \cup {NoTurn}]
  BY DEF Init, CancelPc, DeletePc
<1>4. /\ slot \in Turn \cup {NoTurn}
      /\ status \in SessionStatus
      /\ deleted \in BOOLEAN /\ lostWrite \in BOOLEAN
  BY Zenon DEF Init, SessionStatus
<1>5. restarts \in 0 .. MaxRestarts
  BY DEF Init
<1>6. \A c \in Canceller : canceller[c].pc # "loaded"
  BY DEF Init
<1>7. QED
  BY <1>1, <1>2, <1>3, <1>4, <1>5, <1>6 DEF TypeOK

\* Counting one more event keeps a family of counters.
LEMMA BumpType ==
    ASSUME NEW f \in [Turn -> Nat], NEW t \in Turn
    PROVE  [f EXCEPT ![t] = @ + 1] \in [Turn -> Nat]
OBVIOUS

\* A canceller moves on with the handle it has.
CancellerState == [pc : CancelPc, turn : Turn \cup {NoTurn}]

LEMMA CancellerMoves ==
    ASSUME NEW f \in [Canceller -> CancellerState], NEW c \in Canceller,
           NEW p \in CancelPc, NEW g, g = [f EXCEPT ![c].pc = p]
    PROVE  /\ g \in [Canceller -> CancellerState]
           /\ g[c].pc = p /\ g[c].turn = f[c].turn
           /\ \A d \in Canceller : d # c => g[d] = f[d]
BY DEF CancellerState

LEMMA CancellersEnd ==
    ASSUME NEW f \in [Canceller -> CancellerState], NEW g,
           g = [c \in Canceller |->
                  IF f[c].pc = "idle" THEN f[c] ELSE [f[c] EXCEPT !.pc = "done"]]
    PROVE  /\ g \in [Canceller -> CancellerState]
           /\ \A c \in Canceller : g[c].pc # "loaded"
BY DEF CancellerState, CancelPc

LEMMA NextType == TypeOK /\ [Next]_vars => TypeOK'
<1> SUFFICES ASSUME TypeOK, [Next]_vars PROVE TypeOK'
  OBVIOUS
<1> USE DEF TypeOK, Phase, SessionStatus, CancelPc, DeletePc, hist
<1>1. ASSUME NEW t \in Turn, TryClaimTurnSlot(t) PROVE TypeOK'
  BY <1>1 DEF TryClaimTurnSlot
<1>2. ASSUME NEW t \in Turn, MarkRunning(t) PROVE TypeOK'
  BY <1>2 DEF MarkRunning
<1>3. ASSUME NEW t \in Turn, Commit(t) PROVE TypeOK'
  BY <1>3 DEF Commit
<1>4. ASSUME NEW t \in Turn, SlotGuardDrop(t) PROVE TypeOK'
  BY <1>4 DEF SlotGuardDrop
<1>5. ASSUME NEW t \in Turn, EnqueueOrStartTurn(t) PROVE TypeOK'
  <2>1. /\ Append(offered, t) \in Seq(Turn)
        /\ Append(pending, t) \in Seq(Turn)
        /\ Append(started, t) \in Seq(Turn)
    BY AppendProperties
  <2>2. /\ offered' \in Seq(Turn)
        /\ pending' \in Seq(Turn)
        /\ started' \in Seq(Turn)
        /\ slot' \in Turn \cup {NoTurn}
    BY <1>5, <2>1, Zenon DEF EnqueueOrStartTurn
  <2>3. phase' \in [Turn -> Phase]
    BY <1>5, ZenonT(60) DEF EnqueueOrStartTurn
  <2>4. QED
    BY <1>5, <2>2, <2>3 DEF EnqueueOrStartTurn
<1>6. ASSUME NEW t \in Turn, BeginInjected(t) PROVE TypeOK'
  BY <1>6 DEF BeginInjected
<1>7. ASSUME NEW t \in Turn, NEW ok \in BOOLEAN, DriverResolves(t, ok)
      PROVE TypeOK'
  <2>1. FinalStatus(t, ok) \in SessionStatus
    BY DEF FinalStatus
  <2>2. QED
    BY <1>7, <2>1 DEF DriverResolves
<1>8. ASSUME NEW t \in Turn, DrainNextTurn(t) PROVE TypeOK'
  <2>1. CASE slot = t /\ pending # <<>>
    <3>1. PICK h \in Turn : h = Head(pending)
      BY <2>1
    <3>2. /\ Tail(pending) \in Seq(Turn)
          /\ Append(started, h) \in Seq(Turn)
      BY <2>1, AppendProperties
    <3>3. /\ phase' = [phase EXCEPT ![t] = "released", ![h] = "reclaimed"]
          /\ next' = [next EXCEPT ![t] = h]
          /\ pending' = Tail(pending)
          /\ started' = Append(started, h)
          /\ slot' = h
      BY <1>8, <2>1, <3>1, Zenon DEF DrainNextTurn
    <3>4. /\ phase' \in [Turn -> Phase]
          /\ next' \in [Turn -> Turn \cup {NoTurn}]
      BY <3>3
    <3>5. QED
      BY <1>8, <3>2, <3>3, <3>4 DEF DrainNextTurn
  <2>2. CASE ~(slot = t /\ pending # <<>>)
    BY <1>8, <2>2, ZenonT(60) DEF DrainNextTurn
  <2>3. QED
    BY <2>1, <2>2
<1>9. ASSUME NEW t \in Turn, WriteFinalStatus(t) PROVE TypeOK'
  BY <1>9, ZenonT(60) DEF WriteFinalStatus
<1>10. ASSUME NEW t \in Turn, TaskExits(t) PROVE TypeOK'
  BY <1>10 DEF TaskExits
<1>11. ASSUME NEW c \in Canceller, LoadHandle(c) PROVE TypeOK'
  BY <1>11 DEF LoadHandle
<1>12. ASSUME NEW c \in Canceller, RequestCancel(c) PROVE TypeOK'
  <2>0. PICK t \in Turn : t = canceller[c].turn
    BY <1>12 DEF RequestCancel
  <2>1. \/ UNCHANGED cancelled
        \/ cancelled' = [cancelled EXCEPT ![t] = TRUE]
    BY <1>12, <2>0, Zenon DEF RequestCancel
  <2>a. cancelled' \in [Turn -> BOOLEAN]
    BY <2>1
  <2>b. \/ canceller' = [canceller EXCEPT ![c].pc = "done"]
        \/ canceller' = [canceller EXCEPT ![c].pc = "flipped"]
    BY <1>12, Zenon DEF RequestCancel
  <2>c. /\ canceller' \in [Canceller -> [pc : CancelPc, turn : Turn \cup {NoTurn}]]
        /\ \A d \in Canceller :
              canceller'[d].pc = "loaded" => canceller'[d].turn \in Turn
    <3>1. canceller \in [Canceller -> CancellerState]
      BY DEF CancellerState
    <3>2. PICK p \in CancelPc : /\ p # "loaded"
                               /\ canceller' = [canceller EXCEPT ![c].pc = p]
      <4>1. CASE canceller' = [canceller EXCEPT ![c].pc = "done"]
        BY <4>1, Zenon DEF CancelPc
      <4>2. CASE canceller' = [canceller EXCEPT ![c].pc = "flipped"]
        BY <4>2, Zenon DEF CancelPc
      <4>3. QED
        BY <2>b, <4>1, <4>2
    <3> HIDE DEF TypeOK, CancelPc
    <3>3. /\ canceller' \in [Canceller -> CancellerState]
          /\ canceller'[c].pc # "loaded"
          /\ \A d \in Canceller : d # c => canceller'[d] = canceller[d]
      BY <3>1, <3>2, CancellerMoves
    <3>4. \A d \in Canceller :
             canceller'[d].pc = "loaded" => canceller'[d].turn \in Turn
      BY <3>3, Zenon DEF TypeOK
    <3>5. QED
      BY <3>3, <3>4 DEF CancellerState
  <2>2. \/ emitted' = emitted
        \/ emitted' = [emitted EXCEPT ![t] = @ + 1]
    BY <1>12, <2>0, Zenon DEF RequestCancel
  <2>3. emitted' \in [Turn -> Nat]
    <3>1. emitted \in [Turn -> Nat]
      OBVIOUS
    <3> HIDE DEF TypeOK
    <3>2. QED
      BY <2>2, <3>1, BumpType
  <2>4. QED
    BY <1>12, <2>a, <2>c, <2>3 DEF RequestCancel
<1>13. ASSUME NEW c \in Canceller, WriteCancelling(c) PROVE TypeOK'
  BY <1>13 DEF WriteCancelling
<1>14. CASE DeleteSnapshot
  BY <1>14 DEF DeleteSnapshot
<1>15. CASE DeleteCancel
  <2>1. cancelled' \in [Turn -> BOOLEAN]
    BY <1>15 DEF DeleteCancel
  <2>2. \/ emitted' = emitted
        \/ emitted' = [emitted EXCEPT ![slot] = @ + 1]
    BY <1>15, Zenon DEF DeleteCancel
  <2>3. delete' \in [pc : DeletePc, awaits : Turn \cup {NoTurn}]
    BY <1>15 DEF DeleteCancel
  <2>4. emitted' \in [Turn -> Nat]
    <3>0. emitted \in [Turn -> Nat] /\ (slot \in Turn \/ slot = NoTurn)
      OBVIOUS
    <3> HIDE DEF TypeOK
    <3>1. CASE slot \in Turn
      BY <2>2, <3>0, <3>1, BumpType
    <3>2. CASE slot = NoTurn
      BY <1>15, <3>0, <3>2, Zenon DEF DeleteCancel
    <3>3. QED
      BY <3>0, <3>1, <3>2
  <2>5. QED
    BY <1>15, <2>1, <2>3, <2>4 DEF DeleteCancel
<1>16. CASE DeleteTimeout
  BY <1>16 DEF DeleteTimeout
<1>17. CASE DeleteSession
  BY <1>17 DEF DeleteSession
<1>18. CASE Restart
  <2>1. /\ restarts' \in 0 .. MaxRestarts
        /\ slot' \in Turn \cup {NoTurn}
        /\ status' \in SessionStatus
    BY <1>18 DEF Restart
  <2>2. /\ pending' \in Seq(Turn)
        /\ offered' \in Seq(Turn)
        /\ started' \in Seq(Turn)
    BY <1>18 DEF Restart
  <2>3. /\ phase' \in [Turn -> Phase]
        /\ next' \in [Turn -> Turn \cup {NoTurn}]
        /\ outcome' \in [Turn -> SessionStatus]
    BY <1>18 DEF Restart
  <2>4. /\ canceller' \in [Canceller -> [pc : CancelPc, turn : Turn \cup {NoTurn}]]
        /\ \A c \in Canceller : canceller'[c].pc # "loaded"
    BY <1>18, CancellersEnd DEF Restart, CancellerState
  <2>7. delete' \in [pc : DeletePc, awaits : Turn \cup {NoTurn}]
    BY <1>18 DEF Restart
  <2>5. /\ cancelled' \in [Turn -> BOOLEAN]
        /\ emitted' \in [Turn -> Nat]
        /\ deleted' \in BOOLEAN
        /\ lostWrite' \in BOOLEAN
    BY <1>18 DEF Restart
  <2>6. QED
    BY <2>1, <2>2, <2>3, <2>4, <2>5, <2>7
<1>19. CASE UNCHANGED vars
  BY <1>19 DEF vars
<1> HIDE DEF TypeOK, Phase, SessionStatus, CancelPc, DeletePc, hist
<1>20. QED
  BY <1>1, <1>2, <1>3, <1>4, <1>5, <1>6, <1>7, <1>8, <1>9, <1>10, <1>11, <1>12,
     <1>13, <1>14, <1>15, <1>16, <1>17, <1>18, <1>19
     DEF Next, TurnStep, CancelStep, DeleteStep

\* Every variable keeps its type along every behaviour.
THEOREM TypeCorrect == Spec => []TypeOK
BY InitType, NextType, PTL DEF Spec

-------------------------------------------------------------------------------
(* Ownership of the slot.  None of the three facts is inductive alone:     *)
(* TaskExits starts the turn it was left with, so SlotOwner needs that the *)
(* turn is still the reclaimed one and is left to nobody else; that needs  *)
(* that a drained turn was queued and queued once.                         *)

Ownership == SlotOwner /\ QueueExact /\ HandoverExact

\* The part of the type invariant that ownership depends on.
SlotType ==
    /\ slot \in Turn \cup {NoTurn}
    /\ pending \in Seq(Turn)
    /\ phase \in [Turn -> Phase]
    /\ next \in [Turn -> Turn \cup {NoTurn}]

LEMMA InitOwnership == Init => Ownership
<1> SUFFICES ASSUME Init PROVE Ownership
  OBVIOUS
<1>1. SlotOwner
  BY DEF Init, SlotOwner, Holding
<1>2. QueueExact
  BY DEF Init, QueueExact
<1>3. HandoverExact
  BY DEF Init, HandoverExact
<1>4. QED
  BY <1>1, <1>2, <1>3 DEF Ownership

\* A turn that advances within the phases that hold the slot disturbs nothing.
LEMMA HolderAdvances ==
    ASSUME SlotType, Ownership, NEW t \in Turn, NEW p \in Holding \ {"reclaimed"},
           phase[t] \in Holding \ {"reclaimed"},
           phase' = [phase EXCEPT ![t] = p],
           UNCHANGED <<slot, pending, next>>
    PROVE  Ownership'
<1>1. SlotOwner'
  BY DEF SlotType, Ownership, SlotOwner, Holding
<1>2. QueueExact'
  <2>1. \A i \in 1 .. Len(pending) : pending[i] \in Turn /\ pending[i] # t
    BY DEF SlotType, Ownership, QueueExact, Holding
  <2>2. QED
    BY <2>1 DEF SlotType, Ownership, QueueExact, Holding
<1>3. HandoverExact'
  BY DEF SlotType, Ownership, HandoverExact, Holding
<1>4. QED
  BY <1>1, <1>2, <1>3 DEF Ownership

\* The slot passes from a turn that is done with it to the head of the queue.
LEMMA HandOver ==
    ASSUME SlotType, Ownership, NEW t \in Turn, phase[t] = "resolved",
           pending # <<>>,
           slot' = Head(pending), pending' = Tail(pending),
           next' = [next EXCEPT ![t] = Head(pending)],
           phase' = [phase EXCEPT ![t] = "released",
                                  ![Head(pending)] = "reclaimed"]
    PROVE  Ownership'
<1>1. PICK h \in Turn : h = Head(pending)
  BY DEF SlotType
<1>2. /\ Len(pending) \in Nat /\ Len(pending) > 0
      /\ h = pending[1]
      /\ pending' \in Seq(Turn)
      /\ Len(pending') = Len(pending) - 1
      /\ \A i \in 1 .. Len(pending') : pending'[i] = pending[i + 1]
  BY <1>1 DEF SlotType
<1>3. phase[h] = "queued" /\ h # t
  BY <1>1, <1>2 DEF Ownership, QueueExact
<1>4. /\ phase' \in [Turn -> Phase]
      /\ phase'[t] = "released" /\ phase'[h] = "reclaimed"
      /\ \A u \in Turn : u # t /\ u # h => phase'[u] = phase[u]
  BY <1>1, <1>3 DEF SlotType, Phase
<1>5. /\ slot = t
      /\ \A u \in Turn : u # t => phase[u] \notin Holding
  BY DEF Ownership, SlotOwner, Holding
<1>6. SlotOwner'
  BY <1>1, <1>3, <1>4, <1>5 DEF SlotOwner, Holding
<1>7. QueueExact'
  <2>1. \A i \in 1 .. Len(pending') :
           /\ i + 1 \in 1 .. Len(pending) /\ pending'[i] = pending[i + 1]
           /\ pending'[i] \in Turn
    BY <1>2 DEF SlotType
  <2>2. \A i \in 1 .. Len(pending') : pending'[i] # h /\ phase[pending'[i]] = "queued"
    BY <1>2, <2>1 DEF Ownership, QueueExact
  <2>3. \A i \in 1 .. Len(pending') : phase'[pending'[i]] = "queued"
    BY <1>4, <2>1, <2>2
  <2>4. \A i, j \in 1 .. Len(pending') : pending'[i] = pending'[j] => i = j
    BY <1>2, <2>1 DEF Ownership, QueueExact
  <2>5. ASSUME NEW u \in Turn, phase'[u] = "queued"
        PROVE  \E i \in 1 .. Len(pending') : pending'[i] = u
    <3>1. u # h /\ phase[u] = "queued"
      BY <1>4, <2>5
    <3>2. PICK k \in 1 .. Len(pending) : pending[k] = u
      BY <3>1 DEF Ownership, QueueExact
    <3>3. k # 1
      BY <1>2, <3>1, <3>2
    <3>4. /\ k - 1 \in 1 .. Len(pending')
          /\ pending'[k - 1] = pending[(k - 1) + 1]
      BY <1>2, <3>2, <3>3
    <3>5. (k - 1) + 1 = k
      BY <1>2, <3>2
    <3>6. QED
      BY <3>2, <3>4, <3>5
  <2>6. QED
    BY <2>3, <2>4, <2>5 DEF QueueExact
<1>8. HandoverExact'
  <2>1. \A u \in Turn : next[u] = NoTurn
    BY <1>5 DEF SlotType, Ownership, HandoverExact, Holding
  <2>2. /\ next'[t] = h
        /\ \A u \in Turn : u # t => next'[u] = NoTurn
    BY <1>1, <2>1 DEF SlotType
  <2>3. \A u \in Turn : phase'[u] = "reclaimed" => u = h
    BY <1>4, <1>5 DEF Holding
  <2>4. QED
    BY <1>1, <1>4, <2>2, <2>3 DEF HandoverExact
<1>9. QED
  BY <1>6, <1>7, <1>8 DEF Ownership

\* A turn joins the queue.
LEMMA Joins ==
    ASSUME SlotType, Ownership, NEW t \in Turn, phase[t] = "none",
           pending' = Append(pending, t),
           phase' = [phase EXCEPT ![t] = "queued"],
           UNCHANGED <<slot, next>>
    PROVE  Ownership'
<1>1. /\ Len(pending) \in Nat
      /\ Len(pending') = Len(pending) + 1
      /\ pending'[Len(pending) + 1] = t
      /\ \A i \in 1 .. Len(pending) : pending'[i] = pending[i] /\ pending[i] \in Turn
  BY DEF SlotType
<1>2. /\ phase' \in [Turn -> Phase] /\ phase'[t] = "queued"
      /\ \A u \in Turn : u # t => phase'[u] = phase[u]
  BY DEF SlotType, Phase
<1>3. \A i \in 1 .. Len(pending) : pending[i] # t /\ phase[pending[i]] = "queued"
  BY <1>1 DEF Ownership, QueueExact
<1>4. \A i \in 1 .. Len(pending') :
         \/ i = Len(pending) + 1 /\ pending'[i] = t
         \/ i \in 1 .. Len(pending) /\ pending'[i] = pending[i]
  BY <1>1
<1>5. SlotOwner'
  BY <1>2 DEF SlotType, Ownership, SlotOwner, Holding
<1>6. QueueExact'
  <2>1. \A i \in 1 .. Len(pending') : phase'[pending'[i]] = "queued"
    BY <1>1, <1>2, <1>3, <1>4
  <2>2. ASSUME NEW i \in 1 .. Len(pending'), NEW j \in 1 .. Len(pending'),
               pending'[i] = pending'[j]
        PROVE  i = j
    BY <1>3, <1>4, <2>2 DEF Ownership, QueueExact
  <2>3. ASSUME NEW u \in Turn, phase'[u] = "queued"
        PROVE  \E i \in 1 .. Len(pending') : pending'[i] = u
    <3>1. CASE u = t
      BY <1>1, <3>1
    <3>2. CASE u # t
      <4>1. PICK k \in 1 .. Len(pending) : pending[k] = u
        BY <1>2, <2>3, <3>2 DEF Ownership, QueueExact
      <4>2. k \in 1 .. Len(pending') /\ pending'[k] = u
        BY <1>1, <4>1
      <4>3. QED
        BY <4>2
    <3>3. QED
      BY <3>1, <3>2
  <2>4. QED
    BY <2>1, <2>2, <2>3 DEF QueueExact
<1>7. HandoverExact'
  BY <1>2 DEF SlotType, Ownership, HandoverExact
<1>8. QED
  BY <1>5, <1>6, <1>7 DEF Ownership

\* A turn takes the vacant slot.
LEMMA Claims ==
    ASSUME SlotType, Ownership, NEW t \in Turn, NEW p \in Holding \ {"reclaimed"},
           phase[t] = "none", slot = NoTurn, slot' = t,
           phase' = [phase EXCEPT ![t] = p],
           UNCHANGED <<pending, next>>
    PROVE  Ownership'
<1>1. SlotOwner'
  BY DEF SlotType, Ownership, SlotOwner, Holding
<1>2. QueueExact'
  <2>1. \A i \in 1 .. Len(pending) : pending[i] \in Turn /\ pending[i] # t
    BY DEF SlotType, Ownership, QueueExact
  <2>2. QED
    BY <2>1 DEF SlotType, Ownership, QueueExact, Holding
<1>3. HandoverExact'
  BY DEF SlotType, Ownership, HandoverExact, Holding
<1>4. QED
  BY <1>1, <1>2, <1>3 DEF Ownership

\* A holder leaves the slot vacant.
LEMMA LetsGo ==
    ASSUME SlotType, Ownership, NEW t \in Turn, NEW p \in {"aborted", "released"},
           phase[t] \in Holding \ {"reclaimed"}, slot' = NoTurn,
           phase' = [phase EXCEPT ![t] = p],
           UNCHANGED <<pending, next>>
    PROVE  Ownership'
<1>1. SlotOwner'
  BY DEF SlotType, Ownership, SlotOwner, Holding
<1>2. QueueExact'
  <2>1. \A i \in 1 .. Len(pending) : pending[i] \in Turn /\ pending[i] # t
    BY DEF SlotType, Ownership, QueueExact, Holding
  <2>2. QED
    BY <2>1 DEF SlotType, Ownership, QueueExact
<1>3. HandoverExact'
  BY DEF SlotType, Ownership, HandoverExact, Holding
<1>4. QED
  BY <1>1, <1>2, <1>3 DEF Ownership

\* A finalizer starts the turn it re-claimed the slot for, and exits.
LEMMA Starts ==
    ASSUME SlotType, Ownership, NEW t \in Turn, phase[t] = "saved",
           phase' = [u \in Turn |->
                       IF u = t THEN "exited"
                       ELSE IF u = next[t] THEN "starting" ELSE phase[u]],
           next' = [next EXCEPT ![t] = NoTurn],
           UNCHANGED <<slot, pending>>
    PROVE  Ownership'
<1>1. next[t] # NoTurn => next[t] \in Turn /\ phase[next[t]] = "reclaimed"
  BY DEF SlotType, Ownership, HandoverExact
<1>2. \A u \in Turn :
         /\ u # t /\ u # next[t] => phase'[u] = phase[u]
         /\ u # t /\ u = next[t] => phase[u] = "reclaimed" /\ phase'[u] = "starting"
         /\ u = t => phase'[u] = "exited"
  BY <1>1 DEF SlotType
<1>3. SlotOwner'
  BY <1>2 DEF SlotType, Ownership, SlotOwner, Holding
<1>4. QueueExact'
  <2>1. \A i \in 1 .. Len(pending) :
           /\ pending[i] \in Turn /\ phase[pending[i]] = "queued"
           /\ phase'[pending[i]] = "queued"
    BY <1>2 DEF SlotType, Ownership, QueueExact
  <2>2. \A u \in Turn : phase'[u] = "queued" => phase[u] = "queued"
    BY <1>2
  <2>3. QED
    BY <2>1, <2>2 DEF Ownership, QueueExact
<1>5. HandoverExact'
  <2>1. \A u \in Turn : u # t => next'[u] = next[u]
    BY DEF SlotType
  <2>2. next'[t] = NoTurn
    BY DEF SlotType
  <2>3. \A u \in Turn : next'[u] # NoTurn =>
           /\ u # t /\ next'[u] = next[u] /\ next[u] \in Turn
           /\ next[u] # next[t] /\ phase[next[u]] = "reclaimed" /\ next[u] # t
           /\ phase[u] \in {"released", "saved"}
    BY <2>1, <2>2 DEF SlotType, Ownership, HandoverExact
  <2>4. \A u \in Turn : next'[u] # NoTurn =>
           phase'[u] \in {"released", "saved"} /\ phase'[next'[u]] = "reclaimed"
    BY <1>2, <2>3
  <2>5. \A u, v \in Turn : next'[u] # NoTurn /\ next'[u] = next'[v] => u = v
    BY <2>3 DEF Ownership, HandoverExact
  <2>6. ASSUME NEW u \in Turn, phase'[u] = "reclaimed"
        PROVE  \E v \in Turn : next'[v] = u
    <3>1. u # t /\ u # next[t] /\ phase[u] = "reclaimed"
      BY <1>2, <2>6
    <3>2. PICK v \in Turn : next[v] = u
      BY <3>1 DEF Ownership, HandoverExact
    <3>3. v # t
      BY <3>1, <3>2
    <3>4. QED
      BY <2>1, <3>2, <3>3
  <2>7. QED
    BY <2>4, <2>5, <2>6 DEF HandoverExact
<1>6. QED
  BY <1>3, <1>4, <1>5 DEF Ownership

LEMMA NextOwnership == TypeOK /\ Ownership /\ [Next]_vars => Ownership'
<1> SUFFICES ASSUME TypeOK, Ownership, [Next]_vars PROVE Ownership'
  OBVIOUS
<1>0. SlotType
  BY DEF TypeOK, SlotType
<1>1. ASSUME NEW t \in Turn, TryClaimTurnSlot(t) PROVE Ownership'
  BY <1>0, <1>1, Claims DEF TryClaimTurnSlot, Holding
<1>2. ASSUME NEW t \in Turn, MarkRunning(t) PROVE Ownership'
  BY <1>0, <1>2, HolderAdvances DEF MarkRunning, Holding
<1>3. ASSUME NEW t \in Turn, Commit(t) PROVE Ownership'
  BY <1>0, <1>3, HolderAdvances DEF Commit, Holding
<1>4. ASSUME NEW t \in Turn, SlotGuardDrop(t) PROVE Ownership'
  BY <1>0, <1>4, LetsGo DEF SlotGuardDrop, Holding
<1>5. ASSUME NEW t \in Turn, EnqueueOrStartTurn(t) PROVE Ownership'
  <2>1. CASE slot # NoTurn
    BY <1>0, <1>5, <2>1, Joins DEF EnqueueOrStartTurn
  <2>2. CASE slot = NoTurn
    BY <1>0, <1>5, <2>2, Claims DEF EnqueueOrStartTurn, Holding
  <2>3. QED
    BY <2>1, <2>2
<1>6. ASSUME NEW t \in Turn, BeginInjected(t) PROVE Ownership'
  BY <1>0, <1>6, HolderAdvances DEF BeginInjected, Holding
<1>7. ASSUME NEW t \in Turn, NEW ok \in BOOLEAN, DriverResolves(t, ok)
      PROVE Ownership'
  BY <1>0, <1>7, HolderAdvances DEF DriverResolves, Holding
<1>8. ASSUME NEW t \in Turn, DrainNextTurn(t) PROVE Ownership'
  <2>1. slot = t
    BY <1>8 DEF DrainNextTurn, Ownership, SlotOwner, Holding
  <2>2. CASE pending = <<>>
    BY <1>0, <1>8, <2>1, <2>2, LetsGo DEF DrainNextTurn, Holding
  <2>3. CASE pending # <<>>
    BY <1>0, <1>8, <2>1, <2>3, HandOver DEF DrainNextTurn
  <2>4. QED
    BY <2>2, <2>3
<1>9. ASSUME NEW t \in Turn, WriteFinalStatus(t) PROVE Ownership'
  <2>1. /\ phase[t] = "released" /\ phase' = [phase EXCEPT ![t] = "saved"]
        /\ UNCHANGED <<slot, pending, next>>
    BY <1>9 DEF WriteFinalStatus
  <2>2. SlotOwner'
    BY <1>0, <2>1 DEF SlotType, Ownership, SlotOwner, Holding
  <2>3. QueueExact'
    <3>1. \A i \in 1 .. Len(pending) : pending[i] \in Turn /\ pending[i] # t
      BY <1>0, <2>1 DEF SlotType, Ownership, QueueExact
    <3>2. QED
      BY <1>0, <2>1, <3>1 DEF SlotType, Ownership, QueueExact
  <2>4. HandoverExact'
    BY <1>0, <2>1 DEF SlotType, Ownership, HandoverExact
  <2>5. QED
    BY <2>2, <2>3, <2>4 DEF Ownership
<1>10. ASSUME NEW t \in Turn, TaskExits(t) PROVE Ownership'
  BY <1>0, <1>10, Starts DEF TaskExits
<1>11. CASE UNCHANGED <<slot, pending, phase, next>>
  BY <1>11 DEF Ownership, SlotOwner, QueueExact, HandoverExact
<1>12. ASSUME NEW c \in Canceller, LoadHandle(c) \/ CancelStep(c) PROVE Ownership'
  BY <1>11, <1>12 DEF LoadHandle, CancelStep, RequestCancel, WriteCancelling
<1>13. CASE DeleteSnapshot \/ DeleteStep
  BY <1>11, <1>13
     DEF DeleteSnapshot, DeleteStep, DeleteCancel, DeleteTimeout, DeleteSession
<1>14. CASE Restart
  <2>1. /\ slot' = NoTurn /\ pending' = <<>>
        /\ \A t \in Turn : /\ next'[t] = NoTurn
                            /\ phase'[t] \notin Live
    BY <1>0, <1>14 DEF Restart, SlotType, Live, Holding
  <2>2. QED
    BY <2>1 DEF Ownership, SlotOwner, QueueExact, HandoverExact, Live, Holding
<1>15. CASE UNCHANGED vars
  BY <1>11, <1>15 DEF vars
<1>16. QED
  BY <1>1, <1>2, <1>3, <1>4, <1>5, <1>6, <1>7, <1>8, <1>9, <1>10, <1>12, <1>13,
     <1>14, <1>15 DEF Next, TurnStep

\* No two turns of a session hold the slot at once, the queue lists every
\* waiting turn once, and every handed-over turn has exactly one task that will
\* start it, for any number of requests, injected turns, aborted handlers,
\* cancellers and restarts.
THEOREM SlotSafety == Spec => [](OneDriver /\ QueueExact /\ HandoverExact)
<1>1. Spec => [](TypeOK /\ Ownership)
  <2>1. Init => TypeOK /\ Ownership
    BY InitType, InitOwnership
  <2>2. TypeOK /\ Ownership /\ [Next]_vars => (TypeOK /\ Ownership)'
    BY NextType, NextOwnership
  <2>3. QED
    BY <2>1, <2>2, PTL DEF Spec
<1>2. TypeOK /\ Ownership => OneDriver /\ QueueExact /\ HandoverExact
  BY DEF TypeOK, Ownership, SlotOwner, OneDriver
<1>3. QED
  BY <1>1, <1>2, PTL

-------------------------------------------------------------------------------
(* Cancellation.                                                           *)

\* The gate of a turn that was not cancelled has let nothing through.
Gate == \A t \in Turn : emitted[t] <= 1 /\ (emitted[t] = 1 => cancelled[t] = TRUE)

LEMMA GateFlips ==
    ASSUME TypeOK, Gate, NEW t \in Turn, ~cancelled[t],
           cancelled' = [cancelled EXCEPT ![t] = TRUE],
           emitted' = [emitted EXCEPT ![t] = @ + 1]
    PROVE  Gate'
<1>1. emitted[t] \in Nat /\ emitted[t] # 1 /\ emitted[t] <= 1
  BY DEF TypeOK, Gate
<1>2. /\ emitted'[t] = 1 /\ cancelled'[t] = TRUE
      /\ \A u \in Turn : u # t => emitted'[u] = emitted[u] /\ cancelled'[u] = cancelled[u]
  BY <1>1 DEF TypeOK
<1>3. QED
  BY <1>2 DEF Gate

LEMMA NextGate == TypeOK /\ Gate /\ [Next]_vars => Gate'
<1> SUFFICES ASSUME TypeOK, Gate, [Next]_vars PROVE Gate'
  OBVIOUS
<1>1. CASE UNCHANGED <<cancelled, emitted>>
  BY <1>1 DEF Gate
<1>2. ASSUME NEW c \in Canceller, RequestCancel(c) PROVE Gate'
  <2>1. PICK t \in Turn : t = canceller[c].turn
    BY <1>2 DEF RequestCancel, TypeOK
  <2>2. CASE cancelled[t]
    BY <1>1, <1>2, <2>1, <2>2 DEF RequestCancel
  <2>3. CASE ~cancelled[t]
    BY <1>2, <2>1, <2>3, GateFlips DEF RequestCancel
  <2>4. QED
    BY <2>2, <2>3
<1>3. CASE DeleteCancel
  <2>1. CASE slot # NoTurn /\ ~cancelled[slot]
    <3>1. PICK t \in Turn : t = slot
      BY <2>1 DEF TypeOK
    <3>2. QED
      BY <1>3, <2>1, <3>1, GateFlips DEF DeleteCancel
  <2>2. CASE ~(slot # NoTurn /\ ~cancelled[slot])
    BY <1>1, <1>3, <2>2 DEF DeleteCancel
  <2>3. QED
    BY <2>1, <2>2
<1>4. ASSUME NEW t \in Turn,
             \/ TryClaimTurnSlot(t) \/ SlotGuardDrop(t) \/ EnqueueOrStartTurn(t)
             \/ TurnStep(t)
      PROVE  Gate'
  BY <1>1, <1>4 DEF TryClaimTurnSlot, SlotGuardDrop, EnqueueOrStartTurn, TurnStep,
     MarkRunning, Commit, BeginInjected, DriverResolves, DrainNextTurn,
     WriteFinalStatus, TaskExits, hist
<1>5. ASSUME NEW c \in Canceller, LoadHandle(c) \/ WriteCancelling(c) PROVE Gate'
  BY <1>1, <1>5 DEF LoadHandle, WriteCancelling, hist
<1>6. CASE DeleteSnapshot \/ DeleteTimeout \/ DeleteSession \/ Restart
  BY <1>1, <1>6 DEF DeleteSnapshot, DeleteTimeout, DeleteSession, Restart, hist
<1>7. CASE UNCHANGED vars
  BY <1>1, <1>7 DEF vars
<1>8. QED
  BY <1>2, <1>3, <1>4, <1>5, <1>6, <1>7 DEF Next, CancelStep, DeleteStep

\* However many abort calls, plugin cancels and a DELETE race, each turn causes
\* at most one Cancelling event (the compare-and-swap of request_cancel).
THEOREM CancelledOnce == Spec => []CancelOnce
<1>1. ASSUME Init PROVE Gate
  <2>1. \A t \in Turn : emitted[t] = 0
    BY <1>1 DEF Init
  <2>2. ASSUME NEW t \in Turn PROVE emitted[t] <= 1 /\ emitted[t] # 1
    <3>1. emitted[t] = 0
      BY <2>1
    <3>2. \A n : n = 0 => n <= 1 /\ n # 1
      OBVIOUS
    <3>3. QED
      BY <3>1, <3>2, Zenon
  <2>3. QED
    BY <2>2, Zenon DEF Gate
<1>2. Spec => [](TypeOK /\ Gate)
  BY <1>1, InitType, NextType, NextGate, PTL DEF Spec
<1>3. Gate => CancelOnce
  BY DEF Gate, CancelOnce
<1>4. QED
  BY <1>2, <1>3, PTL

-------------------------------------------------------------------------------
(* Order of service.  That the queue is served in order needs that a       *)
(* vacant slot has nobody waiting, or a newcomer would overtake the queue. *)

NoneAborted == \A t \in Turn : phase[t] # "aborted"

\* The turns offered are the ones started and then the ones that wait, in the
\* same order, and somebody waits only behind a holder.
Fifo ==
    NoneAborted =>
        /\ slot = NoTurn => pending = <<>>
        /\ Len(offered) = Len(started) + Len(pending)
        /\ \A i \in 1 .. Len(started) : started[i] = offered[i]
        /\ \A i \in 1 .. Len(pending) : pending[i] = offered[Len(started) + i]

\* The part of the type invariant that the order depends on.
QueueType ==
    /\ slot \in Turn \cup {NoTurn}
    /\ phase \in [Turn -> Phase]
    /\ pending \in Seq(Turn) /\ offered \in Seq(Turn) /\ started \in Seq(Turn)

\* A step that leaves the queue and the history alone, and does not vacate the
\* slot, keeps the order; an aborted request stays aborted.
LEMMA OrderKept ==
    ASSUME Fifo, UNCHANGED <<pending, offered, started>>,
           slot' = NoTurn => slot = NoTurn \/ pending = <<>>,
           NoneAborted' => NoneAborted
    PROVE  Fifo'
BY DEF Fifo

\* A newcomer goes behind everyone offered before it (push_back).
LEMMA OrderJoins ==
    ASSUME QueueType, Fifo, NoneAborted, NEW t \in Turn, slot # NoTurn, slot' = slot,
           offered' = Append(offered, t), pending' = Append(pending, t),
           started' = started
    PROVE  Fifo'
<1>1. /\ Len(offered') = Len(offered) + 1 /\ offered'[Len(offered) + 1] = t
      /\ Len(pending') = Len(pending) + 1 /\ pending'[Len(pending) + 1] = t
      /\ \A i \in 1 .. Len(offered) : offered'[i] = offered[i]
      /\ \A i \in 1 .. Len(pending) : pending'[i] = pending[i]
      /\ Len(offered) \in Nat /\ Len(pending) \in Nat /\ Len(started) \in Nat
  BY DEF QueueType
<1>2. /\ Len(offered) = Len(started) + Len(pending)
      /\ \A i \in 1 .. Len(started) : started[i] = offered[i]
      /\ \A i \in 1 .. Len(pending) : pending[i] = offered[Len(started) + i]
  BY DEF Fifo
<1>3. \A i \in 1 .. Len(started) : started'[i] = offered'[i]
  BY <1>1, <1>2
<1>4. ASSUME NEW i \in 1 .. Len(pending') PROVE pending'[i] = offered'[Len(started') + i]
  <2>1. CASE i = Len(pending) + 1
    BY <1>1, <1>2, <2>1
  <2>2. CASE i # Len(pending) + 1
    <3>1. i \in 1 .. Len(pending) /\ Len(started) + i \in 1 .. Len(offered)
      BY <1>1, <1>2, <2>2
    <3>2. QED
      BY <1>1, <1>2, <3>1
  <2>3. QED
    BY <2>1, <2>2
<1>5. Len(offered') = Len(started') + Len(pending') /\ slot' # NoTurn
  BY <1>1, <1>2
<1>6. QED
  BY <1>3, <1>4, <1>5 DEF Fifo

\* A turn that finds the slot vacant finds the queue empty as well.
LEMMA OrderStarts ==
    ASSUME QueueType, Fifo, NoneAborted, NEW t \in Turn, slot = NoTurn, slot' = t,
           offered' = Append(offered, t), started' = Append(started, t),
           pending' = pending
    PROVE  Fifo'
<1>1. /\ Len(offered') = Len(offered) + 1 /\ offered'[Len(offered) + 1] = t
      /\ Len(started') = Len(started) + 1 /\ started'[Len(started) + 1] = t
      /\ \A i \in 1 .. Len(offered) : offered'[i] = offered[i]
      /\ \A i \in 1 .. Len(started) : started'[i] = started[i]
      /\ Len(offered) \in Nat /\ Len(started) \in Nat
  BY DEF QueueType
<1>2. /\ pending = <<>> /\ Len(pending) = 0
      /\ Len(offered) = Len(started)
      /\ \A i \in 1 .. Len(started) : started[i] = offered[i]
  BY <1>1 DEF Fifo
<1>3. ASSUME NEW i \in 1 .. Len(started') PROVE started'[i] = offered'[i]
  <2>1. CASE i = Len(started) + 1
    BY <1>1, <1>2, <2>1
  <2>2. CASE i # Len(started) + 1
    <3>1. i \in 1 .. Len(started) /\ i \in 1 .. Len(offered)
      BY <1>1, <1>2, <2>2
    <3>2. QED
      BY <1>1, <1>2, <3>1
  <2>3. QED
    BY <2>1, <2>2
<1>4. QED
  BY <1>1, <1>2, <1>3 DEF Fifo

\* The finalizer starts the head of the queue (pop_front).
LEMMA OrderDrains ==
    ASSUME QueueType, Fifo, NoneAborted, pending # <<>>, slot' = Head(pending),
           pending' = Tail(pending), started' = Append(started, Head(pending)),
           offered' = offered
    PROVE  Fifo'
<1>1. PICK h \in Turn : h = Head(pending)
  BY DEF QueueType
<1>2. /\ Len(pending) \in Nat /\ Len(pending) > 0 /\ h = pending[1]
      /\ Len(pending') = Len(pending) - 1
      /\ \A i \in 1 .. Len(pending') : pending'[i] = pending[i + 1]
  BY <1>1 DEF QueueType
<1>3. /\ Len(started') = Len(started) + 1 /\ started'[Len(started) + 1] = h
      /\ \A i \in 1 .. Len(started) : started'[i] = started[i]
      /\ Len(started) \in Nat
  BY <1>1 DEF QueueType
<1>4. /\ Len(offered) = Len(started) + Len(pending)
      /\ \A i \in 1 .. Len(started) : started[i] = offered[i]
      /\ \A i \in 1 .. Len(pending) : pending[i] = offered[Len(started) + i]
  BY DEF Fifo
<1>5. ASSUME NEW i \in 1 .. Len(started') PROVE started'[i] = offered'[i]
  <2>1. CASE i = Len(started) + 1
    <3>1. pending[1] = offered[Len(started) + 1]
      BY <1>2, <1>4
    <3>2. QED
      BY <1>2, <1>3, <2>1, <3>1
  <2>2. CASE i # Len(started) + 1
    BY <1>3, <1>4, <2>2
  <2>3. QED
    BY <2>1, <2>2
<1>6. ASSUME NEW i \in 1 .. Len(pending')
      PROVE  pending'[i] = offered'[Len(started') + i]
  <2>1. i + 1 \in 1 .. Len(pending)
    BY <1>2
  <2>2. pending[i + 1] = offered[Len(started) + (i + 1)]
    BY <1>4, <2>1
  <2>3. Len(started) + (i + 1) = Len(started') + i
    BY <1>2, <1>3
  <2>4. QED
    BY <1>2, <2>2, <2>3
<1>7. QED
  BY <1>1, <1>2, <1>3, <1>4, <1>5, <1>6 DEF Fifo

\* Every step serves in order.
LEMMA NextFifo == TypeOK /\ Ownership /\ Fifo /\ [Next]_vars => Fifo'
<1> SUFFICES ASSUME TypeOK, Ownership, Fifo, [Next]_vars PROVE Fifo'
  OBVIOUS
<1>0. QueueType
  BY DEF TypeOK, QueueType
<1>a. ASSUME NEW t \in Turn, NEW p \in Phase, phase[t] # "aborted",
             phase' = [phase EXCEPT ![t] = p]
      PROVE  NoneAborted' => NoneAborted
  BY <1>0, <1>a DEF QueueType, NoneAborted
<1>1. ASSUME NEW t \in Turn, TryClaimTurnSlot(t) PROVE Fifo'
  BY <1>1, <1>a, OrderKept DEF TryClaimTurnSlot, hist, Phase
<1>2. ASSUME NEW t \in Turn, MarkRunning(t) \/ Commit(t) \/ BeginInjected(t)
      PROVE  Fifo'
  BY <1>2, <1>a, OrderKept DEF MarkRunning, Commit, BeginInjected, hist, Phase
<1>3. ASSUME NEW t \in Turn, SlotGuardDrop(t) PROVE Fifo'
  <2>1. phase'[t] = "aborted"
    BY <1>0, <1>3 DEF SlotGuardDrop, QueueType
  <2>2. QED
    BY <2>1 DEF Fifo, NoneAborted
<1>4. ASSUME NEW t \in Turn, EnqueueOrStartTurn(t) PROVE Fifo'
  <2>1. NoneAborted' => NoneAborted
    BY <1>4, <1>a DEF EnqueueOrStartTurn, Phase
  <2>2. CASE ~NoneAborted
    BY <2>1, <2>2 DEF Fifo
  <2>3. CASE NoneAborted /\ slot # NoTurn
    BY <1>0, <1>4, <2>3, OrderJoins DEF EnqueueOrStartTurn
  <2>4. CASE NoneAborted /\ slot = NoTurn
    BY <1>0, <1>4, <2>4, OrderStarts DEF EnqueueOrStartTurn
  <2>5. QED
    BY <2>2, <2>3, <2>4
<1>5. ASSUME NEW t \in Turn, NEW ok \in BOOLEAN, DriverResolves(t, ok) PROVE Fifo'
  BY <1>5, <1>a, OrderKept DEF DriverResolves, hist, Phase
<1>6. ASSUME NEW t \in Turn, DrainNextTurn(t) PROVE Fifo'
  <2>1. slot = t
    BY <1>6 DEF DrainNextTurn, Ownership, SlotOwner, Holding
  <2>2. CASE pending = <<>>
    BY <1>6, <1>a, <2>1, <2>2, OrderKept DEF DrainNextTurn, Phase
  <2>3. CASE pending # <<>>
    <3>1. PICK h \in Turn : h = Head(pending)
      BY <1>0, <2>3 DEF QueueType
    <3>2. phase[h] = "queued"
      <4>1. 1 \in 1 .. Len(pending) /\ h = pending[1]
        BY <1>0, <2>3, <3>1 DEF QueueType
      <4>2. QED
        BY <4>1 DEF Ownership, QueueExact
    <3>3. phase' = [phase EXCEPT ![t] = "released", ![h] = "reclaimed"]
      BY <1>6, <2>1, <2>3, <3>1, Zenon DEF DrainNextTurn
    <3>4. phase[t] # "aborted"
      BY <1>6 DEF DrainNextTurn
    <3>5. NoneAborted' => NoneAborted
      BY <1>0, <3>2, <3>3, <3>4 DEF QueueType, NoneAborted
    <3>6. CASE ~NoneAborted
      BY <3>5, <3>6 DEF Fifo
    <3>7. CASE NoneAborted
      BY <1>0, <1>6, <2>1, <2>3, <3>7, OrderDrains DEF DrainNextTurn
    <3>8. QED
      BY <3>6, <3>7
  <2>4. QED
    BY <2>2, <2>3
<1>7. ASSUME NEW t \in Turn, WriteFinalStatus(t) PROVE Fifo'
  BY <1>7, <1>a, OrderKept DEF WriteFinalStatus, Phase
<1>8. ASSUME NEW t \in Turn, TaskExits(t) PROVE Fifo'
  <2>1. next[t] # NoTurn => phase[next[t]] = "reclaimed"
    BY DEF Ownership, HandoverExact
  <2>2. \A u \in Turn : phase[u] = "aborted" => phase'[u] = "aborted"
    BY <1>8, <2>1 DEF TaskExits
  <2>3. NoneAborted' => NoneAborted
    BY <2>2 DEF NoneAborted
  <2>4. QED
    BY <1>8, <2>3, OrderKept DEF TaskExits, hist
<1>9. ASSUME UNCHANGED <<slot, pending, phase, offered, started>> PROVE Fifo'
  BY <1>9 DEF Fifo, NoneAborted
<1>10. ASSUME NEW c \in Canceller, LoadHandle(c) \/ CancelStep(c) PROVE Fifo'
  BY <1>9, <1>10 DEF LoadHandle, CancelStep, RequestCancel, WriteCancelling, hist
<1>11. CASE DeleteSnapshot \/ DeleteStep
  BY <1>9, <1>11
     DEF DeleteSnapshot, DeleteStep, DeleteCancel, DeleteTimeout, DeleteSession, hist
<1>12. CASE Restart
  <2>1. pending' = <<>> /\ offered' = <<>> /\ started' = <<>>
    BY <1>12 DEF Restart
  <2>2. QED
    BY <2>1 DEF Fifo
<1>13. CASE UNCHANGED vars
  BY <1>9, <1>13 DEF vars
<1>14. QED
  BY <1>1, <1>2, <1>3, <1>4, <1>5, <1>6, <1>7, <1>8, <1>10, <1>11, <1>12, <1>13
     DEF Next, TurnStep

\* Everything the slot owes its turns at once: the queue holds each waiting
\* turn once, every hand-over has one finalizer, injected turns are served in
\* the order they were offered, and each turn is announced as Cancelling at
\* most once (turn_slot.rs, injected_turn.rs).
THEOREM SlotServesExactly == Spec => []SlotExact
<1>1. Init => TypeOK /\ Ownership /\ Fifo
  <2>1. Init => Fifo
    BY DEF Init, Fifo
  <2>2. QED
    BY <2>1, InitType, InitOwnership
<1>2. TypeOK /\ Ownership /\ Fifo /\ [Next]_vars => (TypeOK /\ Ownership /\ Fifo)'
  BY NextType, NextOwnership, NextFifo
<1>3. ASSUME TypeOK, Fifo PROVE InjectedFifo
  <2>1. Len(started) \in Nat /\ Len(pending) \in Nat
    BY <1>3 DEF TypeOK
  <2>2. QED
    BY <1>3, <2>1 DEF Fifo, NoneAborted, InjectedFifo
<1>4. TypeOK /\ Ownership /\ Fifo /\ CancelOnce => SlotExact
  BY <1>3 DEF Ownership, SlotExact
<1>5. Spec => [](TypeOK /\ Ownership /\ Fifo)
  BY <1>1, <1>2, PTL DEF Spec
<1>6. QED
  BY <1>4, <1>5, CancelledOnce, PTL

-------------------------------------------------------------------------------
(* Sessions at rest.                                                       *)

\* The phases between a `running` write and the terminal status write.
Writes == {"marked", "running", "resolved", "released"}

\* A session that reads `running` has a turn that will still write its end, and
\* a turn that resolved has something other than `running` to write.
Rest ==
    /\ status = "running" /\ ~lostWrite /\ ~deleted => \E t \in Turn : phase[t] \in Writes
    /\ \A t \in Turn : phase[t] \in {"resolved", "released"} => outcome[t] # "running"

\* A step that writes no status keeps a writer that is there.
LEMMA RestKept ==
    ASSUME Rest, UNCHANGED <<status, deleted>>, lostWrite => lostWrite',
           \A t \in Turn : phase[t] \in Writes => phase'[t] \in Writes,
           \A t \in Turn : phase'[t] \in {"resolved", "released"} =>
              outcome'[t] # "running"
    PROVE  Rest'
BY DEF Rest

\* Every step leaves a writer for a session that reads `running`.
LEMMA NextRest == TypeOK /\ Ownership /\ Rest /\ [Next]_vars => Rest'
<1> SUFFICES ASSUME TypeOK, Ownership, Rest, [Next]_vars PROVE Rest'
  OBVIOUS
<1> USE DEF Writes
<1>0. /\ phase \in [Turn -> Phase] /\ outcome \in [Turn -> SessionStatus]
  BY DEF TypeOK
<1>1. ASSUME NEW t \in Turn, TryClaimTurnSlot(t) \/ EnqueueOrStartTurn(t) PROVE Rest'
  BY <1>0, <1>1, RestKept DEF TryClaimTurnSlot, EnqueueOrStartTurn, hist, Rest
<1>2. ASSUME NEW t \in Turn, MarkRunning(t) \/ BeginInjected(t) PROVE Rest'
  <2>1. phase'[t] \in Writes
    BY <1>0, <1>2 DEF MarkRunning, BeginInjected
  <2>2. \A u \in Turn : phase'[u] \in {"resolved", "released"} => outcome'[u] # "running"
    BY <1>0, <1>2 DEF MarkRunning, BeginInjected, Rest
  <2>3. QED
    BY <2>1, <2>2 DEF Rest
<1>3. ASSUME NEW t \in Turn, Commit(t) PROVE Rest'
  BY <1>0, <1>3, RestKept DEF Commit, hist, Rest
<1>4. ASSUME NEW t \in Turn, SlotGuardDrop(t) PROVE Rest'
  <2>1. \A u \in Turn : phase'[u] \in {"resolved", "released"} => outcome'[u] # "running"
    BY <1>0, <1>4 DEF SlotGuardDrop, Rest
  <2>2. CASE phase[t] = "marked"
    <3>1. lostWrite'
      BY <1>4, <2>2 DEF SlotGuardDrop
    <3>2. QED
      BY <2>1, <3>1 DEF Rest
  <2>3. CASE phase[t] = "claimed"
    <3>1. /\ UNCHANGED <<status, deleted>>
          /\ lostWrite => lostWrite'
          /\ \A u \in Turn : phase[u] \in Writes => phase'[u] \in Writes
      BY <1>0, <1>4, <2>3 DEF SlotGuardDrop
    <3>2. QED
      BY <2>1, <3>1, RestKept
  <2>4. QED
    BY <1>4, <2>2, <2>3 DEF SlotGuardDrop
<1>5. ASSUME NEW t \in Turn, NEW ok \in BOOLEAN, DriverResolves(t, ok) PROVE Rest'
  <2>1. FinalStatus(t, ok) # "running"
    BY DEF FinalStatus
  <2>2. \A u \in Turn : phase'[u] \in {"resolved", "released"} => outcome'[u] # "running"
    BY <1>0, <1>5, <2>1 DEF DriverResolves, Rest
  <2>3. \A u \in Turn : phase[u] \in Writes => phase'[u] \in Writes
    BY <1>0, <1>5 DEF DriverResolves
  <2>4. QED
    BY <1>5, <2>2, <2>3, RestKept DEF DriverResolves, hist
<1>6. ASSUME NEW t \in Turn, DrainNextTurn(t) PROVE Rest'
  <2>1. UNCHANGED <<status, deleted, outcome, lostWrite>>
    BY <1>6 DEF DrainNextTurn
  <2>2. CASE phase' = [phase EXCEPT ![t] = "released"]
    BY <1>0, <1>6, <2>1, <2>2, RestKept DEF DrainNextTurn, Rest
  <2>3. CASE ~(phase' = [phase EXCEPT ![t] = "released"])
    <3>1. PICK h \in Turn : h = Head(pending)
      BY <1>6, <2>3 DEF DrainNextTurn, TypeOK
    <3>2. phase' = [phase EXCEPT ![t] = "released", ![h] = "reclaimed"]
      BY <1>6, <2>3, <3>1, Zenon DEF DrainNextTurn
    <3>3. phase[h] = "queued"
      <4>1. 1 \in 1 .. Len(pending) /\ h = pending[1]
        BY <1>6, <2>3, <3>1 DEF DrainNextTurn, TypeOK
      <4>2. QED
        BY <4>1 DEF Ownership, QueueExact
    <3>4. phase[t] = "resolved"
      BY <1>6 DEF DrainNextTurn
    <3>5. \A u \in Turn : phase[u] \in Writes => phase'[u] \in Writes
      BY <1>0, <3>2, <3>3, <3>4
    <3>6. \A u \in Turn : phase'[u] \in {"resolved", "released"} =>
             outcome'[u] # "running"
      BY <1>0, <2>1, <3>2, <3>3, <3>4 DEF Rest
    <3>7. QED
      BY <2>1, <3>5, <3>6, RestKept
  <2>4. QED
    BY <2>2, <2>3
<1>7. ASSUME NEW t \in Turn, WriteFinalStatus(t) PROVE Rest'
  <2>1. outcome[t] # "running"
    BY <1>7 DEF WriteFinalStatus, Rest
  <2>2. status' # "running" \/ lostWrite' = TRUE
    BY <1>7, <2>1 DEF WriteFinalStatus
  <2>3. \A u \in Turn : phase'[u] \in {"resolved", "released"} => outcome'[u] # "running"
    BY <1>0, <1>7 DEF WriteFinalStatus, Rest
  <2>4. QED
    BY <2>2, <2>3 DEF Rest
<1>8. ASSUME NEW t \in Turn, TaskExits(t) PROVE Rest'
  <2>1. next[t] # NoTurn => phase[next[t]] = "reclaimed"
    BY DEF Ownership, HandoverExact
  <2>2. \A u \in Turn : /\ phase[u] \in Writes => phase'[u] \in Writes
                        /\ phase'[u] \in {"resolved", "released"} => phase'[u] = phase[u]
    BY <1>8, <2>1 DEF TaskExits
  <2>3. QED
    BY <1>8, <2>2, RestKept DEF TaskExits, hist, Rest
<1>9. ASSUME UNCHANGED <<phase, outcome, status, deleted, lostWrite>> PROVE Rest'
  BY <1>9 DEF Rest
<1>10. ASSUME NEW c \in Canceller, LoadHandle(c) \/ RequestCancel(c) PROVE Rest'
  BY <1>9, <1>10 DEF LoadHandle, RequestCancel, hist
<1>11. ASSUME NEW c \in Canceller, WriteCancelling(c) PROVE Rest'
  BY <1>11 DEF WriteCancelling, Rest
<1>12. CASE DeleteSnapshot \/ DeleteCancel \/ DeleteTimeout
  BY <1>9, <1>12 DEF DeleteSnapshot, DeleteCancel, DeleteTimeout, hist
<1>13. CASE DeleteSession
  BY <1>13 DEF DeleteSession, Rest
<1>14. CASE Restart
  <2>1. \A t \in Turn : phase'[t] \notin {"resolved", "released"}
    BY <1>0, <1>14 DEF Restart, Live, Holding
  <2>2. status' = "running" => deleted'
    BY <1>14 DEF Restart
  <2>3. QED
    BY <2>1, <2>2 DEF Rest
<1>15. CASE UNCHANGED vars
  BY <1>9, <1>15 DEF vars
<1>16. QED
  BY <1>1, <1>2, <1>3, <1>4, <1>5, <1>6, <1>7, <1>8, <1>10, <1>11, <1>12, <1>13,
     <1>14, <1>15 DEF Next, TurnStep, CancelStep, DeleteStep

\* A session nobody works on does not read `running`, whatever finalizers,
\* cancellers, DELETE and process deaths did, unless a status write was lost or
\* the session is deleted (spawn_driven_turn, recover_stale_running_sessions).
THEOREM RestsNotRunning == Spec => []RestNotRunning
<1>1. Init => TypeOK /\ Ownership /\ Rest
  <2>1. Init => Rest
    BY DEF Init, Rest
  <2>2. QED
    BY <2>1, InitType, InitOwnership
<1>2. TypeOK /\ Ownership /\ Rest /\ [Next]_vars => (TypeOK /\ Ownership /\ Rest)'
  BY NextType, NextOwnership, NextRest
<1>3. Rest => RestNotRunning
  BY DEF Rest, Writes, RestNotRunning, AtRest, Live, Holding
<1>4. QED
  BY <1>1, <1>2, <1>3, PTL DEF Spec
=============================================================================

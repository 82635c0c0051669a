------------------------- MODULE DeliveryOutboxProofs -------------------------
(***************************************************************************)
(* Theorems about DeliveryOutbox, for every set of settlements, workers    *)
(* and lease ids, every lease length longer than the heartbeat interval    *)
(* and any number of faults.                                               *)
(***************************************************************************)
EXTENDS DeliveryOutbox, TLAPS

USE OutboxAssumption DEF OutboxAssumption

RowRecord     == [state : RowState, lease : Lease \cup {NoLease}, left : 0 .. TTL]
AttemptRecord == [phase : AttemptPhase, task : Task \cup {NoTask}]
BeatRecord    == [on : BOOLEAN, since : 0 .. BeatEvery]
WorkerRecord  == [pc : WorkerPc, task : Task \cup {NoTask}]

\* A worker past its first look and an attempt that was claimed name the
\* settlement they work for, and only a claimed attempt has a heartbeat.
RecordsBound ==
    /\ \A w \in Worker : worker[w].pc # "idle" => worker[w].task \in Task
    /\ \A l \in Lease : attempt[l].phase # "free" => attempt[l].task \in Task
    /\ \A l \in Lease : beat[l].on => attempt[l].phase # "free"

Typed == TypeOK /\ RecordsBound

-------------------------------------------------------------------------------
(* What one step does to the records.                                      *)

\* An attempt moves to its next phase and keeps its settlement.
LEMMA PhaseMoves ==
    ASSUME NEW f \in [Lease -> AttemptRecord], NEW l \in Lease,
           NEW p \in AttemptPhase, NEW g, g = [f EXCEPT ![l].phase = p]
    PROVE  /\ g \in [Lease -> AttemptRecord]
           /\ g[l].phase = p
           /\ \A k \in Lease : g[k].task = f[k].task
           /\ \A k \in Lease : k # l => g[k].phase = f[k].phase
BY DEF AttemptRecord

\* A renewal touches the expiry of one row only.
LEMMA RowRenewed ==
    ASSUME NEW f \in [Task -> RowRecord], NEW t \in Task,
           NEW g, g = [f EXCEPT ![t].left = TTL]
    PROVE  /\ g \in [Task -> RowRecord]
           /\ g[t].left = TTL
           /\ \A u \in Task : g[u].state = f[u].state /\ g[u].lease = f[u].lease
           /\ \A u \in Task : u # t => g[u].left = f[u].left
BY DEF RowRecord

\* A renewal restarts the heartbeat's interval.
LEMMA BeatRenewed ==
    ASSUME NEW f \in [Lease -> BeatRecord], NEW l \in Lease,
           NEW g, g = [f EXCEPT ![l].since = 0]
    PROVE  /\ g \in [Lease -> BeatRecord]
           /\ \A k \in Lease : g[k].on = f[k].on
           /\ g[l].since = 0
           /\ \A k \in Lease : k # l => g[k].since = f[k].since
BY DEF BeatRecord

\* A stopped heartbeat leaves the others alone.
LEMMA BeatStopped ==
    ASSUME NEW f \in [Lease -> BeatRecord], NEW l \in Lease,
           NEW g, g = [f EXCEPT ![l] = [on |-> FALSE, since |-> 0]]
    PROVE  /\ g \in [Lease -> BeatRecord]
           /\ ~g[l].on
           /\ \A k \in Lease : k # l => g[k] = f[k]
BY DEF BeatRecord

\* What Claim(S) leaves behind, without the choice operators: every row of S
\* is leased under an id of its own that nothing else referred to, and that id
\* is an attempt queued for that row with a running heartbeat.
Claimed(S, id) ==
    /\ id \in [S -> Lease]
    /\ \A t, u \in S : id[t] = id[u] => t = u
    /\ \A t \in S : /\ attempt[id[t]].phase = "free"
                    /\ row'[t] = [state |-> "leased", lease |-> id[t], left |-> TTL]
                    /\ attempt'[id[t]] = [phase |-> "queued", task |-> t]
                    /\ beat'[id[t]] = [on |-> TRUE, since |-> 0]
    /\ \A u \in Task \ S : /\ row'[u] = row[u]
                           /\ \A t \in S : row[u].lease # id[t]
    /\ \A l \in Lease : (\A t \in S : id[t] # l)
                        => attempt'[l] = attempt[l] /\ beat'[l] = beat[l]
    /\ row' \in [Task -> RowRecord]
    /\ attempt' \in [Lease -> AttemptRecord]
    /\ beat' \in [Lease -> BeatRecord]

\* Claiming gives every claimed row a lease id of its own (Claim).
LEMMA ClaimMakes ==
    ASSUME TypeOK, NEW S \in SUBSET Task, Claim(S)
    PROVE  \E id : Claimed(S, id)
<1>1. PICK id \in Injection(S, Fresh(S)) :
        /\ row' = [t \in Task |->
                     IF t \in S
                     THEN [state |-> "leased", lease |-> id[t], left |-> TTL]
                     ELSE row[t]]
        /\ attempt' = [l \in Lease |->
                         IF \E t \in S : id[t] = l
                         THEN [phase |-> "queued",
                               task |-> CHOOSE t \in S : id[t] = l]
                         ELSE attempt[l]]
        /\ beat' = [l \in Lease |->
                      IF \E t \in S : id[t] = l
                      THEN [on |-> TRUE, since |-> 0] ELSE beat[l]]
  BY Zenon DEF Claim
<1>2. /\ id \in [S -> Lease]
      /\ \A t \in S : id[t] \in Fresh(S)
      /\ \A t, u \in S : id[t] = id[u] => t = u
  BY DEF Injection, IsInjective, Fresh
<1>3. ASSUME NEW t \in S PROVE (CHOOSE u \in S : id[u] = id[t]) = t
  BY <1>2
<1>4. \A t \in S : row'[t] = [state |-> "leased", lease |-> id[t], left |-> TTL]
  BY <1>1
<1>5. \A t \in S : attempt'[id[t]] = [phase |-> "queued", task |-> t]
  BY <1>1, <1>2, <1>3
<1>6. \A t \in S : beat'[id[t]] = [on |-> TRUE, since |-> 0]
  BY <1>1, <1>2
<1>7. \A t \in S : attempt[id[t]].phase = "free"
  BY <1>2 DEF Fresh
<1>8. \A u \in Task \ S : /\ row'[u] = row[u]
                          /\ \A t \in S : row[u].lease # id[t]
  BY <1>1, <1>2 DEF Fresh
<1>9. \A l \in Lease : (\A t \in S : id[t] # l)
                       => attempt'[l] = attempt[l] /\ beat'[l] = beat[l]
  BY <1>1
<1>10. row' \in [Task -> RowRecord]
  BY <1>1, <1>2 DEF TypeOK, RowRecord, RowState
<1>11. attempt' \in [Lease -> AttemptRecord]
  <2>1. ASSUME NEW l \in Lease, \E t \in S : id[t] = l
        PROVE (CHOOSE t \in S : id[t] = l) \in Task
    BY <2>1
  <2>2. QED
    BY <1>1, <2>1 DEF TypeOK, AttemptRecord, AttemptPhase
<1>12. beat' \in [Lease -> BeatRecord]
  BY <1>1 DEF TypeOK, BeatRecord
<1>13. Claimed(S, id)
  BY <1>2, <1>4, <1>5, <1>6, <1>7, <1>8, <1>9, <1>10, <1>11, <1>12 DEF Claimed
<1>14. QED
  BY <1>13, Zenon

-------------------------------------------------------------------------------
(* Type correctness.                                                       *)

\* The initial state is typed and names no settlement yet.
LEMMA InitTyped == Init => Typed
<1> SUFFICES ASSUME Init PROVE Typed
  OBVIOUS
<1> USE DEF Init
<1>1. row \in [Task -> RowRecord]
  BY DEF NewRow, RowRecord, RowState
<1>2. attempt \in [Lease -> AttemptRecord]
  BY DEF AttemptRecord, AttemptPhase
<1>3. beat \in [Lease -> BeatRecord]
  BY DEF BeatRecord
<1>4. worker \in [Worker -> WorkerRecord]
  BY DEF WorkerRecord, WorkerPc
<1>5. /\ reserved \in SUBSET Task /\ heard \in SUBSET Task
      /\ faults \in 0 .. MaxFaults
      /\ reminders \in [Task -> Nat] /\ acks \in [Task -> Nat]
  OBVIOUS
<1>6. RecordsBound
  BY DEF RecordsBound
<1>7. QED
  BY <1>1, <1>2, <1>3, <1>4, <1>5, <1>6
     DEF Typed, TypeOK, RowRecord, AttemptRecord, BeatRecord, WorkerRecord

\* A claimed lease id names the settlement it was claimed for.
LEMMA ClaimNames ==
    ASSUME Typed, NEW S \in SUBSET Task, NEW id, Claimed(S, id)
    PROVE  \A l \in Lease : /\ attempt'[l].phase # "free" => attempt'[l].task \in Task
                            /\ beat'[l].on => attempt'[l].phase # "free"
<1> SUFFICES ASSUME NEW l \in Lease
             PROVE  /\ attempt'[l].phase # "free" => attempt'[l].task \in Task
                    /\ beat'[l].on => attempt'[l].phase # "free"
  OBVIOUS
<1>1. CASE \E t \in S : id[t] = l
  <2>1. PICK t \in S : id[t] = l
    BY <1>1
  <2>2. attempt'[l] = [phase |-> "queued", task |-> t]
    BY <2>1 DEF Claimed
  <2>3. QED
    BY <2>2
<1>2. CASE \A t \in S : id[t] # l
  <2>1. attempt'[l] = attempt[l] /\ beat'[l] = beat[l]
    BY <1>2 DEF Claimed
  <2>2. QED
    BY <2>1 DEF Typed, RecordsBound
<1>3. QED
  BY <1>1, <1>2

\* Every step keeps the types and the names.
LEMMA NextTyped == Typed /\ [Next]_vars => Typed'
<1> SUFFICES ASSUME Typed, [Next]_vars PROVE Typed'
  OBVIOUS
<1> USE DEF Typed, TypeOK, RecordsBound, RowState, AttemptPhase, WorkerPc, NewRow,
            Undriven, Fault
<1>1. ASSUME NEW w \in Worker, NEW t \in Task, AppendFast(w, t) PROVE Typed'
  BY <1>1 DEF AppendFast, EnsureRow
<1>2. ASSUME NEW w \in Worker, NEW t \in Task, AppendBegin(w, t) PROVE Typed'
  BY <1>2 DEF AppendBegin
<1>3. ASSUME NEW w \in Worker, AppendCommit(w) PROVE Typed'
  <2>1. PICK t \in Task : t = worker[w].task
    BY <1>3 DEF AppendCommit
  <2>2. row' \in [Task -> RowRecord]
    BY <1>3, <2>1 DEF AppendCommit, EnsureRow, RowRecord
  <2>3. reserved' \in SUBSET Task /\ reminders' \in [Task -> Nat]
    BY <1>3, <2>1 DEF AppendCommit
  <2>4. /\ worker' \in [Worker -> WorkerRecord]
        /\ \A v \in Worker : worker'[v].pc # "idle" => worker'[v].task \in Task
    BY <1>3, <2>1 DEF AppendCommit, WorkerRecord
  <2>5. UNCHANGED <<attempt, beat, faults, heard, acks>>
    BY <1>3 DEF AppendCommit
  <2>6. QED
    BY <2>2, <2>3, <2>4, <2>5 DEF RowRecord, WorkerRecord
<1>4. ASSUME NEW w \in Worker, AppendFails(w) PROVE Typed'
  BY <1>4 DEF AppendFails
<1>5. ASSUME NEW w \in Worker, ClaimOwn(w) PROVE Typed'
  <2>0. PICK t \in Task : t = worker[w].task
    BY <1>5 DEF ClaimOwn
  <2>1. /\ worker' \in [Worker -> WorkerRecord]
        /\ \A v \in Worker : worker'[v].pc # "idle" => worker'[v].task \in Task
        /\ UNCHANGED <<reserved, faults, reminders, heard, acks>>
    BY <1>5 DEF ClaimOwn, WorkerRecord
  <2>2. CASE Claim({t})
    <3>1. PICK id : Claimed({t}, id)
      BY <2>2, ClaimMakes
    <3>2. /\ row' \in [Task -> RowRecord]
          /\ attempt' \in [Lease -> AttemptRecord]
          /\ beat' \in [Lease -> BeatRecord]
      BY <3>1 DEF Claimed
    <3>3. \A l \in Lease :
             /\ attempt'[l].phase # "free" => attempt'[l].task \in Task
             /\ beat'[l].on => attempt'[l].phase # "free"
      BY <3>1, ClaimNames
    <3>4. QED
      BY <2>1, <3>2, <3>3 DEF RowRecord, AttemptRecord, BeatRecord, WorkerRecord
  <2>3. CASE UNCHANGED <<row, attempt, beat>>
    BY <2>1, <2>3 DEF WorkerRecord
  <2>4. QED
    BY <1>5, <2>0, <2>2, <2>3 DEF ClaimOwn
<1>6. ASSUME NEW w \in Worker, ClaimOwnFails(w) PROVE Typed'
  BY <1>6 DEF ClaimOwnFails
<1>7. CASE Reconcile
  <2>1. PICK S \in SUBSET Task : /\ Claim(S)
                                 /\ UNCHANGED <<reserved, worker, faults,
                                                reminders, heard, acks>>
    BY <1>7 DEF Reconcile
  <2>2. PICK id : Claimed(S, id)
    BY <2>1, ClaimMakes
  <2>3. /\ row' \in [Task -> RowRecord]
        /\ attempt' \in [Lease -> AttemptRecord]
        /\ beat' \in [Lease -> BeatRecord]
    BY <2>2 DEF Claimed
  <2>4. \A l \in Lease :
           /\ attempt'[l].phase # "free" => attempt'[l].task \in Task
           /\ beat'[l].on => attempt'[l].phase # "free"
    BY <2>2, ClaimNames
  <2>5. QED
    BY <2>1, <2>3, <2>4 DEF RowRecord, AttemptRecord, BeatRecord
<1>8. ASSUME NEW l \in Lease, Renew(l) PROVE Typed'
  <2>1. PICK t \in Task : t = attempt[l].task
    BY <1>8 DEF Renew
  <2>2. row' \in [Task -> RowRecord]
    <3>1. row' = [row EXCEPT ![t].left = TTL] \/ row' = row
      BY <1>8, <2>1, Zenon DEF Renew
    <3>2. row \in [Task -> RowRecord]
      BY DEF RowRecord
    <3>3. QED
      BY ONLY <3>1, <3>2, RowRenewed
  <2>3. /\ beat' \in [Lease -> BeatRecord]
        /\ \A k \in Lease : beat'[k].on => beat[k].on
    <3>1. \/ beat' = [beat EXCEPT ![l].since = 0]
          \/ beat' = [beat EXCEPT ![l] = [on |-> FALSE, since |-> 0]]
      BY <1>8, Zenon DEF Renew
    <3>2. beat \in [Lease -> BeatRecord]
      BY DEF BeatRecord
    <3>3. QED
      BY ONLY <3>1, <3>2, BeatRenewed, BeatStopped
  <2>4. UNCHANGED <<reserved, attempt, worker, faults, reminders, heard, acks>>
    BY <1>8 DEF Renew
  <2>5. QED
    BY <2>2, <2>3, <2>4 DEF RowRecord, BeatRecord
<1>9. ASSUME NEW l \in Lease, RenewFails(l) PROVE Typed'
  BY <1>9 DEF RenewFails
<1>10. ASSUME NEW l \in Lease, BeatStops(l) PROVE Typed'
  BY <1>10 DEF BeatStops
<1>11. ASSUME NEW l \in Lease, Drive(l) PROVE Typed'
  BY <1>11 DEF Drive
<1>12. ASSUME NEW l \in Lease, DriveOk(l) PROVE Typed'
  BY <1>12 DEF DriveOk
<1>13. ASSUME NEW l \in Lease, DriveErr(l) PROVE Typed'
  BY <1>13 DEF DriveErr
<1>14. ASSUME NEW l \in Lease, Abandon(l) PROVE Typed'
  BY <1>14 DEF Abandon
<1>15. ASSUME NEW l \in Lease, Acknowledge(l) PROVE Typed'
  <2>1. PICK t \in Task : t = attempt[l].task
    BY <1>15 DEF Acknowledge
  <2>2. row' \in [Task -> RowRecord] /\ acks' \in [Task -> Nat]
    <3>1. \/ /\ row' = [row EXCEPT ![t] =
                          [state |-> "delivered", lease |-> NoLease, left |-> 0]]
             /\ acks' = [acks EXCEPT ![t] = @ + 1]
          \/ row' = row /\ acks' = acks
      BY <1>15, <2>1, Zenon DEF Acknowledge
    <3>2. QED
      BY <3>1 DEF RowRecord
  <2>3. /\ attempt' \in [Lease -> AttemptRecord]
        /\ \A k \in Lease : /\ attempt'[k].task = attempt[k].task
                            /\ attempt'[k].phase = "free" <=> attempt[k].phase = "free"
    BY <1>15 DEF Acknowledge, AttemptRecord
  <2>4. UNCHANGED <<reserved, beat, worker, faults, reminders, heard>>
    BY <1>15 DEF Acknowledge
  <2>5. RecordsBound'
    BY <2>3, <2>4
  <2>6. QED
    BY <2>2, <2>3, <2>4, <2>5 DEF RowRecord, AttemptRecord
<1>16. ASSUME NEW l \in Lease, Release(l) PROVE Typed'
  <2>1. PICK t \in Task : t = attempt[l].task
    BY <1>16 DEF Release
  <2>2. row' \in [Task -> RowRecord]
    BY <1>16, <2>1 DEF Release, RowRecord
  <2>3. /\ attempt' \in [Lease -> AttemptRecord]
        /\ \A k \in Lease : /\ attempt'[k].task = attempt[k].task
                            /\ attempt'[k].phase = "free" <=> attempt[k].phase = "free"
    BY <1>16 DEF Release, AttemptRecord
  <2>4. UNCHANGED <<reserved, beat, worker, faults, reminders, heard, acks>>
    BY <1>16 DEF Release
  <2>5. RecordsBound'
    BY <2>3, <2>4
  <2>6. QED
    BY <2>2, <2>3, <2>4, <2>5 DEF RowRecord, AttemptRecord
<1>17. CASE Tick
  <2>1. row' \in [Task -> RowRecord]
    <3>1. ASSUME NEW t \in Task
          PROVE  [row[t] EXCEPT !.left = IF @ > 0 THEN @ - 1 ELSE 0] \in RowRecord
      <4>1. row[t] \in RowRecord
        BY DEF RowRecord
      <4>2. (IF row[t].left > 0 THEN row[t].left - 1 ELSE 0) \in 0 .. TTL
        BY <4>1 DEF RowRecord
      <4>3. QED
        BY <4>1, <4>2 DEF RowRecord
    <3>2. QED
      BY <1>17, <3>1 DEF Tick
  <2>2. /\ beat' \in [Lease -> BeatRecord]
        /\ \A l \in Lease : beat'[l].on => beat[l].on
    BY <1>17 DEF Tick, BeatRecord
  <2>3. UNCHANGED <<reserved, attempt, worker, faults, reminders, heard, acks>>
    BY <1>17 DEF Tick
  <2>4. QED
    BY <2>1, <2>2, <2>3 DEF RowRecord, BeatRecord
<1>18. CASE Restart
  BY <1>18 DEF Restart
<1>19. CASE UNCHANGED vars
  BY <1>19 DEF vars
<1> HIDE DEF Typed, TypeOK, RecordsBound, RowState, AttemptPhase, WorkerPc, NewRow,
             Undriven, Fault
<1>20. QED
  BY <1>1, <1>2, <1>3, <1>4, <1>5, <1>6, <1>7, <1>8, <1>9, <1>10, <1>11, <1>12,
     <1>13, <1>14, <1>15, <1>16, <1>17, <1>18, <1>19 DEF Next, AttemptStep

\* Every variable keeps its type along every behaviour, and no worker or
\* attempt acts without a settlement.
THEOREM OutboxTyped == Spec => []Typed
<1>1. Init => Typed
  BY InitTyped
<1>2. Typed /\ [Next]_vars => Typed'
  BY NextTyped
<1>3. QED
  BY <1>1, <1>2, PTL DEF Spec

-------------------------------------------------------------------------------
(* One reminder, one row, one delivery.                                    *)

\* The reservation, the reminder and the row of a settlement appear together,
\* and a worker that has appended finds them.
ReservedExact ==
    /\ \A t \in Task : reminders[t] = IF t \in reserved THEN 1 ELSE 0
    /\ \A t \in Task : t \in reserved <=> row[t].state # "absent"
    /\ \A w \in Worker : worker[w].pc = "appended" => worker[w].task \in reserved

\* An attempt works for a settlement that is on record, and one that may
\* acknowledge has been heard.
AttemptOwed ==
    \A l \in Lease :
        /\ attempt[l].phase # "free" => row[attempt[l].task].state # "absent"
        /\ attempt[l].phase = "ok" => attempt[l].task \in heard

Recorded == ReservedExact /\ AttemptOwed /\ DeliveredHeard

\* Nothing is on record initially.
LEMMA InitRecorded == Init => Recorded
BY DEF Init, Recorded, ReservedExact, AttemptOwed, DeliveredHeard, NewRow

\* Claiming re-leases rows that are on record and not delivered.
LEMMA ClaimRecorded ==
    ASSUME Typed, Recorded, NEW S \in SUBSET Task, \A t \in S : Claimable(t),
           Claim(S), UNCHANGED <<reserved, reminders, heard, acks>>,
           \A w \in Worker : worker'[w].pc = "appended" => worker'[w] = worker[w]
    PROVE  Recorded'
<1>1. PICK id : Claimed(S, id)
  BY ClaimMakes DEF Typed
<1>2. \A t \in Task : /\ row'[t].state = "absent" <=> row[t].state = "absent"
                      /\ row'[t].state = "delivered" <=> row[t].state = "delivered"
  <2>1. \A t \in S : row'[t] = [state |-> "leased", lease |-> id[t], left |-> TTL]
    BY <1>1 DEF Claimed
  <2>2. ASSUME NEW t \in S PROVE row'[t].state = "leased"
    <3>1. row'[t] = [state |-> "leased", lease |-> id[t], left |-> TTL]
      BY <2>1
    <3>2. QED
      BY <3>1
  <2>3. \A t \in Task \ S : row'[t] = row[t]
    BY <1>1 DEF Claimed
  <2>4. QED
    BY <2>2, <2>3 DEF Claimable
<1>3. ReservedExact'
  BY <1>2 DEF Recorded, ReservedExact
<1>4. DeliveredHeard'
  BY <1>2 DEF Recorded, DeliveredHeard
<1>5. ASSUME NEW l \in Lease
      PROVE  /\ attempt'[l].phase # "free" => row'[attempt'[l].task].state # "absent"
             /\ attempt'[l].phase = "ok" => attempt'[l].task \in heard'
  <2>1. CASE \E t \in S : id[t] = l
    <3>1. PICK t \in S : id[t] = l
      BY <2>1
    <3>2. attempt'[l] = [phase |-> "queued", task |-> t]
      BY <1>1, <3>1 DEF Claimed
    <3>3. row'[t].state # "absent"
      BY <1>2 DEF Recorded, Claimable
    <3>4. QED
      BY <3>2, <3>3
  <2>2. CASE \A t \in S : id[t] # l
    <3>1. attempt'[l] = attempt[l]
      BY <1>1, <2>2 DEF Claimed
    <3>2. QED
      BY <1>2, <3>1 DEF Recorded, AttemptOwed, Typed, RecordsBound
  <2>3. QED
    BY <2>1, <2>2
<1>6. QED
  BY <1>3, <1>4, <1>5 DEF Recorded, AttemptOwed

\* Every step keeps the records in agreement.
LEMMA NextRecorded == Typed /\ Recorded /\ [Next]_vars => Recorded'
<1> SUFFICES ASSUME Typed, Recorded, [Next]_vars PROVE Recorded'
  OBVIOUS
<1> USE DEF Recorded, ReservedExact, AttemptOwed, DeliveredHeard,
            Typed, TypeOK, RecordsBound, RowState, AttemptPhase, WorkerPc, NewRow,
            Fault
<1>1. ASSUME NEW w \in Worker, NEW t \in Task, AppendFast(w, t) PROVE Recorded'
  BY <1>1 DEF AppendFast, EnsureRow
<1>2. ASSUME NEW w \in Worker, NEW t \in Task, AppendBegin(w, t) PROVE Recorded'
  BY <1>2 DEF AppendBegin
<1>3. ASSUME NEW w \in Worker, AppendCommit(w) PROVE Recorded'
  BY <1>3 DEF AppendCommit, EnsureRow
<1>4. ASSUME NEW w \in Worker, AppendFails(w) PROVE Recorded'
  BY <1>4 DEF AppendFails
<1>5. ASSUME NEW w \in Worker, ClaimOwn(w) PROVE Recorded'
  <2>0. PICK t \in Task : t = worker[w].task
    BY <1>5 DEF ClaimOwn
  <2>1. /\ \A v \in Worker : worker'[v].pc = "appended" => worker'[v] = worker[v]
        /\ UNCHANGED <<reserved, faults, reminders, heard, acks>>
    BY <1>5 DEF ClaimOwn
  <2>2. CASE Claimable(t) /\ Claim({t})
    BY <2>1, <2>2, ClaimRecorded
  <2>3. CASE UNCHANGED <<row, attempt, beat>>
    BY <2>1, <2>3
  <2>4. QED
    BY <1>5, <2>0, <2>2, <2>3 DEF ClaimOwn
<1>6. ASSUME NEW w \in Worker, ClaimOwnFails(w) PROVE Recorded'
  BY <1>6 DEF ClaimOwnFails
<1>7. CASE Reconcile
  BY <1>7, ClaimRecorded DEF Reconcile
<1>8. ASSUME NEW l \in Lease, Renew(l) PROVE Recorded'
  <2>1. PICK t \in Task : t = attempt[l].task
    BY <1>8 DEF Renew
  <2>2. \A u \in Task : row'[u].state = row[u].state
    <3>1. row' = [row EXCEPT ![t].left = TTL] \/ row' = row
      BY <1>8, <2>1, Zenon DEF Renew
    <3>2. row \in [Task -> RowRecord]
      BY DEF RowRecord
    <3>3. QED
      BY ONLY <3>1, <3>2, RowRenewed
  <2>3. UNCHANGED <<reserved, attempt, worker, faults, reminders, heard, acks>>
    BY <1>8 DEF Renew
  <2>4. QED
    BY <2>2, <2>3
<1>9. ASSUME NEW l \in Lease, RenewFails(l) PROVE Recorded'
  BY <1>9 DEF RenewFails
<1>10. ASSUME NEW l \in Lease, BeatStops(l) PROVE Recorded'
  BY <1>10 DEF BeatStops
<1>11. ASSUME NEW l \in Lease, Drive(l) PROVE Recorded'
  BY <1>11 DEF Drive
<1>12. ASSUME NEW l \in Lease, DriveOk(l) PROVE Recorded'
  BY <1>12 DEF DriveOk
<1>13. ASSUME NEW l \in Lease, DriveErr(l) PROVE Recorded'
  BY <1>13 DEF DriveErr
<1>14. ASSUME NEW l \in Lease, Abandon(l) PROVE Recorded'
  BY <1>14 DEF Abandon
<1>15. ASSUME NEW l \in Lease, Acknowledge(l) PROVE Recorded'
  <2>1. PICK t \in Task : t = attempt[l].task
    BY <1>15 DEF Acknowledge
  <2>2. /\ \A k \in Lease : attempt'[k].task = attempt[k].task
        /\ \A k \in Lease : attempt'[k].phase = "ok" => attempt[k].phase = "ok"
        /\ \A k \in Lease : attempt'[k].phase # "free" => attempt[k].phase # "free"
    BY <1>15 DEF Acknowledge
  <2>3. UNCHANGED <<reserved, beat, worker, faults, reminders, heard>>
    BY <1>15 DEF Acknowledge
  <2>4. CASE Holds(l, t)
    <3>1. /\ row' = [row EXCEPT ![t] =
                       [state |-> "delivered", lease |-> NoLease, left |-> 0]]
          /\ acks' = [acks EXCEPT ![t] = @ + 1]
      BY <1>15, <2>1, <2>4 DEF Acknowledge
    <3>2. /\ row[t].state = "leased" /\ row'[t].state = "delivered"
          /\ \A u \in Task : u # t => row'[u].state = row[u].state
      BY <2>4, <3>1 DEF Holds
    <3>a. \A u \in Task : row'[u].state = "absent" <=> row[u].state = "absent"
      BY <3>2
    <3>3. ReservedExact' /\ AttemptOwed'
      BY <2>2, <2>3, <3>a
    <3>4. t \in heard
      BY <1>15, <2>1 DEF Acknowledge
    <3>5. /\ acks[t] = 0 /\ acks'[t] = 1
          /\ \A u \in Task : u # t => acks'[u] = acks[u]
      <4>1. acks[t] \in Nat /\ acks[t] <= 1 /\ acks[t] # 1
        BY <3>2
      <4>2. acks[t] = 0
        BY ONLY <4>1
      <4>3. QED
        BY <3>1, <4>2
    <3>6. DeliveredHeard'
      BY <2>3, <3>2, <3>4, <3>5
    <3>7. QED
      BY <3>3, <3>6
  <2>5. CASE ~Holds(l, t)
    <3>1. row' = row /\ acks' = acks
      BY <1>15, <2>1, <2>5 DEF Acknowledge
    <3>2. QED
      BY <2>2, <2>3, <3>1
  <2>6. QED
    BY <2>4, <2>5
<1>16. ASSUME NEW l \in Lease, Release(l) PROVE Recorded'
  BY <1>16 DEF Release, Holds
<1>17. CASE Tick
  BY <1>17 DEF Tick
<1>18. CASE Restart
  BY <1>18 DEF Restart
<1>19. CASE UNCHANGED vars
  BY <1>19 DEF vars
<1> HIDE DEF Recorded, Typed, TypeOK, RecordsBound, RowState, AttemptPhase, WorkerPc,
             NewRow, Fault
<1>20. QED
  BY <1>1, <1>2, <1>3, <1>4, <1>5, <1>6, <1>7, <1>8, <1>9, <1>10, <1>11, <1>12,
     <1>13, <1>14, <1>15, <1>16, <1>17, <1>18, <1>19 DEF Next, AttemptStep

\* Concurrent workers, retries and restarts record one reminder together with
\* its outbox row, and a settlement is marked delivered once, after a parent
\* turn woken for it succeeded (append_background_task_settled,
\* acknowledge_background_task_settlement).
THEOREM OutboxSettlesOnce == Spec => []SettledOnce
<1>1. Init => Typed /\ Recorded
  BY InitTyped, InitRecorded
<1>2. Typed /\ Recorded /\ [Next]_vars => (Typed /\ Recorded)'
  BY NextTyped, NextRecorded
<1>3. Typed /\ Recorded => SettledOnce
  BY DEF Typed, Recorded, ReservedExact, SettledOnce, ReminderWithRow
<1>4. QED
  BY <1>1, <1>2, <1>3, PTL DEF Spec

-------------------------------------------------------------------------------
(* Leases exclude.                                                         *)

\* An attempt whose id a row still names was claimed for that row.
LeaseOwn ==
    \A l \in Lease, t \in Task :
        Holds(l, t) /\ attempt[l].phase # "free" => attempt[l].task = t

\* A turn that is waiting or running under a heartbeat holds its row, and what
\* is left of the lease makes up for the time since the last renewal: the row
\* cannot expire before the next beat is due.
BeatHolds ==
    \A l \in Lease :
        attempt[l].phase \in Undriven /\ beat[l].on
        => /\ Holds(l, attempt[l].task)
           /\ row[attempt[l].task].left + beat[l].since >= TTL

Leasing == LeaseUnique /\ LeaseOwn /\ BeatHolds

\* No row is leased initially.
LEMMA InitLeasing == Init => Leasing
BY DEF Init, Leasing, LeaseUnique, LeaseOwn, BeatHolds, Holds, NewRow, Undriven

\* A step that changes no lease and gives no attempt a phase that needs one
\* keeps the leases apart: appending, driving and closing an attempt.
LEMMA RowsKept ==
    ASSUME Typed, Leasing,
           \A t \in Task : \/ row'[t] = row[t]
                           \/ /\ row[t].state # "leased"
                              /\ row'[t].state # "leased" /\ row'[t].lease = NoLease,
           \A l \in Lease : /\ attempt'[l].phase # "free"
                               => attempt'[l].task = attempt[l].task
                            /\ attempt'[l].phase # "free" => attempt[l].phase # "free"
                            /\ attempt'[l].phase \in Undriven
                               => attempt[l].phase \in Undriven,
           \A l \in Lease : beat'[l].on => beat'[l] = beat[l]
    PROVE  Leasing'
<1>1. \A t \in Task : /\ row'[t].state = "leased" <=> row[t].state = "leased"
                      /\ row'[t].lease = row[t].lease
                      /\ row[t].state = "leased" => row'[t].left = row[t].left
  BY DEF Leasing, LeaseUnique
<1>2. LeaseUnique'
  BY <1>1 DEF Leasing, LeaseUnique
<1>3. LeaseOwn'
  BY <1>1 DEF Leasing, LeaseOwn, Holds
<1>4. BeatHolds'
  <2>1. SUFFICES ASSUME NEW l \in Lease, attempt'[l].phase \in Undriven, beat'[l].on
                 PROVE  /\ Holds(l, attempt[l].task)'
                        /\ row'[attempt'[l].task].left + beat'[l].since >= TTL
    BY DEF BeatHolds, Holds
  <2>2. /\ attempt[l].phase \in Undriven /\ beat'[l] = beat[l]
        /\ attempt'[l].task = attempt[l].task /\ attempt[l].task \in Task
    BY <2>1 DEF Undriven, Typed, RecordsBound
  <2>3. Holds(l, attempt[l].task) /\ row[attempt[l].task].left + beat[l].since >= TTL
    BY <2>1, <2>2 DEF Leasing, BeatHolds
  <2>4. QED
    BY <1>1, <2>2, <2>3 DEF Holds
<1>5. QED
  BY <1>2, <1>3, <1>4 DEF Leasing

\* Claiming takes only rows that no beating attempt holds, under ids that no
\* other row names (claim_background_task_settlements).
LEMMA ClaimLeasing ==
    ASSUME Typed, Leasing, NEW S \in SUBSET Task, \A t \in S : Claimable(t),
           Claim(S)
    PROVE  Leasing'
<1>1. PICK id : Claimed(S, id)
  BY ClaimMakes DEF Typed
<1>2. ASSUME NEW t \in S
      PROVE  /\ id[t] \in Lease /\ row'[t].state = "leased"
             /\ row'[t].lease = id[t] /\ row'[t].left = TTL
  <2>1. row'[t] = [state |-> "leased", lease |-> id[t], left |-> TTL]
    BY <1>1 DEF Claimed
  <2>2. QED
    BY <1>1, <2>1 DEF Claimed
<1>3. \A u \in Task \ S : row'[u] = row[u] /\ \A t \in S : row[u].lease # id[t]
  BY <1>1 DEF Claimed
<1>4. \A t, u \in S : id[t] = id[u] => t = u
  BY <1>1 DEF Claimed
<1>5. ASSUME NEW t \in S
      PROVE  /\ attempt'[id[t]].phase = "queued" /\ attempt'[id[t]].task = t
             /\ beat'[id[t]].since = 0
  <2>1. /\ attempt'[id[t]] = [phase |-> "queued", task |-> t]
        /\ beat'[id[t]] = [on |-> TRUE, since |-> 0]
    BY <1>1 DEF Claimed
  <2>2. QED
    BY <2>1
<1>6. \A l \in Lease : (\A t \in S : id[t] # l)
                       => attempt'[l] = attempt[l] /\ beat'[l] = beat[l]
  BY <1>1 DEF Claimed
<1>7. LeaseUnique'
  BY <1>2, <1>3, <1>4 DEF Leasing, LeaseUnique
<1>8. ASSUME NEW l \in Lease, NEW t \in Task, Holds(l, t)',
             attempt'[l].phase # "free"
      PROVE  attempt'[l].task = t
  <2>1. CASE t \in S
    BY <1>2, <1>5, <1>8, <2>1 DEF Holds
  <2>2. CASE t \notin S
    <3>1. Holds(l, t) /\ \A u \in S : id[u] # l
      BY <1>3, <1>8, <2>2 DEF Holds
    <3>2. QED
      BY <1>6, <1>8, <3>1 DEF Leasing, LeaseOwn
  <2>3. QED
    BY <2>1, <2>2
<1>9. ASSUME NEW l \in Lease, attempt'[l].phase \in Undriven, beat'[l].on
      PROVE  /\ Holds(l, attempt[l].task)'
             /\ row'[attempt'[l].task].left + beat'[l].since >= TTL
  <2>1. CASE \E t \in S : id[t] = l
    BY <1>2, <1>5, <2>1 DEF Holds
  <2>2. CASE \A t \in S : id[t] # l
    <3>1. attempt'[l] = attempt[l] /\ beat'[l] = beat[l]
      BY <1>6, <2>2
    <3>2. /\ attempt[l].task \in Task /\ Holds(l, attempt[l].task)
          /\ row[attempt[l].task].left + beat[l].since >= TTL
      BY <1>9, <3>1 DEF Leasing, BeatHolds, Undriven, Typed, RecordsBound
    <3>3. row[attempt[l].task].left > 0
      BY <3>2 DEF Typed, TypeOK
    <3>4. attempt[l].task \notin S
      BY <3>2, <3>3 DEF Claimable, Holds
    <3>5. QED
      BY <1>3, <3>1, <3>2, <3>4 DEF Holds
  <2>3. QED
    BY <2>1, <2>2
<1>10. QED
  BY <1>7, <1>8, <1>9 DEF Leasing, LeaseOwn, BeatHolds

\* Every step keeps the leases apart.
LEMMA NextLeasing == Typed /\ Leasing /\ [Next]_vars => Leasing'
<1> SUFFICES ASSUME Typed, Leasing, [Next]_vars PROVE Leasing'
  OBVIOUS
<1>0. /\ row \in [Task -> RowRecord]
      /\ attempt \in [Lease -> AttemptRecord]
      /\ beat \in [Lease -> BeatRecord]
  BY DEF Typed, TypeOK, RowRecord, AttemptRecord, BeatRecord
<1>a. ASSUME NEW t \in Task, EnsureRow(t)
      PROVE  \A u \in Task : \/ row'[u] = row[u]
                             \/ /\ row[u].state # "leased"
                                /\ row'[u].state # "leased" /\ row'[u].lease = NoLease
  BY <1>0, <1>a DEF EnsureRow, NewRow, RowRecord
<1>1. ASSUME NEW w \in Worker, NEW t \in Task, AppendFast(w, t) PROVE Leasing'
  BY <1>1, <1>a, RowsKept DEF AppendFast
<1>2. ASSUME NEW w \in Worker, NEW t \in Task, AppendBegin(w, t) PROVE Leasing'
  BY <1>2, RowsKept DEF AppendBegin
<1>3. ASSUME NEW w \in Worker, AppendCommit(w) PROVE Leasing'
  <2>1. worker[w].task \in Task
    BY <1>3 DEF AppendCommit, Typed, RecordsBound
  <2>2. EnsureRow(worker[w].task) /\ attempt' = attempt /\ beat' = beat
    BY <1>3 DEF AppendCommit
  <2>3. QED
    BY <1>a, <2>1, <2>2, RowsKept
<1>4. ASSUME NEW w \in Worker, AppendFails(w) PROVE Leasing'
  BY <1>4, RowsKept DEF AppendFails
<1>5. ASSUME NEW w \in Worker, ClaimOwn(w) PROVE Leasing'
  <2>1. PICK t \in Task : t = worker[w].task
    BY <1>5 DEF ClaimOwn, Typed, RecordsBound
  <2>2. CASE Claimable(t) /\ Claim({t})
    BY <2>2, ClaimLeasing
  <2>3. CASE UNCHANGED <<row, attempt, beat>>
    BY <2>3, RowsKept
  <2>4. QED
    BY <1>5, <2>1, <2>2, <2>3 DEF ClaimOwn
<1>6. ASSUME NEW w \in Worker, ClaimOwnFails(w) PROVE Leasing'
  BY <1>6, RowsKept DEF ClaimOwnFails
<1>7. CASE Reconcile
  BY <1>7, ClaimLeasing DEF Reconcile
<1>8. ASSUME NEW l \in Lease, Renew(l) PROVE Leasing'
  <2>1. PICK t \in Task : t = attempt[l].task
    BY <1>8 DEF Renew, Typed, RecordsBound
  <2>2. attempt' = attempt
    BY <1>8 DEF Renew
  <2>3. CASE Holds(l, t)
    <3>1. row' = [row EXCEPT ![t].left = TTL] /\ beat' = [beat EXCEPT ![l].since = 0]
      BY <1>8, <2>1, <2>3, Zenon DEF Renew
    <3>2. /\ row'[t].left = TTL
          /\ \A u \in Task : row'[u].state = row[u].state /\ row'[u].lease = row[u].lease
          /\ \A u \in Task : u # t => row'[u].left = row[u].left
      BY ONLY <1>0, <3>1, RowRenewed
    <3>3. /\ \A k \in Lease : beat'[k].on = beat[k].on
          /\ beat'[l].since = 0
          /\ \A k \in Lease : k # l => beat'[k].since = beat[k].since
      BY ONLY <1>0, <3>1, BeatRenewed
    <3>4. LeaseUnique' /\ LeaseOwn'
      BY <2>2, <3>2 DEF Leasing, LeaseUnique, LeaseOwn, Holds
    <3>5. ASSUME NEW k \in Lease, attempt[k].phase \in Undriven, beat[k].on
          PROVE  /\ Holds(k, attempt[k].task)'
                 /\ row'[attempt[k].task].left + beat'[k].since >= TTL
      <4>1. /\ attempt[k].task \in Task /\ Holds(k, attempt[k].task)
            /\ row[attempt[k].task].left + beat[k].since >= TTL
        BY <3>5 DEF Leasing, BeatHolds, Undriven, Typed, RecordsBound
      <4>2. Holds(k, attempt[k].task)'
        BY <2>2, <3>2, <4>1 DEF Holds
      <4>3. CASE k = l
        BY <2>1, <3>2, <3>3, <4>2, <4>3
      <4>4. CASE k # l
        <5>1. attempt[k].task # t
          BY <2>3, <4>1, <4>4 DEF Holds
        <5>2. QED
          BY <3>2, <3>3, <4>1, <4>2, <4>4, <5>1
      <4>5. QED
        BY <4>3, <4>4
    <3>6. QED
      BY <2>2, <3>3, <3>4, <3>5 DEF Leasing, BeatHolds
  <2>4. CASE ~Holds(l, t)
    <3>1. row' = row /\ beat' = [beat EXCEPT ![l] = [on |-> FALSE, since |-> 0]]
      BY <1>8, <2>1, <2>4 DEF Renew
    <3>2. \A k \in Lease : beat'[k].on => beat'[k] = beat[k]
      BY <1>0, <3>1 DEF BeatRecord
    <3>3. QED
      BY <2>2, <3>1, <3>2, RowsKept
  <2>5. QED
    BY <2>3, <2>4
<1>9. ASSUME NEW l \in Lease, RenewFails(l) PROVE Leasing'
  <2>1. \A k \in Lease : beat'[k].on => beat'[k] = beat[k]
    BY <1>0, <1>9 DEF RenewFails, BeatRecord
  <2>2. QED
    BY <1>9, <2>1, RowsKept DEF RenewFails
<1>10. ASSUME NEW l \in Lease, BeatStops(l) PROVE Leasing'
  <2>1. \A k \in Lease : beat'[k].on => beat'[k] = beat[k]
    BY <1>0, <1>10 DEF BeatStops, BeatRecord
  <2>2. \A k \in Lease : /\ attempt'[k].phase # "free" => attempt'[k] = attempt[k]
                         /\ attempt'[k].phase \in Undriven => attempt'[k] = attempt[k]
    BY <1>0, <1>10 DEF BeatStops, AttemptRecord, Undriven
  <2>3. row' = row
    BY <1>10 DEF BeatStops
  <2>4. QED
    BY <2>1, <2>2, <2>3, RowsKept
<1>b. ASSUME NEW l \in Lease, NEW p \in AttemptPhase, attempt[l].phase # "free",
             p \in Undriven => attempt[l].phase \in Undriven,
             attempt' = [attempt EXCEPT ![l].phase = p]
      PROVE  \A k \in Lease : /\ attempt'[k].phase # "free"
                                 => attempt'[k].task = attempt[k].task
                              /\ attempt'[k].phase # "free" => attempt[k].phase # "free"
                              /\ attempt'[k].phase \in Undriven
                                 => attempt[k].phase \in Undriven
  <2>1. /\ attempt'[l].phase = p
        /\ \A k \in Lease : attempt'[k].task = attempt[k].task
        /\ \A k \in Lease : k # l => attempt'[k].phase = attempt[k].phase
    BY ONLY <1>0, <1>b, PhaseMoves
  <2>2. QED
    BY <1>b, <2>1
<1>11. ASSUME NEW l \in Lease, Drive(l) PROVE Leasing'
  BY <1>11, <1>b, RowsKept DEF Drive, AttemptPhase, Undriven
<1>12. ASSUME NEW l \in Lease, DriveOk(l) PROVE Leasing'
  BY <1>12, <1>b, RowsKept DEF DriveOk, AttemptPhase, Undriven
<1>13. ASSUME NEW l \in Lease, DriveErr(l) PROVE Leasing'
  BY <1>13, <1>b, RowsKept DEF DriveErr, AttemptPhase, Undriven
<1>14. ASSUME NEW l \in Lease, Abandon(l) PROVE Leasing'
  BY <1>14, <1>b, RowsKept DEF Abandon, AttemptPhase, Undriven
<1>c. ASSUME NEW l \in Lease, attempt[l].phase \in {"ok", "err"}, beat' = beat,
             attempt' = [attempt EXCEPT ![l].phase = "closed"],
             NEW r, row' = [row EXCEPT ![attempt[l].task] = r],
             Holds(l, attempt[l].task), r.state # "leased", r.lease = NoLease
      PROVE  Leasing'
  <2>1. PICK t \in Task : t = attempt[l].task
    BY <1>c DEF Typed, RecordsBound
  <2>2. \A u \in Task : row'[u] = IF u = t THEN r ELSE row[u]
    BY <1>0, <1>c, <2>1
  <2>3. LeaseUnique'
    BY <1>c, <2>2 DEF Leasing, LeaseUnique
  <2>4. \A k \in Lease : /\ attempt'[k].task = attempt[k].task
                         /\ attempt'[k].phase = "free" <=> attempt[k].phase = "free"
                         /\ attempt'[k].phase \in Undriven
                            => attempt[k].phase \in Undriven /\ k # l
    BY <1>0, <1>c DEF AttemptRecord, Undriven
  <2>5. LeaseOwn'
    BY <1>c, <2>2, <2>4 DEF Leasing, LeaseOwn, Holds
  <2>6. ASSUME NEW k \in Lease, attempt'[k].phase \in Undriven, beat'[k].on
        PROVE  /\ Holds(k, attempt[k].task)'
               /\ row'[attempt'[k].task].left + beat'[k].since >= TTL
    <3>1. /\ attempt[k].task \in Task /\ Holds(k, attempt[k].task)
          /\ row[attempt[k].task].left + beat[k].since >= TTL
      BY <1>c, <2>4, <2>6 DEF Leasing, BeatHolds, Undriven, Typed, RecordsBound
    <3>2. attempt[k].task # t
      BY <1>c, <2>1, <2>4, <2>6, <3>1 DEF Holds
    <3>3. QED
      BY <1>c, <2>2, <2>4, <3>1, <3>2 DEF Holds
  <2>7. QED
    BY <2>3, <2>5, <2>6 DEF Leasing, BeatHolds
<1>15. ASSUME NEW l \in Lease, Acknowledge(l) PROVE Leasing'
  <2>1. CASE Holds(l, attempt[l].task)
    <3>1. PICK r : r = [state |-> "delivered", lease |-> NoLease, left |-> 0]
      OBVIOUS
    <3>2. r.state # "leased" /\ r.lease = NoLease
      BY <3>1
    <3>3. /\ row' = [row EXCEPT ![attempt[l].task] = r]
          /\ attempt[l].phase = "ok" /\ beat' = beat
          /\ attempt' = [attempt EXCEPT ![l].phase = "closed"]
      BY <1>15, <2>1, <3>1, Zenon DEF Acknowledge
    <3>4. QED
      BY <1>c, <2>1, <3>2, <3>3
  <2>2. CASE ~Holds(l, attempt[l].task)
    BY <1>15, <1>b, <2>2, RowsKept DEF Acknowledge, AttemptPhase, Undriven
  <2>3. QED
    BY <2>1, <2>2
<1>16. ASSUME NEW l \in Lease, Release(l) PROVE Leasing'
  <2>1. CASE Holds(l, attempt[l].task)
    <3>1. PICK r : r = NewRow
      OBVIOUS
    <3>2. r.state # "leased" /\ r.lease = NoLease
      BY <3>1 DEF NewRow
    <3>3. /\ row' = [row EXCEPT ![attempt[l].task] = r]
          /\ attempt[l].phase = "err" /\ beat' = beat
          /\ attempt' = [attempt EXCEPT ![l].phase = "closed"]
      BY <1>16, <2>1, <3>1, Zenon DEF Release
    <3>4. QED
      BY <1>c, <2>1, <3>2, <3>3
  <2>2. CASE ~Holds(l, attempt[l].task)
    BY <1>16, <1>b, <2>2, RowsKept DEF Release, AttemptPhase, Undriven
  <2>3. QED
    BY <2>1, <2>2
<1>17. CASE Tick
  <2>1. \A t \in Task : /\ row'[t].state = row[t].state /\ row'[t].lease = row[t].lease
                        /\ row'[t].left = IF row[t].left > 0 THEN row[t].left - 1 ELSE 0
    BY <1>0, <1>17 DEF Tick, RowRecord
  <2>2. \A l \in Lease : beat'[l].on => /\ beat[l].on
                                        /\ beat'[l].since = beat[l].since + 1
    BY <1>0, <1>17 DEF Tick, BeatRecord
  <2>3. attempt' = attempt
    BY <1>17 DEF Tick
  <2>4. LeaseUnique' /\ LeaseOwn'
    BY <2>1, <2>3 DEF Leasing, LeaseUnique, LeaseOwn, Holds
  <2>5. ASSUME NEW l \in Lease, attempt[l].phase \in Undriven, beat'[l].on
        PROVE  /\ Holds(l, attempt[l].task)'
               /\ row'[attempt[l].task].left + beat'[l].since >= TTL
    <3>1. /\ attempt[l].task \in Task /\ Holds(l, attempt[l].task)
          /\ row[attempt[l].task].left + beat[l].since >= TTL
      BY <2>2, <2>5 DEF Leasing, BeatHolds, Undriven, Typed, RecordsBound
    <3>2. row[attempt[l].task].left \in Nat /\ beat[l].since \in 0 .. BeatEvery
      BY <1>0, <3>1 DEF RowRecord, BeatRecord
    <3>3. QED
      BY <2>1, <2>2, <2>3, <2>5, <3>1, <3>2 DEF Holds
  <2>6. QED
    BY <2>3, <2>4, <2>5 DEF Leasing, BeatHolds
<1>18. CASE Restart
  <2>1. \A l \in Lease : attempt'[l].phase = "free" /\ ~beat'[l].on
    BY <1>18 DEF Restart
  <2>2. row' = row
    BY <1>18 DEF Restart
  <2>3. QED
    BY <2>1, <2>2, RowsKept DEF Undriven
<1>19. CASE UNCHANGED vars
  BY <1>19, RowsKept DEF vars
<1>20. QED
  BY <1>1, <1>2, <1>3, <1>4, <1>5, <1>6, <1>7, <1>8, <1>9, <1>10, <1>11, <1>12,
     <1>13, <1>14, <1>15, <1>16, <1>17, <1>18, <1>19 DEF Next, AttemptStep

\* A lease names one row, so an attempt can settle no row but its own, and two
\* turns for one settlement are never both waiting or running under a live
\* heartbeat, for every lease longer than the heartbeat interval
\* (claim_background_task_settlements, start_background_delivery_heartbeat).
THEOREM OutboxLeasesExclude == Spec => []LeaseExcludes
<1>1. Init => Typed /\ Leasing
  BY InitTyped, InitLeasing
<1>2. Typed /\ Leasing /\ [Next]_vars => (Typed /\ Leasing)'
  BY NextTyped, NextLeasing
<1>3. Typed /\ Leasing => LeaseExcludes
  BY DEF Leasing, BeatHolds, Holds, LeaseExcludes, OneBeatingAttempt
<1>4. QED
  BY <1>1, <1>2, <1>3, PTL DEF Spec

-------------------------------------------------------------------------------
(* The outbox implements Settlement.                                       *)

PromiseOf == [t \in Task |-> Promise(t)]

\* The initial rows promise nothing.
LEMMA InitImplements == Init => Abs!Init
<1> SUFFICES ASSUME Init PROVE Abs!Init
  OBVIOUS
<1>1. \A t \in Task : Promise(t) = "none"
  BY DEF Init, Promise, NewRow
<1>2. QED
  BY <1>1 DEF Init, Abs!Init

\* A step that makes no row appear and delivers none is invisible.
LEMMA PromiseKept ==
    ASSUME heard' = heard,
           \A t \in Task :
              /\ row'[t].state = "absent" <=> row[t].state = "absent"
              /\ row'[t].state = "delivered" <=> row[t].state = "delivered"
    PROVE  UNCHANGED Abs!vars
<1>1. \A t \in Task : Promise(t)' = Promise(t)
  BY DEF Promise
<1>2. [t \in Task |-> Promise(t)]' = [t \in Task |-> Promise(t)]
  BY <1>1
<1>3. QED
  BY <1>2 DEF Abs!vars

\* Claims are invisible: what was owed is owed still.
LEMMA ClaimImplements ==
    ASSUME Typed, NEW S \in SUBSET Task, \A t \in S : Claimable(t), Claim(S),
           heard' = heard
    PROVE  UNCHANGED Abs!vars
<1>1. PICK id : Claimed(S, id)
  BY ClaimMakes DEF Typed
<1>2. ASSUME NEW t \in S PROVE row'[t].state = "leased"
  <2>1. row'[t] = [state |-> "leased", lease |-> id[t], left |-> TTL]
    BY <1>1 DEF Claimed
  <2>2. QED
    BY <2>1
<1>3. \A t \in Task \ S : row'[t] = row[t]
  BY <1>1 DEF Claimed
<1>4. \A t \in Task : /\ row'[t].state = "absent" <=> row[t].state = "absent"
                      /\ row'[t].state = "delivered" <=> row[t].state = "delivered"
  BY <1>2, <1>3 DEF Claimable
<1>5. QED
  BY <1>4, PromiseKept

\* Every step of the outbox is a step of Settlement or invisible.
LEMMA NextImplements ==
    Typed /\ Recorded /\ [Next]_vars => [Abs!Next]_(Abs!vars)
<1> SUFFICES ASSUME Typed, Recorded, [Next]_vars PROVE [Abs!Next]_(Abs!vars)
  OBVIOUS
<1>0. row \in [Task -> RowRecord] /\ attempt \in [Lease -> AttemptRecord]
  BY DEF Typed, TypeOK, RowRecord, AttemptRecord
<1>1. ASSUME NEW w \in Worker, NEW t \in Task, AppendFast(w, t)
      PROVE UNCHANGED Abs!vars
  BY <1>1, PromiseKept DEF AppendFast, EnsureRow, Recorded, ReservedExact
<1>2. ASSUME NEW w \in Worker, NEW t \in Task, AppendBegin(w, t)
      PROVE UNCHANGED Abs!vars
  BY <1>2, PromiseKept DEF AppendBegin
<1>3. ASSUME NEW w \in Worker, AppendCommit(w) PROVE [Abs!Next]_(Abs!vars)
  <2>1. PICK t \in Task : t = worker[w].task
    BY <1>3 DEF AppendCommit, Typed, RecordsBound
  <2>2. EnsureRow(t) /\ heard' = heard
    BY <1>3, <2>1 DEF AppendCommit
  <2>3. CASE row[t].state = "absent"
    <3>1. row' = [row EXCEPT ![t] = NewRow]
      BY <2>2, <2>3 DEF EnsureRow
    <3>2. /\ row'[t].state = "pending"
          /\ \A u \in Task : u # t => row'[u] = row[u]
      BY <1>0, <3>1 DEF NewRow
    <3>3. /\ Promise(t) = "none" /\ Promise(t)' = "owed"
          /\ \A u \in Task : u # t => Promise(u)' = Promise(u)
      BY <2>3, <3>2 DEF Promise
    <3>4. PromiseOf' = [PromiseOf EXCEPT ![t] = "owed"] /\ PromiseOf[t] = "none"
      BY <3>3 DEF PromiseOf
    <3>5. Abs!Owe(t)
      BY <2>2, <3>4 DEF Abs!Owe, PromiseOf
    <3>6. QED
      BY <3>5 DEF Abs!Next
  <2>4. CASE row[t].state # "absent"
    BY <2>2, <2>4, PromiseKept DEF EnsureRow
  <2>5. QED
    BY <2>3, <2>4
<1>4. ASSUME NEW w \in Worker, AppendFails(w) PROVE UNCHANGED Abs!vars
  BY <1>4, PromiseKept DEF AppendFails
<1>5. ASSUME NEW w \in Worker, ClaimOwn(w) PROVE UNCHANGED Abs!vars
  <2>1. PICK t \in Task : t = worker[w].task
    BY <1>5 DEF ClaimOwn, Typed, RecordsBound
  <2>2. heard' = heard
    BY <1>5 DEF ClaimOwn
  <2>3. CASE Claimable(t) /\ Claim({t})
    BY <2>2, <2>3, ClaimImplements
  <2>4. CASE row' = row
    BY <2>2, <2>4, PromiseKept
  <2>5. QED
    BY <1>5, <2>1, <2>3, <2>4 DEF ClaimOwn
<1>6. ASSUME NEW w \in Worker, ClaimOwnFails(w) PROVE UNCHANGED Abs!vars
  BY <1>6, PromiseKept DEF ClaimOwnFails
<1>7. ASSUME Reconcile PROVE UNCHANGED Abs!vars
  BY <1>7, ClaimImplements DEF Reconcile
<1>8. ASSUME NEW l \in Lease, Renew(l) PROVE UNCHANGED Abs!vars
  <2>1. PICK t \in Task : t = attempt[l].task
    BY <1>8 DEF Renew, Typed, RecordsBound
  <2>2. row' = [row EXCEPT ![t].left = TTL] \/ row' = row
    BY <1>8, <2>1, Zenon DEF Renew
  <2>3. \A u \in Task : row'[u].state = row[u].state
    BY ONLY <1>0, <2>2, RowRenewed
  <2>4. heard' = heard
    BY <1>8 DEF Renew
  <2>5. QED
    BY <2>3, <2>4, PromiseKept
<1>9. ASSUME NEW l \in Lease, RenewFails(l) PROVE UNCHANGED Abs!vars
  BY <1>9, PromiseKept DEF RenewFails
<1>10. ASSUME NEW l \in Lease, BeatStops(l) PROVE UNCHANGED Abs!vars
  BY <1>10, PromiseKept DEF BeatStops
<1>11. ASSUME NEW l \in Lease, Drive(l) PROVE UNCHANGED Abs!vars
  BY <1>11, PromiseKept DEF Drive
<1>12. ASSUME NEW l \in Lease, DriveOk(l) PROVE [Abs!Next]_(Abs!vars)
  <2>1. PICK t \in Task : t = attempt[l].task
    BY <1>12 DEF DriveOk, Typed, RecordsBound
  <2>2. row' = row /\ heard' = heard \cup {t}
    BY <1>12, <2>1 DEF DriveOk
  <2>3. row[t].state # "absent"
    BY <1>12, <2>1 DEF DriveOk, Recorded, AttemptOwed
  <2>4. PromiseOf' = PromiseOf
    BY <2>2 DEF PromiseOf, Promise
  <2>5. PromiseOf[t] # "none"
    BY <2>3 DEF PromiseOf, Promise
  <2>6. Abs!Hear(t)
    BY <2>2, <2>4, <2>5 DEF Abs!Hear, PromiseOf
  <2>7. QED
    BY <2>6 DEF Abs!Next
<1>13. ASSUME NEW l \in Lease, DriveErr(l) PROVE UNCHANGED Abs!vars
  BY <1>13, PromiseKept DEF DriveErr
<1>14. ASSUME NEW l \in Lease, Abandon(l) PROVE UNCHANGED Abs!vars
  BY <1>14, PromiseKept DEF Abandon
<1>15. ASSUME NEW l \in Lease, Acknowledge(l) PROVE [Abs!Next]_(Abs!vars)
  <2>1. PICK t \in Task : t = attempt[l].task
    BY <1>15 DEF Acknowledge, Typed, RecordsBound
  <2>2. heard' = heard /\ t \in heard
    BY <1>15, <2>1 DEF Acknowledge, Recorded, AttemptOwed
  <2>3. CASE Holds(l, t)
    <3>1. row' = [row EXCEPT ![t] =
                    [state |-> "delivered", lease |-> NoLease, left |-> 0]]
      BY <1>15, <2>1, <2>3, Zenon DEF Acknowledge
    <3>2. /\ row[t].state = "leased" /\ row'[t].state = "delivered"
          /\ \A u \in Task : u # t => row'[u] = row[u]
      BY <1>0, <2>3, <3>1 DEF Holds
    <3>3. /\ Promise(t) = "owed" /\ Promise(t)' = "delivered"
          /\ \A u \in Task : u # t => Promise(u)' = Promise(u)
      BY <3>2 DEF Promise
    <3>4. PromiseOf' = [PromiseOf EXCEPT ![t] = "delivered"] /\ PromiseOf[t] = "owed"
      BY <3>3 DEF PromiseOf
    <3>5. Abs!Deliver(t)
      BY <2>2, <3>4 DEF Abs!Deliver, PromiseOf
    <3>6. QED
      BY <3>5 DEF Abs!Next
  <2>4. CASE ~Holds(l, t)
    <3>1. row' = row
      BY <1>15, <2>1, <2>4 DEF Acknowledge
    <3>2. QED
      BY <2>2, <3>1, PromiseKept
  <2>5. QED
    BY <2>3, <2>4
<1>16. ASSUME NEW l \in Lease, Release(l) PROVE UNCHANGED Abs!vars
  <2>1. PICK t \in Task : t = attempt[l].task
    BY <1>16 DEF Release, Typed, RecordsBound
  <2>2. heard' = heard /\ row' = IF Holds(l, t) THEN [row EXCEPT ![t] = NewRow] ELSE row
    BY <1>16, <2>1 DEF Release
  <2>3. \A u \in Task : /\ row'[u].state = "absent" <=> row[u].state = "absent"
                        /\ row'[u].state = "delivered" <=> row[u].state = "delivered"
    BY <1>0, <2>2 DEF Holds, NewRow
  <2>4. QED
    BY <2>2, <2>3, PromiseKept
<1>17. ASSUME Tick PROVE UNCHANGED Abs!vars
  <2>1. heard' = heard /\ \A t \in Task : row'[t].state = row[t].state
    BY <1>0, <1>17 DEF Tick, RowRecord
  <2>2. QED
    BY <2>1, PromiseKept
<1>18. ASSUME Restart PROVE UNCHANGED Abs!vars
  BY <1>18, PromiseKept DEF Restart
<1>19. ASSUME UNCHANGED vars PROVE UNCHANGED Abs!vars
  BY <1>19, PromiseKept DEF vars
<1>20. QED
  BY <1>1, <1>2, <1>3, <1>4, <1>5, <1>6, <1>7, <1>8, <1>9, <1>10, <1>11, <1>12,
     <1>13, <1>14, <1>15, <1>16, <1>17, <1>18, <1>19 DEF Next, AttemptStep

\* The outbox with its leases, clocks, workers and restarts implements the
\* abstract promise: what is recorded is owed until delivered, delivered only
\* after it was heard, and delivered is final.
THEOREM OutboxImplements == Spec => ImplementsSettlement
<1>1. Init => Typed /\ Recorded
  BY InitTyped, InitRecorded
<1>2. Typed /\ Recorded /\ [Next]_vars => (Typed /\ Recorded)'
  BY NextTyped, NextRecorded
<1>3. Init => Abs!Init
  BY InitImplements
<1>4. Typed /\ Recorded /\ [Next]_vars => [Abs!Next]_(Abs!vars)
  BY NextImplements
<1>5. QED
  BY <1>1, <1>2, <1>3, <1>4, PTL DEF Spec, ImplementsSettlement, Abs!Spec
=============================================================================

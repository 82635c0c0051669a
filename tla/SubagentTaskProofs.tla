-------------------------- MODULE SubagentTaskProofs --------------------------
(***************************************************************************)
(* Theorems about SubagentTask, for every set of tasks and continuations,  *)
(* every quota and cache size and any number of faults.                    *)
(***************************************************************************)
EXTENDS SubagentTask, SequenceTheorems, FiniteSetTheorems, TLAPS

USE SubagentAssumption DEF SubagentAssumption

TaskRecord   == [pc : Pc, delivery : Delivery, background : BOOLEAN,
                 status : TaskStatus, cancel : BOOLEAN, settled : BOOLEAN,
                 fell : BOOLEAN, final : TaskStatus, version : Nat]
RowRecord    == [status : RowStatus, version : Nat]
WaiterRecord == [pc : WaiterPc, woken : BOOLEAN]

-------------------------------------------------------------------------------
(* What a step does to one task.                                           *)

\* g is f with the task t changed to the fields given; the two cancel flags and
\* the background flag are of no interest here.
Becomes(f, g, t, pc, delivery, status, fell, final, version) ==
    /\ g \in [Task -> TaskRecord]
    /\ g[t].pc = pc /\ g[t].delivery = delivery /\ g[t].status = status
    /\ g[t].fell = fell /\ g[t].final = final /\ g[t].version = version
    /\ \A u \in Task : u # t => g[u] = f[u]

\* A task is replaced as a whole.
LEMMA TaskSet ==
    ASSUME NEW f \in [Task -> TaskRecord], NEW t \in Task, NEW r \in TaskRecord,
           NEW g, g = [f EXCEPT ![t] = r]
    PROVE  Becomes(f, g, t, r.pc, r.delivery, r.status, r.fell, r.final, r.version)
BY DEF Becomes

\* The task takes its next step.
LEMMA TaskMoves ==
    ASSUME NEW f \in [Task -> TaskRecord], NEW t \in Task, NEW p \in Pc, NEW g,
           g = [f EXCEPT ![t].pc = p]
    PROVE  Becomes(f, g, t, p, f[t].delivery, f[t].status,
                   f[t].fell, f[t].final, f[t].version)
BY DEF Becomes, TaskRecord

\* The driver keeps the version the row got.
LEMMA TaskBegins ==
    ASSUME NEW f \in [Task -> TaskRecord], NEW t \in Task, NEW p \in Pc,
           NEW v \in Nat, NEW g,
           g = [f EXCEPT ![t].pc = p, ![t].version = v]
    PROVE  Becomes(f, g, t, p, f[t].delivery, f[t].status,
                   f[t].fell, f[t].final, v)
<1>1. PICK r : r = [f[t] EXCEPT !.pc = p, !.version = v]
  OBVIOUS
<1>2. r \in TaskRecord
  BY <1>1 DEF TaskRecord
<1>3. /\ r.pc = p /\ r.delivery = f[t].delivery /\ r.status = f[t].status
      /\ r.fell = f[t].fell /\ r.final = f[t].final /\ r.version = v
  BY <1>1 DEF TaskRecord
<1>4. g = [f EXCEPT ![t] = r]
  BY <1>1 DEF TaskRecord
<1>5. Becomes(f, g, t, r.pc, r.delivery, r.status, r.fell, r.final, r.version)
  BY <1>2, <1>4, TaskSet
<1>6. QED
  BY <1>3, <1>5, Zenon

\* The driver gives up and the fallback takes over.
LEMMA TaskFalls ==
    ASSUME NEW f \in [Task -> TaskRecord], NEW t \in Task, NEW p \in Pc, NEW g,
           g = [f EXCEPT ![t].pc = p, ![t].fell = TRUE]
    PROVE  Becomes(f, g, t, p, f[t].delivery, f[t].status,
                   TRUE, f[t].final, f[t].version)
<1>1. PICK r : r = [f[t] EXCEPT !.pc = p, !.fell = TRUE]
  OBVIOUS
<1>2. r \in TaskRecord
  BY <1>1 DEF TaskRecord
<1>3. /\ r.pc = p /\ r.delivery = f[t].delivery /\ r.status = f[t].status
      /\ r.fell = TRUE /\ r.final = f[t].final /\ r.version = f[t].version
  BY <1>1 DEF TaskRecord
<1>4. g = [f EXCEPT ![t] = r]
  BY <1>1 DEF TaskRecord
<1>5. Becomes(f, g, t, r.pc, r.delivery, r.status, r.fell, r.final, r.version)
  BY <1>2, <1>4, TaskSet
<1>6. QED
  BY <1>3, <1>5, Zenon

\* The outcome is decided.
LEMMA TaskEnds ==
    ASSUME NEW f \in [Task -> TaskRecord], NEW t \in Task, NEW p \in Pc,
           NEW e \in TaskStatus, NEW g,
           g = [f EXCEPT ![t].pc = p, ![t].final = e]
    PROVE  Becomes(f, g, t, p, f[t].delivery, f[t].status,
                   f[t].fell, e, f[t].version)
<1>1. PICK r : r = [f[t] EXCEPT !.pc = p, !.final = e]
  OBVIOUS
<1>2. r \in TaskRecord
  BY <1>1 DEF TaskRecord
<1>3. /\ r.pc = p /\ r.delivery = f[t].delivery /\ r.status = f[t].status
      /\ r.fell = f[t].fell /\ r.final = e /\ r.version = f[t].version
  BY <1>1 DEF TaskRecord
<1>4. g = [f EXCEPT ![t] = r]
  BY <1>1 DEF TaskRecord
<1>5. Becomes(f, g, t, r.pc, r.delivery, r.status, r.fell, r.final, r.version)
  BY <1>2, <1>4, TaskSet
<1>6. QED
  BY <1>3, <1>5, Zenon

\* The ownership word is settled.
LEMMA TaskRouted ==
    ASSUME NEW f \in [Task -> TaskRecord], NEW t \in Task, NEW p \in Pc,
           NEW d \in Delivery, NEW g,
           g = [f EXCEPT ![t].pc = p, ![t].delivery = d]
    PROVE  Becomes(f, g, t, p, d, f[t].status,
                   f[t].fell, f[t].final, f[t].version)
<1>1. PICK r : r = [f[t] EXCEPT !.pc = p, !.delivery = d]
  OBVIOUS
<1>2. r \in TaskRecord
  BY <1>1 DEF TaskRecord
<1>3. /\ r.pc = p /\ r.delivery = d /\ r.status = f[t].status
      /\ r.fell = f[t].fell /\ r.final = f[t].final /\ r.version = f[t].version
  BY <1>1 DEF TaskRecord
<1>4. g = [f EXCEPT ![t] = r]
  BY <1>1 DEF TaskRecord
<1>5. Becomes(f, g, t, r.pc, r.delivery, r.status, r.fell, r.final, r.version)
  BY <1>2, <1>4, TaskSet
<1>6. QED
  BY <1>3, <1>5, Zenon

\* The outcome becomes visible to the caller.
LEMMA TaskTells ==
    ASSUME NEW f \in [Task -> TaskRecord], NEW t \in Task, NEW p \in Pc,
           NEW e \in TaskStatus, NEW g,
           g = [f EXCEPT ![t].pc = p, ![t].status = e]
    PROVE  Becomes(f, g, t, p, f[t].delivery, e,
                   f[t].fell, f[t].final, f[t].version)
<1>1. PICK r : r = [f[t] EXCEPT !.pc = p, !.status = e]
  OBVIOUS
<1>2. r \in TaskRecord
  BY <1>1 DEF TaskRecord
<1>3. /\ r.pc = p /\ r.delivery = f[t].delivery /\ r.status = e
      /\ r.fell = f[t].fell /\ r.final = f[t].final /\ r.version = f[t].version
  BY <1>1 DEF TaskRecord
<1>4. g = [f EXCEPT ![t] = r]
  BY <1>1 DEF TaskRecord
<1>5. Becomes(f, g, t, r.pc, r.delivery, r.status, r.fell, r.final, r.version)
  BY <1>2, <1>4, TaskSet
<1>6. QED
  BY <1>3, <1>5, Zenon

\* The settlement is claimed.
LEMMA TaskSettles ==
    ASSUME NEW f \in [Task -> TaskRecord], NEW t \in Task, NEW p \in Pc, NEW g,
           g = [f EXCEPT ![t].pc = p, ![t].settled = TRUE]
    PROVE  Becomes(f, g, t, p, f[t].delivery, f[t].status,
                   f[t].fell, f[t].final, f[t].version)
<1>1. PICK r : r = [f[t] EXCEPT !.pc = p, !.settled = TRUE]
  OBVIOUS
<1>2. r \in TaskRecord
  BY <1>1 DEF TaskRecord
<1>3. /\ r.pc = p /\ r.delivery = f[t].delivery /\ r.status = f[t].status
      /\ r.fell = f[t].fell /\ r.final = f[t].final /\ r.version = f[t].version
  BY <1>1 DEF TaskRecord
<1>4. g = [f EXCEPT ![t] = r]
  BY <1>1 DEF TaskRecord
<1>5. Becomes(f, g, t, r.pc, r.delivery, r.status, r.fell, r.final, r.version)
  BY <1>2, <1>4, TaskSet
<1>6. QED
  BY <1>3, <1>5, Zenon

\* The handle goes.
LEMMA TaskGoes ==
    ASSUME NEW f \in [Task -> TaskRecord], NEW t \in Task, NEW p \in Pc, NEW g,
           g = [f EXCEPT ![t].pc = p, ![t].cancel = FALSE,
                                    ![t].settled = FALSE, ![t].version = 0]
    PROVE  Becomes(f, g, t, p, f[t].delivery, f[t].status,
                   f[t].fell, f[t].final, 0)
<1>1. PICK r : r = [f[t] EXCEPT !.pc = p, !.cancel = FALSE, !.settled = FALSE, !.version = 0]
  OBVIOUS
<1>2. r \in TaskRecord
  BY <1>1 DEF TaskRecord
<1>3. /\ r.pc = p /\ r.delivery = f[t].delivery /\ r.status = f[t].status
      /\ r.fell = f[t].fell /\ r.final = f[t].final /\ r.version = 0
  BY <1>1 DEF TaskRecord
<1>4. g = [f EXCEPT ![t] = r]
  BY <1>1 DEF TaskRecord
<1>5. Becomes(f, g, t, r.pc, r.delivery, r.status, r.fell, r.final, r.version)
  BY <1>2, <1>4, TaskSet
<1>6. QED
  BY <1>3, <1>5, Zenon

\* A token is tripped.
LEMMA TaskStops ==
    ASSUME NEW f \in [Task -> TaskRecord], NEW t \in Task, NEW g,
           g = [f EXCEPT ![t].cancel = TRUE]
    PROVE  Becomes(f, g, t, f[t].pc, f[t].delivery, f[t].status,
                   f[t].fell, f[t].final, f[t].version)
BY ZenonT(60) DEF Becomes, TaskRecord

\* The caller is detached.
LEMMA TaskBackgrounded ==
    ASSUME NEW f \in [Task -> TaskRecord], NEW t \in Task, NEW d \in Delivery, NEW g,
           g = [f EXCEPT ![t].delivery = d]
    PROVE  Becomes(f, g, t, f[t].pc, d, f[t].status,
                   f[t].fell, f[t].final, f[t].version)
BY DEF Becomes, TaskRecord

\* Only the step of the task changes.
Moves(t, pc) ==
    Becomes(task, task', t, pc, task[t].delivery, task[t].status, task[t].fell,
            task[t].final, task[t].version)

\* What settle_delivery makes of the ownership word.
Terminated(d) ==
    CASE d = "foreground" -> "termForeground"
      [] d = "background" -> "termBackground"
      [] OTHER -> d

\* What every action does to the task it is about.
LEMMA TaskEffects ==
    ASSUME task \in [Task -> TaskRecord], row \in [Task -> RowRecord], NEW t \in Task
    PROVE  /\ \A bg \in BOOLEAN : Plan(t, bg) =>
                 Becomes(task, task', t, "admitted",
                         IF bg THEN "background" ELSE "foreground",
                         "running", FALSE, "running", 0)
           /\ Persist(t) => Moves(t, "persisted")
           /\ Seed(t) => Moves(t, "spawned")
           /\ SpawnFails(t) => Becomes(task, task', t, "refused", "foreground",
                                       "running", FALSE, "running", 0)
           /\ HandlerDropped(t) => Moves(t, "dropped")
           /\ Begin(t) => Becomes(task, task', t, "running", task[t].delivery,
                                  task[t].status, task[t].fell, task[t].final,
                                  row[t].version + 1)
           /\ DriverFails(t) \/ PatchTerminalFails(t) =>
                 Becomes(task, task', t, "failed", task[t].delivery, task[t].status,
                         TRUE, task[t].final, task[t].version)
           /\ \A ok \in BOOLEAN : RunLoop(t, ok) =>
                 Becomes(task, task', t, "ran", task[t].delivery, task[t].status,
                         task[t].fell, FinalStatus(t, ok), task[t].version)
           /\ PatchTerminal(t) => Moves(t, "patched")
           /\ Fallback(t) =>
                 Becomes(task, task', t,
                         IF t \in Continuation THEN "owned" ELSE "patched",
                         task[t].delivery, task[t].status, task[t].fell, "failed",
                         task[t].version)
           /\ SettleDelivery(t) =>
                 Becomes(task, task', t, "owned", Terminated(task[t].delivery),
                         task[t].status, task[t].fell, task[t].final, task[t].version)
           /\ SetStatus(t) =>
                 Becomes(task, task', t, "set", task[t].delivery, task[t].final,
                         task[t].fell, task[t].final, task[t].version)
           /\ Announce(t) => Moves(t, "told")
           /\ Settle(t) => Moves(t, "settled")
           /\ Finalize(t) => Becomes(task, task', t, "done", task[t].delivery,
                                     task[t].status, task[t].fell, task[t].final, 0)
           /\ BackgroundTask(t) =>
                 Becomes(task, task', t, task[t].pc, "background", task[t].status,
                         task[t].fell, task[t].final, task[t].version)
           /\ Cancel(t) \/ Interrupt(t) => Moves(t, task[t].pc)
<1>1. ASSUME NEW bg \in BOOLEAN, Plan(t, bg)
      PROVE  Becomes(task, task', t, "admitted",
                     IF bg THEN "background" ELSE "foreground",
                     "running", FALSE, "running", 0)
  <2>1. PICK d \in Delivery : d = IF bg THEN "background" ELSE "foreground"
    BY DEF Delivery
  <2>2. PICK r : r = [NewTask EXCEPT !.pc = "admitted", !.background = bg,
                                     !.delivery = d]
    OBVIOUS
  <2>3. task' = [task EXCEPT ![t] = r]
    BY <1>1, <2>1, <2>2, Zenon DEF Plan
  <2>4. r \in TaskRecord
    BY <2>2 DEF NewTask, TaskRecord, Pc, TaskStatus
  <2>5. /\ r.pc = "admitted" /\ r.delivery = d /\ r.status = "running"
        /\ r.fell = FALSE /\ r.final = "running" /\ r.version = 0
    BY <2>2 DEF NewTask
  <2>6. Becomes(task, task', t, r.pc, r.delivery, r.status, r.fell, r.final, r.version)
    BY <2>3, <2>4, TaskSet
  <2>7. QED
    BY <2>1, <2>5, <2>6, Zenon
<1>2. ASSUME SpawnFails(t)
      PROVE  Becomes(task, task', t, "refused", "foreground", "running", FALSE,
                     "running", 0)
  <2>1. PICK r : r = [NewTask EXCEPT !.pc = "refused"]
    OBVIOUS
  <2>2. task' = [task EXCEPT ![t] = r]
    BY <1>2, <2>1, Zenon DEF SpawnFails
  <2>3. r \in TaskRecord
    BY <2>1 DEF NewTask, TaskRecord, Pc, TaskStatus, Delivery
  <2>4. /\ r.pc = "refused" /\ r.delivery = "foreground" /\ r.status = "running"
        /\ r.fell = FALSE /\ r.final = "running" /\ r.version = 0
    BY <2>1 DEF NewTask
  <2>5. Becomes(task, task', t, r.pc, r.delivery, r.status, r.fell, r.final, r.version)
    BY <2>2, <2>3, TaskSet
  <2>6. QED
    BY <2>4, <2>5, Zenon
<1>3. ASSUME NEW p \in {"persisted", "spawned", "dropped", "patched", "told", "settled"},
             task' = [task EXCEPT ![t].pc = p]
      PROVE  Moves(t, p)
  <2>1. p \in Pc
    BY DEF Pc
  <2>2. QED
    BY <1>3, <2>1, TaskMoves DEF Moves
<1>4. /\ Persist(t) => Moves(t, "persisted")
      /\ Seed(t) => Moves(t, "spawned")
      /\ HandlerDropped(t) => Moves(t, "dropped")
      /\ PatchTerminal(t) => Moves(t, "patched")
      /\ Announce(t) => Moves(t, "told")
  BY <1>3 DEF Persist, Seed, HandlerDropped, PatchTerminal, Announce
<1>5. ASSUME Begin(t)
      PROVE  Becomes(task, task', t, "running", task[t].delivery, task[t].status,
                     task[t].fell, task[t].final, row[t].version + 1)
  <2>1. "running" \in Pc /\ row[t].version + 1 \in Nat
    BY DEF Pc, RowRecord
  <2>2. QED
    BY <1>5, <2>1, TaskBegins DEF Begin
<1>6. ASSUME DriverFails(t) \/ PatchTerminalFails(t)
      PROVE  Becomes(task, task', t, "failed", task[t].delivery, task[t].status,
                     TRUE, task[t].final, task[t].version)
  <2>1. "failed" \in Pc
    BY DEF Pc
  <2>2. task' = [task EXCEPT ![t].pc = "failed", ![t].fell = TRUE]
    BY <1>6, Zenon DEF DriverFails, PatchTerminalFails
  <2>3. QED
    BY <2>1, <2>2, TaskFalls
<1>7. ASSUME NEW ok \in BOOLEAN, RunLoop(t, ok)
      PROVE  Becomes(task, task', t, "ran", task[t].delivery, task[t].status,
                     task[t].fell, FinalStatus(t, ok), task[t].version)
  <2>1. "ran" \in Pc /\ FinalStatus(t, ok) \in TaskStatus
    BY DEF Pc, FinalStatus, TaskStatus, Terminal
  <2>2. QED
    BY <1>7, <2>1, TaskEnds DEF RunLoop
<1>8. ASSUME Fallback(t)
      PROVE  Becomes(task, task', t, IF t \in Continuation THEN "owned" ELSE "patched",
                     task[t].delivery, task[t].status, task[t].fell, "failed",
                     task[t].version)
  <2>1. PICK p : p = IF t \in Continuation THEN "owned" ELSE "patched"
    OBVIOUS
  <2>2. p \in Pc /\ "failed" \in TaskStatus
    BY <2>1 DEF Pc, TaskStatus, Terminal
  <2>3. task' = [task EXCEPT ![t].pc = p, ![t].final = "failed"]
    BY <1>8, <2>1, Zenon DEF Fallback
  <2>4. QED
    BY <2>1, <2>2, <2>3, TaskEnds
<1>9. ASSUME SettleDelivery(t)
      PROVE  Becomes(task, task', t, "owned", Terminated(task[t].delivery),
                     task[t].status, task[t].fell, task[t].final, task[t].version)
  <2>1. PICK d : d = Terminated(task[t].delivery)
    OBVIOUS
  <2>2. task[t].delivery \in Delivery
    BY DEF TaskRecord
  <2>3. "owned" \in Pc /\ d \in Delivery
    BY <2>1, <2>2 DEF Pc, Delivery, Terminated
  <2>4. task' = [task EXCEPT ![t].pc = "owned", ![t].delivery = d]
    BY <1>9, <2>1 DEF SettleDelivery, Terminated
  <2>5. QED
    BY <2>1, <2>3, <2>4, TaskRouted
<1>10. ASSUME SetStatus(t)
       PROVE  Becomes(task, task', t, "set", task[t].delivery, task[t].final,
                      task[t].fell, task[t].final, task[t].version)
  <2>1. "set" \in Pc /\ task[t].final \in TaskStatus
    BY DEF Pc, TaskRecord
  <2>2. QED
    BY <1>10, <2>1, TaskTells DEF SetStatus
<1>11. ASSUME Settle(t) PROVE Moves(t, "settled")
  <2>1. "settled" \in Pc
    BY DEF Pc
  <2>2. \/ task' = [task EXCEPT ![t].pc = "settled"]
        \/ task' = [task EXCEPT ![t].pc = "settled", ![t].settled = TRUE]
    BY <1>11, Zenon DEF Settle
  <2>3. QED
    BY <1>3, <2>1, <2>2, TaskSettles DEF Moves
<1>12. ASSUME Finalize(t)
       PROVE  Becomes(task, task', t, "done", task[t].delivery, task[t].status,
                      task[t].fell, task[t].final, 0)
  <2>1. "done" \in Pc
    BY DEF Pc
  <2>2. QED
    <3>1. task' = [task EXCEPT ![t].pc = "done", ![t].cancel = FALSE,
                               ![t].settled = FALSE, ![t].version = 0]
      BY <1>12, Zenon DEF Finalize
    <3>2. QED
      BY <2>1, <3>1, TaskGoes
<1>13. ASSUME BackgroundTask(t)
       PROVE  Becomes(task, task', t, task[t].pc, "background", task[t].status,
                      task[t].fell, task[t].final, task[t].version)
  <2>1. "background" \in Delivery
    BY DEF Delivery
  <2>2. QED
    BY <1>13, <2>1, TaskBackgrounded DEF BackgroundTask
<1>14. ASSUME Cancel(t) \/ Interrupt(t) PROVE Moves(t, task[t].pc)
  <2>1. task' = [task EXCEPT ![t].cancel = TRUE]
    BY <1>14, Zenon DEF Cancel, Interrupt
  <2>2. QED
    BY <2>1, TaskStops DEF Moves
<1>15. QED
  BY <1>1, <1>2, <1>4, <1>5, <1>6, <1>7, <1>8, <1>9, <1>10, <1>11, <1>12, <1>13,
     <1>14, Zenon

-------------------------------------------------------------------------------
(* Type correctness.                                                       *)

\* The initial state is typed.
LEMMA InitType == Init => TypeOK
<1> SUFFICES ASSUME Init PROVE TypeOK
  OBVIOUS
<1> USE DEF Init
<1>1. task \in [Task -> TaskRecord]
  BY DEF TaskRecord, NewTask, Pc, Delivery, TaskStatus
<1>2. row \in [Task -> RowRecord] /\ waiter \in [Task -> WaiterRecord]
  BY DEF RowRecord, WaiterRecord, RowStatus, WaiterPc
<1>3. cache \in Seq(Task) /\ Len(cache) <= CacheCap
  OBVIOUS
<1>4. /\ live \in SUBSET Task /\ interrupted \in SUBSET Task /\ outbox \in SUBSET Task
      /\ lostPatch \in SUBSET Task /\ lostAppend \in SUBSET Task
      /\ quota \in Nat /\ lifetime \in 0 .. MaxLifetime /\ faults \in 0 .. MaxFaults
      /\ settledEvents \in [Task -> Nat]
  OBVIOUS
<1>5. QED
  BY <1>1, <1>2, <1>3, <1>4 DEF TypeOK, TaskRecord, RowRecord, WaiterRecord

\* The version check of patch_subagent_execution keeps the rows typed.
LEMMA PatchType ==
    ASSUME row \in [Task -> RowRecord], NEW t \in Task, NEW v \in Nat,
           NEW s \in RowStatus, Patch(t, v, s)
    PROVE  row' \in [Task -> RowRecord]
BY DEF Patch, RowRecord

\* Waking the waiters keeps them typed.
LEMMA NotifyType ==
    ASSUME waiter \in [Task -> WaiterRecord], NEW t \in Task, NotifyWaiters(t)
    PROVE  waiter' \in [Task -> WaiterRecord]
BY DEF NotifyWaiters, WaiterRecord

\* The terminal cache keeps within its capacity.
LEMMA CacheType ==
    ASSUME cache \in Seq(Task), Len(cache) <= CacheCap, NEW t \in Task
    PROVE  CacheInsert(t) \in Seq(Task) /\ Len(CacheInsert(t)) <= CacheCap
<1>1. PICK longer : longer = Append(cache, t)
  OBVIOUS
<1>2. /\ longer \in Seq(Task) /\ Len(longer) = Len(cache) + 1
      /\ Len(cache) \in Nat
  BY <1>1
<1>3. Tail(longer) \in Seq(Task) /\ Len(Tail(longer)) = Len(cache)
  BY <1>2
<1>4. QED
  BY <1>1, <1>2, <1>3 DEF CacheInsert

\* Giving a slot back keeps the registry typed.
LEMMA FinalizeType ==
    ASSUME TypeOK, NEW t \in Task, FinalizeTask(t)
    PROVE  live' \in SUBSET Task /\ interrupted' \in SUBSET Task /\ quota' \in Nat
BY DEF TypeOK, FinalizeTask, Dec

\* Every step keeps the types.
LEMMA NextType == TypeOK /\ [Next]_vars => TypeOK'
<1> SUFFICES ASSUME TypeOK, [Next]_vars PROVE TypeOK'
  OBVIOUS
<1>0. /\ task \in [Task -> TaskRecord]
      /\ row \in [Task -> RowRecord]
      /\ waiter \in [Task -> WaiterRecord]
  BY DEF TypeOK, TaskRecord, RowRecord, WaiterRecord
<1> DEFINE Records == /\ task' \in [Task -> TaskRecord]
                      /\ row' \in [Task -> RowRecord]
                      /\ waiter' \in [Task -> WaiterRecord]
           Registry == /\ live' \in SUBSET Task /\ interrupted' \in SUBSET Task
                       /\ cache' \in Seq(Task) /\ Len(cache') <= CacheCap
                       /\ quota' \in Nat /\ lifetime' \in 0 .. MaxLifetime
           Rest == /\ outbox' \in SUBSET Task /\ faults' \in 0 .. MaxFaults
                   /\ settledEvents' \in [Task -> Nat]
                   /\ lostPatch' \in SUBSET Task /\ lostAppend' \in SUBSET Task
<1>e. ASSUME NEW t \in Task,
             \/ SpawnStep(t) \/ SpawnFails(t) \/ HandlerDropped(t) \/ DriveStep(t)
             \/ DriverFails(t) \/ PatchTerminalFails(t) \/ BackgroundTask(t)
             \/ Cancel(t) \/ Interrupt(t) \/ \E bg \in BOOLEAN : Plan(t, bg)
      PROVE  task' \in [Task -> TaskRecord]
  BY <1>0, <1>e, TaskEffects DEF Becomes, Moves, SpawnStep, DriveStep
<1>a. ASSUME Records, Registry, Rest PROVE TypeOK'
  BY <1>a DEF TypeOK, TaskRecord, RowRecord, WaiterRecord
<1> HIDE DEF Records, Registry, Rest
<1>b. ASSUME UNCHANGED <<live, interrupted, cache, quota, lifetime>> PROVE Registry
  BY <1>b DEF TypeOK, Registry
<1>c. ASSUME UNCHANGED <<outbox, settledEvents, lostPatch, lostAppend>>,
             faults' = faults \/ Fault
      PROVE  Rest
  BY <1>c DEF TypeOK, Rest, Fault
<1>1. ASSUME NEW t \in Task, NEW bg \in BOOLEAN, Plan(t, bg) PROVE TypeOK'
  <2>1. Records
    BY <1>0, <1>1, <1>e DEF Plan, Records
  <2>2. Registry
    BY <1>1 DEF Plan, Admit, Registry, TypeOK
  <2>3. QED
    BY <1>1, <1>a, <1>c, <2>1, <2>2 DEF Plan
<1>2. ASSUME UnknownType PROVE TypeOK'
  BY <1>2 DEF UnknownType, Admit, TypeOK
<1>3. ASSUME NEW t \in Task, Persist(t) PROVE TypeOK'
  <2>1. Records
    <3>1. row' \in [Task -> RowRecord]
      BY <1>0, <1>3 DEF Persist, RowRecord, RowStatus
    <3>2. QED
      BY <1>0, <1>3, <1>e, <3>1 DEF Persist, SpawnStep, Records
  <2>2. QED
    BY <1>3, <1>a, <1>b, <1>c, <2>1 DEF Persist
<1>4. ASSUME NEW t \in Task, Seed(t) PROVE TypeOK'
  <2>1. Records
    <3>1. waiter' \in [Task -> WaiterRecord]
      BY <1>0, <1>4 DEF Seed, WaiterRecord, WaiterPc
    <3>2. QED
      BY <1>0, <1>4, <1>e, <3>1 DEF Seed, SpawnStep, Records
  <2>2. QED
    BY <1>4, <1>a, <1>b, <1>c, <2>1 DEF Seed
<1>5. ASSUME NEW t \in Task, SpawnFails(t) PROVE TypeOK'
  <2>1. Records
    BY <1>0, <1>5, <1>e DEF SpawnFails, Records
  <2>2. Registry
    BY <1>5, FinalizeType DEF SpawnFails, Registry, TypeOK
  <2>3. QED
    BY <1>5, <1>a, <1>c, <2>1, <2>2 DEF SpawnFails
<1>6. ASSUME NEW t \in Task, HandlerDropped(t) PROVE TypeOK'
  <2>1. Records
    BY <1>0, <1>6, <1>e DEF HandlerDropped, Records
  <2>2. QED
    BY <1>6, <1>a, <1>b, <1>c, <2>1 DEF HandlerDropped
<1>7. ASSUME NEW t \in Task, Begin(t) PROVE TypeOK'
  <2>1. row' \in [Task -> RowRecord]
    BY <1>0, <1>7, PatchType DEF Begin, RowRecord, RowStatus
  <2>2. Records
    BY <1>0, <1>7, <1>e, <2>1 DEF Begin, DriveStep, Records
  <2>3. QED
    BY <1>7, <1>a, <1>b, <1>c, <2>2 DEF Begin
<1>8. ASSUME NEW t \in Task, DriverFails(t) PROVE TypeOK'
  <2>1. row' \in [Task -> RowRecord]
    <3>1. CASE Patch(t, row[t].version, "running")
      BY <1>0, <3>1, PatchType DEF RowRecord, RowStatus
    <3>2. QED
      BY <1>0, <1>8, <3>1 DEF DriverFails
  <2>2. Records
    BY <1>0, <1>8, <1>e, <2>1 DEF DriverFails, Records
  <2>3. QED
    BY <1>8, <1>a, <1>b, <1>c, <2>2 DEF DriverFails
<1>9. ASSUME NEW t \in Task, NEW ok \in BOOLEAN, RunLoop(t, ok) PROVE TypeOK'
  <2>1. Records
    BY <1>0, <1>9, <1>e DEF RunLoop, DriveStep, Records
  <2>2. QED
    BY <1>9, <1>a, <1>b, <1>c, <2>1 DEF RunLoop
<1>d. ASSUME NEW t \in Task, Patch(t, task[t].version, task[t].final)
      PROVE  row' \in [Task -> RowRecord]
  <2>1. task[t].version \in Nat /\ task[t].final \in RowStatus
    BY <1>0 DEF TaskRecord, TaskStatus, RowStatus
  <2>2. QED
    BY <1>0, <1>d, <2>1, PatchType
<1>10. ASSUME NEW t \in Task, PatchTerminal(t) PROVE TypeOK'
  <2>1. Records
    BY <1>0, <1>10, <1>d, <1>e DEF PatchTerminal, DriveStep, Records
  <2>2. QED
    BY <1>10, <1>a, <1>b, <1>c, <2>1 DEF PatchTerminal
<1>11. ASSUME NEW t \in Task, PatchTerminalFails(t) PROVE TypeOK'
  <2>1. row' \in [Task -> RowRecord]
    BY <1>0, <1>11, <1>d DEF PatchTerminalFails
  <2>2. Records
    BY <1>0, <1>11, <1>e, <2>1 DEF PatchTerminalFails, Records
  <2>3. QED
    BY <1>11, <1>a, <1>b, <1>c, <2>2 DEF PatchTerminalFails
<1>12. ASSUME NEW t \in Task, Fallback(t) PROVE TypeOK'
  <2>1. row' \in [Task -> RowRecord]
    <3>1. CASE Patch(t, row[t].version, "failed")
      BY <1>0, <3>1, PatchType DEF RowRecord, RowStatus, Terminal
    <3>2. QED
      BY <1>0, <1>12, <3>1 DEF Fallback
  <2>2. Records
    BY <1>0, <1>12, <1>e, <2>1 DEF Fallback, DriveStep, Records
  <2>3. Rest
    BY <1>12, SMTT(40) DEF Fallback, Fault, Rest, TypeOK
  <2>4. QED
    BY <1>12, <1>a, <1>b, <2>2, <2>3 DEF Fallback
<1>13. ASSUME NEW t \in Task, SettleDelivery(t) PROVE TypeOK'
  <2>1. Records
    BY <1>0, <1>13, <1>e DEF SettleDelivery, DriveStep, Records
  <2>2. QED
    BY <1>13, <1>a, <1>b, <1>c, <2>1 DEF SettleDelivery
<1>14. ASSUME NEW t \in Task, SetStatus(t) PROVE TypeOK'
  <2>1. Records
    BY <1>0, <1>14, <1>e DEF SetStatus, DriveStep, Records
  <2>2. QED
    BY <1>14, <1>a, <1>b, <1>c, <2>1 DEF SetStatus
<1>15. ASSUME NEW t \in Task, Announce(t) PROVE TypeOK'
  <2>1. Records
    BY <1>0, <1>15, <1>e, NotifyType DEF Announce, DriveStep, Records
  <2>2. Registry
    BY <1>15, CacheType DEF Announce, Registry, TypeOK
  <2>3. QED
    BY <1>15, <1>a, <1>c, <2>1, <2>2 DEF Announce
<1>16. ASSUME NEW t \in Task, Settle(t) PROVE TypeOK'
  <2>1. Records
    BY <1>0, <1>16, <1>e DEF Settle, DriveStep, Records
  <2>2. Rest
    <3>1. /\ outbox' = outbox \/ outbox' = outbox \cup {t}
          /\ lostAppend' = lostAppend \/ lostAppend' = lostAppend \cup {t}
          /\ faults' = faults \/ Fault
          /\ \/ settledEvents' = settledEvents
             \/ settledEvents' = [settledEvents EXCEPT ![t] = @ + 1]
          /\ lostPatch' = lostPatch
      BY <1>16, Zenon DEF Settle
    <3>2. QED
      BY <3>1 DEF Fault, Rest, TypeOK
  <2>3. QED
    BY <1>16, <1>a, <1>b, <2>1, <2>2 DEF Settle
<1>17. ASSUME NEW t \in Task, Finalize(t) PROVE TypeOK'
  <2>1. Records
    BY <1>0, <1>17, <1>e DEF Finalize, DriveStep, Records
  <2>2. Registry
    BY <1>17, FinalizeType DEF Finalize, Registry, TypeOK
  <2>3. QED
    BY <1>17, <1>a, <1>c, <2>1, <2>2 DEF Finalize
<1>18. ASSUME NEW t \in Task, BackgroundTask(t) PROVE TypeOK'
  <2>1. Records
    BY <1>0, <1>18, <1>e, NotifyType DEF BackgroundTask, Records
  <2>2. QED
    BY <1>18, <1>a, <1>b, <1>c, <2>1 DEF BackgroundTask
<1>19. ASSUME NEW t \in Task, Cancel(t) \/ Interrupt(t) PROVE TypeOK'
  <2>1. Records
    BY <1>0, <1>19, <1>e DEF Cancel, Interrupt, Records
  <2>2. Registry
    BY <1>19 DEF Cancel, Interrupt, Registry, TypeOK
  <2>3. QED
    BY <1>19, <1>a, <1>c, <2>1, <2>2 DEF Cancel, Interrupt
<1>20. ASSUME CancelDescendants PROVE TypeOK'
  <2>1. \A t \in Task : [task[t] EXCEPT !.cancel = TRUE] \in TaskRecord
    BY ONLY <1>0 DEF TaskRecord
  <2>2. Records
    BY <1>0, <1>20, <2>1 DEF CancelDescendants, Records
  <2>3. QED
    BY <1>20, <1>a, <1>b, <1>c, <2>2 DEF CancelDescendants
<1>21. ASSUME NEW t \in Task, WaitStep(t) PROVE TypeOK'
  <2>1. waiter' \in [Task -> WaiterRecord]
    <3>1. CASE LookUp(t)
      <4>1. PICK p \in WaiterPc : waiter' = [waiter EXCEPT ![t].pc = p]
        BY <3>1 DEF LookUp, WaiterPc
      <4>2. QED
        BY <1>0, <4>1 DEF WaiterRecord
    <3>2. CASE Arm(t)
      BY <1>0, <3>2 DEF Arm, WaiterRecord, WaiterPc
    <3>3. CASE CheckStatus(t)
      <4>1. PICK r \in WaiterRecord : waiter' = [waiter EXCEPT ![t] = r]
        BY <1>0, <3>3 DEF CheckStatus, WaiterRecord, WaiterPc
      <4>2. QED
        BY <1>0, <4>1
    <3>4. CASE Wake(t)
      BY <1>0, <3>4 DEF Wake, WaiterRecord, WaiterPc
    <3>5. QED
      BY <1>21, <3>1, <3>2, <3>3, <3>4 DEF WaitStep
  <2>2. UNCHANGED <<task, live, interrupted, cache, quota, lifetime, row, outbox,
                    faults, settledEvents, lostPatch, lostAppend>>
    BY <1>21 DEF WaitStep, LookUp, Arm, CheckStatus, Wake
  <2>3. Records
    BY <1>0, <2>1, <2>2 DEF Records
  <2>4. QED
    BY <1>a, <1>b, <1>c, <2>2, <2>3
<1>22. ASSUME Restart PROVE TypeOK'
  <2>1. [NewTask EXCEPT !.pc = "dead"] \in TaskRecord
    BY DEF NewTask, TaskRecord, Pc, Delivery, TaskStatus
  <2>2. \A t \in Task : [status |-> "interrupted", version |-> row[t].version + 1]
                        \in RowRecord
    BY <1>0 DEF RowRecord, RowStatus, Terminal
  <2>3. [pc |-> "none", woken |-> FALSE] \in WaiterRecord
    BY DEF WaiterRecord, WaiterPc
  <2>4. Records
    BY <1>0, <1>22, <2>1, <2>2, <2>3 DEF Restart, Records
  <2>5. Registry
    BY <1>22 DEF Restart, Registry
  <2>6. QED
    BY <1>22, <1>a, <1>c, <2>4, <2>5 DEF Restart
<1>23. ASSUME UNCHANGED vars PROVE TypeOK'
  BY <1>23 DEF vars, TypeOK
<1>24. QED
  BY <1>1, <1>2, <1>3, <1>4, <1>5, <1>6, <1>7, <1>8, <1>9, <1>10, <1>11, <1>12,
     <1>13, <1>14, <1>15, <1>16, <1>17, <1>18, <1>19, <1>20, <1>21, <1>22, <1>23
     DEF Next, SpawnStep, DriveStep

\* Every variable keeps its type along every behaviour; the terminal cache
\* stays within TERMINAL_CACHE_CAP.
THEOREM SubagentTyped == Spec => []TypeOK
BY InitType, NextType, PTL DEF Spec

-------------------------------------------------------------------------------
(* The quota.                                                              *)

\* The steps at which a task holds a slot of its root session.
SlotSteps == Spawning \cup Driving \cup {"dropped"}

\* The registry lists exactly the tasks that hold a slot, and counts them.
Quota ==
    /\ IsFiniteSet(live)
    /\ quota = Cardinality(live)
    /\ quota <= MaxLive
    /\ \A t \in Task : t \in live <=> task[t].pc \in SlotSteps

\* A task that neither gets a slot nor gives it back disturbs no count.
LEMMA QuotaKept ==
    ASSUME Quota, UNCHANGED <<live, quota>>,
           \A t \in Task : task'[t].pc \in SlotSteps <=> task[t].pc \in SlotSteps
    PROVE  Quota'
BY DEF Quota

\* finalize gives the slot back once.
LEMMA QuotaFreed ==
    ASSUME TypeOK, Quota, NEW t \in Task, task[t].pc \in SlotSteps, FinalizeTask(t),
           task'[t].pc \notin SlotSteps,
           \A u \in Task : u # t => task'[u] = task[u]
    PROVE  Quota'
<1>1. t \in live /\ live' = live \ {t}
  BY DEF Quota, FinalizeTask
<1>2. /\ IsFiniteSet(live') /\ Cardinality(live') = Cardinality(live) - 1
      /\ Cardinality(live) \in Nat
  BY <1>1, FS_RemoveElement, FS_CardinalityType DEF Quota
<1>3. Cardinality(live) # 0
  BY <1>1, FS_EmptySet DEF Quota
<1>4. quota' = quota - 1
  BY <1>1, <1>2, <1>3 DEF Quota, FinalizeTask, Dec
<1>5. quota' = Cardinality(live') /\ quota' <= MaxLive
  BY <1>2, <1>3, <1>4 DEF Quota
<1>6. \A u \in Task : u \in live' <=> task'[u].pc \in SlotSteps
  BY <1>1 DEF Quota
<1>7. QED
  BY <1>2, <1>5, <1>6 DEF Quota

\* Every step keeps the count.
LEMMA NextQuota == TypeOK /\ Quota /\ [Next]_vars => Quota'
<1> SUFFICES ASSUME TypeOK, Quota, [Next]_vars PROVE Quota'
  OBVIOUS
<1>0. task \in [Task -> TaskRecord] /\ row \in [Task -> RowRecord]
  BY DEF TypeOK, TaskRecord, RowRecord
<1>a. ASSUME NEW t \in Task, NEW pc, task'[t].pc = pc,
             \A u \in Task : u # t => task'[u] = task[u],
             task[t].pc \in SlotSteps, pc \in SlotSteps, UNCHANGED <<live, quota>>
      PROVE  Quota'
  BY <1>a, QuotaKept
<1>1. ASSUME NEW t \in Task, NEW bg \in BOOLEAN, Plan(t, bg) PROVE Quota'
  <2>1. task'[t].pc = "admitted" /\ \A u \in Task : u # t => task'[u] = task[u]
    BY <1>0, <1>1, TaskEffects DEF Becomes
  <2>2. /\ t \notin live /\ live' = live \cup {t}
        /\ quota' = quota + 1 /\ quota < MaxLive
    BY <1>1 DEF Plan, Admit, Quota, SlotSteps, Spawning, Driving
  <2>3. /\ IsFiniteSet(live') /\ Cardinality(live') = Cardinality(live) + 1
        /\ Cardinality(live) \in Nat
    BY <2>2, FS_AddElement, FS_CardinalityType DEF Quota
  <2>4. quota' = Cardinality(live') /\ quota' <= MaxLive
    BY <2>2, <2>3 DEF Quota
  <2>5. \A u \in Task : u \in live' <=> task'[u].pc \in SlotSteps
    BY <2>1, <2>2 DEF Quota, SlotSteps, Spawning
  <2>6. QED
    BY <2>3, <2>4, <2>5 DEF Quota
<1>2. ASSUME UnknownType PROVE Quota'
  BY <1>2, QuotaKept DEF UnknownType
<1>3. ASSUME NEW t \in Task, Persist(t) \/ Seed(t) \/ HandlerDropped(t) PROVE Quota'
  <2>1. task'[t].pc \in SlotSteps /\ \A u \in Task : u # t => task'[u] = task[u]
    BY <1>0, <1>3, TaskEffects DEF Becomes, Moves, SlotSteps, Driving, Spawning
  <2>2. task[t].pc \in SlotSteps /\ UNCHANGED <<live, quota>>
    BY <1>3 DEF Persist, Seed, HandlerDropped, SlotSteps, Driving, Spawning
  <2>3. QED
    BY <1>a, <2>1, <2>2
<1>4. ASSUME NEW t \in Task, SpawnFails(t) PROVE Quota'
  <2>1. task'[t].pc = "refused" /\ \A u \in Task : u # t => task'[u] = task[u]
    BY <1>0, <1>4, TaskEffects DEF Becomes
  <2>2. QED
    BY <1>4, <2>1, QuotaFreed DEF SpawnFails, SlotSteps, Spawning, Driving
<1>5. ASSUME NEW t \in Task, Begin(t) \/ DriverFails(t) \/ PatchTerminalFails(t)
      PROVE  Quota'
  <2>1. task'[t].pc \in SlotSteps /\ \A u \in Task : u # t => task'[u] = task[u]
    BY <1>0, <1>5, TaskEffects DEF Becomes, SlotSteps, Driving, Spawning
  <2>2. task[t].pc \in SlotSteps /\ UNCHANGED <<live, quota>>
    BY <1>5 DEF Begin, DriverFails, PatchTerminalFails, SlotSteps, Driving, Spawning
  <2>3. QED
    BY <1>a, <2>1, <2>2
<1>6. ASSUME NEW t \in Task, NEW ok \in BOOLEAN, RunLoop(t, ok) PROVE Quota'
  <2>1. task'[t].pc \in SlotSteps /\ \A u \in Task : u # t => task'[u] = task[u]
    BY <1>0, <1>6, TaskEffects DEF Becomes, SlotSteps, Driving, Spawning
  <2>2. task[t].pc \in SlotSteps /\ UNCHANGED <<live, quota>>
    BY <1>6 DEF RunLoop, SlotSteps, Driving, Spawning
  <2>3. QED
    BY <1>a, <2>1, <2>2
<1>7. ASSUME NEW t \in Task, PatchTerminal(t) \/ Fallback(t) PROVE Quota'
  <2>1. task'[t].pc \in SlotSteps /\ \A u \in Task : u # t => task'[u] = task[u]
    BY <1>0, <1>7, TaskEffects DEF Becomes, Moves, SlotSteps, Driving, Spawning
  <2>2. task[t].pc \in SlotSteps /\ UNCHANGED <<live, quota>>
    BY <1>7 DEF PatchTerminal, Fallback, SlotSteps, Driving, Spawning
  <2>3. QED
    BY <1>a, <2>1, <2>2
<1>8. ASSUME NEW t \in Task,
             SettleDelivery(t) \/ SetStatus(t) \/ Announce(t) \/ Settle(t)
      PROVE  Quota'
  <2>1. task'[t].pc \in SlotSteps /\ \A u \in Task : u # t => task'[u] = task[u]
    BY <1>0, <1>8, TaskEffects DEF Becomes, Moves, SlotSteps, Driving, Spawning
  <2>2. task[t].pc \in SlotSteps /\ UNCHANGED <<live, quota>>
    BY <1>8 DEF SettleDelivery, SetStatus, Announce, Settle, SlotSteps, Driving, Spawning
  <2>3. QED
    BY <1>a, <2>1, <2>2
<1>9. ASSUME NEW t \in Task, Finalize(t) PROVE Quota'
  <2>1. task'[t].pc = "done" /\ \A u \in Task : u # t => task'[u] = task[u]
    BY <1>0, <1>9, TaskEffects DEF Becomes
  <2>2. QED
    BY <1>9, <2>1, QuotaFreed DEF Finalize, SlotSteps, Spawning, Driving
<1>10. ASSUME NEW t \in Task, BackgroundTask(t) \/ Cancel(t) \/ Interrupt(t)
       PROVE  Quota'
  <2>1. UNCHANGED <<live, quota>>
    BY <1>10 DEF BackgroundTask, Cancel, Interrupt
  <2>2. task'[t].pc = task[t].pc /\ \A u \in Task : u # t => task'[u] = task[u]
    BY <1>0, <1>10, TaskEffects DEF Becomes, Moves
  <2>3. QED
    BY <2>1, <2>2, QuotaKept
<1>11. ASSUME CancelDescendants PROVE Quota'
  <2>1. \A t \in Task : task'[t].pc = task[t].pc
    BY <1>0, <1>11 DEF CancelDescendants, TaskRecord
  <2>2. QED
    BY <1>11, <2>1, QuotaKept DEF CancelDescendants
<1>12. ASSUME NEW t \in Task, WaitStep(t) PROVE Quota'
  BY <1>12, QuotaKept DEF WaitStep, LookUp, Arm, CheckStatus, Wake
<1>13. ASSUME Restart PROVE Quota'
  <2>1. \A t \in Task : task'[t].pc \in {"none", "done", "refused", "dead"}
    BY <1>0, <1>13 DEF Restart, NewTask, TaskRecord
  <2>2. live' = {} /\ quota' = 0
    BY <1>13 DEF Restart
  <2>3. QED
    BY <2>1, <2>2, FS_EmptySet DEF Quota, SlotSteps, Spawning, Driving
<1>14. ASSUME UNCHANGED vars PROVE Quota'
  BY <1>14, QuotaKept DEF vars
<1>15. QED
  BY <1>1, <1>2, <1>3, <1>4, <1>5, <1>6, <1>7, <1>8, <1>9, <1>10, <1>11, <1>12,
     <1>13, <1>14 DEF Next, SpawnStep, DriveStep

\* The per-root counter equals the number of tasks that hold a slot and never
\* exceeds max_per_session, whichever way spawning, driving, the fallback or the
\* process ended: no error path leaks a slot and none frees it twice.
THEOREM SubagentQuotaExact == Spec => []QuotaExact
<1>1. Init => TypeOK /\ Quota
  <2>1. Init => Quota
    BY FS_EmptySet DEF Init, Quota, NewTask, SlotSteps, Spawning, Driving
  <2>2. QED
    BY <2>1, InitType
<1>2. TypeOK /\ Quota /\ [Next]_vars => (TypeOK /\ Quota)'
  BY NextType, NextQuota
<1>3. TypeOK /\ Quota => QuotaExact
  BY DEF TypeOK, Quota, QuotaExact, SlotSteps
<1>4. QED
  BY <1>1, <1>2, <1>3, PTL DEF Spec

-------------------------------------------------------------------------------
(* How a task ends, for its caller and in the store.                       *)

\* The fallback of a continuation does not settle.
NeverSettled(t) == task[t].fell /\ t \in Continuation

Settled == {"settled", "done"}
Told    == {"set", "told"} \cup Settled
Owned   == {"owned"} \cup Told

\* Who is told, and by which channel: the ownership word is terminal from
\* settle_delivery on, a caller with a result saw it in the foreground, one with
\* an acknowledgement in the background, and the outbox follows the word.
Channel(t) ==
    /\ task[t].pc \notin Driving \cup {"done", "dead"} => waiter[t].pc = "none"
    /\ waiter[t].pc \in Waiting => task[t].pc # "dead"
    /\ waiter[t].pc = "result" =>
          \/ task[t].pc = "dead"
          \/ /\ task[t].pc \in Told
             /\ task[t].delivery = "termForeground" \/ NeverSettled(t)
    /\ waiter[t].pc = "result" => t \notin outbox
    /\ waiter[t].pc = "acked" =>
          \/ task[t].pc = "dead"
          \/ task[t].delivery \in {"background", "termBackground"}
    /\ task[t].pc \in Owned =>
          \/ NeverSettled(t)
          \/ task[t].delivery \in {"termForeground", "termBackground"}
    /\ t \in outbox =>
          \/ task[t].pc = "dead"
          \/ /\ task[t].pc \in Settled
             /\ task[t].delivery = "termBackground"
             /\ ~NeverSettled(t)
    /\ (task[t].pc \in Settled /\ task[t].delivery = "termBackground") =>
          NeverSettled(t) \/ t \in outbox \cup lostAppend
    /\ task[t].status \in Terminal => task[t].pc \in Told

\* What is recorded: one announcement, made by the settling step; the version
\* the driver holds is the row's until it writes the outcome, so its
\* compare-and-swap cannot miss.
Ending(t) ==
    /\ settledEvents[t] = 0 \/ settledEvents[t] = 1
    /\ settledEvents[t] = 1 => task[t].pc \in Settled \cup {"dead"}
    /\ task[t].pc \in Settled => NeverSettled(t) \/ settledEvents[t] = 1
    /\ task[t].pc = "failed" => task[t].fell
    /\ task[t].pc \in {"running", "ran"} => row[t].version = task[t].version
    /\ task[t].pc \in {"ran", "patched"} \cup Owned => task[t].final \in Terminal
    /\ (task[t].pc \in {"patched"} \cup Owned /\ t \notin lostPatch) =>
          row[t].status = task[t].final
    /\ task[t].pc \in Told => task[t].status = task[t].final

Outcome == \A t \in Task : Channel(t) /\ Ending(t)

\* Nothing that the outcome of u depends on changes.
Kept(u) ==
    /\ task'[u].pc = task[u].pc /\ task'[u].delivery = task[u].delivery
    /\ task'[u].status = task[u].status /\ task'[u].fell = task[u].fell
    /\ task'[u].final = task[u].final /\ task'[u].version = task[u].version
    /\ row'[u] = row[u]
    /\ waiter'[u].pc = waiter[u].pc
    /\ u \in outbox' <=> u \in outbox
    /\ u \in lostPatch' <=> u \in lostPatch
    /\ u \in lostAppend' <=> u \in lostAppend
    /\ settledEvents'[u] = settledEvents[u]

\* Such a task keeps its outcome.
LEMMA KeptOutcome ==
    ASSUME NEW u \in Task, Channel(u), Ending(u), Kept(u)
    PROVE  Channel(u)' /\ Ending(u)'
<1>1. NeverSettled(u)' <=> NeverSettled(u)
  BY DEF NeverSettled, Kept
<1>2. Channel(u)'
  BY <1>1 DEF Channel, Kept
<1>3. Ending(u)'
  BY <1>1 DEF Ending, Kept
<1>4. QED
  BY <1>2, <1>3

\* The rest of the state that an outcome depends on, of the tasks other than t.
Elsewhere(t) ==
    \A u \in Task : u # t =>
        /\ row'[u] = row[u]
        /\ waiter'[u].pc = waiter[u].pc
        /\ u \in outbox' <=> u \in outbox
        /\ u \in lostPatch' <=> u \in lostPatch
        /\ u \in lostAppend' <=> u \in lostAppend
        /\ settledEvents'[u] = settledEvents[u]

\* A step about the task t is judged by what it makes of t.
LEMMA OutcomeOf ==
    ASSUME Outcome, NEW t \in Task, Elsewhere(t),
           \A u \in Task : u # t => task'[u] = task[u],
           Channel(t)', Ending(t)'
    PROVE  Outcome'
<1>1. ASSUME NEW u \in Task PROVE Channel(u)' /\ Ending(u)'
  <2>1. CASE u = t
    BY <2>1
  <2>2. CASE u # t
    <3>1. Kept(u)
      BY <2>2 DEF Elsewhere, Kept
    <3>2. QED
      BY <3>1, KeptOutcome DEF Outcome
  <2>3. QED
    BY <2>1, <2>2
<1>2. QED
  BY <1>1 DEF Outcome

\* The compare-and-swap on a row.
LEMMA PatchEffect ==
    ASSUME row \in [Task -> RowRecord], NEW t \in Task, NEW v, NEW s, Patch(t, v, s)
    PROVE  /\ \A u \in Task : u # t => row'[u] = row[u]
           /\ row[t].version = v => row'[t] = [status |-> s, version |-> v + 1]
BY DEF Patch

\* Waking a caller does not move it.
LEMMA NotifyEffect ==
    ASSUME waiter \in [Task -> WaiterRecord], NEW t \in Task, NotifyWaiters(t)
    PROVE  \A u \in Task : waiter'[u].pc = waiter[u].pc
BY DEF NotifyWaiters, WaiterRecord

\* Every step keeps every outcome.
LEMMA NextOutcome == TypeOK /\ Outcome /\ [Next]_vars => Outcome'
<1> SUFFICES ASSUME TypeOK, Outcome, [Next]_vars PROVE Outcome'
  OBVIOUS
<1>0. /\ task \in [Task -> TaskRecord] /\ row \in [Task -> RowRecord]
      /\ waiter \in [Task -> WaiterRecord] /\ settledEvents \in [Task -> Nat]
  BY DEF TypeOK, TaskRecord, RowRecord, WaiterRecord
<1>a. ASSUME NEW t \in Task PROVE Channel(t) /\ Ending(t)
  BY DEF Outcome
<1> USE DEF NeverSettled
<1>1. ASSUME NEW t \in Task, NEW bg \in BOOLEAN, Plan(t, bg) PROVE Outcome'
  <2>1. Becomes(task, task', t, "admitted", IF bg THEN "background" ELSE "foreground",
                "running", FALSE, "running", 0)
    BY <1>0, <1>1, TaskEffects
  <2>2. UNCHANGED <<row, outbox, waiter, settledEvents, lostPatch, lostAppend>>
    BY <1>1 DEF Plan
  <2>3. task[t].pc = "none"
    BY <1>1 DEF Plan
  <2>4. Channel(t)'
    BY <1>a, <2>1, <2>2, <2>3
       DEF Becomes, Channel, Driving, Waiting, Owned, Told, Settled, Terminal
  <2>5. Ending(t)'
    BY <1>a, <2>1, <2>2, <2>3 DEF Becomes, Ending, Owned, Told, Settled
  <2>6. QED
    BY <2>1, <2>2, <2>4, <2>5, OutcomeOf DEF Becomes, Elsewhere
<1>2. ASSUME NEW t \in Task, Persist(t) PROVE Outcome'
  <2>1. Moves(t, "persisted")
    BY <1>0, <1>2, TaskEffects
  <2>2. UNCHANGED <<outbox, waiter, settledEvents, lostPatch, lostAppend>>
    BY <1>2 DEF Persist
  <2>3. task[t].pc = "admitted" /\ \A u \in Task : u # t => row'[u] = row[u]
    BY <1>0, <1>2 DEF Persist
  <2>4. Channel(t)'
    BY <1>a, <2>1, <2>2, <2>3
       DEF Moves, Becomes, Channel, Driving, Waiting, Owned, Told, Settled, Terminal
  <2>5. Ending(t)'
    BY <1>a, <2>1, <2>2, <2>3 DEF Moves, Becomes, Ending, Owned, Told, Settled
  <2>6. QED
    BY <2>1, <2>2, <2>3, <2>4, <2>5, OutcomeOf DEF Moves, Becomes, Elsewhere
<1>3. ASSUME NEW t \in Task, Seed(t) PROVE Outcome'
  <2>1. Moves(t, "spawned")
    BY <1>0, <1>3, TaskEffects
  <2>2. UNCHANGED <<row, outbox, settledEvents, lostPatch, lostAppend>>
    BY <1>3 DEF Seed
  <2>3. task[t].pc = "persisted"
    BY <1>3 DEF Seed
  <2>4. /\ waiter'[t].pc = "looking" \/ waiter'[t].pc = waiter[t].pc
        /\ \A u \in Task : u # t => waiter'[u].pc = waiter[u].pc
    BY <1>0, <1>3 DEF Seed, WaiterRecord
  <2>5. waiter[t].pc = "none"
    BY <1>a, <2>3 DEF Channel, Driving
  <2>6. Channel(t)'
    BY <1>a, <2>1, <2>2, <2>3, <2>4, <2>5
       DEF Moves, Becomes, Channel, Driving, Waiting, Owned, Told, Settled, Terminal
  <2>7. Ending(t)'
    BY <1>a, <2>1, <2>2, <2>3 DEF Moves, Becomes, Ending, Owned, Told, Settled
  <2>8. QED
    BY <2>1, <2>2, <2>4, <2>6, <2>7, OutcomeOf DEF Moves, Becomes, Elsewhere
<1>4. ASSUME NEW t \in Task, SpawnFails(t) \/ HandlerDropped(t) PROVE Outcome'
  <2>1. \/ Becomes(task, task', t, "refused", "foreground", "running", FALSE,
                   "running", 0)
        \/ Moves(t, "dropped")
    BY <1>0, <1>4, TaskEffects
  <2>2. UNCHANGED <<row, outbox, waiter, settledEvents, lostPatch, lostAppend>>
    BY <1>4 DEF SpawnFails, HandlerDropped
  <2>3. task[t].pc \in Spawning
    BY <1>4 DEF SpawnFails, HandlerDropped
  <2>4. Channel(t)'
    BY <1>a, <2>1, <2>2, <2>3
       DEF Moves, Becomes, Channel, Spawning, Driving, Waiting, Owned, Told, Settled,
           Terminal
  <2>5. Ending(t)'
    BY <1>a, <2>1, <2>2, <2>3 DEF Moves, Becomes, Ending, Spawning, Owned, Told, Settled
  <2>6. QED
    BY <2>1, <2>2, <2>4, <2>5, OutcomeOf DEF Moves, Becomes, Elsewhere
<1>5. ASSUME NEW t \in Task, Begin(t) PROVE Outcome'
  <2>1. Becomes(task, task', t, "running", task[t].delivery, task[t].status,
                task[t].fell, task[t].final, row[t].version + 1)
    BY <1>0, <1>5, TaskEffects
  <2>2. UNCHANGED <<outbox, waiter, settledEvents, lostPatch, lostAppend>>
    BY <1>5 DEF Begin
  <2>3. task[t].pc = "spawned"
    BY <1>5 DEF Begin
  <2>4. /\ \A u \in Task : u # t => row'[u] = row[u]
        /\ row'[t].version = row[t].version + 1
    <3>1. Patch(t, row[t].version, "running")
      BY <1>5 DEF Begin
    <3>2. /\ \A u \in Task : u # t => row'[u] = row[u]
          /\ row'[t] = [status |-> "running", version |-> row[t].version + 1]
      BY <1>0, <3>1, PatchEffect, Zenon
    <3>3. QED
      BY <3>2
  <2>5. Channel(t)'
    BY <1>a, <2>1, <2>2, <2>3
       DEF Becomes, Channel, Driving, Waiting, Owned, Told, Settled, Terminal
  <2>6. Ending(t)'
    BY <1>a, <2>1, <2>2, <2>3, <2>4 DEF Becomes, Ending, Owned, Told, Settled
  <2>7. QED
    BY <2>1, <2>2, <2>4, <2>5, <2>6, OutcomeOf DEF Becomes, Elsewhere
<1>6. ASSUME NEW t \in Task, DriverFails(t) \/ PatchTerminalFails(t) PROVE Outcome'
  <2>1. Becomes(task, task', t, "failed", task[t].delivery, task[t].status,
                TRUE, task[t].final, task[t].version)
    BY <1>0, <1>6, TaskEffects
  <2>2. UNCHANGED <<outbox, waiter, settledEvents, lostPatch, lostAppend>>
    BY <1>6 DEF DriverFails, PatchTerminalFails
  <2>3. task[t].pc \in {"spawned", "running", "ran"}
    BY <1>6 DEF DriverFails, PatchTerminalFails
  <2>4. \A u \in Task : u # t => row'[u] = row[u]
    BY <1>0, <1>6, PatchEffect DEF DriverFails, PatchTerminalFails
  <2>5. Channel(t)'
    BY <1>a, <2>1, <2>2, <2>3
       DEF Becomes, Channel, Driving, Waiting, Owned, Told, Settled, Terminal
  <2>6. Ending(t)'
    BY <1>a, <2>1, <2>2, <2>3 DEF Becomes, Ending, Owned, Told, Settled
  <2>7. QED
    BY <2>1, <2>2, <2>4, <2>5, <2>6, OutcomeOf DEF Becomes, Elsewhere
<1>7. ASSUME NEW t \in Task, NEW ok \in BOOLEAN, RunLoop(t, ok) PROVE Outcome'
  <2>1. Becomes(task, task', t, "ran", task[t].delivery, task[t].status,
                task[t].fell, FinalStatus(t, ok), task[t].version)
    BY <1>0, <1>7, TaskEffects
  <2>2. UNCHANGED <<row, outbox, waiter, settledEvents, lostPatch, lostAppend>>
    BY <1>7 DEF RunLoop
  <2>3. task[t].pc = "running" /\ FinalStatus(t, ok) \in Terminal
    BY <1>7 DEF RunLoop, FinalStatus, Terminal
  <2>4. Channel(t)'
    BY <1>a, <2>1, <2>2, <2>3
       DEF Becomes, Channel, Driving, Waiting, Owned, Told, Settled
  <2>5. Ending(t)'
    BY <1>a, <2>1, <2>2, <2>3 DEF Becomes, Ending, Owned, Told, Settled
  <2>6. QED
    BY <2>1, <2>2, <2>4, <2>5, OutcomeOf DEF Becomes, Elsewhere
<1>8. ASSUME NEW t \in Task, PatchTerminal(t) PROVE Outcome'
  <2>1. Moves(t, "patched")
    BY <1>0, <1>8, TaskEffects
  <2>2. UNCHANGED <<outbox, waiter, settledEvents, lostPatch, lostAppend>>
    BY <1>8 DEF PatchTerminal
  <2>3. task[t].pc = "ran"
    BY <1>8 DEF PatchTerminal
  <2>4. row[t].version = task[t].version
    BY <1>a, <2>3 DEF Ending
  <2>5. /\ \A u \in Task : u # t => row'[u] = row[u]
        /\ row'[t].status = task[t].final
    <3>1. Patch(t, task[t].version, task[t].final)
      BY <1>8 DEF PatchTerminal
    <3>2. /\ \A u \in Task : u # t => row'[u] = row[u]
          /\ row'[t] = [status |-> task[t].final, version |-> task[t].version + 1]
      BY <1>0, <2>4, <3>1, PatchEffect, ZenonT(60)
    <3>3. QED
      BY <3>2
  <2>6. Channel(t)'
    BY <1>a, <2>1, <2>2, <2>3
       DEF Moves, Becomes, Channel, Driving, Waiting, Owned, Told, Settled
  <2>7. Ending(t)'
    BY <1>a, <2>1, <2>2, <2>3, <2>5 DEF Moves, Becomes, Ending, Owned, Told, Settled
  <2>8. QED
    BY <2>1, <2>2, <2>5, <2>6, <2>7, OutcomeOf DEF Moves, Becomes, Elsewhere
<1>9. ASSUME NEW t \in Task, Fallback(t) PROVE Outcome'
  <2>1. Becomes(task, task', t, IF t \in Continuation THEN "owned" ELSE "patched",
                task[t].delivery, task[t].status, task[t].fell, "failed",
                task[t].version)
    BY <1>0, <1>9, TaskEffects
  <2>2. UNCHANGED <<outbox, waiter, settledEvents, lostAppend>>
    BY <1>9 DEF Fallback
  <2>3. task[t].pc = "failed"
    BY <1>9 DEF Fallback
  <2>4. /\ \A u \in Task : u # t => row'[u] = row[u]
        /\ row'[t].status = "failed" \/ t \in lostPatch'
        /\ \A u \in Task : u # t => (u \in lostPatch' <=> u \in lostPatch)
    <3>1. CASE Patch(t, row[t].version, "failed") /\ UNCHANGED lostPatch
      <4>1. /\ \A u \in Task : u # t => row'[u] = row[u]
            /\ row'[t] = [status |-> "failed", version |-> row[t].version + 1]
        BY <1>0, <3>1, PatchEffect, ZenonT(60)
      <4>2. QED
        BY <3>1, <4>1
    <3>2. CASE lostPatch' = lostPatch \cup {t} /\ UNCHANGED row
      BY <3>2
    <3>3. QED
      BY <1>9, <3>1, <3>2 DEF Fallback
  <2>5. task[t].fell
    BY <1>a, <2>3 DEF Ending
  <2>6. Channel(t)'
    BY <1>a, <2>1, <2>2, <2>3, <2>5
       DEF Becomes, Channel, Driving, Waiting, Owned, Told, Settled
  <2>7. Ending(t)'
    BY <1>a, <2>1, <2>2, <2>3, <2>4 DEF Becomes, Ending, Owned, Told, Settled, Terminal
  <2>8. QED
    BY <2>1, <2>2, <2>4, <2>6, <2>7, OutcomeOf DEF Becomes, Elsewhere
<1>10. ASSUME NEW t \in Task, SettleDelivery(t) PROVE Outcome'
  <2>1. Becomes(task, task', t, "owned", Terminated(task[t].delivery),
                task[t].status, task[t].fell, task[t].final, task[t].version)
    BY <1>0, <1>10, TaskEffects
  <2>2. UNCHANGED <<row, outbox, waiter, settledEvents, lostPatch, lostAppend>>
    BY <1>10 DEF SettleDelivery
  <2>3. task[t].pc = "patched"
    BY <1>10 DEF SettleDelivery
  <2>4. /\ Terminated(task[t].delivery) \in {"termForeground", "termBackground"}
        /\ task[t].delivery \in {"background", "termBackground"} =>
              Terminated(task[t].delivery) = "termBackground"
    BY <1>0 DEF Terminated, TaskRecord, Delivery
  <2>5. Channel(t)'
    BY <1>a, <2>1, <2>2, <2>3, <2>4
       DEF Becomes, Channel, Driving, Waiting, Owned, Told, Settled
  <2>6. Ending(t)'
    BY <1>a, <2>1, <2>2, <2>3 DEF Becomes, Ending, Owned, Told, Settled
  <2>7. QED
    BY <2>1, <2>2, <2>5, <2>6, OutcomeOf DEF Becomes, Elsewhere
<1>11. ASSUME NEW t \in Task, SetStatus(t) PROVE Outcome'
  <2>1. Becomes(task, task', t, "set", task[t].delivery, task[t].final,
                task[t].fell, task[t].final, task[t].version)
    BY <1>0, <1>11, TaskEffects
  <2>2. UNCHANGED <<row, outbox, waiter, settledEvents, lostPatch, lostAppend>>
    BY <1>11 DEF SetStatus
  <2>3. task[t].pc = "owned"
    BY <1>11 DEF SetStatus
  <2>4. Channel(t)'
    BY <1>a, <2>1, <2>2, <2>3
       DEF Becomes, Channel, Driving, Waiting, Owned, Told, Settled
  <2>5. Ending(t)'
    BY <1>a, <2>1, <2>2, <2>3 DEF Becomes, Ending, Owned, Told, Settled
  <2>6. QED
    BY <2>1, <2>2, <2>4, <2>5, OutcomeOf DEF Becomes, Elsewhere
<1>12. ASSUME NEW t \in Task, Announce(t) PROVE Outcome'
  <2>1. Moves(t, "told")
    BY <1>0, <1>12, TaskEffects
  <2>2. UNCHANGED <<row, outbox, settledEvents, lostPatch, lostAppend>>
    BY <1>12 DEF Announce
  <2>3. task[t].pc = "set"
    BY <1>12 DEF Announce
  <2>4. \A u \in Task : waiter'[u].pc = waiter[u].pc
    BY <1>0, <1>12, NotifyEffect DEF Announce
  <2>5. Channel(t)'
    BY <1>a, <2>1, <2>2, <2>3, <2>4
       DEF Moves, Becomes, Channel, Driving, Waiting, Owned, Told, Settled
  <2>6. Ending(t)'
    BY <1>a, <2>1, <2>2, <2>3 DEF Moves, Becomes, Ending, Owned, Told, Settled
  <2>7. QED
    BY <2>1, <2>2, <2>4, <2>5, <2>6, OutcomeOf DEF Moves, Becomes, Elsewhere
<1>13. ASSUME NEW t \in Task, Settle(t) PROVE Outcome'
  <2>1. Moves(t, "settled")
    BY <1>0, <1>13, TaskEffects
  <2>2. UNCHANGED <<row, waiter, lostPatch>>
    BY <1>13 DEF Settle
  <2>3. task[t].pc = "told"
    BY <1>13 DEF Settle
  <2>4. \A u \in Task : u # t => /\ u \in outbox' <=> u \in outbox
                                 /\ u \in lostAppend' <=> u \in lostAppend
                                 /\ settledEvents'[u] = settledEvents[u]
    BY <1>0, <1>13 DEF Settle
  <2>5. \/ NeverSettled(t) /\ UNCHANGED <<outbox, settledEvents, lostAppend>>
        \/ /\ ~NeverSettled(t)
           /\ settledEvents'[t] = settledEvents[t] + 1
           /\ \/ /\ task[t].delivery = "termBackground"
                 /\ t \in outbox' \cup lostAppend'
              \/ /\ task[t].delivery # "termBackground"
                 /\ UNCHANGED <<outbox, lostAppend>>
    BY <1>0, <1>13 DEF Settle
  <2>6. settledEvents[t] = 0
    BY <1>a, <2>3 DEF Ending, Settled
  <2>7. Channel(t)'
    BY <1>a, <2>1, <2>2, <2>3, <2>5
       DEF Moves, Becomes, Channel, Driving, Waiting, Owned, Told, Settled
  <2>8. Ending(t)'
    BY <1>a, <2>1, <2>2, <2>3, <2>5, <2>6
       DEF Moves, Becomes, Ending, Owned, Told, Settled
  <2>9. QED
    BY <2>1, <2>2, <2>4, <2>7, <2>8, OutcomeOf DEF Moves, Becomes, Elsewhere
<1>14. ASSUME NEW t \in Task, Finalize(t) PROVE Outcome'
  <2>1. Becomes(task, task', t, "done", task[t].delivery, task[t].status,
                task[t].fell, task[t].final, 0)
    BY <1>0, <1>14, TaskEffects
  <2>2. UNCHANGED <<row, outbox, waiter, settledEvents, lostPatch, lostAppend>>
    BY <1>14 DEF Finalize
  <2>3. task[t].pc = "settled"
    BY <1>14 DEF Finalize
  <2>4. Channel(t)'
    BY <1>a, <2>1, <2>2, <2>3
       DEF Becomes, Channel, Driving, Waiting, Owned, Told, Settled
  <2>5. Ending(t)'
    BY <1>a, <2>1, <2>2, <2>3 DEF Becomes, Ending, Owned, Told, Settled
  <2>6. QED
    BY <2>1, <2>2, <2>4, <2>5, OutcomeOf DEF Becomes, Elsewhere
<1>15. ASSUME NEW t \in Task, BackgroundTask(t) PROVE Outcome'
  <2>1. Becomes(task, task', t, task[t].pc, "background", task[t].status,
                task[t].fell, task[t].final, task[t].version)
    BY <1>0, <1>15, TaskEffects
  <2>2. UNCHANGED <<row, outbox, settledEvents, lostPatch, lostAppend>>
    BY <1>15 DEF BackgroundTask
  <2>3. task[t].delivery = "foreground"
    BY <1>15 DEF BackgroundTask
  <2>4. \A u \in Task : waiter'[u].pc = waiter[u].pc
    BY <1>0, <1>15, NotifyEffect DEF BackgroundTask
  <2>5. Channel(t)'
    BY <1>a, <2>1, <2>2, <2>3, <2>4 DEF Becomes, Channel
  <2>6. Ending(t)'
    BY <1>a, <2>1, <2>2 DEF Becomes, Ending
  <2>7. QED
    BY <2>1, <2>2, <2>4, <2>5, <2>6, OutcomeOf DEF Becomes, Elsewhere
<1>16. ASSUME NEW t \in Task, Cancel(t) \/ Interrupt(t) PROVE Outcome'
  <2>1. Moves(t, task[t].pc)
    BY <1>0, <1>16, TaskEffects
  <2>2. UNCHANGED <<row, outbox, waiter, settledEvents, lostPatch, lostAppend>>
    BY <1>16 DEF Cancel, Interrupt
  <2>3. \A u \in Task : Kept(u)
    BY <2>1, <2>2 DEF Moves, Becomes, Kept
  <2>4. QED
    BY <1>a, <2>3, KeptOutcome DEF Outcome
<1>17. ASSUME CancelDescendants PROVE Outcome'
  <2>1. \A u \in Task :
           /\ task'[u].pc = task[u].pc /\ task'[u].delivery = task[u].delivery
           /\ task'[u].status = task[u].status /\ task'[u].fell = task[u].fell
           /\ task'[u].final = task[u].final /\ task'[u].version = task[u].version
    BY <1>0, <1>17 DEF CancelDescendants, TaskRecord
  <2>2. \A u \in Task : Kept(u)
    BY <1>17, <2>1 DEF CancelDescendants, Kept
  <2>3. QED
    BY <1>a, <2>2, KeptOutcome DEF Outcome
<1>18. ASSUME NEW t \in Task, WaitStep(t) PROVE Outcome'
  <2>1. UNCHANGED <<task, row, outbox, settledEvents, lostPatch, lostAppend>>
    BY <1>18 DEF WaitStep, LookUp, Arm, CheckStatus, Wake
  <2>2. /\ waiter[t].pc \in Waiting
        /\ \A u \in Task : u # t => waiter'[u].pc = waiter[u].pc
        /\ \/ waiter'[t].pc \in {"looked", "armed", "asleep", "cached", "durable", "error"}
           \/ /\ waiter'[t].pc = "acked"
              /\ task[t].delivery \in {"background", "termBackground"}
           \/ /\ waiter'[t].pc = "result"
              /\ task[t].delivery \notin {"background", "termBackground"}
              /\ task[t].status \in Terminal
    <3>1. CASE LookUp(t)
      BY <1>0, <3>1 DEF LookUp, WaiterRecord, Waiting
    <3>2. CASE Arm(t)
      BY <1>0, <3>2 DEF Arm, WaiterRecord, Waiting
    <3>3. CASE CheckStatus(t)
      BY <1>0, <3>3 DEF CheckStatus, WaiterRecord, Waiting
    <3>4. CASE Wake(t)
      BY <1>0, <3>4 DEF Wake, WaiterRecord, Waiting
    <3>5. QED
      BY <1>18, <3>1, <3>2, <3>3, <3>4 DEF WaitStep
  <2>3. Ending(t)'
    BY <1>a, <2>1 DEF Ending
  <2>4. Channel(t)'
    <3>1. task[t].pc \in Driving \cup {"done"}
      BY <1>a, <2>2 DEF Channel, Waiting
    <3>2. CASE waiter'[t].pc = "result"
      BY <1>a, <2>1, <2>2, <3>1, <3>2 DEF Channel, Waiting, Owned, Driving
    <3>3. CASE waiter'[t].pc = "acked"
      BY <1>a, <2>1, <2>2, <3>1, <3>3 DEF Channel, Waiting, Driving
    <3>4. CASE waiter'[t].pc \in {"looked", "armed", "asleep", "cached", "durable", "error"}
      BY <1>a, <2>1, <2>2, <3>1, <3>4 DEF Channel, Waiting, Driving
    <3>5. QED
      BY <2>2, <3>2, <3>3, <3>4
  <2>5. QED
    BY <2>1, <2>2, <2>3, <2>4, OutcomeOf DEF Elsewhere
<1>19. ASSUME Restart PROVE Outcome'
  <2>1. UNCHANGED <<outbox, settledEvents, lostPatch, lostAppend>>
    BY <1>19 DEF Restart
  <2>2. ASSUME NEW t \in Task PROVE Channel(t)' /\ Ending(t)'
    <3>1. \/ waiter'[t].pc = "none"
          \/ waiter'[t].pc = waiter[t].pc /\ waiter[t].pc \notin Waiting
      BY <1>0, <1>19 DEF Restart
    <3>2. CASE task[t].pc \in {"none", "done", "refused"}
      <4>1. task'[t] = task[t]
        BY <1>19, <3>2 DEF Restart
      <4>2. row[t].status \in Terminal => row'[t] = row[t]
        BY <1>19 DEF Restart, Terminal
      <4>3. Channel(t)'
        BY <1>a, <2>1, <3>1, <3>2, <4>1
           DEF Channel, Driving, Waiting, Owned, Told, Settled
      <4>4. Ending(t)'
        BY <1>a, <2>1, <3>2, <4>1, <4>2 DEF Ending, Owned, Told, Settled
      <4>5. QED
        BY <4>3, <4>4
    <3>3. CASE task[t].pc \notin {"none", "done", "refused"}
      <4>1. task'[t] = [NewTask EXCEPT !.pc = "dead"]
        BY <1>19, <3>3 DEF Restart
      <4>2. task'[t].pc = "dead" /\ task'[t].status = "running" /\ ~task'[t].fell
        BY <4>1 DEF NewTask
      <4>3. Channel(t)'
        BY <1>a, <2>1, <3>1, <4>2
           DEF Channel, Waiting, Owned, Told, Settled, Terminal
      <4>4. Ending(t)'
        BY <1>a, <2>1, <4>2 DEF Ending, Owned, Told, Settled
      <4>5. QED
        BY <4>3, <4>4
    <3>4. QED
      BY <3>2, <3>3
  <2>3. QED
    BY <2>2 DEF Outcome
<1>20. ASSUME UnknownType \/ UNCHANGED vars PROVE Outcome'
  <2>1. \A u \in Task : Kept(u)
    BY <1>20 DEF UnknownType, vars, Kept
  <2>2. QED
    BY <1>a, <2>1, KeptOutcome DEF Outcome
<1>21. QED
  BY <1>1, <1>2, <1>3, <1>4, <1>5, <1>6, <1>7, <1>8, <1>9, <1>10, <1>11, <1>12,
     <1>13, <1>14, <1>15, <1>16, <1>17, <1>18, <1>19, <1>20
     DEF Next, SpawnStep, DriveStep

\* It holds to begin with.
LEMMA InitOutcome == Init => Outcome
BY DEF Init, Outcome, Channel, Ending, NewTask, NeverSettled, Driving, Waiting, Owned,
       Told, Settled, Terminal

\* A caller that waited on the live handle learns the outcome by one channel,
\* whichever of background_task and settle_delivery wins the compare-and-swap:
\* a result and then no outbox row, or an acknowledgement and then an outbox row
\* by the time the task is gone.
THEOREM SubagentOneChannel == Spec => []OneChannel
<1>1. TypeOK /\ Outcome => OneChannel
  BY DEF Outcome, Channel, OneChannel, NeverSettled, Owned, Told, Settled
<1>2. QED
  BY <1>1, InitType, NextType, InitOutcome, NextOutcome, PTL DEF Spec

\* A task is announced once, by the driver or by its fallback, and when it is
\* gone its durable row, the registry's status and the outcome its driver
\* decided agree, unless the store refused even the fallback's update.
THEOREM SubagentEndsOnce == Spec => []EndsOnce
<1>1. TypeOK /\ Outcome => EndsOnce
  BY DEF Outcome, Ending, EndsOnce, SettledOnce, RowAgrees, NeverSettled, Owned, Told,
         Settled
<1>2. QED
  BY <1>1, InitType, NextType, InitOutcome, NextOutcome, PTL DEF Spec
=============================================================================

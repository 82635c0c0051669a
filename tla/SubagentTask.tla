----------------------------- MODULE SubagentTask -----------------------------
(***************************************************************************)
(* The life of the subagent tasks of one root session: admission under the *)
(* two quotas, the durable execution row, the driver and its fallback, the *)
(* terminal-output ownership word that the background route and settlement *)
(* race for, the parked foreground caller, the terminal cache, cancel and  *)
(* interrupt, store errors and process death.                              *)
(*                                                                         *)
(* A member of Task is one task id.  An await, or a point where another    *)
(* thread can see the registry, is a boundary between steps.               *)
(***************************************************************************)
EXTENDS Naturals, Sequences, FiniteSets

CONSTANTS
    Task,          \* task ids
    Continuation,  \* the ones that continue an existing child session
    MaxLive,       \* max_per_session
    MaxLifetime,   \* max_lifetime_spawns
    CacheCap,      \* TERMINAL_CACHE_CAP
    MaxFaults      \* bound on store errors, driver panics, drops and restarts

ASSUME SubagentAssumption ==
    /\ Continuation \subseteq Task
    /\ MaxLive \in Nat /\ MaxLifetime \in Nat
    /\ CacheCap \in Nat /\ MaxFaults \in Nat

VARIABLES
    task,          \* the TaskHandle and the spawner or driver working on it
    live,          \* TaskRegistry.tasks
    interrupted,   \* TaskRegistry.interrupted
    cache,         \* TerminalCache.order: tasks with a terminal snapshot
    quota,         \* session_descendants[root]
    lifetime,      \* lifetime_spawns[root]
    row,           \* subagent_executions
    outbox,        \* tasks whose settlement was appended to the outbox
    waiter,        \* the foreground tool call waiting for the task
    faults,
    \* Observation only.
    settledEvents, \* SubagentSettled frames, per task
    lostPatch,     \* tasks whose terminal row update was not stored
    lostAppend     \* tasks whose outbox append was not stored

vars == <<task, live, interrupted, cache, quota, lifetime, row, outbox, waiter,
          faults, settledEvents, lostPatch, lostAppend>>

\* Spawner: admitted, persisted.  Driver: spawned .. settled.
Pc == {"none", "admitted", "persisted", "spawned", "running", "ran", "failed",
       "patched", "owned", "set", "told", "settled",
       "done", "refused", "dropped", "dead"}

Spawning == {"admitted", "persisted"}
Driving  == {"spawned", "running", "ran", "failed", "patched", "owned", "set",
             "told", "settled"}

Delivery == {"foreground", "background", "termForeground", "termBackground"}

Terminal   == {"finished", "cancelled", "interrupted", "failed"}
TaskStatus == {"running"} \cup Terminal
RowStatus  == {"absent", "pending", "running"} \cup Terminal

\* looking: the tool is about to look the handle up.  The last five are what
\* the tool call returned.
WaiterPc == {"none", "looking", "looked", "armed", "asleep",
             "acked", "result", "cached", "durable", "error"}

Waiting == {"looking", "looked", "armed", "asleep"}

NewTask == [pc |-> "none", delivery |-> "foreground", background |-> FALSE,
            status |-> "running", cancel |-> FALSE, settled |-> FALSE,
            fell |-> FALSE, final |-> "running", version |-> 0]

Init ==
    /\ task = [t \in Task |-> NewTask]
    /\ live = {}
    /\ interrupted = {}
    /\ cache = <<>>
    /\ quota = 0
    /\ lifetime = 0
    /\ row = [t \in Task |-> [status |-> "absent", version |-> 0]]
    /\ outbox = {}
    /\ waiter = [t \in Task |-> [pc |-> "none", woken |-> FALSE]]
    /\ faults = 0
    /\ settledEvents = [t \in Task |-> 0]
    /\ lostPatch = {}
    /\ lostAppend = {}

Fault == faults < MaxFaults /\ faults' = faults + 1

Cached(t) == \E i \in 1 .. Len(cache) : cache[i] = t

\* saturating_dec.
Dec(n) == IF n > 0 THEN n - 1 ELSE 0

\* TaskRegistry::finalize: the quota goes with the entry, once.
FinalizeTask(t) ==
    /\ interrupted' = interrupted \ {t}
    /\ live' = live \ {t}
    /\ quota' = IF t \in live THEN Dec(quota) ELSE quota

\* Notify::notify_waiters wakes the waiters that are enabled already.
NotifyWaiters(t) ==
    waiter' = IF waiter[t].pc \in {"armed", "asleep"}
                THEN [waiter EXCEPT ![t].woken = TRUE] ELSE waiter

-------------------------------------------------------------------------------
(* Admission: spawn, continue_subagent.                                    *)

\* TaskRegistry::admit, when it says yes.
Admit ==
    /\ lifetime < MaxLifetime
    /\ quota < MaxLive
    /\ lifetime' = lifetime + 1

\* plan_subagent_spawn / plan_subagent_continuation and the ownership of a
\* task born in the background: no await in between.
Plan(t, bg) ==
    /\ task[t].pc = "none"
    /\ Admit
    /\ quota' = quota + 1
    /\ live' = live \cup {t}
    /\ task' = [task EXCEPT ![t] =
                  [NewTask EXCEPT !.pc = "admitted", !.background = bg,
                     !.delivery = IF bg THEN "background" ELSE "foreground"]]
    /\ UNCHANGED <<interrupted, cache, row, outbox, waiter, faults,
                   settledEvents, lostPatch, lostAppend>>

\* An unknown agent type: the concurrency slot is given back, the lifetime
\* budget is not.
UnknownType ==
    /\ Admit
    /\ UNCHANGED <<task, live, interrupted, cache, quota, row, outbox, waiter,
                   faults, settledEvents, lostPatch, lostAppend>>

\* create_subagent_session_and_execution / create_subagent_execution.
Persist(t) ==
    /\ task[t].pc = "admitted"
    /\ task' = [task EXCEPT ![t].pc = "persisted"]
    /\ row' = [row EXCEPT ![t] = [status |-> "pending", version |-> 0]]
    /\ UNCHANGED <<live, interrupted, cache, quota, lifetime, outbox, waiter,
                   faults, settledEvents, lostPatch, lostAppend>>

\* The objective is seeded and the driver spawned; a foreground tool call then
\* goes on to wait.  A continuation asked for over HTTP has nobody waiting.
Seed(t) ==
    /\ task[t].pc = "persisted"
    /\ task' = [task EXCEPT ![t].pc = "spawned"]
    /\ \/ /\ ~task[t].background
          /\ waiter' = [waiter EXCEPT ![t].pc = "looking"]
       \/ /\ task[t].background \/ t \in Continuation
          /\ UNCHANGED waiter
    /\ UNCHANGED <<live, interrupted, cache, quota, lifetime, row, outbox,
                   faults, settledEvents, lostPatch, lostAppend>>

\* Wrong on purpose: the error path returns without finalize.
SpawnFailsLeaks(t) ==
    /\ task[t].pc \in Spawning
    /\ Fault
    /\ task' = [task EXCEPT ![t] = [NewTask EXCEPT !.pc = "refused"]]
    /\ UNCHANGED <<live, interrupted, cache, quota, lifetime, row, outbox, waiter,
                   settledEvents, lostPatch, lostAppend>>

\* A store error before or after the row exists: finalize and report.  A row
\* that exists stays pending.
SpawnFails(t) ==
    /\ task[t].pc \in Spawning
    /\ Fault
    /\ task' = [task EXCEPT ![t] = [NewTask EXCEPT !.pc = "refused"]]
    /\ FinalizeTask(t)
    /\ UNCHANGED <<cache, lifetime, row, outbox, waiter,
                   settledEvents, lostPatch, lostAppend>>

\* The HTTP handler's future is dropped at an await: nothing is undone.
HandlerDropped(t) ==
    /\ task[t].pc \in Spawning
    /\ t \in Continuation
    /\ Fault
    /\ task' = [task EXCEPT ![t].pc = "dropped"]
    /\ UNCHANGED <<live, interrupted, cache, quota, lifetime, row, outbox,
                   waiter, settledEvents, lostPatch, lostAppend>>

-------------------------------------------------------------------------------
(* The driver.                                                             *)

\* patch_subagent_execution: compare-and-swap on the version.
Patch(t, expected, s) ==
    row' = IF row[t].version = expected
             THEN [row EXCEPT ![t] = [status |-> s, version |-> expected + 1]]
             ELSE row

\* Wrong on purpose: the version from before the update is kept.
BeginStale(t) ==
    /\ task[t].pc = "spawned"
    /\ Patch(t, row[t].version, "running")
    /\ task' = [task EXCEPT ![t].pc = "running", ![t].version = row[t].version]
    /\ UNCHANGED <<live, interrupted, cache, quota, lifetime, outbox, waiter,
                   faults, settledEvents, lostPatch, lostAppend>>

\* drive_subagent up to the first run_loop: the row is marked running and the
\* version it got is kept.
Begin(t) ==
    /\ task[t].pc = "spawned"
    /\ Patch(t, row[t].version, "running")
    /\ task' = [task EXCEPT ![t].pc = "running",
                            ![t].version = row[t].version + 1]
    /\ UNCHANGED <<live, interrupted, cache, quota, lifetime, outbox, waiter,
                   faults, settledEvents, lostPatch, lostAppend>>

\* `?` on a store error before the loop (the update may have been applied when
\* reading it back fails), or a panic before or inside the loop.
DriverFails(t) ==
    /\ task[t].pc \in {"spawned", "running"}
    /\ Fault
    /\ task' = [task EXCEPT ![t].pc = "failed", ![t].fell = TRUE]
    /\ \/ UNCHANGED row
       \/ task[t].pc = "spawned" /\ Patch(t, row[t].version, "running")
    /\ UNCHANGED <<live, interrupted, cache, quota, lifetime, outbox, waiter,
                   settledEvents, lostPatch, lostAppend>>

\* final_status of the driver loop.
FinalStatus(t, ok) ==
    CASE ok -> "finished"
      [] ~ok /\ task[t].cancel /\ t \in interrupted -> "interrupted"
      [] ~ok /\ task[t].cancel /\ t \notin interrupted -> "cancelled"
      [] OTHER -> "failed"

\* The loop ends (SubagentInbox has the re-arm decision).
RunLoop(t, ok) ==
    /\ task[t].pc = "running"
    /\ task' = [task EXCEPT ![t].pc = "ran", ![t].final = FinalStatus(t, ok)]
    /\ UNCHANGED <<live, interrupted, cache, quota, lifetime, row, outbox,
                   waiter, faults, settledEvents, lostPatch, lostAppend>>

\* The terminal row update.  A version conflict is only logged.
PatchTerminal(t) ==
    /\ task[t].pc = "ran"
    /\ Patch(t, task[t].version, task[t].final)
    /\ task' = [task EXCEPT ![t].pc = "patched"]
    /\ UNCHANGED <<live, interrupted, cache, quota, lifetime, outbox, waiter,
                   faults, settledEvents, lostPatch, lostAppend>>

\* A store error in it, before or after it was applied, leaves the driver.
PatchTerminalFails(t) ==
    /\ task[t].pc = "ran"
    /\ Fault
    /\ \/ UNCHANGED row
       \/ Patch(t, task[t].version, task[t].final)
    /\ task' = [task EXCEPT ![t].pc = "failed", ![t].fell = TRUE]
    /\ UNCHANGED <<live, interrupted, cache, quota, lifetime, outbox, waiter,
                   settledEvents, lostPatch, lostAppend>>

\* The fallback of the spawned future: the row becomes failed under a version
\* read now, best effort.  A continuation's fallback skips settle_delivery.
Fallback(t) ==
    /\ task[t].pc = "failed"
    /\ \/ /\ Patch(t, row[t].version, "failed")
          /\ UNCHANGED <<faults, lostPatch>>
       \/ /\ Fault
          /\ lostPatch' = lostPatch \cup {t}
          /\ UNCHANGED row
    /\ task' = [task EXCEPT
                  ![t].pc = IF t \in Continuation THEN "owned" ELSE "patched",
                  ![t].final = "failed"]
    /\ UNCHANGED <<live, interrupted, cache, quota, lifetime, outbox, waiter,
                   settledEvents, lostAppend>>

-------------------------------------------------------------------------------
(* Settlement.                                                             *)

\* TaskRegistry::settle_delivery: the CAS loop that the background route races.
SettleDelivery(t) ==
    /\ task[t].pc = "patched"
    /\ task' = [task EXCEPT
                  ![t].pc = "owned",
                  ![t].delivery =
                    CASE @ = "foreground" -> "termForeground"
                      [] @ = "background" -> "termBackground"
                      [] OTHER -> @]
    /\ UNCHANGED <<live, interrupted, cache, quota, lifetime, row, outbox,
                   waiter, faults, settledEvents, lostPatch, lostAppend>>

\* set_status, first half: the status behind its lock.
SetStatus(t) ==
    /\ task[t].pc = "owned"
    /\ task' = [task EXCEPT ![t].pc = "set", ![t].status = task[t].final]
    /\ UNCHANGED <<live, interrupted, cache, quota, lifetime, row, outbox,
                   waiter, faults, settledEvents, lostPatch, lostAppend>>

\* TerminalCache::insert: the oldest snapshots beyond the capacity go.
CacheInsert(t) ==
    LET longer == Append(cache, t) IN
    IF Cached(t) THEN cache
    ELSE IF Len(longer) > CacheCap THEN Tail(longer) ELSE longer

\* Wrong on purpose: the snapshot is cached and nobody is woken.
AnnounceQuietly(t) ==
    /\ task[t].pc = "set"
    /\ task' = [task EXCEPT ![t].pc = "told"]
    /\ cache' = CacheInsert(t)
    /\ UNCHANGED <<live, interrupted, quota, lifetime, row, outbox, waiter,
                   faults, settledEvents, lostPatch, lostAppend>>

\* set_status, second half: the snapshot is cached, then waiters are woken.
Announce(t) ==
    /\ task[t].pc = "set"
    /\ task' = [task EXCEPT ![t].pc = "told"]
    /\ cache' = CacheInsert(t)
    /\ NotifyWaiters(t)
    /\ UNCHANGED <<live, interrupted, quota, lifetime, row, outbox, faults,
                   settledEvents, lostPatch, lostAppend>>

\* claim_settle, the outbox append for a background owner (DeliveryOutbox has
\* what follows), the SubagentSettled frame.  An append error is only logged.
\* A continuation's fallback does none of it.
Settle(t) ==
    /\ task[t].pc = "told"
    /\ \/ /\ task[t].fell /\ t \in Continuation
          /\ task' = [task EXCEPT ![t].pc = "settled"]
          /\ UNCHANGED <<outbox, settledEvents, lostAppend, faults>>
       \/ /\ ~(task[t].fell /\ t \in Continuation)
          /\ t \in live /\ ~task[t].settled
          /\ task' = [task EXCEPT ![t].pc = "settled", ![t].settled = TRUE]
          /\ settledEvents' = [settledEvents EXCEPT ![t] = @ + 1]
          /\ \/ /\ task[t].delivery = "termBackground"
                /\ \/ /\ outbox' = outbox \cup {t}
                      /\ UNCHANGED <<lostAppend, faults>>
                   \/ /\ Fault
                      /\ lostAppend' = lostAppend \cup {t}
                      /\ UNCHANGED outbox
             \/ /\ task[t].delivery # "termBackground"
                /\ UNCHANGED <<outbox, lostAppend, faults>>
    /\ UNCHANGED <<live, interrupted, cache, quota, lifetime, row, waiter,
                   lostPatch>>

\* Wrong on purpose: the task is left in the registry.
FinalizeNot(t) ==
    /\ task[t].pc = "settled"
    /\ task' = [task EXCEPT ![t].pc = "done", ![t].cancel = FALSE,
                            ![t].settled = FALSE, ![t].version = 0]
    /\ UNCHANGED <<live, interrupted, cache, quota, lifetime, row, outbox, waiter,
                   faults, settledEvents, lostPatch, lostAppend>>

\* What only the driver could still read goes with it (a caller may hold on to
\* the status and the ownership word).
Finalize(t) ==
    /\ task[t].pc = "settled"
    /\ task' = [task EXCEPT ![t].pc = "done", ![t].cancel = FALSE,
                            ![t].settled = FALSE, ![t].version = 0]
    /\ FinalizeTask(t)
    /\ UNCHANGED <<cache, lifetime, row, outbox, waiter, faults,
                   settledEvents, lostPatch, lostAppend>>

-------------------------------------------------------------------------------
(* Requests on a running task.  Cancel and interrupt act on a row that is  *)
(* not terminal; one that read the row earlier trips a token that the      *)
(* driver has stopped reading.                                             *)

\* Wrong on purpose: a store instead of the compare-and-swap.
BackgroundStores(t) ==
    /\ t \in live
    /\ task[t].delivery \in {"foreground", "termForeground"}
    /\ task' = [task EXCEPT ![t].delivery =
                  IF @ = "foreground" THEN "background" ELSE "termBackground"]
    /\ NotifyWaiters(t)
    /\ UNCHANGED <<live, interrupted, cache, quota, lifetime, row, outbox,
                   faults, settledEvents, lostPatch, lostAppend>>

\* background_task: the CAS from foreground to background wakes the caller.
BackgroundTask(t) ==
    /\ t \in live
    /\ task[t].delivery = "foreground"
    /\ task' = [task EXCEPT ![t].delivery = "background"]
    /\ NotifyWaiters(t)
    /\ UNCHANGED <<live, interrupted, cache, quota, lifetime, row, outbox,
                   faults, settledEvents, lostPatch, lostAppend>>

\* TaskRegistry::cancel: a cancel overrides an earlier interrupt.
Cancel(t) ==
    /\ t \in live
    /\ row[t].status \in {"pending", "running"}
    /\ interrupted' = interrupted \ {t}
    /\ task' = [task EXCEPT ![t].cancel = TRUE]
    /\ UNCHANGED <<live, cache, quota, lifetime, row, outbox, waiter, faults,
                   settledEvents, lostPatch, lostAppend>>

\* TaskRegistry::interrupt.
Interrupt(t) ==
    /\ t \in live
    /\ row[t].status \in {"pending", "running"}
    /\ interrupted' = interrupted \cup {t}
    /\ task' = [task EXCEPT ![t].cancel = TRUE]
    /\ UNCHANGED <<live, cache, quota, lifetime, row, outbox, waiter, faults,
                   settledEvents, lostPatch, lostAppend>>

\* cancel_descendants (DELETE of the root), or the parent turn's token: every
\* live token is tripped, interrupts stay.
CancelDescendants ==
    /\ \E t \in live : ~task[t].cancel
    /\ task' = [t \in Task |-> IF t \in live THEN [task[t] EXCEPT !.cancel = TRUE]
                               ELSE task[t]]
    /\ UNCHANGED <<live, interrupted, cache, quota, lifetime, row, outbox,
                   waiter, faults, settledEvents, lostPatch, lostAppend>>

-------------------------------------------------------------------------------
(* The foreground tool call: await_foreground_completion.                  *)

\* The handle is cloned out of the map, or the call falls back to the terminal
\* cache, and from there to the durable row.
LookUp(t) ==
    /\ waiter[t].pc = "looking"
    /\ waiter' = [waiter EXCEPT ![t].pc =
                    CASE t \in live -> "looked"
                      [] t \notin live /\ Cached(t) -> "cached"
                      [] t \notin live /\ ~Cached(t) /\ row[t].status \in Terminal
                            -> "durable"
                      [] OTHER -> "error"]
    /\ UNCHANGED <<task, live, interrupted, cache, quota, lifetime, row, outbox,
                   faults, settledEvents, lostPatch, lostAppend>>

\* notified().enable(), before the status is looked at.
Arm(t) ==
    /\ waiter[t].pc = "looked"
    /\ waiter' = [waiter EXCEPT ![t].pc = "armed"]
    /\ UNCHANGED <<task, live, interrupted, cache, quota, lifetime, row, outbox,
                   faults, settledEvents, lostPatch, lostAppend>>

\* Under the status lock: a background owner means a running acknowledgement,
\* a terminal status means the result; else sleep.
CheckStatus(t) ==
    LET background == task[t].delivery \in {"background", "termBackground"}
        finished   == task[t].status \in Terminal
    IN
    /\ waiter[t].pc = "armed"
    /\ waiter' = [waiter EXCEPT ![t] =
                    CASE background -> [pc |-> "acked", woken |-> FALSE]
                      [] ~background /\ finished -> [pc |-> "result", woken |-> FALSE]
                      [] OTHER -> [@ EXCEPT !.pc = "asleep"]]
    /\ UNCHANGED <<task, live, interrupted, cache, quota, lifetime, row, outbox,
                   faults, settledEvents, lostPatch, lostAppend>>

Wake(t) ==
    /\ waiter[t].pc = "asleep"
    /\ waiter[t].woken
    /\ waiter' = [waiter EXCEPT ![t] = [pc |-> "looked", woken |-> FALSE]]
    /\ UNCHANGED <<task, live, interrupted, cache, quota, lifetime, row, outbox,
                   faults, settledEvents, lostPatch, lostAppend>>

-------------------------------------------------------------------------------
\* Process death, and interrupt_live_subagent_executions at boot.
Restart ==
    /\ Fault
    /\ task' = [t \in Task |->
                  IF task[t].pc \in {"none", "done", "refused"} THEN task[t]
                  ELSE [NewTask EXCEPT !.pc = "dead"]]
    /\ live' = {}
    /\ interrupted' = {}
    /\ cache' = <<>>
    /\ quota' = 0
    /\ lifetime' = 0
    /\ waiter' = [t \in Task |-> IF waiter[t].pc \in Waiting
                                   THEN [pc |-> "none", woken |-> FALSE]
                                   ELSE waiter[t]]
    /\ row' = [t \in Task |->
                 IF row[t].status \in {"pending", "running"}
                 THEN [status |-> "interrupted", version |-> row[t].version + 1]
                 ELSE row[t]]
    /\ UNCHANGED <<outbox, settledEvents, lostPatch, lostAppend>>

-------------------------------------------------------------------------------
SpawnStep(t) == Persist(t) \/ Seed(t)

DriveStep(t) ==
    \/ Begin(t)
    \/ \E ok \in BOOLEAN : RunLoop(t, ok)
    \/ PatchTerminal(t) \/ Fallback(t)
    \/ SettleDelivery(t) \/ SetStatus(t) \/ Announce(t) \/ Settle(t)
    \/ Finalize(t)

WaitStep(t) == LookUp(t) \/ Arm(t) \/ CheckStatus(t) \/ Wake(t)

Next ==
    \/ \E t \in Task :
          \/ \E bg \in BOOLEAN : Plan(t, bg)
          \/ SpawnStep(t) \/ SpawnFails(t) \/ HandlerDropped(t)
          \/ DriveStep(t) \/ DriverFails(t) \/ PatchTerminalFails(t)
          \/ BackgroundTask(t) \/ Cancel(t) \/ Interrupt(t)
          \/ WaitStep(t)
    \/ UnknownType
    \/ CancelDescendants
    \/ Restart

\* Spawned futures and tool calls are polled until they end, and a child's
\* conversation ends (MAX_TURN_STEPS, provider timeouts).
Fairness ==
    \A t \in Task : /\ WF_vars(SpawnStep(t))
                    /\ WF_vars(DriveStep(t))
                    /\ WF_vars(WaitStep(t))

Spec == Init /\ [][Next]_vars /\ Fairness

-------------------------------------------------------------------------------
(* Properties.                                                             *)

TypeOK ==
    /\ task \in [Task -> [pc : Pc, delivery : Delivery, background : BOOLEAN,
                          status : TaskStatus, cancel : BOOLEAN,
                          settled : BOOLEAN, fell : BOOLEAN,
                          final : TaskStatus, version : Nat]]
    /\ live \in SUBSET Task
    /\ interrupted \in SUBSET Task
    /\ cache \in Seq(Task) /\ Len(cache) <= CacheCap
    /\ quota \in Nat
    /\ lifetime \in 0 .. MaxLifetime
    /\ row \in [Task -> [status : RowStatus, version : Nat]]
    /\ outbox \in SUBSET Task
    /\ waiter \in [Task -> [pc : WaiterPc, woken : BOOLEAN]]
    /\ faults \in 0 .. MaxFaults
    /\ settledEvents \in [Task -> Nat]
    /\ lostPatch \in SUBSET Task
    /\ lostAppend \in SUBSET Task

\* The per-root counter equals the number of tasks that hold a slot, and those
\* are the admitted ones not yet finalized, whichever way spawning, driving or
\* the fallback ended: no slot is leaked by an error and none is freed twice.
QuotaExact ==
    /\ quota = Cardinality(live)
    /\ quota <= MaxLive
    /\ live = {t \in Task : task[t].pc \in Spawning \cup Driving \cup {"dropped"}}

\* A caller that waited on the live handle is told the outcome by one channel:
\* its own result, and then no outbox row; or a running acknowledgement, and
\* then an outbox row by the time the task is gone.  (Lost appends aside, and a
\* continuation whose driver failed is never settled.)
OneChannel ==
    \A t \in Task :
        /\ waiter[t].pc = "result" => t \notin outbox
        /\ waiter[t].pc = "acked" /\ task[t].pc = "done" =>
              \/ t \in outbox \cup lostAppend
              \/ task[t].fell /\ t \in Continuation

\* A spawned task that ran to its end was announced exactly once, by the driver
\* or by the fallback, never by both.
SettledOnce ==
    \A t \in Task :
        /\ settledEvents[t] <= 1
        /\ task[t].pc = "done" /\ t \notin Continuation => settledEvents[t] = 1

\* When a task is gone its durable row says what its caller was told, unless
\* the store refused even the fallback's update.
RowAgrees ==
    \A t \in Task :
        task[t].pc = "done" /\ t \notin lostPatch =>
            row[t].status = task[t].final /\ task[t].status = task[t].final

\* A task ends as one thing for everybody: announced once, and the durable row,
\* the registry and the caller tell the same outcome, on the driver's path and on
\* the fallback's (subagent_driver.rs, subagent_spawner.rs).
EndsOnce == SettledOnce /\ RowAgrees

\* A foreground call ends: no wake-up is lost between the check and the sleep,
\* against settlement, the background route, finalize and cache eviction.
WaiterReturns ==
    \A t \in Task : waiter[t].pc \in Waiting ~> waiter[t].pc \notin Waiting

\* An admitted task gives its slot back, unless its HTTP handler was dropped.
SlotReleased ==
    \A t \in Task : t \in live ~> t \notin live \/ task[t].pc = "dropped"

=============================================================================

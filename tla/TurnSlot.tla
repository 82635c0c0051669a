------------------------------- MODULE TurnSlot -------------------------------
(***************************************************************************)
(* The per-session turn slot of leti-server: `active_turns` (one handle    *)
(* per session), the `pending_turns` FIFO behind it, the request handlers  *)
(* that claim the slot, the task that drives a turn and releases the slot  *)
(* on exit, the cancellers (HTTP abort, plugin cancel_session), DELETE,    *)
(* and the boot-time sweep after a process death.                          *)
(*                                                                         *)
(* Every map is keyed by the session id and every operation touches one    *)
(* key, so the module describes ONE session.  A member of Turn is one      *)
(* request for a turn; it doubles as the identity of the TurnHandle that   *)
(* is created for it (the code compares handles by Arc::ptr_eq).           *)
(*                                                                         *)
(* A DashMap entry() section is one atomic step; every await is a boundary *)
(* between steps.                                                          *)
(***************************************************************************)
EXTENDS Naturals, Sequences

CONSTANTS
    Turn,            \* requests for a turn (each is made at most once)
    NoTurn,          \* the vacant slot
    Canceller,       \* concurrent abort / cancel_session calls
    MaxRestarts,     \* bound on process deaths
    Deletes,         \* is the session ever deleted?
    SlowDriver       \* may a cancelled driver outlast DELETE's 5 s wait?

ASSUME TurnSlotAssumption ==
    /\ NoTurn \notin Turn
    /\ MaxRestarts \in Nat
    /\ Deletes \in BOOLEAN
    /\ SlowDriver \in BOOLEAN

VARIABLES
    slot,            \* active_turns[sid]
    pending,         \* pending_turns[sid]
    phase,           \* where each turn is in its life
    next,            \* the queued turn a finalizer has re-claimed the slot for
    outcome,         \* final_status of a resolved turn, until it is written
    cancelled,       \* TurnHandle.cancel_emitted, and the token tripped with it
    status,          \* sessions.status in the store
    deleted,         \* sessions.deleted_at is set
    canceller,       \* abort / cancel_session calls in flight
    delete,          \* the DELETE call
    restarts,
    \* Observation only: never read by the actions.
    offered,         \* injected turns in the order they were offered
    started,         \* injected turns in the order they got the slot
    emitted,         \* Cancelling events caused by each turn's gate
    lostWrite        \* a status write failed or its handler was dropped

hist  == <<offered, started, emitted, lostWrite>>
vars  == <<slot, pending, phase, next, outcome, cancelled,
           status, deleted, canceller, delete, restarts,
           offered, started, emitted, lostWrite>>

SessionStatus == {"idle", "running", "cancelling", "cancelled", "errored"}

(***************************************************************************)
(* The life of a turn.  A request (prompt, compact) claims the slot, marks *)
(* the session running and commits the slot to a task.  An injected turn   *)
(* is queued, or claims the slot itself, or is handed the slot by a        *)
(* finalizer ("reclaimed", until that finalizer starts it).                *)
(***************************************************************************)
Phase == {"none", "claimed", "marked", "queued", "reclaimed", "starting",
          "running", "resolved", "released", "saved", "exited",
          "aborted", "lost"}

\* The phases in which the slot belongs to the turn.
Holding == {"claimed", "marked", "reclaimed", "starting", "running", "resolved"}

\* The phases in which some code still runs on the turn's behalf.
Live == Holding \cup {"queued", "released", "saved"}

CancelPc == {"idle", "loaded", "flipped", "done"}
DeletePc == {"idle", "snapped", "waiting", "ready", "done"}

Init ==
    /\ slot = NoTurn
    /\ pending = <<>>
    /\ phase = [t \in Turn |-> "none"]
    /\ next = [t \in Turn |-> NoTurn]
    /\ outcome = [t \in Turn |-> "running"]
    /\ cancelled = [t \in Turn |-> FALSE]
    /\ status = "idle"
    /\ deleted = FALSE
    /\ canceller = [c \in Canceller |-> [pc |-> "idle", turn |-> NoTurn]]
    /\ delete = [pc |-> "idle", awaits |-> NoTurn]
    /\ restarts = 0
    /\ offered = <<>>
    /\ started = <<>>
    /\ emitted = [t \in Turn |-> 0]
    /\ lostWrite = FALSE

-------------------------------------------------------------------------------
(* Requests: prompt_async and compact.                                     *)

\* try_claim_turn_slot: an occupied entry is a 409 and changes nothing.
TryClaimTurnSlot(t) ==
    /\ phase[t] = "none"
    /\ slot = NoTurn
    /\ slot' = t
    /\ phase' = [phase EXCEPT ![t] = "claimed"]
    /\ UNCHANGED <<pending, next, outcome, cancelled, status,
                   deleted, canceller, delete, restarts, hist>>

\* The handler persists the message (prompt only) and writes Running.
MarkRunning(t) ==
    /\ phase[t] = "claimed"
    /\ phase' = [phase EXCEPT ![t] = "marked"]
    /\ status' = "running"
    /\ UNCHANGED <<slot, pending, next, outcome, cancelled,
                   deleted, canceller, delete, restarts, hist>>

\* slot_guard.commit(): from here on the spawned task owns the slot.
Commit(t) ==
    /\ phase[t] = "marked"
    /\ phase' = [phase EXCEPT ![t] = "running"]
    /\ UNCHANGED <<slot, pending, next, outcome, cancelled,
                   status, deleted, canceller, delete, restarts, hist>>

\* SlotGuard::drop without commit: a store error propagated by `?`, or the
\* handler's future was dropped (client gone).  The entry is removed whoever
\* holds it, and the pending queue is not looked at.
SlotGuardDrop(t) ==
    /\ phase[t] \in {"claimed", "marked"}
    /\ slot' = NoTurn
    /\ phase' = [phase EXCEPT ![t] = "aborted"]
    /\ lostWrite' = (lostWrite \/ phase[t] = "marked")
    /\ UNCHANGED <<pending, next, outcome, cancelled, status,
                   deleted, canceller, delete, restarts, offered, started,
                   emitted>>

-------------------------------------------------------------------------------
(* Injected turns: background settlements and sibling messages.            *)

\* Wrong on purpose: the slot is not looked at before it is taken.
EnqueueClobbers(t) ==
    /\ phase[t] = "none"
    /\ offered' = Append(offered, t)
    /\ slot' = t
    /\ phase' = [phase EXCEPT ![t] = "starting"]
    /\ started' = Append(started, t)
    /\ UNCHANGED <<pending, next, outcome, cancelled, status, deleted,
                   canceller, delete, restarts, emitted, lostWrite>>

\* enqueue_or_start_turn: one entry() section decides between the two.
EnqueueOrStartTurn(t) ==
    /\ phase[t] = "none"
    /\ offered' = Append(offered, t)
    /\ \/ /\ slot # NoTurn
          /\ pending' = Append(pending, t)
          /\ phase' = [phase EXCEPT ![t] = "queued"]
          /\ UNCHANGED <<slot, started>>
       \/ /\ slot = NoTurn
          /\ slot' = t
          /\ phase' = [phase EXCEPT ![t] = "starting"]
          /\ started' = Append(started, t)
          /\ UNCHANGED pending
    /\ UNCHANGED <<next, outcome, cancelled, status, deleted,
                   canceller, delete, restarts, emitted, lostWrite>>

\* drive_injected_loop up to its Running write (get_session does not filter
\* on deleted_at, so a deleted session is driven as well).
BeginInjected(t) ==
    /\ phase[t] = "starting"
    /\ phase' = [phase EXCEPT ![t] = "running"]
    /\ status' = "running"
    /\ UNCHANGED <<slot, pending, next, outcome, cancelled,
                   deleted, canceller, delete, restarts, hist>>

-------------------------------------------------------------------------------
(* The driving task.                                                       *)

\* final_status of spawn_driven_turn, from the result and the token as it is now.
FinalStatus(t, ok) ==
    CASE ok -> "idle"
      [] ~ok /\ cancelled[t] -> "cancelled"
      [] OTHER -> "errored"

\* The driver future resolves: Ok, Err, or a panic turned into Err.  An
\* injected turn may fail before its Running write.
DriverResolves(t, ok) ==
    /\ \/ phase[t] = "running"
       \/ phase[t] = "starting" /\ ~ok
    /\ phase' = [phase EXCEPT ![t] = "resolved"]
    /\ outcome' = [outcome EXCEPT ![t] = FinalStatus(t, ok)]
    /\ UNCHANGED <<slot, pending, next, cancelled, status,
                   deleted, canceller, delete, restarts, hist>>

\* Wrong on purpose: the slot is released without a look at the queue.
DrainForgetsQueue(t) ==
    /\ phase[t] = "resolved"
    /\ slot' = IF slot = t THEN NoTurn ELSE slot
    /\ phase' = [phase EXCEPT ![t] = "released"]
    /\ UNCHANGED <<pending, next, outcome, cancelled, status, deleted, canceller,
                   delete, restarts, hist>>

\* drain_next_turn: only OUR handle may release the slot; a queued turn gets
\* it in the same section.
DrainNextTurn(t) ==
    /\ phase[t] = "resolved"
    /\ \/ /\ slot # t
          /\ phase' = [phase EXCEPT ![t] = "released"]
          /\ UNCHANGED <<slot, pending, next, started>>
       \/ /\ slot = t
          /\ pending = <<>>
          /\ slot' = NoTurn
          /\ phase' = [phase EXCEPT ![t] = "released"]
          /\ UNCHANGED <<pending, next, started>>
       \/ /\ slot = t
          /\ pending # <<>>
          /\ slot' = Head(pending)
          /\ pending' = Tail(pending)
          /\ next' = [next EXCEPT ![t] = Head(pending)]
          /\ phase' = [phase EXCEPT ![t] = "released",
                                    ![Head(pending)] = "reclaimed"]
          /\ started' = Append(started, Head(pending))
    /\ UNCHANGED <<outcome, cancelled, status, deleted,
                   canceller, delete, restarts, offered, emitted, lostWrite>>

\* The terminal status write, after the slot was released.  Its error is
\* discarded (`let _ =`).
WriteFinalStatus(t) ==
    /\ phase[t] = "released"
    /\ phase' = [phase EXCEPT ![t] = "saved"]
    /\ outcome' = [outcome EXCEPT ![t] = "running"]
    /\ \/ status' = outcome[t] /\ UNCHANGED lostWrite
       \/ lostWrite' = TRUE /\ UNCHANGED status
    /\ UNCHANGED <<slot, pending, next, cancelled,
                   deleted, canceller, delete, restarts, offered, started,
                   emitted>>

\* Wrong on purpose: the re-claimed turn is not started.
TaskExitsAlone(t) ==
    /\ phase[t] = "saved"
    /\ phase' = [phase EXCEPT ![t] = "exited"]
    /\ next' = [next EXCEPT ![t] = NoTurn]
    /\ delete' = IF delete.pc = "waiting" /\ delete.awaits = t
                   THEN [delete EXCEPT !.pc = "ready"] ELSE delete
    /\ UNCHANGED <<slot, pending, outcome, cancelled, status,
                   deleted, canceller, restarts, hist>>

\* The task starts the turn it re-claimed the slot for, then its ExitGuard
\* calls notify_waiters: only a DELETE already parked on it is woken.
TaskExits(t) ==
    /\ phase[t] = "saved"
    /\ phase' = [u \in Turn |->
                    IF u = t THEN "exited"
                    ELSE IF u = next[t] THEN "starting" ELSE phase[u]]
    /\ next' = [next EXCEPT ![t] = NoTurn]
    /\ delete' = IF delete.pc = "waiting" /\ delete.awaits = t
                   THEN [delete EXCEPT !.pc = "ready"] ELSE delete
    /\ UNCHANGED <<slot, pending, outcome, cancelled, status,
                   deleted, canceller, restarts, hist>>

-------------------------------------------------------------------------------
(* Cancellation.                                                           *)

\* Wrong on purpose: a vacant slot is loaded as if it held a handle.
LoadVacant(c) ==
    /\ canceller[c].pc = "idle"
    /\ canceller' = [canceller EXCEPT ![c] = [pc |-> "loaded", turn |-> slot]]
    /\ UNCHANGED <<slot, pending, phase, next, outcome, cancelled,
                   status, deleted, delete, restarts, hist>>

\* A canceller clones the handle out of the map; a vacant slot is a no-op.
LoadHandle(c) ==
    /\ canceller[c].pc = "idle"
    /\ slot # NoTurn
    /\ canceller' = [canceller EXCEPT ![c] = [pc |-> "loaded", turn |-> slot]]
    /\ UNCHANGED <<slot, pending, phase, next, outcome, cancelled,
                   status, deleted, delete, restarts, hist>>

\* request_cancel + cancel.cancel(): the CAS loser does nothing more.
RequestCancel(c) ==
    LET t == canceller[c].turn IN
    /\ canceller[c].pc = "loaded"
    /\ \/ /\ cancelled[t]
          /\ canceller' = [canceller EXCEPT ![c].pc = "done"]
          /\ UNCHANGED <<cancelled, emitted>>
       \/ /\ ~cancelled[t]
          /\ canceller' = [canceller EXCEPT ![c].pc = "flipped"]
          /\ cancelled' = [cancelled EXCEPT ![t] = TRUE]
          /\ emitted' = [emitted EXCEPT ![t] = @ + 1]
    /\ UNCHANGED <<slot, pending, phase, next, outcome, status, deleted,
                   delete, restarts, offered, started, lostWrite>>

\* The winner's Cancelling status write: a detached task for abort, after an
\* await in cancel_session.  It is conditional on nothing.
WriteCancelling(c) ==
    /\ canceller[c].pc = "flipped"
    /\ canceller' = [canceller EXCEPT ![c].pc = "done"]
    /\ status' = "cancelling"
    /\ UNCHANGED <<slot, pending, phase, next, outcome, cancelled,
                   deleted, delete, restarts, hist>>

-------------------------------------------------------------------------------
(* DELETE /v1/session/:id.                                                 *)

\* The `exited` Notify of the turn holding the slot now.
DeleteSnapshot ==
    /\ Deletes
    /\ delete.pc = "idle"
    /\ delete' = [pc |-> "snapped", awaits |-> slot]
    /\ UNCHANGED <<slot, pending, phase, next, outcome, cancelled, status,
                   deleted, canceller, restarts, offered, started, emitted,
                   lostWrite>>

\* try_cancel_active_turn looks the slot up again, then DELETE parks on the
\* Notify it took first (or skips the wait when it took none).
DeleteCancel ==
    /\ delete.pc = "snapped"
    /\ delete' = [delete EXCEPT
                    !.pc = IF delete.awaits = NoTurn THEN "ready" ELSE "waiting"]
    /\ \/ /\ slot # NoTurn
          /\ ~cancelled[slot]
          /\ cancelled' = [cancelled EXCEPT ![slot] = TRUE]
          /\ emitted' = [emitted EXCEPT ![slot] = @ + 1]
       \/ /\ slot = NoTurn \/ (slot # NoTurn /\ cancelled[slot])
          /\ UNCHANGED <<cancelled, emitted>>
    /\ UNCHANGED <<slot, pending, phase, next, outcome, status, deleted,
                   canceller, restarts, offered, started, lostWrite>>

\* timeout(5 s): a Notify stores no permit, so when the task exited before
\* DELETE parked only the timer ends the wait.
DeleteTimeout ==
    /\ delete.pc = "waiting"
    /\ SlowDriver \/ phase[delete.awaits] \notin Live
    /\ delete' = [delete EXCEPT !.pc = "ready"]
    /\ UNCHANGED <<slot, pending, phase, next, outcome, cancelled,
                   status, deleted, canceller, restarts, hist>>

\* delete_session: soft delete with status 'cancelled'; pending_turns and
\* active_turns are left as they are.
DeleteSession ==
    /\ delete.pc = "ready"
    /\ delete' = [delete EXCEPT !.pc = "done"]
    /\ deleted' = TRUE
    /\ status' = "cancelled"
    /\ UNCHANGED <<slot, pending, phase, next, outcome, cancelled,
                   canceller, restarts, hist>>

-------------------------------------------------------------------------------
(* Process death and the boot sweep (recover_stale_running_sessions).      *)

\* Wrong on purpose: no sweep of the rows left `running`.
RestartNoSweep ==
    /\ restarts < MaxRestarts
    /\ restarts' = restarts + 1
    /\ slot' = NoTurn
    /\ pending' = <<>>
    /\ phase' = [t \in Turn |-> IF phase[t] \in Live THEN "lost" ELSE phase[t]]
    /\ next' = [t \in Turn |-> NoTurn]
    /\ outcome' = [t \in Turn |-> "running"]
    /\ offered' = <<>>
    /\ started' = <<>>
    /\ UNCHANGED <<cancelled, status, deleted, canceller, delete, emitted,
                   lostWrite>>

\* In-memory state is gone; a row still `running` is rewritten to `errored`
\* (the sweep lists undeleted sessions only).
Restart ==
    /\ restarts < MaxRestarts
    /\ restarts' = restarts + 1
    /\ slot' = NoTurn
    /\ pending' = <<>>
    /\ phase' = [t \in Turn |-> IF phase[t] \in Live THEN "lost" ELSE phase[t]]
    /\ next' = [t \in Turn |-> NoTurn]
    /\ outcome' = [t \in Turn |-> "running"]
    /\ canceller' = [c \in Canceller |->
                       IF canceller[c].pc = "idle" THEN canceller[c]
                       ELSE [canceller[c] EXCEPT !.pc = "done"]]
    /\ delete' = IF delete.pc = "idle" THEN delete
                   ELSE [delete EXCEPT !.pc = "done"]
    /\ status' = IF status = "running" /\ ~deleted THEN "errored" ELSE status
    /\ offered' = <<>>
    /\ started' = <<>>
    /\ UNCHANGED <<cancelled, deleted, emitted, lostWrite>>

-------------------------------------------------------------------------------
\* What the server does by itself once a turn exists.
TurnStep(t) ==
    \/ MarkRunning(t)
    \/ Commit(t)
    \/ BeginInjected(t)
    \/ \E ok \in BOOLEAN : DriverResolves(t, ok)
    \/ DrainNextTurn(t)
    \/ WriteFinalStatus(t)
    \/ TaskExits(t)

CancelStep(c) == RequestCancel(c) \/ WriteCancelling(c)
DeleteStep    == DeleteCancel \/ DeleteTimeout \/ DeleteSession

Next ==
    \/ \E t \in Turn : \/ TryClaimTurnSlot(t)
                       \/ SlotGuardDrop(t)
                       \/ EnqueueOrStartTurn(t)
                       \/ TurnStep(t)
    \/ \E c \in Canceller : LoadHandle(c) \/ CancelStep(c)
    \/ DeleteSnapshot
    \/ DeleteStep
    \/ Restart

\* Spawned tasks and accepted requests are polled until they finish; the
\* provider stream behind a turn ends.  Nobody has to send a request.
Fairness ==
    /\ \A t \in Turn : WF_vars(TurnStep(t))
    /\ \A c \in Canceller : WF_vars(CancelStep(c))
    /\ WF_vars(DeleteStep)

Spec == Init /\ [][Next]_vars /\ Fairness

-------------------------------------------------------------------------------
(* Properties.                                                             *)

TypeOK ==
    /\ slot \in Turn \cup {NoTurn}
    /\ pending \in Seq(Turn)
    /\ phase \in [Turn -> Phase]
    /\ next \in [Turn -> Turn \cup {NoTurn}]
    /\ outcome \in [Turn -> SessionStatus]
    /\ cancelled \in [Turn -> BOOLEAN]
    /\ status \in SessionStatus
    /\ deleted \in BOOLEAN
    /\ canceller \in [Canceller -> [pc : CancelPc, turn : Turn \cup {NoTurn}]]
    /\ \A c \in Canceller : canceller[c].pc = "loaded" => canceller[c].turn \in Turn
    /\ delete \in [pc : DeletePc, awaits : Turn \cup {NoTurn}]
    /\ restarts \in 0 .. MaxRestarts
    /\ offered \in Seq(Turn)
    /\ started \in Seq(Turn)
    /\ emitted \in [Turn -> Nat]
    /\ lostWrite \in BOOLEAN

\* At most one turn of a session is between its claim and its release, however
\* prompts, injected turns, aborted handlers and draining finalizers interleave
\* (turn_slot.rs: the entry API closes the clobbering race).
OneDriver ==
    \A t, u \in Turn : phase[t] \in Holding /\ phase[u] \in Holding => t = u

\* The map and the tasks agree: the slot names a turn exactly while that turn
\* is entitled to it, so no turn is orphaned and no slot leaks.
SlotOwner == \A t \in Turn : slot = t <=> phase[t] \in Holding

\* A turn holds the queue's attention at most once: the queue lists exactly
\* the queued turns, each of them once.
QueueExact ==
    /\ \A i \in 1 .. Len(pending) : phase[pending[i]] = "queued"
    /\ \A i, j \in 1 .. Len(pending) : pending[i] = pending[j] => i = j
    /\ \A t \in Turn : phase[t] = "queued" =>
          \E i \in 1 .. Len(pending) : pending[i] = t

\* A turn to which a finalizer handed the slot is named by exactly one live
\* finalizer, so somebody will start it and nobody starts it twice.
HandoverExact ==
    /\ \A t \in Turn : next[t] # NoTurn =>
          phase[t] \in {"released", "saved"} /\ phase[next[t]] = "reclaimed"
    /\ \A t, u \in Turn : next[t] # NoTurn /\ next[t] = next[u] => t = u
    /\ \A u \in Turn : phase[u] = "reclaimed" => \E t \in Turn : next[t] = u

\* Concurrent cancellers (abort, DELETE, cancel_session) cause at most one
\* Cancelling event per turn (app_state.rs, TurnHandle).
CancelOnce == \A t \in Turn : emitted[t] <= 1

\* No code runs on behalf of any turn or canceller.
AtRest ==
    /\ \A t \in Turn : phase[t] \notin Live
    /\ \A c \in Canceller : canceller[c].pc \in {"idle", "done"}

\* A session nobody is working on does not read `running`, in any order of
\* late finalizers and fresh claims, and across a process death, unless a
\* status write was lost.
RestNotRunning == AtRest /\ ~lostWrite /\ ~deleted => status # "running"

\* Injected turns get the slot in the order they were offered, whether they
\* found it vacant or waited in the queue, as long as no request set-up was
\* aborted while holding the slot.
InjectedFifo ==
    (\A t \in Turn : phase[t] # "aborted") =>
        /\ Len(started) <= Len(offered)
        /\ \A i \in 1 .. Len(started) : started[i] = offered[i]

\* What the slot owes its turns: each queued turn is in the queue once, each
\* hand-over has one finalizer, the queue is served in order, and each turn is
\* announced as Cancelling at most once, however prompts, injected turns,
\* finalizers, abort and DELETE interleave (turn_slot.rs, injected_turn.rs).
SlotExact == QueueExact /\ HandoverExact /\ InjectedFifo /\ CancelOnce

\* A turn queued behind another is started, or its process dies, or a request
\* set-up is aborted while holding the slot.
QueuedStarts ==
    \A t \in Turn :
        phase[t] = "queued" ~> \/ phase[t] \notin {"queued", "reclaimed"}
                               \/ \E u \in Turn : phase[u] = "aborted"

=============================================================================

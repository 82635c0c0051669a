---------------------------- MODULE DeliveryOutbox ----------------------------
(***************************************************************************)
(* The durable outbox that carries a background subagent's settlement to   *)
(* its parent session: the SQLite rows and their leases, the workers that  *)
(* append and claim them, the heartbeat of each delivery attempt, the      *)
(* parent turn driven under it, the periodic reconciler, store errors,     *)
(* panics and process death.                                               *)
(*                                                                         *)
(* A delivery attempt is identified by its lease id.  Lease ids are fresh  *)
(* UUIDs: an id is taken only when nothing refers to it any more, so a     *)
(* finite set of them serves unboundedly many attempts.  Time is kept as   *)
(* what is left of each lease; one tick is a fraction of LEASE_MS.         *)
(***************************************************************************)
EXTENDS Naturals, FiniteSets, FiniteSetsExt, Functions

CONSTANTS
    Task,         \* settlements, by (parent_session_id, task_id)
    NoTask,
    Lease,        \* lease ids
    NoLease,      \* lease_id IS NULL
    Worker,       \* concurrent settlement workers
    TTL,          \* LEASE_MS (30 s) in ticks
    BeatEvery,    \* heartbeat interval (5 s) in ticks
    MaxFaults     \* bound on store errors, failed turns, panics and restarts

ASSUME OutboxAssumption ==
    /\ NoTask \notin Task
    /\ NoLease \notin Lease
    /\ TTL \in Nat /\ BeatEvery \in Nat
    /\ 0 < BeatEvery /\ BeatEvery < TTL
    /\ MaxFaults \in Nat

VARIABLES
    row,          \* background_task_delivery_outbox
    reserved,     \* runtime_reminder_deliveries: keys already reserved
    attempt,      \* delivery attempts: queued or driven parent turns
    beat,         \* the heartbeat task of each attempt
    worker,       \* settlement workers
    faults,
    \* Observation only.
    reminders,    \* reminder messages in the parent transcript, per task
    heard,        \* tasks a parent turn was successfully driven for
    acks          \* successful acknowledgements, per task

vars == <<row, reserved, attempt, beat, worker, faults, reminders, heard, acks>>

RowState     == {"absent", "pending", "leased", "delivered"}
AttemptPhase == {"free", "queued", "driving", "ok", "err", "closed"}
WorkerPc     == {"idle", "appending", "appended"}

\* The attempt will still drive, or is driving, a parent turn.
Undriven == {"queued", "driving"}

NewRow == [state |-> "pending", lease |-> NoLease, left |-> 0]

Init ==
    /\ row = [t \in Task |-> [NewRow EXCEPT !.state = "absent"]]
    /\ reserved = {}
    /\ attempt = [l \in Lease |-> [phase |-> "free", task |-> NoTask]]
    /\ beat = [l \in Lease |-> [on |-> FALSE, since |-> 0]]
    /\ worker = [w \in Worker |-> [pc |-> "idle", task |-> NoTask]]
    /\ faults = 0
    /\ reminders = [t \in Task |-> 0]
    /\ heard = {}
    /\ acks = [t \in Task |-> 0]

Fault == faults < MaxFaults /\ faults' = faults + 1

-------------------------------------------------------------------------------
(* append_background_task_settled.                                         *)

\* INSERT ... ON CONFLICT DO NOTHING on the outbox.
EnsureRow(t) ==
    row' = IF row[t].state = "absent" THEN [row EXCEPT ![t] = NewRow] ELSE row

\* Fast path: the reminder is reserved already, re-materialise the row.
AppendFast(w, t) ==
    /\ worker[w].pc = "idle"
    /\ t \in reserved
    /\ EnsureRow(t)
    /\ worker' = [worker EXCEPT ![w] = [pc |-> "appended", task |-> t]]
    /\ UNCHANGED <<reserved, attempt, beat, faults, reminders, heard, acks>>

\* No reservation seen: go on to the transaction.
AppendBegin(w, t) ==
    /\ worker[w].pc = "idle"
    /\ t \notin reserved
    /\ worker' = [worker EXCEPT ![w] = [pc |-> "appending", task |-> t]]
    /\ UNCHANGED <<row, reserved, attempt, beat, faults, reminders, heard, acks>>

\* The transaction: message, part, reservation and outbox row together; when
\* another worker reserved the key meanwhile it rolls back and takes the fast
\* path.
AppendCommit(w) ==
    LET t == worker[w].task IN
    /\ worker[w].pc = "appending"
    /\ worker' = [worker EXCEPT ![w].pc = "appended"]
    /\ EnsureRow(t)
    /\ \/ /\ t \in reserved
          /\ UNCHANGED <<reserved, reminders>>
       \/ /\ t \notin reserved
          /\ reserved' = reserved \cup {t}
          /\ reminders' = [reminders EXCEPT ![t] = @ + 1]
    /\ UNCHANGED <<attempt, beat, faults, heard, acks>>

\* A store error in the transaction: nothing of it is kept.
AppendFails(w) ==
    /\ worker[w].pc = "appending"
    /\ Fault
    /\ worker' = [worker EXCEPT ![w] = [pc |-> "idle", task |-> NoTask]]
    /\ UNCHANGED <<row, reserved, attempt, beat, reminders, heard, acks>>

-------------------------------------------------------------------------------
(* claim_background_task_settlements, then heartbeat and enqueue.          *)

\* Wrong on purpose: the expiry of a lease is not looked at.
ClaimableEarly(t) == row[t].state \in {"pending", "leased"}

\* Wrong on purpose: an expired lease is not claimable.
ClaimablePending(t) == row[t].state = "pending"

Claimable(t) ==
    \/ row[t].state = "pending"
    \/ row[t].state = "leased" /\ row[t].left = 0

\* Nothing but the rows about to be overwritten refers to the id.
Fresh(S) ==
    {l \in Lease : /\ attempt[l].phase = "free"
                   /\ \A t \in Task \ S : row[t].lease # l}

\* Lease every row of S under ids of its own; each claim starts a heartbeat
\* and enqueues a parent turn before anything else can run on them.
Claim(S) ==
    \E id \in Injection(S, Fresh(S)) :
        /\ row' = [t \in Task |->
                     IF t \in S
                     THEN [state |-> "leased", lease |-> id[t], left |-> TTL]
                     ELSE row[t]]
        /\ attempt' = [l \in Lease |->
                         IF \E t \in S : id[t] = l
                         THEN [phase |-> "queued",
                               task |-> CHOOSE t \in S : id[t] = l]
                         ELSE attempt[l]]
        /\ beat' = [l \in Lease |->
                      IF \E t \in S : id[t] = l
                      THEN [on |-> TRUE, since |-> 0] ELSE beat[l]]

\* enqueue_background_task_delivery: the worker claims its own row only; an
\* unexpired lease is left alone.
ClaimOwn(w) ==
    LET t == worker[w].task IN
    /\ worker[w].pc = "appended"
    /\ worker' = [worker EXCEPT ![w] = [pc |-> "idle", task |-> NoTask]]
    /\ \/ Claimable(t) /\ Claim({t})
       \/ ~Claimable(t) /\ UNCHANGED <<row, attempt, beat>>
    /\ UNCHANGED <<reserved, faults, reminders, heard, acks>>

\* A store error in the claim: the row stays for the reconciler.
ClaimOwnFails(w) ==
    /\ worker[w].pc = "appended"
    /\ Fault
    /\ worker' = [worker EXCEPT ![w] = [pc |-> "idle", task |-> NoTask]]
    /\ UNCHANGED <<row, reserved, attempt, beat, reminders, heard, acks>>

\* recover_background_task_deliveries, at boot and every five seconds: one
\* transaction claims every claimable row.
Reconcile ==
    LET S == {t \in Task : Claimable(t)} IN
    /\ S # {}
    /\ Claim(S)
    /\ UNCHANGED <<reserved, worker, faults, reminders, heard, acks>>

-------------------------------------------------------------------------------
(* The heartbeat task.                                                     *)

Holds(l, t) == row[t].state = "leased" /\ row[t].lease = l

\* renew_background_task_settlement_lease: a lost lease is an error, and an
\* error ends the loop.
Renew(l) ==
    LET t == attempt[l].task IN
    /\ beat[l].on
    /\ beat[l].since > 0
    /\ \/ /\ Holds(l, t)
          /\ row' = [row EXCEPT ![t].left = TTL]
          /\ beat' = [beat EXCEPT ![l].since = 0]
       \/ /\ ~Holds(l, t)
          /\ beat' = [beat EXCEPT ![l] = [on |-> FALSE, since |-> 0]]
          /\ UNCHANGED row
    /\ UNCHANGED <<reserved, attempt, worker, faults, reminders, heard, acks>>

\* Any other store error ends the loop too, lease and turn still alive.
RenewFails(l) ==
    /\ beat[l].on
    /\ Fault
    /\ beat' = [beat EXCEPT ![l] = [on |-> FALSE, since |-> 0]]
    /\ UNCHANGED <<row, reserved, attempt, worker, reminders, heard, acks>>

\* The select! takes the stop token; until then a tick may still renew.
BeatStops(l) ==
    /\ attempt[l].phase = "closed"
    /\ attempt' = [attempt EXCEPT ![l] = [phase |-> "free", task |-> NoTask]]
    /\ beat' = [beat EXCEPT ![l] = [on |-> FALSE, since |-> 0]]
    /\ UNCHANGED <<row, reserved, worker, faults, reminders, heard, acks>>

-------------------------------------------------------------------------------
(* The parent turn of an attempt (start_injected_turn).                    *)

\* The turn gets its session's slot: a finalizer hands it over.  A set-up that
\* gives up (SlotGuard::drop) frees the slot and leaves the queue as it is, so
\* nothing makes this happen; see TurnSlot.
Drive(l) ==
    /\ attempt[l].phase = "queued"
    /\ attempt' = [attempt EXCEPT ![l].phase = "driving"]
    /\ UNCHANGED <<row, reserved, beat, worker, faults, reminders, heard, acks>>

DriveOk(l) ==
    /\ attempt[l].phase = "driving"
    /\ attempt' = [attempt EXCEPT ![l].phase = "ok"]
    /\ heard' = heard \cup {attempt[l].task}
    /\ UNCHANGED <<row, reserved, beat, worker, faults, reminders, acks>>

DriveErr(l) ==
    /\ attempt[l].phase = "driving"
    /\ Fault
    /\ attempt' = [attempt EXCEPT ![l].phase = "err"]
    /\ UNCHANGED <<row, reserved, beat, worker, reminders, heard, acks>>

\* A panic in the turn, or a store error in acknowledge or release: the guard
\* stops the heartbeat and the lease is left to expire.
Abandon(l) ==
    /\ attempt[l].phase \in {"driving", "ok", "err"}
    /\ Fault
    /\ attempt' = [attempt EXCEPT ![l].phase = "closed"]
    /\ UNCHANGED <<row, reserved, beat, worker, reminders, heard, acks>>

\* Wrong on purpose: the lease is not compared, so a late attempt acknowledges.
AcknowledgeAnyway(l) ==
    LET t == attempt[l].task IN
    /\ attempt[l].phase = "ok"
    /\ attempt' = [attempt EXCEPT ![l].phase = "closed"]
    /\ row' = [row EXCEPT ![t] =
                 [state |-> "delivered", lease |-> NoLease, left |-> 0]]
    /\ acks' = [acks EXCEPT ![t] = @ + 1]
    /\ UNCHANGED <<reserved, beat, worker, faults, reminders, heard>>

\* Wrong on purpose: the outcome of the turn is not looked at.
AcknowledgeEither(l) ==
    LET t == attempt[l].task IN
    /\ attempt[l].phase \in {"ok", "err"}
    /\ Holds(l, t)
    /\ attempt' = [attempt EXCEPT ![l].phase = "closed"]
    /\ row' = [row EXCEPT ![t] =
                 [state |-> "delivered", lease |-> NoLease, left |-> 0]]
    /\ acks' = [acks EXCEPT ![t] = @ + 1]
    /\ UNCHANGED <<reserved, beat, worker, faults, reminders, heard>>

\* acknowledge_background_task_settlement after a successful turn.
Acknowledge(l) ==
    LET t == attempt[l].task IN
    /\ attempt[l].phase = "ok"
    /\ attempt' = [attempt EXCEPT ![l].phase = "closed"]
    /\ \/ /\ Holds(l, t)
          /\ row' = [row EXCEPT ![t] =
                       [state |-> "delivered", lease |-> NoLease, left |-> 0]]
          /\ acks' = [acks EXCEPT ![t] = @ + 1]
       \/ /\ ~Holds(l, t)
          /\ UNCHANGED <<row, acks>>
    /\ UNCHANGED <<reserved, beat, worker, faults, reminders, heard>>

\* release_background_task_settlement after a failed turn.
Release(l) ==
    LET t == attempt[l].task IN
    /\ attempt[l].phase = "err"
    /\ attempt' = [attempt EXCEPT ![l].phase = "closed"]
    /\ row' = IF Holds(l, t) THEN [row EXCEPT ![t] = NewRow] ELSE row
    /\ UNCHANGED <<reserved, beat, worker, faults, reminders, heard, acks>>

-------------------------------------------------------------------------------
(* Time and process death.                                                 *)

\* The runtime polls timers in time: no heartbeat is overdue when time moves.
Tick ==
    /\ \A l \in Lease : beat[l].on => beat[l].since < BeatEvery
    /\ \/ \E l \in Lease : beat[l].on
       \/ \E t \in Task : row[t].left > 0
    /\ row' = [t \in Task |->
                 [row[t] EXCEPT !.left = IF @ > 0 THEN @ - 1 ELSE 0]]
    /\ beat' = [l \in Lease |->
                  IF beat[l].on THEN [beat[l] EXCEPT !.since = @ + 1]
                  ELSE beat[l]]
    /\ UNCHANGED <<reserved, attempt, worker, faults, reminders, heard, acks>>

\* Only the rows survive.
Restart ==
    /\ Fault
    /\ attempt' = [l \in Lease |-> [phase |-> "free", task |-> NoTask]]
    /\ beat' = [l \in Lease |-> [on |-> FALSE, since |-> 0]]
    /\ worker' = [w \in Worker |-> [pc |-> "idle", task |-> NoTask]]
    /\ UNCHANGED <<row, reserved, reminders, heard, acks>>

-------------------------------------------------------------------------------
\* What the task of a driven attempt does of itself.
AttemptStep(l) ==
    DriveOk(l) \/ Acknowledge(l) \/ Release(l) \/ BeatStops(l)

Next ==
    \/ \E w \in Worker :
          \/ \E t \in Task : AppendFast(w, t) \/ AppendBegin(w, t)
          \/ AppendCommit(w) \/ AppendFails(w)
          \/ ClaimOwn(w) \/ ClaimOwnFails(w)
    \/ Reconcile
    \/ \E l \in Lease :
          \/ Renew(l) \/ RenewFails(l)
          \/ Drive(l) \/ AttemptStep(l)
          \/ DriveErr(l) \/ Abandon(l)
    \/ Tick
    \/ Restart

\* The reconciler's interval, the heartbeats and the clock go on for ever, and
\* a turn that was started ends.  That an enqueued turn is ever started is not
\* assumed: Drive is not fair.
Fairness ==
    /\ WF_vars(Reconcile)
    /\ WF_vars(Tick)
    /\ \A l \in Lease : WF_vars(Renew(l)) /\ WF_vars(AttemptStep(l))
    /\ \A w \in Worker : WF_vars(AppendCommit(w) \/ ClaimOwn(w))

Spec == Init /\ [][Next]_vars /\ Fairness

-------------------------------------------------------------------------------
(* Properties.                                                             *)

TypeOK ==
    /\ row \in [Task -> [state : RowState, lease : Lease \cup {NoLease},
                         left : 0 .. TTL]]
    /\ reserved \in SUBSET Task
    /\ attempt \in [Lease -> [phase : AttemptPhase, task : Task \cup {NoTask}]]
    /\ beat \in [Lease -> [on : BOOLEAN, since : 0 .. BeatEvery]]
    /\ worker \in [Worker -> [pc : WorkerPc, task : Task \cup {NoTask}]]
    /\ faults \in 0 .. MaxFaults
    /\ reminders \in [Task -> Nat]
    /\ heard \in SUBSET Task
    /\ acks \in [Task -> Nat]

\* Concurrent settlement workers and retries write one reminder, and a
\* recorded reminder always has its outbox row: a crash exposes none of them
\* or all of them (append_background_task_settled).
ReminderWithRow ==
    \A t \in Task :
        /\ reminders[t] <= 1
        /\ reminders[t] = 1 <=> row[t].state # "absent"

\* A settlement is marked delivered once, and only after a parent turn woken
\* for it succeeded.
DeliveredHeard ==
    \A t \in Task :
        /\ acks[t] <= 1
        /\ row[t].state = "delivered" <=> acks[t] = 1
        /\ row[t].state = "delivered" => t \in heard

\* A lease names at most one row and only a leased row names one, so an attempt
\* can settle no row but the one it was claimed for, however claims of one row,
\* claims of all rows, expiry and late acknowledgements interleave.
LeaseUnique ==
    /\ \A t, u \in Task : row[t].state = "leased" /\ row[t].lease = row[u].lease
                          => t = u
    /\ \A t \in Task : row[t].state = "leased" <=> row[t].lease # NoLease

\* Two attempts at the same settlement coexist only when one of them has lost
\* its heartbeat: a turn waiting in the queue keeps its lease alive, so it is
\* not driven twice (start_background_delivery_heartbeat).
OneBeatingAttempt ==
    \A k, l \in Lease :
        /\ attempt[k].phase \in Undriven /\ attempt[l].phase \in Undriven
        /\ attempt[k].task = attempt[l].task
        /\ beat[k].on /\ beat[l].on
        => k = l

\* A settlement is promised once and kept once: one reminder with its row, and
\* one delivery that a successful turn has heard.
SettledOnce == ReminderWithRow /\ DeliveredHeard

\* Leases exclude: one row per lease and one live attempt per row, as long as
\* its heartbeat lasts.
LeaseExcludes == LeaseUnique /\ OneBeatingAttempt

\* An attempt at t waits in the queue of its session.
Waiting(t) ==
    \E l \in Lease : attempt[l].phase = "queued" /\ attempt[l].task = t

\* Every recorded settlement is delivered in the end, whatever finite number of
\* store errors, failed turns, panics and restarts happens on the way, or else
\* an attempt at it waits in the session's queue for ever: SlotGuard::drop frees
\* the slot without draining the queue, and the heartbeat of the waiting attempt
\* renews the lease, so the reconciler never claims the row again.
EventuallyDelivered ==
    \A t \in Task :
        row[t].state # "absent" ~> row[t].state = "delivered" \/ []Waiting(t)

\* The outbox implements the abstract promise.
Promise(t) ==
    CASE row[t].state = "absent" -> "none"
      [] row[t].state = "delivered" -> "delivered"
      [] OTHER -> "owed"

Abs == INSTANCE Settlement
         WITH promise <- [t \in Task |-> Promise(t)], heard <- heard

ImplementsSettlement == Abs!Spec
=============================================================================

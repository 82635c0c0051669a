----------------------------- MODULE SubagentInbox ----------------------------
(***************************************************************************)
(* Messages between sibling subagents: the roster of handle names, the     *)
(* send_message tool (resolve, store, push), the bounded in-memory inbox,  *)
(* the durable inbox rows, and the receiving driver, which first recovers  *)
(* stored messages and then, after every objective, either drains its      *)
(* inbox and goes on, or ends.                                             *)
(*                                                                         *)
(* All tasks share one agent slug; the handle names are the bare slug (1)  *)
(* and slug#n (n).  The settlement between the end of the loop and the     *)
(* removal from the roster is SubagentTask's.                              *)
(***************************************************************************)
EXTENDS Naturals, Sequences, FiniteSets, Functions

CONSTANTS
    Task,         \* receiving tasks
    NoTask,
    Msg,          \* calls of send_message
    MaxDepth,     \* max_inbox_depth
    MaxFaults     \* bound on store errors and driver failures

ASSUME InboxAssumption ==
    /\ NoTask \notin Task
    /\ IsFiniteSet(Task) /\ IsFiniteSet(Msg)
    /\ MaxDepth \in Nat /\ MaxFaults \in Nat

VARIABLES
    pc,           \* the driver of each task
    cancel,       \* tasks whose token was tripped
    name,         \* the handle name of each task (0: none yet)
    roster,       \* handle name -> task
    live,         \* TaskRegistry.tasks
    inbox,        \* TaskHandle.inbox
    drained,      \* messages taken out of the inbox and not yet seeded
    stored,       \* subagent_inbox_messages
    sender,       \* send_message calls
    faults,
    \* Observation only.
    seeded,       \* messages in the child's transcript, in order
    early,        \* messages stored before the driver's recovery read
    failed        \* tasks whose driver met a store error or a panic

vars == <<pc, cancel, name, roster, live, inbox, drained, stored, sender, faults,
          seeded, early, failed>>

Name == 1 .. Cardinality(Task)

DriverPc == {"none", "rostered", "running", "draining", "ending", "unlisted", "done"}
SenderPc == {"idle", "resolved", "stored", "accepted", "rejected"}
RowState == {"none", "pending", "delivered"}

Init ==
    /\ pc = [t \in Task |-> "none"]
    /\ cancel = {}
    /\ name = [t \in Task |-> 0]
    /\ roster = [n \in Name |-> NoTask]
    /\ live = {}
    /\ inbox = [t \in Task |-> <<>>]
    /\ drained = [t \in Task |-> <<>>]
    /\ stored = [m \in Msg |-> "none"]
    /\ sender = [m \in Msg |-> [pc |-> "idle", to |-> NoTask]]
    /\ faults = 0
    /\ seeded = [t \in Task |-> <<>>]
    /\ early = {}
    /\ failed = {}

Fault == faults < MaxFaults /\ faults' = faults + 1

-------------------------------------------------------------------------------
(* send_message.                                                           *)

\* resolve_name: an unknown name is refused at once.  Scope and privilege
\* checks refuse without touching any state.
ResolveName(m, n) ==
    /\ sender[m].pc = "idle"
    /\ roster[n] # NoTask
    /\ sender' = [sender EXCEPT ![m] = [pc |-> "resolved", to |-> roster[n]]]
    /\ UNCHANGED <<pc, cancel, name, roster, live, inbox, drained, stored, faults,
                   seeded, early, failed>>

\* enqueue_subagent_inbox_message.
StoreMessage(m) ==
    /\ sender[m].pc = "resolved"
    /\ sender' = [sender EXCEPT ![m].pc = "stored"]
    /\ stored' = [stored EXCEPT ![m] = "pending"]
    /\ early' = IF pc[sender[m].to] \in {"none", "rostered"}
                  THEN early \cup {m} ELSE early
    /\ UNCHANGED <<pc, cancel, name, roster, live, inbox, drained, faults,
                   seeded, failed>>

\* push_message_with_id: a finalized task or a full inbox is an error, and the
\* stored row stays (an over-long body is refused the same way).
PushMessage(m) ==
    LET t == sender[m].to IN
    /\ sender[m].pc = "stored"
    /\ \/ /\ t \in live
          /\ Len(inbox[t]) < MaxDepth
          /\ inbox' = [inbox EXCEPT ![t] = Append(@, m)]
          /\ sender' = [sender EXCEPT ![m].pc = "accepted"]
       \/ /\ t \notin live \/ Len(inbox[t]) >= MaxDepth
          /\ sender' = [sender EXCEPT ![m].pc = "rejected"]
          /\ UNCHANGED inbox
    /\ UNCHANGED <<pc, cancel, name, roster, live, drained, stored, faults,
                   seeded, early, failed>>

-------------------------------------------------------------------------------
(* The receiving task.                                                     *)

FreeName(n) == roster[n] = NoTask

\* register_name: the smallest free suffix.
RegisterName(t) ==
    /\ pc[t] = "none"
    /\ \E n \in Name :
          /\ FreeName(n)
          /\ \A k \in Name : k < n => ~FreeName(k)
          /\ roster' = [roster EXCEPT ![n] = t]
          /\ name' = [name EXCEPT ![t] = n]
    /\ live' = live \cup {t}
    /\ pc' = [pc EXCEPT ![t] = "rostered"]
    /\ UNCHANGED <<cancel, inbox, drained, stored, sender, faults, seeded, early,
                   failed>>

\* The stored messages of the task (rows are listed by task id).
Pending(t) == {m \in Msg : stored[m] = "pending" /\ sender[m].to = t}

\* The orders the listing may have (created_at ties are broken by row id).
Listings(S) == {s \in [1 .. Cardinality(S) -> S] : Range(s) = S}

Mark(S) == [m \in Msg |-> IF m \in S THEN "delivered" ELSE stored[m]]

\* drive_subagent before its loop: list, seed each, then acknowledge all.
RecoverInbox(t) ==
    /\ pc[t] = "rostered"
    /\ pc' = [pc EXCEPT ![t] = "running"]
    /\ \E s \in Listings(Pending(t)) :
          seeded' = [seeded EXCEPT ![t] = @ \o s]
    /\ stored' = Mark(Pending(t))
    /\ UNCHANGED <<cancel, name, roster, live, inbox, drained, sender, faults,
                   early, failed>>

\* A store error in it: after some were seeded and none acknowledged, or after
\* all were (re-projecting fails).  The driver returns the error and the
\* fallback finalizes without unlisting, as a spawn does that fails before its
\* driver runs.
RecoverFails(t) ==
    /\ pc[t] = "rostered"
    /\ Fault
    /\ \E s \in Listings(Pending(t)) :
          \/ /\ \E k \in 0 .. Len(s) :
                   seeded' = [seeded EXCEPT ![t] = @ \o SubSeq(s, 1, k)]
             /\ UNCHANGED stored
          \/ /\ seeded' = [seeded EXCEPT ![t] = @ \o s]
             /\ stored' = Mark(Pending(t))
    /\ failed' = failed \cup {t}
    /\ pc' = [pc EXCEPT ![t] = "done"]
    /\ live' = live \ {t}
    /\ UNCHANGED <<cancel, name, roster, inbox, drained, sender, early>>

\* Wrong on purpose: the driver always ends after its first objective.
RearmNever(t) ==
    /\ pc[t] = "running"
    /\ pc' = [pc EXCEPT ![t] = "ending"]
    /\ UNCHANGED <<cancel, name, roster, live, inbox, drained, stored, sender,
                   faults, seeded, early, failed>>

\* After run_loop: a cancelled task or an empty inbox ends the loop, else the
\* whole inbox is taken.
RearmDecision(t) ==
    /\ pc[t] = "running"
    /\ \/ /\ t \in cancel \/ inbox[t] = <<>>
          /\ pc' = [pc EXCEPT ![t] = "ending"]
          /\ UNCHANGED <<inbox, drained>>
       \/ /\ t \notin cancel
          /\ inbox[t] # <<>>
          /\ pc' = [pc EXCEPT ![t] = "draining"]
          /\ drained' = [drained EXCEPT ![t] = inbox[t]]
          /\ inbox' = [inbox EXCEPT ![t] = <<>>]
    /\ UNCHANGED <<cancel, name, roster, live, stored, sender, faults, seeded,
                   early, failed>>

\* Every drained message is seeded, then all are acknowledged.
SeedDrained(t) ==
    /\ pc[t] = "draining"
    /\ seeded' = [seeded EXCEPT ![t] = @ \o drained[t]]
    /\ stored' = Mark(Range(drained[t]))
    /\ drained' = [drained EXCEPT ![t] = <<>>]
    /\ pc' = [pc EXCEPT ![t] = "running"]
    /\ UNCHANGED <<cancel, name, roster, live, inbox, sender, faults, early,
                   failed>>

\* Wrong on purpose: every drained message is acknowledged, seeded or not.
SeedFailsAcksAll(t) ==
    /\ pc[t] = "draining"
    /\ Fault
    /\ failed' = failed \cup {t}
    /\ \E k \in 0 .. Len(drained[t]) :
          seeded' = [seeded EXCEPT ![t] = @ \o SubSeq(drained[t], 1, k)]
    /\ stored' = Mark(Range(drained[t]))
    /\ pc' = [pc EXCEPT ![t] = "running"]
    /\ drained' = [drained EXCEPT ![t] = <<>>]
    /\ UNCHANGED <<cancel, name, roster, live, inbox, sender, early>>

\* Seeding stops at the first store error: the k messages before it are seeded
\* and acknowledged and the loop goes on without the rest.  When acknowledging
\* fails, the loop ends with the rows pending; when re-projecting fails, it ends
\* with the rows delivered.
SeedFails(t) ==
    /\ pc[t] = "draining"
    /\ Fault
    /\ failed' = failed \cup {t}
    /\ \E k \in 0 .. Len(drained[t]) :
          LET done == SubSeq(drained[t], 1, k) IN
          /\ seeded' = [seeded EXCEPT ![t] = @ \o done]
          /\ \/ /\ k < Len(drained[t])
                /\ stored' = Mark(Range(done))
                /\ pc' = [pc EXCEPT ![t] = "running"]
             \/ /\ stored' \in {Mark(Range(done)), stored}
                /\ pc' = [pc EXCEPT ![t] = "ending"]
    /\ drained' = [drained EXCEPT ![t] = <<>>]
    /\ UNCHANGED <<cancel, name, roster, live, inbox, sender, early>>

\* A panic in run_loop: the fallback finalizes without unlisting.
DriverPanics(t) ==
    /\ pc[t] = "running"
    /\ Fault
    /\ failed' = failed \cup {t}
    /\ pc' = [pc EXCEPT ![t] = "done"]
    /\ live' = live \ {t}
    /\ UNCHANGED <<cancel, name, roster, inbox, drained, stored, sender, seeded,
                   early>>

\* remove_from_roster, after the settlement.
RemoveFromRoster(t) ==
    /\ pc[t] = "ending"
    /\ pc' = [pc EXCEPT ![t] = "unlisted"]
    /\ roster' = [roster EXCEPT ![name[t]] = NoTask]
    /\ UNCHANGED <<cancel, name, live, inbox, drained, stored, sender, faults,
                   seeded, early, failed>>

\* finalize, after the roster frame was published.
Finalize(t) ==
    /\ pc[t] = "unlisted"
    /\ pc' = [pc EXCEPT ![t] = "done"]
    /\ live' = live \ {t}
    /\ UNCHANGED <<cancel, name, roster, inbox, drained, stored, sender, faults,
                   seeded, early, failed>>

Cancel(t) ==
    /\ t \in live \ cancel
    /\ cancel' = cancel \cup {t}
    /\ UNCHANGED <<pc, name, roster, live, inbox, drained, stored, sender, faults,
                   seeded, early, failed>>

-------------------------------------------------------------------------------
SendStep(m) == StoreMessage(m) \/ PushMessage(m)

DriveStep(t) ==
    \/ RecoverInbox(t) \/ RearmDecision(t) \/ SeedDrained(t)
    \/ RemoveFromRoster(t) \/ Finalize(t)

Next ==
    \/ \E m \in Msg : (\E n \in Name : ResolveName(m, n)) \/ SendStep(m)
    \/ \E t \in Task :
          \/ RegisterName(t)
          \/ DriveStep(t)
          \/ RecoverFails(t) \/ SeedFails(t) \/ DriverPanics(t)
          \/ Cancel(t)

\* Tool calls and driver futures are polled until they end.
Fairness ==
    /\ \A m \in Msg : WF_vars(SendStep(m))
    /\ \A t \in Task : WF_vars(DriveStep(t))

Spec == Init /\ [][Next]_vars /\ Fairness

-------------------------------------------------------------------------------
(* Properties.                                                             *)

TypeOK ==
    /\ pc \in [Task -> DriverPc]
    /\ cancel \in SUBSET Task
    /\ name \in [Task -> Name \cup {0}]
    /\ roster \in [Name -> Task \cup {NoTask}]
    /\ live \in SUBSET Task
    /\ inbox \in [Task -> Seq(Msg)]
    /\ \A t \in Task : Len(inbox[t]) <= MaxDepth
    /\ drained \in [Task -> Seq(Msg)]
    /\ stored \in [Msg -> RowState]
    /\ sender \in [Msg -> [pc : SenderPc, to : Task \cup {NoTask}]]
    /\ faults \in 0 .. MaxFaults
    /\ seeded \in [Task -> Seq(Msg)]
    /\ early \in SUBSET Msg
    /\ failed \in SUBSET Task

Times(m, t) == Cardinality({i \in 1 .. Len(seeded[t]) : seeded[t][i] = m})

\* A message is acknowledged only once it is in the transcript of the task the
\* sender resolved: an error in between leaves it in the store.
AckedIsSeeded ==
    \A m \in Msg : stored[m] = "delivered" => Times(m, sender[m].to) > 0

\* A message that reached the inbox of a running driver enters the transcript
\* once: memory and store do not both feed it.
ReadOnce ==
    \A m \in Msg, t \in Task :
        /\ Times(m, t) <= 2
        /\ Times(m, t) > 0 => sender[m].to = t
        /\ Times(m, t) = 2 => m \in early

\* Memory and store feed one transcript: what is acknowledged was read, and
\* what was read is not read again (subagent_driver.rs, send_message.rs).
ReadExactly == AckedIsSeeded /\ ReadOnce

\* A message accepted while the recipient's loop has not ended is read, unless
\* the recipient is cancelled or meets an error.  One accepted between the re-arm
\* decision and finalize is not: the task is still in the registry and in the
\* roster, and nobody drains its inbox any more.
InboxDrains ==
    \A m \in Msg, t \in Task :
        m \in Range(inbox[t]) /\ pc[t] \in {"rostered", "running", "draining"}
            ~> Times(m, t) > 0 \/ t \in cancel \cup failed

=============================================================================

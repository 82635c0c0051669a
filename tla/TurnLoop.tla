------------------------------- MODULE TurnLoop -------------------------------
(***************************************************************************)
(* The turn loop of one session over its durable transcript: run_loop,     *)
(* run_turn with its stream, the tools of a step, run_compaction, and the  *)
(* ways in.  Every write to the store is a step of its own; a failure can  *)
(* come before any of them.                                                *)
(*                                                                         *)
(* The slot (TurnSlot) lets one loop run at a time.  The settlement of a   *)
(* background task (DeliveryOutbox) writes its reminder at any moment.     *)
(***************************************************************************)
EXTENDS Projection

CONSTANTS
    Tool,            \* signatures of tool calls: a name with its arguments
    MaxSteps,        \* LoopContext.max_steps
    MaxCalls,        \* bound: calls of one assistant message
    MaxInputs,       \* bound: prompts, settlements and compactions together
    MaxTurns         \* bound: assistant messages other than summaries

ASSUME TurnLoopAssumption ==
    /\ ReadOnly \subseteq Tool
    /\ {MaxSteps, MaxCalls, MaxInputs, MaxTurns} \subseteq Nat

VARIABLES
    log,        \* messages and parts in the store
    loop,       \* the locals of run_loop and of what it calls
    budget,     \* what is left of the bounds
    \* Observation only.
    mine,       \* the assistant messages of the steps of this loop
    stopped,    \* messages with calls that a loop left unanswered
    laps,       \* times at the top of the loop since the last step
    doomed      \* the steps of the last loop, if the doom guard ended it

vars == <<log, loop, budget, mine, stopped, laps, doomed>>

\* pc         where the loop is
\* manual     /compact rather than run_loop
\* steps      model_steps
\* compacted  compacted_this_loop
\* history    doom_history
\* seen       input.messages is the projection of this prefix of the log
\* cur        the message that is being written
\* todo       parts still to be written to it
\* marker     the message with the compaction request, or 0 in a normal turn
\* keep, cut  how much a compaction keeps, and the messages it supersedes
\* covers     the messages the summarizer was shown
NoLoop ==
    [pc |-> "idle", manual |-> FALSE, steps |-> 0, compacted |-> FALSE, history |-> <<>>,
     seen |-> 0, cur |-> 0, todo |-> <<>>, marker |-> 0, keep |-> 0, cut |-> {}, covers |-> {}]

Init ==
    /\ log = <<>> /\ loop = NoLoop
    /\ budget = [inputs |-> MaxInputs, turns |-> MaxTurns]
    /\ mine = <<>> /\ stopped = {} /\ laps = 0 /\ doomed = <<>>

Spend(what) == budget[what] > 0 /\ budget' = [budget EXCEPT ![what] = @ - 1]

At(pc)   == loop.pc = pc
GoTo(pc) == loop' = [loop EXCEPT !.pc = pc]

-------------------------------------------------------------------------------
(* Ways in.                                                                *)

Enter(locals) ==
    /\ At("idle")
    /\ loop' = locals
    /\ mine' = <<>> /\ laps' = 0 /\ doomed' = <<>>
    /\ UNCHANGED stopped

\* prompt_async: the message of the user, its part, then the loop.
Prompt ==
    /\ Spend("inputs")
    /\ log' = Append(log, Message("user", <<>>))
    /\ Enter([NoLoop EXCEPT !.pc = "top", !.cur = Len(log) + 1, !.todo = <<TextPart(TRUE)>>])

\* The injected turn of a settlement: its reminder is already there.
Wake ==
    /\ \E i \in DOMAIN log :
          /\ \E r \in Parts(log[i], "reminder") : r.of = "settled"
          /\ \A j \in i + 1 .. Len(log) : log[j].role # "assistant"
    /\ Enter([NoLoop EXCEPT !.pc = "top"])
    /\ UNCHANGED <<log, budget>>

\* /compact: compact, drive_compaction and compact_session, which returns at once
\* when the projection is not above the floor.
Compact ==
    /\ Len(log) > PreserveRecent
    /\ Spend("inputs")
    /\ log' = WithReminders(log)
    /\ Enter(IF Lines(Project(log', FALSE), Body) <= PreserveRecent
             THEN NoLoop
             ELSE [NoLoop EXCEPT !.pc = "before", !.manual = TRUE, !.keep = PreserveRecent])

\* append_background_settlement, from the driver of a task.
Settle ==
    /\ Spend("inputs")
    /\ log' = Append(log, Message("user", <<ReminderPart("settled", {budget.inputs})>>))
    /\ UNCHANGED <<loop, mine, stopped, laps, doomed>>

-------------------------------------------------------------------------------
(* The top of the loop.                                                    *)

\* Whatever is to be stored is stored.
Stored == loop.todo = <<>>

Return == loop' = NoLoop /\ mine' = <<>> /\ laps' = 0

\* Messages some of whose calls have no result.
Unanswered ==
    {i \in DOMAIN log : ~(CallIds(log[i]) \subseteq UNION {ResultIds(m) : m \in Range(log)})}

\* The loop ends early.
Abandon == Return /\ stopped' = Unanswered

\* max_steps is reached.
StepsUsedUp ==
    /\ At("top") /\ Stored /\ loop.steps >= MaxSteps
    /\ Return
    /\ UNCHANGED <<log, budget, stopped, doomed>>

\* prepare_session_messages at the top: new reminders are stored.
Prepare ==
    /\ At("top") /\ Stored /\ loop.steps < MaxSteps
    /\ log' = WithReminders(log)
    /\ loop' = [loop EXCEPT !.pc = "check", !.seen = Len(log')]
    /\ laps' = laps + 1
    /\ UNCHANGED <<budget, mine, stopped, doomed>>

View == Project(SubSeq(log, 1, loop.seen), FALSE)

\* should_compact says Run.
WindowFull ==
    /\ At("check") /\ ~loop.compacted
    /\ budget.inputs > 0
    /\ loop' = [loop EXCEPT !.pc = "before", !.compacted = TRUE, !.keep = Keep(View)]
    /\ UNCHANGED <<log, budget, mine, stopped, laps, doomed>>

\* It says Skip.  A before_turn hook ends the loop or lets it go on.
Proceed ==
    /\ At("check")
    /\ Return \/ (GoTo("create") /\ UNCHANGED <<mine, laps>>)
    /\ UNCHANGED <<log, budget, stopped, doomed>>

-------------------------------------------------------------------------------
(* run_turn.                                                               *)

\* create_assistant_message
Create ==
    /\ At("create")
    /\ log' = Append(log, Message("assistant", <<>>))
    /\ IF loop.marker = 0 THEN Spend("turns") ELSE UNCHANGED budget
    /\ loop' = [loop EXCEPT !.pc = "stream", !.cur = Len(log) + 1]
    /\ UNCHANGED <<mine, stopped, laps, doomed>>

\* The stream is read on.
Streaming(pcs) == loop.pc \in pcs /\ Stored

\* The first text of the stream makes an empty shell.
TextDelta ==
    /\ Streaming({"stream"})
    /\ log[loop.cur].parts = <<>>
    /\ log' = [log EXCEPT ![loop.cur].parts = <<TextPart(FALSE)>>]
    /\ UNCHANGED <<loop, budget, mine, stopped, laps, doomed>>

\* Finish: flush_into_parts has found the calls valid.  A summarizer has no tools.
Finish ==
    /\ Streaming({"stream"})
    /\ \E tools \in SeqOf(Tool, IF loop.marker = 0 THEN MaxCalls ELSE 0) :
          LET text  == [i \in DOMAIN log[loop.cur].parts |-> TextPart(TRUE)]
              calls == [i \in DOMAIN tools |-> CallPart(<<loop.cur, i>>, tools[i])]
          IN loop' = [loop EXCEPT !.pc = "tail", !.todo = text \o calls]
    /\ UNCHANGED <<log, budget, mine, stopped, laps, doomed>>

\* upsert_part for the text that has a shell, append_part for everything else.
Put(parts, p) ==
    IF p.kind = "text" /\ parts # <<>> THEN <<p>> \o Tail(parts) ELSE Append(parts, p)

\* One write of a part.
Write ==
    /\ loop.todo # <<>>
    /\ log' = [log EXCEPT ![loop.cur].parts = Put(@, Head(loop.todo))]
    /\ loop' = [loop EXCEPT !.todo = Tail(@)]
    /\ UNCHANGED <<budget, mine, stopped, laps, doomed>>

\* A hook denies the request, the provider gives up after its retries, the stream
\* breaks off or is idle for too long, a call is malformed, a write or an event
\* fails, the turn is cancelled.
TurnFails ==
    /\ loop.pc \in {"stream", "tail"}
    /\ IF loop.marker = 0
       THEN Abandon
       ELSE loop' = [loop EXCEPT !.pc = "reject", !.todo = <<>>] /\ UNCHANGED <<mine, laps, stopped>>
    /\ UNCHANGED <<log, budget, doomed>>

-------------------------------------------------------------------------------
(* The rest of a step.                                                     *)

\* The stream is over, with or without a Finish, and run_turn returns.  Calls are
\* answered unless the reason, or the cost hook, says stop.
StepDone ==
    /\ Streaming({"stream", "tail"}) /\ loop.marker = 0
    /\ \/ /\ Parts(log[loop.cur], "call") = {}
          /\ Return /\ UNCHANGED stopped
       \/ /\ Parts(log[loop.cur], "call") # {}
          /\ \/ Abandon
             \/ /\ loop' = [loop EXCEPT !.pc = "tools", !.steps = @ + 1, !.compacted = FALSE]
                /\ mine' = Append(mine, loop.cur) /\ laps' = 0
                /\ UNCHANGED stopped
    /\ UNCHANGED <<log, budget, doomed>>

\* collect_tool_calls: the parts that are calls.  In the message of a step these are all
\* parts but the text, which flush_into_parts has put first, if there is one.
Calls(m) == IF Parts(m, "text") = {} THEN m.parts ELSE Tail(m.parts)

\* Wrong on purpose: the calls the agent may not make are left out.
MergeDispatched(calls, denied, ok) ==
    LET made == SelectSeq(calls, LAMBDA c : c.id \notin denied)
    IN [i \in DOMAIN made |-> ResultPart(made[i].id, made[i].id \in ok)]

\* merge_with_denied: a result for every call, in the order of the calls.
Merge(calls, denied, ok) ==
    [i \in DOMAIN calls |->
        ResultPart(calls[i].id, calls[i].id \in ok /\ calls[i].id \notin denied)]

\* The allowlist, the batch, the doom guard, and append_tool_message.  When the guard
\* ends the loop the results are gone.
RunTools ==
    LET m == log[loop.cur] IN
    /\ At("tools")
    /\ \E denied \in SUBSET CallIds(m) : \E ok \in SUBSET (CallIds(m) \ denied) :
          LET results == Merge(Calls(m), denied, ok)
              past    == Remember(loop.history, DoomSummary(m, Range(results)))
          IN \/ /\ Doomed(past)
                /\ Abandon
                /\ doomed' = mine
                /\ UNCHANGED log
             \/ /\ ~Doomed(past)
                /\ log' = Append(log, Message("tool", <<>>))
                /\ loop' = [loop EXCEPT !.pc = "top", !.history = past,
                                        !.cur = Len(log) + 1, !.todo = results]
                /\ UNCHANGED <<mine, laps, stopped, doomed>>
    /\ UNCHANGED budget

-------------------------------------------------------------------------------
(* run_compaction.                                                         *)

\* CompactionFlow::Continue
GoOn == IF loop.manual THEN Return ELSE GoTo("top") /\ UNCHANGED <<mine, laps>>

\* The Before hook stops it.
BeforeHookStops ==
    /\ At("before")
    /\ GoOn
    /\ UNCHANGED <<log, budget, stopped, doomed>>

\* What is superseded is fixed here; append_synthetic_request.
Request ==
    /\ At("before")
    /\ IF loop.manual THEN UNCHANGED budget ELSE Spend("inputs")
    /\ log' = Append(log, Message("user", <<>>))
    /\ loop' = [loop EXCEPT !.pc = "mark", !.cut = Superseded(log, loop.keep),
                            !.cur = Len(log) + 1, !.marker = Len(log) + 1,
                            !.todo = <<RequestPart("pending")>>]
    /\ UNCHANGED <<mine, stopped, laps, doomed>>

\* prepare_compaction_session_messages and build_compaction_projection.
Ask ==
    /\ At("mark") /\ Stored
    /\ log' = WithReminders(log)
    /\ loop' = [loop EXCEPT !.pc = "create", !.seen = Len(log'),
                            !.covers = Summarized(log')]
    /\ UNCHANGED <<budget, mine, stopped, laps, doomed>>

\* run_turn returns: append_compaction_part is next, unless the summary is empty.
SummaryDone ==
    /\ Streaming({"stream", "tail"}) /\ loop.marker # 0
    /\ loop' = IF HasText(log[loop.cur])
               THEN [loop EXCEPT !.pc = "commit", !.todo = <<CompactionPart(loop.cut, loop.covers)>>]
               ELSE [loop EXCEPT !.pc = "reject"]
    /\ UNCHANGED <<log, budget, mine, stopped, laps, doomed>>

\* set_compaction_request_state
Mark(state) == log' = [log EXCEPT ![loop.marker].parts = <<RequestPart(state)>>]

Commit ==
    /\ At("commit") /\ Stored
    /\ Mark("committed")
    /\ GoTo("after")
    /\ UNCHANGED <<budget, mine, stopped, laps, doomed>>

\* A failed attempt is an error of the loop.
Reject ==
    /\ At("reject")
    /\ Mark("failed")
    /\ Return
    /\ UNCHANGED <<budget, stopped, doomed>>

\* The projection is prepared again.  The After hook pauses the loop, or the window
\* is still too full, or the loop goes on.
AfterCompaction ==
    /\ At("after")
    /\ log' = WithReminders(log)
    /\ \/ Return
       \/ /\ ~loop.manual
          /\ loop' = [NoLoop EXCEPT !.pc = "top", !.steps = loop.steps,
                                    !.compacted = loop.compacted, !.history = loop.history]
          /\ UNCHANGED <<mine, laps>>
    /\ UNCHANGED <<budget, stopped, doomed>>

\* The store fails, or the process dies.
Fault ==
    /\ ~At("idle")
    /\ Abandon
    /\ UNCHANGED <<log, budget, doomed>>

-------------------------------------------------------------------------------
Next ==
    \/ Prompt \/ Wake \/ Compact \/ Settle
    \/ StepsUsedUp \/ Prepare \/ WindowFull \/ Proceed
    \/ Create \/ TextDelta \/ Finish \/ Write \/ TurnFails
    \/ StepDone \/ RunTools
    \/ BeforeHookStops \/ Request \/ Ask \/ SummaryDone \/ Commit \/ Reject
    \/ AfterCompaction
    \/ Fault

Spec == Init /\ [][Next]_vars

-------------------------------------------------------------------------------
(* Properties.                                                             *)

\* A request is about to be made: of a turn, or of a compaction.
Sending == At("create")

Sent ==
    IF loop.marker = 0 THEN View ELSE SummaryView(SubSeq(log, 1, loop.seen))

\* Settlements aside, nothing stands between a call and its results.
Settlement(line) == line.role = "user" /\ \A r \in line.notes : r.of = "settled"

\* The messages with a call above the summarization request whose result is below it.
Parted(view, keep) ==
    {i \in DOMAIN view :
        \E id \in view[i].calls, j \in DOMAIN view :
            /\ <<i, <<>>>> \notin AfterRequest(view, keep)
            /\ id \in view[j].results /\ <<j, id>> \in AfterRequest(view, keep)}

\* In every request each call is followed by its result, and a result by nothing
\* that separates it from its call: whatever was denied, failed, compacted, retried
\* or reminded of.  Exceptions: calls after which a loop ended early, results whose
\* call a summary stands for, a settlement in between, and, in the request of a
\* compaction, the summarization request itself: build_compaction_projection puts it
\* before the last `keep' lines, so it may part calls from their results, but those
\* of one message at most.
RequestPaired ==
    Sending =>
      LET view == Sent IN
      /\ \A i \in DOMAIN view : \A id \in view[i].calls :
            i \in stopped \/ \E j \in i + 1 .. Len(view) : id \in view[j].results
      /\ \A j \in DOMAIN view : \A id \in view[j].results :
            LET i == id[1] IN
            /\ i < j
            /\ id \in view[i].calls \/ Owner(log, i) # 0
            /\ \A k \in i + 1 .. j - 1 :
                  view[k].role = "none" \/ Settlement(view[k]) \/ Owner(log, i) # 0
      /\ loop.marker # 0 => \A i, k \in Parted(view, loop.keep) : i = k

\* Something a later reader of the transcript needs.
Says(m) ==
    /\ Parts(m, "compaction") = {}
    /\ \/ HasText(m) \/ CallIds(m) # {} \/ ResultIds(m) # {}
       \/ \E r \in Parts(m, "reminder") : r.of = "settled"

\* Compaction loses nothing, and a fault at any moment of one neither: whatever was
\* said is projected as it is when the next loop comes, or the one summary that is
\* projected was made with it in view, directly or by way of the summaries before it.
HistoryKept ==
    At("idle") =>
      LET view    == Project(log, FALSE)
          systems == {i \in DOMAIN view : view[i].role = "system"}
          summary == log[Owner(log, Min(systems))]
      IN /\ Cardinality(systems) <= 1
         /\ systems # {} => HasText(summary)
         /\ \A i \in DOMAIN log :
               (Says(log[i]) /\ view[i].role \in {"none", "system"})
                   => \E p \in Parts(summary, "compaction") : i \in p.covers

\* A request reminds of exactly what holds, each thing once: what was said before a
\* compaction is said again after it, and nothing out of date is.
RemindersExact ==
    Sending =>
      LET view   == Sent
          active == Active(SubSeq(log, 1, loop.seen))
      IN /\ \A r \in active : Cardinality({i \in DOMAIN view : r \in view[i].notes}) = 1
         /\ \A i \in DOMAIN view : \A r \in view[i].notes : r.of = "settled" \/ r \in active

\* Between two steps of the model the loop comes to its top at most twice, so a full
\* window, or a hook that forbids compaction, cannot keep it busy.
Progress == laps <= 2

\* Judged by the transcript, turns `ms' did nothing but narrow down their calls.
Idle(ms) ==
    /\ \A i \in DOMAIN ms :
          /\ ~HasText(log[ms[i]])
          /\ \A p \in Parts(log[ms[i]], "call"), m \in Range(log) :
                p.tool \notin ReadOnly => ResultPart(p.id, TRUE) \notin Range(m.parts)
    /\ \A i \in 1 .. Len(ms) - 1 :
          {p.tool : p \in Parts(log[ms[i + 1]], "call")} \subseteq {p.tool : p \in Parts(log[ms[i]], "call")}

\* The guard ends a loop when its last turns were idle, and never lets more of them
\* pass, compactions in between or not.
DoomExact ==
    LET last(ms) == SubSeq(ms, Len(ms) - Threshold + 1, Len(ms))
    IN /\ doomed # <<>> => Len(doomed) >= Threshold /\ Idle(last(doomed))
       /\ (At("top") /\ Stored /\ Len(mine) >= Threshold) => ~Idle(last(mine))

\* The loop neither idles nor is ended without cause: it makes progress with every
\* lap, and the doom guard judges exactly (run_loop in turn_loop.rs, doom_guard.rs).
LoopBounded == Progress /\ DoomExact

=============================================================================

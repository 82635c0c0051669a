----------------------------- MODULE ModelStream -----------------------------
(***************************************************************************)
(* One model turn: ConversationRuntime::run_turn (conversation.rs,         *)
(* chat_hooks.rs, retry.rs, turn_stream.rs) over the OpenAI-dialect        *)
(* transport and its decoder task (transport.rs, stream.rs).               *)
(*                                                                         *)
(* Two tasks run: the turn, and from the moment the stream opens the       *)
(* decoder, which feeds a bounded channel the turn drains.  Around them    *)
(* the upstream answers, sends, stalls and breaks off as it likes, the     *)
(* caller may cancel, plugins record costs, DELETE evicts the session's    *)
(* cost.                                                                   *)
(***************************************************************************)
EXTENDS ReplyProcessor

CONSTANTS
    PluginSets,      \* lists of plugins the server may boot with
    Setups,          \* adapter, what the caller asks, session cost so far
    Replies,         \* what the upstream may send: sequences of frames
    Fillers,         \* frames that say nothing, sent as often as it likes
    ExternalCosts,   \* amounts a plugin or a subagent may record
    MaxOthers,       \* bound: record_cost and DELETE calls during the turn
    MaxAttempts,     \* RetryConfig::max_attempts
    BaseDelay,       \* RetryConfig::base_delay
    TotalDeadline,   \* RetryConfig::total_deadline
    RetryAfters,     \* Retry-After values of a 429, the default included
    MaxPiece,        \* bound: tokens of a piece, if it is not all the rest
    ChannelCap       \* DELTA_CHANNEL_CAPACITY

ASSUME BoundsAssumption ==
    /\ MaxOthers \in Nat /\ MaxPiece \in Nat /\ MaxAttempts \in Nat \ {0} /\ BaseDelay \in Nat
    /\ TotalDeadline \in Nat /\ ChannelCap \in Nat \ {0} /\ RetryAfters \subseteq Nat

VARIABLES
    pc,         \* where run_turn stands
    entries,    \* the sorted hook chains, {} before boot
    at,         \* next hook of the chain being dispatched
    ctx,        \* the context the hooks thread: model, system, headers, by
    provider,   \* the adapter
    wish,       \* TurnInput
    request,    \* the request of this attempt as it goes on the wire
    attempt,    \* chat_stream_with_retry: attempts made
    slept,      \* chat_stream_with_retry: time slept so far
    wait,       \* the backoff being slept
    fault,      \* the error of the last attempt
    status,     \* the status the upstream answered it with, 0 for none
    cancelled,  \* the caller's cancellation token
    reply,      \* the frames the upstream is sending
    rest,       \* what the upstream has still to send of it, as bytes
    dec,        \* decoder task: "none", "read", "send", "ended"
    buf,        \* SseParser.buffer
    out,        \* items the decoder still has to put in the channel
    stops,      \* does the decoder return once `out` is empty
    chan,       \* the channel
    open,       \* is the receiver alive
    proc,       \* ProcessorState
    todo,       \* writes and events of the delta being handled
    slot,       \* StreamingPartTracker: part of a kind, 0 for none
    parts,      \* stored parts of the assistant message
    live,       \* Observation only.  Text heard per part id by a subscriber.
    cost,       \* session_costs entry of the session
    owed,       \* Observation only.  What the entry should hold.
    others,     \* record_cost and DELETE calls so far
    result      \* what run_turn returned

hookVars == <<entries, at, ctx>>
retryVars == <<request, attempt, slept, wait, fault, status>>
decVars == <<rest, dec, buf, out, stops>>
turnVars == <<proc, todo, slot, parts, live>>
costVars == <<cost, owed, others>>
inputs == <<provider, wish, reply>>
vars == <<pc, hookVars, retryVars, decVars, turnVars, costVars, inputs, chan, open,
          cancelled, result>>

NoRequest == [body |-> [fields |-> {}], headers |-> <<>>]
Kinds == {"on_chat_params", "on_chat_messages", "on_chat_headers", "on_cost_tick"}

\* The bytes of a frame, as the server writes them.
Eol(f) == IF f.crlf THEN <<"r", "n">> ELSE <<"n">>
FrameBytes(f) ==
    (CASE f.sort = "comment" -> <<":", "hb">>
       [] f.sort = "ping"    -> <<"event:", "ping">>
       [] f.sort = "done"    -> <<"data:", "[DONE]">>
       [] f.sort = "garbage" -> <<"data:", "{">>
       [] f.sort = "chunk"   ->
            IF f.folded THEN <<"data:", Head(f.json)>> \o Eol(f) \o <<"data:">> \o Tail(f.json)
            ELSE <<"data:">> \o f.json)
    \o Eol(f) \o Eol(f)
Bytes(r) == FlattenSeq([i \in DOMAIN r |-> FrameBytes(r[i])])

Init ==
    /\ pc = "boot" /\ entries = <<>> /\ at = 1
    /\ \E s \in Setups : provider = s.provider /\ wish = s.wish /\ cost = s.cost
    /\ reply = <<>>
    /\ ctx = [model |-> wish.model, system |-> None, headers |-> <<>>, by |-> <<>>]
    /\ request = NoRequest /\ attempt = 0 /\ slept = 0 /\ wait = 0 /\ fault = "none"
    /\ status = 0 /\ cancelled = FALSE
    /\ rest = <<>> /\ dec = "none" /\ buf = <<>> /\ out = <<>> /\ stops = FALSE
    /\ chan = <<>> /\ open = TRUE
    /\ proc = ProcessorState0 /\ todo = <<>> /\ slot = [text |-> 0, reasoning |-> 0]
    /\ parts = <<>> /\ live = (0 :> <<>>)
    /\ owed = (IF cost = None THEN 0 ELSE The(cost)) /\ others = 0
    /\ result = "none"

-----------------------------------------------------------------------------
(* Boot, and the start of the turn.                                        *)

\* install_all; a refusal ends the boot and no turn ever runs.
Boot ==
    /\ pc = "boot"
    /\ \E ps \in PluginSets :
          /\ entries' = InstallAll(ps).entries
          /\ pc' = IF InstallAll(ps).ok THEN "ready" ELSE "refused"
    /\ UNCHANGED <<at, ctx, retryVars, decVars, turnVars, costVars, inputs, chan, open,
                   cancelled, result>>

\* Wrong on purpose: the stream outlives the turn that returned.
ReturnKeepsStream(r) ==
    pc' = "done" /\ result' = r /\ UNCHANGED <<chan, open>>

\* run_turn returns: the stream is dropped, its receiver with it.
Return(r) ==
    pc' = "done" /\ result' = r /\ open' = FALSE /\ chan' = <<>>

\* create_assistant_message; when the store refuses, `?` returns at once.
Begin ==
    /\ pc = "ready"
    /\ \/ pc' = "on_chat_params" /\ UNCHANGED <<chan, open, result>>
       \/ Return("storage")
    /\ UNCHANGED <<hookVars, retryVars, decVars, turnVars, costVars, inputs, cancelled>>

-----------------------------------------------------------------------------
(* Hooks.                                                                  *)

\* What a hook leaves in the context: the model it names, its header.
Applied(c, e) ==
    [c EXCEPT !.model   = IF e.kind = "on_chat_params" THEN The(Or(e.sets.model, Some(@))) ELSE @,
              !.headers = @ \o e.sets.headers,
              !.by      = Append(@, e)]

\* A chain that let the turn go on: what run_turn does next.
Proceed(kind, c, outcome) ==
    /\ at' = 1
    /\ CASE kind = "on_chat_params" ->
              /\ pc' = "on_chat_messages"
              /\ ctx' = [c EXCEPT !.system = Some(c.model)]
              /\ UNCHANGED <<chan, open, result>>
         [] kind = "on_chat_messages" ->
              pc' = "on_chat_headers" /\ ctx' = c /\ UNCHANGED <<chan, open, result>>
         [] kind = "on_chat_headers" ->
              pc' = "open" /\ ctx' = c /\ UNCHANGED <<chan, open, result>>
         [] kind = "on_cost_tick" ->
              /\ ctx' = c
              /\ Return(IF outcome = "completed" THEN The(Or(proc.finish, Some("end_turn")))
                        ELSE "halted")

\* Denied, by the plugin or by a fault: params and messages end the turn,
\* headers go on with none, the cost tick halts.
Deny(kind) ==
    CASE kind \in {"on_chat_params", "on_chat_messages"} ->
            at' = 1 /\ ctx' = ctx /\ Return("cancelled")
      [] kind = "on_chat_headers" -> Proceed(kind, [ctx EXCEPT !.headers = <<>>], "denied")
      [] kind = "on_cost_tick"    -> Proceed(kind, ctx, "denied")

\* dispatch: one hook answers, or the chain is through.
Dispatch(kind) ==
    /\ pc = kind
    /\ IF at > Len(Chain(entries, kind))
       THEN Proceed(kind, ctx, "completed")
       ELSE LET e == Chain(entries, kind)[at]
            IN  \E answer \in HookResults :
                   CASE DispatchOutcome(answer) = "on" ->
                          at' = at + 1 /\ ctx' = Applied(ctx, e)
                          /\ UNCHANGED <<pc, chan, open, result>>
                     [] DispatchOutcome(answer) = "stopped" ->
                          Proceed(kind, Applied(ctx, e), "stopped")
                     [] DispatchOutcome(answer) = "denied" -> Deny(kind)
    /\ UNCHANGED <<entries, retryVars, decVars, turnVars, costVars, inputs, cancelled>>

-----------------------------------------------------------------------------
(* Opening the stream, with retries.                                       *)

\* base * 2^(attempt-1), spread over a band of half its length around it.
Jittered(base) ==
    LET spread == base \div 2
        low    == base - spread \div 2
    IN  IF base = 0 THEN {0}
        ELSE {low + o : o \in 0 .. (IF spread = 0 THEN 0 ELSE spread - 1)}

Backoffs(e) == IF e = "rate_limit" THEN RetryAfters ELSE Jittered(BaseDelay * 2 ^ (attempt - 1))

\* Wrong on purpose: each backoff is held against the deadline on its own.
WithinDeadlineAlone(b) == b <= TotalDeadline

WithinDeadline(b) == slept + b <= TotalDeadline

\* The Err arm of chat_stream_with_retry.
OpenFailed(e) ==
    /\ fault' = e
    /\ request' = NoRequest
    /\ IF attempt >= MaxAttempts \/ ~IsRetryable(e)
       THEN Return(e) /\ UNCHANGED wait
       ELSE \E b \in Backoffs(e) :
               IF WithinDeadline(b)
               THEN pc' = "backoff" /\ wait' = b /\ UNCHANGED <<chan, open, result>>
               ELSE Return(e) /\ UNCHANGED wait

\* chat_stream up to the POST: body, key, headers.
Open ==
    /\ pc = "open"
    /\ attempt' = attempt + 1
    /\ pc' = "post"
    /\ request' =
         [body    |-> EnrichBody(provider,
                          BuildChatBody([model |-> ctx.model, given |-> wish.given,
                                         size |-> wish.size]).body),
          headers |-> RequestHeaders(provider, ctx.headers)]
    /\ UNCHANGED <<hookVars, slept, wait, fault, status, decVars, turnVars, costVars, inputs, chan,
                   open, cancelled, result>>

BodyFits == BuildChatBody([model |-> ctx.model, given |-> wish.given, size |-> wish.size]).ok

\* A body over the cap is a Network error, a missing key is not.
Post ==
    /\ pc = "post"
    /\ CASE ~BodyFits    -> OpenFailed("network")
         [] BodyFits /\ ~provider.key -> OpenFailed("credentials")
         [] OTHER        -> pc' = "sending" /\ UNCHANGED <<request, wait, fault, chan, open, result>>
    /\ UNCHANGED <<hookVars, attempt, slept, status, decVars, turnVars, costVars, inputs, cancelled>>

\* The upstream answers: 200 starts the decoder, anything else leads to the
\* error body; or the connection fails.
Answered(code) ==
    /\ pc = "sending"
    /\ status' = IF code = 200 THEN 0 ELSE code
    /\ CASE code = 200 ->
              /\ pc' = "stream" /\ dec' = "read"
              /\ reply' \in Replies /\ rest' = Bytes(reply')
              /\ request' = NoRequest /\ attempt' = 0 /\ slept' = 0 /\ wait' = 0 /\ fault' = "none"
              /\ ctx' = [ctx EXCEPT !.headers = <<>>, !.by = <<>>]
              /\ UNCHANGED <<chan, open, result>>
         [] code = 0 ->
              OpenFailed("network") /\ UNCHANGED <<attempt, slept, dec, ctx, reply, rest>>
         [] OTHER ->
              /\ pc' = "error_body" /\ fault' = MapHttpError(code)
              /\ UNCHANGED <<request, attempt, slept, wait, dec, ctx, reply, rest, chan, open, result>>
    /\ UNCHANGED <<entries, at, buf, out, stops, turnVars, costVars, provider, wish, cancelled>>

SendCancelled ==
    /\ pc = "sending" /\ cancelled
    /\ Return("cancelled")
    /\ UNCHANGED <<hookVars, retryVars, decVars, turnVars, costVars, inputs, cancelled>>

\* read_capped_body ends; nothing bounds or cancels the reading.
ErrorBodyRead ==
    /\ pc = "error_body"
    /\ OpenFailed(fault)
    /\ UNCHANGED <<hookVars, attempt, slept, status, decVars, turnVars, costVars, inputs, cancelled>>

Wake ==
    /\ pc = "backoff"
    /\ pc' = "open" /\ slept' = slept + wait /\ wait' = 0
    /\ UNCHANGED <<hookVars, request, attempt, fault, status, decVars, turnVars, costVars, inputs,
                   chan, open, cancelled, result>>

BackoffCancelled ==
    /\ pc = "backoff" /\ cancelled
    /\ Return("cancelled")
    /\ UNCHANGED <<hookVars, retryVars, decVars, turnVars, costVars, inputs, cancelled>>

-----------------------------------------------------------------------------
(* The decoder task.                                                       *)

Err(e) == [kind |-> "err", error |-> e]

\* The frames of a piece in turn: [DONE] and a payload that does not decode
\* end the stream, heartbeats are passed over.
Feed(frames) ==
    LET read  == SelectSeq(frames, LAMBDA f : IsDone(f) \/ ~IsSkipped(f))
        chunk == [i \in DOMAIN read |->
                     IF IsDone(read[i]) THEN [ok |-> FALSE, deltas |-> <<>>]
                     ELSE DecodeChunk(read[i].data)]
        ends  == {i \in DOMAIN read : ~chunk[i].ok}
        last  == IF ends = {} THEN Len(read) + 1 ELSE CHOOSE i \in ends : \A j \in ends : i <= j
    IN  [items |-> FlattenSeq([i \in 1 .. last - 1 |-> chunk[i].deltas])
                   \o (IF last <= Len(read) /\ ~IsDone(read[last]) THEN <<Err("decode")>> ELSE <<>>),
         stops |-> ends # {}]

\* The tail of a closed stream: what does not decode is dropped.
TailItems(b) ==
    LET frames == SelectSeq(SseFinish(b),
                            LAMBDA f : ~IsDone(f) /\ ~IsSkipped(f) /\ DecodeChunk(f.data).ok)
    IN  FlattenSeq([i \in DOMAIN frames |-> DecodeChunk(frames[i].data).deltas])

\* With nothing (left) to send the loop goes round, or the task returns.
Emit(items, ends) ==
    /\ out' = items /\ stops' = ends
    /\ dec' = IF items # <<>> THEN "send" ELSE IF ends THEN "ended" ELSE "read"

\* A piece of any length arrives.
DecRead ==
    /\ dec = "read"
    /\ \E k \in {j \in 1 .. Len(rest) : j <= MaxPiece \/ j = Len(rest)} :
          \E pushed \in {SseFrames(buf \o SubSeq(rest, 1, k))} :
          \E fed \in {Feed(pushed.frames)} :
              /\ rest' = SubSeq(rest, k + 1, Len(rest))
              /\ buf' = pushed.rest /\ Emit(fed.items, fed.stops)
    /\ UNCHANGED <<pc, hookVars, retryVars, turnVars, costVars, inputs, chan, open, cancelled,
                   result>>

\* The upstream sends a frame that says nothing, a heartbeat or a bare role,
\* and may do so for ever.  (Bound: before its reply or after it, one at a time.)
Ahead(f) == IsPrefix(FrameBytes(f), rest)
Repeats(f) ==
    /\ dec = "read" /\ buf = <<>> /\ rest \in {Bytes(reply), <<>>}
    /\ rest' = FrameBytes(f) \o rest
    /\ UNCHANGED <<pc, hookVars, retryVars, dec, buf, out, stops, turnVars, costVars, inputs,
                   chan, open, cancelled, result>>

\* The upstream closes, wherever it is in the reply.
DecClose ==
    /\ dec = "read"
    /\ buf' = <<>>
    /\ \E items \in {TailItems(buf)} : Emit(items, TRUE)
    /\ UNCHANGED <<pc, hookVars, retryVars, rest, turnVars, costVars, inputs, chan, open,
                   cancelled, result>>

\* The connection breaks, or nothing comes for the idle timeout, or the
\* token is cancelled.
DecFail(e) ==
    /\ dec = "read"
    /\ e = "cancelled" => cancelled
    /\ Emit(<<Err(e)>>, TRUE)
    /\ UNCHANGED <<pc, hookVars, retryVars, rest, buf, turnVars, costVars, inputs, chan, open,
                   cancelled, result>>

\* tx.send: waits for room; fails once the receiver is gone.
DecSend ==
    /\ dec = "send"
    /\ \/ /\ open /\ Len(chan) < ChannelCap
          /\ chan' = Append(chan, Head(out))
          /\ Emit(Tail(out), stops)
       \/ /\ ~open
          /\ Emit(<<>>, TRUE) /\ UNCHANGED chan
    /\ UNCHANGED <<pc, hookVars, retryVars, rest, buf, turnVars, costVars, inputs, open,
                   cancelled, result>>

-----------------------------------------------------------------------------
(* drive_stream: the turn drains the channel.                              *)

Waiting == pc = "stream" /\ todo = <<>>

\* ensure_streaming_part: the shell of a kind not seen yet.
EnsurePart(kind) == IF slot[kind] = 0 THEN <<[op |-> "create", kind |-> kind]>> ELSE <<>>

HandleEvent(evt) ==
    (IF evt.kind = "args" THEN <<>> ELSE EnsurePart(evt.kind))
    \o <<[op |-> "delta", kind |-> evt.kind, text |-> evt.text]>>

HandlePart(part) ==
    IF part.kind \in {"text", "reasoning"}
    THEN EnsurePart(part.kind) \o <<[op |-> "upsert", kind |-> part.kind, text |-> part.text]>>
    ELSE <<[op |-> "append", part |-> part]>>

\* The next item of the stream; cancellation is looked at first.
TakeItem ==
    /\ Waiting /\ ~cancelled /\ chan # <<>>
    /\ IF Head(chan).kind = "err"
       THEN Return(Head(chan).error) /\ UNCHANGED <<proc, todo>>
       ELSE \E step \in {ProcessorStep(proc, Head(chan))} :
           \/ ~step.ok /\ Return("decode") /\ UNCHANGED <<proc, todo>>
           \/ /\ step.ok
              /\ chan' = Tail(chan) /\ proc' = step.next
              /\ todo' = FlattenSeq([i \in DOMAIN step.events |-> HandleEvent(step.events[i])])
                         \o FlattenSeq([i \in DOMAIN step.parts |-> HandlePart(step.parts[i])])
              /\ UNCHANGED <<pc, open, result>>
    /\ UNCHANGED <<hookVars, retryVars, decVars, slot, parts, live, costVars, inputs, cancelled>>

\* What one write leaves in the store.
Stored(w) ==
    CASE w.op = "create" -> Append(parts, [kind |-> w.kind, text |-> <<>>])
      [] w.op = "delta"  -> parts
      [] w.op = "upsert" -> [parts EXCEPT ![slot[w.kind]].text = w.text]
      [] w.op = "append" -> Append(parts, w.part)

\* The event that follows it, as a subscriber keeps it by part id: 0 is the
\* transient id of the tool arguments.
Heard(w) ==
    CASE w.op = "create" -> (Len(parts) + 1 :> <<>>) @@ live
      [] w.op = "delta"  ->
            LET id == IF w.kind = "args" THEN 0 ELSE slot[w.kind]
            IN  [live EXCEPT ![id] = @ \o w.text]
      [] OTHER -> live

WriteNext ==
    /\ pc = "stream" /\ todo # <<>>
    /\ LET w == Head(todo)
       IN  /\ parts' = Stored(w) /\ live' = Heard(w)
           /\ slot' = IF w.op = "create" THEN [slot EXCEPT ![w.kind] = Len(parts) + 1] ELSE slot
    /\ todo' = Tail(todo)
    /\ UNCHANGED <<pc, hookVars, retryVars, decVars, proc, costVars, inputs, chan, open,
                   cancelled, result>>

\* Wrong on purpose: the event goes out although the store refused.
WriteFailsAnnounced ==
    /\ pc = "stream" /\ todo # <<>>
    /\ live' = Heard(Head(todo))
    /\ todo' = <<>> /\ Return("storage")
    /\ UNCHANGED <<hookVars, retryVars, decVars, proc, slot, parts, costVars, inputs, cancelled>>

\* The store or the bus refuses, before or after the write itself.
WriteFails ==
    /\ pc = "stream" /\ todo # <<>>
    /\ \/ parts' = Stored(Head(todo)) \/ UNCHANGED parts
    /\ todo' = <<>> /\ Return("storage")
    /\ UNCHANGED <<hookVars, retryVars, decVars, proc, slot, live, costVars, inputs, cancelled>>

StreamCancelled ==
    /\ Waiting /\ cancelled
    /\ Return("cancelled")
    /\ UNCHANGED <<hookVars, retryVars, decVars, turnVars, costVars, inputs, cancelled>>

\* The runtime's own idle timeout.
StreamIdle ==
    /\ Waiting /\ ~cancelled /\ chan = <<>> /\ dec # "ended"
    /\ Return("network")
    /\ UNCHANGED <<hookVars, retryVars, decVars, turnVars, costVars, inputs, cancelled>>

\* Wrong on purpose: the entry is replaced, not added to.
AddSessionCostReplaces(c) == Some(c)

AddSessionCost(c) == Some(c + (IF cost = None THEN 0 ELSE The(cost)))

\* The sender is gone and the channel drained.
StreamEnd ==
    /\ Waiting /\ ~cancelled /\ chan = <<>> /\ dec = "ended"
    /\ pc' = "on_cost_tick"
    /\ LET c == TurnCost(ctx.model, proc.usage)
       IN  cost' = IF c = None THEN cost ELSE AddSessionCost(The(c))
    /\ owed' = owed + (IF proc.finish = None \/ (rest # <<>> /\ proc.usage = None)
                       THEN 0
                       ELSE LET c == TurnCost(ctx.model, SaidUsage(reply))
                            IN  IF c = None THEN 0 ELSE The(c))
    /\ UNCHANGED <<hookVars, retryVars, decVars, turnVars, others, inputs, chan, open,
                   cancelled, result>>

-----------------------------------------------------------------------------
(* Everybody else.                                                         *)

Cancel ==
    /\ ~cancelled /\ pc \notin {"boot", "refused", "ready", "done"}
    /\ cancelled' = TRUE
    /\ UNCHANGED <<pc, hookVars, retryVars, decVars, turnVars, costVars, inputs, chan, open,
                   result>>

\* add_session_cost_external and evict_session_cost.
RecordCost(c) ==
    /\ others < MaxOthers /\ pc \notin {"boot", "refused"}
    /\ cost' = AddSessionCost(c) /\ owed' = owed + c /\ others' = others + 1
    /\ UNCHANGED <<pc, hookVars, retryVars, decVars, turnVars, inputs, chan, open, cancelled,
                   result>>

EvictSessionCost ==
    /\ others < MaxOthers /\ pc \notin {"boot", "refused"}
    /\ cost' = None /\ owed' = 0 /\ others' = others + 1
    /\ UNCHANGED <<pc, hookVars, retryVars, decVars, turnVars, inputs, chan, open, cancelled,
                   result>>

-----------------------------------------------------------------------------
Turn ==
    \/ Begin \/ \E kind \in Kinds : Dispatch(kind)
    \/ Open \/ Post \/ SendCancelled \/ Wake \/ BackoffCancelled
    \/ TakeItem \/ WriteNext \/ WriteFails \/ StreamCancelled \/ StreamIdle \/ StreamEnd

Upstream ==
    \/ \E code \in {0, 200, 400, 401, 429, 500} : Answered(code)
    \/ ErrorBodyRead \/ DecRead \/ DecClose \/ DecFail("network")
    \/ \E f \in Fillers : Repeats(f)

Next ==
    \/ Boot \/ Turn \/ Upstream \/ DecFail("cancelled") \/ DecSend
    \/ Cancel \/ \E c \in ExternalCosts : RecordCost(c)
    \/ EvictSessionCost

(***************************************************************************)
(* The runtime polls the turn and the decoder; timers fire: a hook answers *)
(* or times out, a backoff ends, the decoder's wait for a piece ends with  *)
(* the piece or with the idle timeout, and every piece starts the wait     *)
(* anew.  A cancelled decoder sees it in the end: its select! tries the    *)
(* two branches in random order.  Nothing makes the upstream answer a      *)
(* POST, finish an error body or stop sending.                             *)
(***************************************************************************)
Fairness ==
    /\ WF_vars(Boot) /\ WF_vars(Turn)
    /\ WF_vars(DecFail("network") \/ DecFail("cancelled") \/ DecClose \/ DecRead)
    /\ WF_vars(DecFail("cancelled")) /\ WF_vars(DecSend)

Spec == Init /\ [][Next]_vars /\ Fairness

-----------------------------------------------------------------------------
(* Properties.                                                             *)

Finished == pc = "done" /\ proc.finish # None /\ result \in {"halted", The(proc.finish)}

OfKind(kind) == SelectSeq(parts, LAMBDA p : p.kind = kind)

TextParts(kind, t) == IF t = <<>> THEN <<>> ELSE <<[kind |-> kind, text |-> t]>>

(***************************************************************************)
(* However the bytes were cut, whatever heartbeats, line ends or folded    *)
(* data lines stood between, a turn whose reply came to its finish stores  *)
(* exactly what the model said: one reasoning and one text part, the calls *)
(* by index, the model's own finish reason even when a usage chunk         *)
(* follows; and a reply is refused exactly when it is not well formed.     *)
(***************************************************************************)
ReplyKept ==
    /\ Finished =>
          /\ WellFormed(reply)
          /\ OfKind("text") = TextParts("text", SaidText(reply))
          /\ OfKind("reasoning") = TextParts("reasoning", SaidReasoning(reply))
          /\ LET calls == SaidCalls(reply)
             IN  OfKind("call") =
                    [k \in DOMAIN calls |->
                        [kind |-> "call", call_id |-> calls[k].id, name |-> calls[k].name,
                         text |-> calls[k].args]]
          /\ \A i \in DOMAIN parts :
                parts[i].kind = "finish" => parts[i].reason = SaidReason(reply)
          /\ result \in {"halted", SaidReason(reply)}
    /\ result = "decode" => ~WellFormed(reply)

(***************************************************************************)
(* A subscriber that follows the transient deltas by part id holds, once   *)
(* the reply is finished, the very text the store holds under that id, and *)
(* it never hears of a part the store does not have.                       *)
(***************************************************************************)
LiveMatches ==
    /\ \A id \in DOMAIN live \ {0} : id \in DOMAIN parts
    /\ Finished => \A id \in DOMAIN parts :
          parts[id].kind \in {"text", "reasoning"} =>
              id \in DOMAIN live /\ parts[id].text = live[id]

(***************************************************************************)
(* The session's cost is the sum of what was recorded since it was last    *)
(* dropped, each finished turn counted once, at the price of the usage the *)
(* model reported, even when finish and usage come in two chunks and       *)
(* record_cost or DELETE strikes in between.                               *)
(***************************************************************************)
BilledOnce == (IF cost = None THEN 0 ELSE The(cost)) = owed

(***************************************************************************)
(* Opening the stream never takes more than max_attempts requests nor      *)
(* sleeps past total_deadline in all, and no request follows a missing key *)
(* or an answer that is neither a 429 nor a server's fault, save the       *)
(* answers that map_http_error takes for a Network error too: a 400, as    *)
(* every 4xx but 401, 403 and 429, is sent again, though the comments of   *)
(* retry.rs (3-4, 17-19, 67-69) say that 4xx bubble at once.               *)
(***************************************************************************)
TakenForNetwork == {400}
RetryBounded ==
    /\ attempt <= MaxAttempts /\ slept + wait <= TotalDeadline
    /\ pc \in {"open", "post", "sending", "backoff"} =>
          /\ fault \in {"none", "rate_limit", "network"}
          /\ status \in {0, 429, 500} \cup TakenForNetwork

(***************************************************************************)
(* What goes on the wire is what the hooks agreed on: those that answered  *)
(* did so in canonical order, the model is the last one a params hook      *)
(* named, in a form its family accepts; the key and the provider's own     *)
(* headers are never a plugin's.                                           *)
(***************************************************************************)
RequestExact ==
    pc = "sending" =>
        LET named == SelectSeq(ctx.by, LAMBDA e : e.kind = "on_chat_params" /\ e.sets.model # None)
            own   == {"content-type", "authorization"} \cup provider.builtin
        IN  /\ request.body.model =
                   IF named = <<>> THEN wish.model ELSE The(Last(named).sets.model)
            /\ ctx.system = Some(request.body.model)
            /\ \A i, j \in DOMAIN ctx.by :
                  i < j /\ ctx.by[i].kind = ctx.by[j].kind =>
                      ctx.by[i].priority >= ctx.by[j].priority
            /\ Family[request.body.model] = "gpt-5" => "max_tokens" \notin request.body.fields
            /\ Family[request.body.model] = "o1" => "temperature" \notin request.body.fields
            /\ \A n \in own : request.headers[n] \in {"own_key", "builtin"}
            /\ \A n \in DOMAIN request.headers \ own :
                  n \notin ReservedHeaders
                  /\ \E i \in DOMAIN ctx.by : \E k \in DOMAIN ctx.by[i].sets.headers :
                        /\ ctx.by[i].sets.headers[k].name = n
                        /\ ctx.by[i].sets.headers[k].value = request.headers[n]

(***************************************************************************)
(* Once booted, the turn returns, save where the code waits without a      *)
(* limit: for the answer to a POST nobody cancels, for the body of an      *)
(* error answer, and for an upstream that, not cancelled, sends deltas for *)
(* ever; heartbeats alone do not keep it.  Its decoder task ends too, save *)
(* in those cases and when the upstream sends heartbeats for ever: each    *)
(* starts the idle timeout anew and is passed over, so that the decoder    *)
(* never finds the receiver dropped.                                       *)
(***************************************************************************)
Unlimited == <>[](pc = "sending" /\ ~cancelled) \/ <>[](pc = "error_body")
Floods(fillers) == []<>(~cancelled /\ \E f \in fillers : Ahead(f))

TurnEnds ==
    /\ <>(pc \in {"refused", "done"}) \/ Unlimited
          \/ Floods({f \in Fillers : f.sort = "chunk"})
    /\ <>(pc \in {"refused", "done"} /\ dec \in {"none", "ended"}) \/ Unlimited \/ Floods(Fillers)

=============================================================================

---------------------------- MODULE ReplyProcessor ----------------------------
(***************************************************************************)
(* The incremental processor of one assistant reply (processor.rs) and the *)
(* turn's cost (cost.rs, turn_cost of conversation.rs): pure operators on  *)
(* the accumulator ProcessorState, and what a reply means, read off the    *)
(* chunks the model sent with no stream, parser or accumulator between.    *)
(***************************************************************************)
EXTENDS ProviderWire

CONSTANTS
    MaxPendingToolCalls,  \* MAX_PENDING_TOOL_CALLS
    JsonArgs,             \* argument strings (token sequences) that parse
    PricingTable          \* model -> option of its price per token

-----------------------------------------------------------------------------
(* Processor::step.                                                        *)

ProcessorState0 ==
    [text |-> <<>>, reasoning |-> <<>>, pending |-> <<>>, usage |-> None, finish |-> None]

\* pending_tool_calls is a BTreeMap: a function on the indices seen so far.
Insert(map, k, v) == [i \in DOMAIN map \cup {k} |-> IF i = k THEN v ELSE map[i]]

OverCap(pending, index) ==
    Cardinality(DOMAIN pending) >= MaxPendingToolCalls /\ index \notin DOMAIN pending

Refused(s) == [ok |-> FALSE, parts |-> <<>>, events |-> <<>>, next |-> s]
Stepped(s, parts, events) == [ok |-> TRUE, parts |-> parts, events |-> events, next |-> s]

\* A second start at an index whose name differs or whose arguments flow.
Clashes(old, d) ==
    \/ old.name # "" /\ d.name # "" /\ old.name # d.name
    \/ old.args # <<>>

StepStart(s, d) ==
    IF \/ d.index \in DOMAIN s.pending /\ Clashes(s.pending[d.index], d)
       \/ OverCap(s.pending, d.index)
    THEN Refused(s)
    ELSE Stepped([s EXCEPT !.pending =
                     Insert(@, d.index, [call_id |-> d.call_id, name |-> d.name, args |-> <<>>])],
                 <<>>, <<>>)

StepArgs(s, d) ==
    LET entry == IF d.index \in DOMAIN s.pending THEN s.pending[d.index]
                 ELSE [call_id |-> "", name |-> "", args |-> <<>>]
    IN  IF OverCap(s.pending, d.index) THEN Refused(s)
        ELSE Stepped([s EXCEPT !.pending =
                         Insert(@, d.index, [entry EXCEPT !.args = @ \o d.text])],
                     <<>>, <<[kind |-> "args", text |-> d.text]>>)

\* flush_into_parts: every pending call is checked before anything is
\* drained; reasoning, text, calls by index, step finish.
Flush(s) ==
    LET order == SetToSortSeq(DOMAIN s.pending, <)
        calls == [k \in DOMAIN order |-> s.pending[order[k]]]
        sound == /\ \A k \in DOMAIN calls :
                        calls[k].name # "" /\ calls[k].args \in JsonArgs \cup {<<>>}
                 /\ Cardinality({calls[k].call_id : k \in DOMAIN calls}) = Len(calls)
        text(kind, t) == IF t = <<>> THEN <<>> ELSE <<[kind |-> kind, text |-> t]>>
    IN  IF ~sound THEN Refused([s EXCEPT !.pending = <<>>])
        ELSE Stepped([s EXCEPT !.pending = <<>>, !.text = <<>>, !.reasoning = <<>>],
                     text("reasoning", s.reasoning) \o text("text", s.text)
                     \o [k \in DOMAIN calls |->
                            [kind |-> "call", call_id |-> calls[k].call_id,
                             name |-> calls[k].name, text |-> calls[k].args]]
                     \o <<[kind |-> "finish", reason |-> The(s.finish)]>>,
                     <<>>)

\* The first finish reason and the last usage are kept.
StepFinish(s, d) ==
    Flush([s EXCEPT !.usage = Or(d.usage, @), !.finish = Or(@, Some(d.reason))])

ProcessorStep(s, d) ==
    CASE d.kind = "role"      -> Stepped(s, <<>>, <<>>)
      [] d.kind = "text"      -> Stepped([s EXCEPT !.text = @ \o d.text], <<>>, <<d>>)
      [] d.kind = "reasoning" -> Stepped([s EXCEPT !.reasoning = @ \o d.text], <<>>, <<d>>)
      [] d.kind = "start"     -> StepStart(s, d)
      [] d.kind = "args"      -> StepArgs(s, d)
      [] d.kind = "finish"    -> StepFinish(s, d)

-----------------------------------------------------------------------------
(* Cost, in units of one token's price.                                    *)

ComputeCost(usage, pricing) ==
    LET nonCached == IF usage.input > usage.cached THEN usage.input - usage.cached ELSE 0
        writes    == IF usage.cache_write > usage.cache_creation THEN usage.cache_write
                     ELSE usage.cache_creation
    IN  nonCached * pricing.input + (usage.output + usage.reasoning) * pricing.output
        + (IF pricing.cached = None THEN 0 ELSE usage.cached * The(pricing.cached))
        + (IF pricing.cache_write = None THEN 0 ELSE writes * The(pricing.cache_write))

\* turn_cost: the gateway's own figure, else the table, else unknown.
TurnCost(model, usage) ==
    IF usage = None THEN None
    ELSE IF The(usage).cost # None THEN The(usage).cost
    ELSE IF PricingTable[model] = None THEN None
    ELSE Some(ComputeCost(The(usage), The(PricingTable[model])))

-----------------------------------------------------------------------------
(* What a reply means.  A reply is the sequence of frames the model sends; *)
(* its chunks are read directly, as if they had arrived in one piece.      *)

Payloads(reply) ==
    LET chunks == SelectSeq(reply, LAMBDA f : f.sort = "chunk")
    IN  [i \in DOMAIN chunks |-> Json[chunks[i].json]]

SaidChoices(reply) ==
    LET chunks == Payloads(reply) IN FlattenSeq([i \in DOMAIN chunks |-> chunks[i].choices])

Said(reply, Field(_)) ==
    LET cs == SaidChoices(reply)
    IN  FlattenSeq([i \in DOMAIN cs |-> The(Or(Field(cs[i]), Some(<<>>)))])
SaidText(reply) == Said(reply, LAMBDA c : c.content)
SaidReasoning(reply) == Said(reply, LAMBDA c : Or(c.reasoning_content, c.reasoning))

\* Every fragment of a call, with the index it belongs to.
CallPieces(reply) ==
    LET cs == SaidChoices(reply)
    IN  FlattenSeq([i \in DOMAIN cs |-> [k \in DOMAIN cs[i].tool_calls |->
            [of |-> The(Or(cs[i].tool_calls[k].index, Some(k - 1))), tc |-> cs[i].tool_calls[k]]]])

\* The call the fragments of one index make up.  It may be opened again, as
\* the same call, as long as no argument came: the last opening stands.
SaidCall(mine) ==
    LET opens == SelectSeq(mine, LAMBDA p : p.tc.id # None)
        name(i) == The(Or(opens[i].tc.name, Some("")))
        text(i) == The(Or(mine[i].tc.arguments, Some(<<>>)))
    IN  [opened |-> /\ opens # <<>>
                    /\ \A i \in 1 .. Len(opens) - 1 : name(i) = name(i + 1) \/ "" \in {name(i), name(i + 1)}
                    /\ \A i, j \in DOMAIN mine : i < j /\ text(i) # <<>> => mine[j].tc.id = None,
         id     |-> IF opens = <<>> THEN "" ELSE The(Last(opens).tc.id),
         name   |-> IF opens = <<>> THEN "" ELSE name(Len(opens)),
         args   |-> FlattenSeq([i \in DOMAIN mine |-> text(i)])]

SaidCalls(reply) ==
    LET pieces == CallPieces(reply)
        order  == SetToSortSeq({pieces[i].of : i \in DOMAIN pieces}, <)
    IN  [k \in DOMAIN order |-> SaidCall(SelectSeq(pieces, LAMBDA p : p.of = order[k]))]

SaidReason(reply) ==
    LET with == SelectSeq(SaidChoices(reply), LAMBDA c : c.finish_reason # None)
    IN  MapFinishReason(The(Head(with).finish_reason))

SaidUsage(reply) ==
    LET with == SelectSeq(Payloads(reply), LAMBDA c : c.usage # None)
    IN  IF with = <<>> THEN None ELSE ToUsage(Last(with).usage)

\* A reply the client has to accept: each call opened before its arguments
\* and under one name, with an id of its own and arguments that parse, and
\* not too many of them.
WellFormed(reply) ==
    LET calls == SaidCalls(reply)
    IN  /\ \A i \in DOMAIN reply : reply[i].sort # "garbage"
        /\ \A k \in DOMAIN calls :
              /\ calls[k].opened /\ calls[k].name # ""
              /\ calls[k].args \in JsonArgs \cup {<<>>}
        /\ Cardinality({calls[k].id : k \in DOMAIN calls}) = Len(calls)
        /\ Len(calls) <= MaxPendingToolCalls

=============================================================================

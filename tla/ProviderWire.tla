----------------------------- MODULE ProviderWire -----------------------------
(***************************************************************************)
(* The OpenAI-dialect adapter as pure operators: the request body and its  *)
(* per-family shaping, the headers, the mapping of HTTP failures, the SSE  *)
(* parser and the chunk decoder (leti-adapters/src/openai, openrouter).    *)
(*                                                                         *)
(* The byte stream is a sequence of tokens: "n" and "r" are the line ends, *)
(* ":" starts a comment, "event:" and "data:" are line prefixes, every     *)
(* other token is a piece of what follows a prefix.  A network piece may   *)
(* end after any token.  A JSON payload is a sequence of such tokens.      *)
(***************************************************************************)
EXTENDS Integers, PluginHooks

CONSTANTS
    Json,         \* what serde makes of a payload: tokens -> chunk record
    Family,       \* model name -> the family detect_quirks recognises
    BodyCap       \* family -> max_request_body_bytes, 0 for no cap

-----------------------------------------------------------------------------
(* Request body and headers.                                               *)

\* to_wire: optional fields are left out when unset.
ToWire(req) ==
    [model  |-> req.model,
     fields |-> {"messages", "stream", "stream_options"}
                \cup {f \in {"max_tokens", "temperature", "tools"} : f \in req.given},
     size   |-> req.size]

Quirks(model) ==
    [max_completion_tokens_param |-> Family[model] = "gpt-5",
     strip_sampling_params       |-> Family[model] \in {"o1", "o3", "grok-3-mini"},
     max_request_body_bytes      |-> BodyCap[Family[model]]]

\* apply_request_shaping, the size cap last.  The is_error field it drops for
\* kimi is one to_wire never writes.
RequestShaping(body, caps) ==
    LET renamed  == IF caps.max_completion_tokens_param /\ "max_tokens" \in body.fields
                    THEN (body.fields \ {"max_tokens"}) \cup {"max_completion_tokens"}
                    ELSE body.fields
        stripped == IF caps.strip_sampling_params
                    THEN renamed \ {"temperature", "top_p"} ELSE renamed
    IN  [ok   |-> caps.max_request_body_bytes = 0 \/ body.size <= caps.max_request_body_bytes,
         body |-> [body EXCEPT !.fields = stripped]]

BuildChatBody(req) == RequestShaping(ToWire(req), Quirks(req.model))

\* The openrouter adapter enriches the shaped body; its size is not looked
\* at again.
EnrichBody(provider, body) ==
    [body EXCEPT !.fields = @ \cup provider.enrich]

\* on_chat_headers collects pairs into a map by spelled name, last one wins.
HeaderMap(pairs) ==
    {pairs[i] : i \in {j \in DOMAIN pairs :
        \A k \in j + 1 .. Len(pairs) :
            <<pairs[k].name, pairs[k].spelled>> # <<pairs[j].name, pairs[j].spelled>>}}

ReservedHeaders == {"authorization", "x-api-key"}

\* Wrong on purpose: the plugin's header replaces one already set.
MergeOverInsert(headers, h) ==
    IF h.name \in ReservedHeaders
    THEN headers
    ELSE [n \in DOMAIN headers \cup {h.name} |->
             IF n = h.name THEN h.value ELSE headers[n]]

\* Reserved names are dropped and a header already present stays.
MergeOver(headers, h) ==
    IF h.name \in ReservedHeaders \/ h.name \in DOMAIN headers
    THEN headers
    ELSE [n \in DOMAIN headers \cup {h.name} |->
             IF n = h.name THEN h.value ELSE headers[n]]

\* The map is walked in the order of the spelled names.
MergePluginHeaders(headers, map) ==
    FoldLeft(MergeOver, headers,
             SetToSortSeq(map, LAMBDA a, b : \/ a.spelled < b.spelled
                                             \/ a.spelled = b.spelled /\ a.rank < b.rank))

\* Content type, bearer key, the provider's own headers, then the plugins'.
RequestHeaders(provider, pairs) ==
    MergePluginHeaders(
        [n \in {"content-type", "authorization"} \cup provider.builtin |->
            IF n = "authorization" THEN "own_key" ELSE "builtin"],
        HeaderMap(pairs))

-----------------------------------------------------------------------------
(* Failures.                                                               *)

\* map_http_error; every status outside the named ones is a Network error.
MapHttpError(status) ==
    CASE status \in {401, 403} -> "auth"
      [] status = 429          -> "rate_limit"
      [] OTHER                 -> "network"

IsRetryable(e) == e \in {"rate_limit", "network"}

-----------------------------------------------------------------------------
(* The SSE parser.                                                         *)

LfAt(buf) == {i \in 1 .. Len(buf) - 1 : SubSeq(buf, i, i + 1) = <<"n", "n">>}
CrlfAt(buf) == {i \in 1 .. Len(buf) - 3 : SubSeq(buf, i, i + 3) = <<"r", "n", "r", "n">>}

\* Wrong on purpose: a blank line of the LF kind is looked for first.
NextFrameLfFirst(buf) ==
    LET lf == LfAt(buf)
        cr == CrlfAt(buf)
    IN  IF lf # {} THEN {<<i, 2>> : i \in {j \in lf : \A k \in lf : j <= k}}
        ELSE {<<i, 4>> : i \in {j \in cr : \A k \in cr : j <= k}}

\* next_frame: the earliest separator of either kind, as the place of its
\* first byte and its length; {} when no frame is complete.
NextFrame(buf) ==
    LET all == {<<i, 2>> : i \in LfAt(buf)} \cup {<<i, 4>> : i \in CrlfAt(buf)}
    IN  {s \in all : \A t \in all : s[1] <= t[1]}

\* str::lines; the carriage returns at line ends go with trim and lines.
Lines(body) ==
    LET cuts == <<0>> \o SelectSeq([i \in DOMAIN body |-> i], LAMBDA i : body[i] = "n")
                \o <<Len(body) + 1>>
    IN  [k \in 1 .. Len(cuts) - 1 |->
            SelectSeq(SubSeq(body, cuts[k] + 1, cuts[k + 1] - 1), LAMBDA t : t # "r")]

StripPrefix(lines, prefix) ==
    LET with == SelectSeq(lines, LAMBDA l : l # <<>> /\ Head(l) = prefix)
    IN  [k \in DOMAIN with |-> Tail(with[k])]

\* parse_frame: at most one frame; the data lines are joined with newlines.
ParseFrame(body) ==
    LET lines == Lines(body)
        names == StripPrefix(lines, "event:")
        data  == StripPrefix(lines, "data:")
        event == IF names = <<>> THEN None ELSE Some(Last(names))
    IN  IF data # <<>>
        THEN <<[event |-> event,
                data  |-> FoldLeft(LAMBDA a, l : a \o <<"n">> \o l, Head(data), Tail(data))]>>
        ELSE IF event # None THEN <<[event |-> event, data |-> <<>>]>> ELSE <<>>

IsDone(frame) == frame.data = <<"[DONE]">>
IsSkipped(frame) == frame.event = Some(<<"ping">>) \/ frame.data = <<>>

\* SseParser::push: every complete frame, and the bytes that stay buffered.
SseFrames(buf) ==
    LET rest(i) == SubSeq(buf, i, Len(buf))
        from[i \in 1 .. Len(buf) + 1] ==
            IF NextFrame(rest(i)) = {} THEN [frames |-> <<>>, rest |-> rest(i)]
            ELSE LET sep  == The(NextFrame(rest(i)))
                     more == from[i + sep[1] + sep[2] - 1]
                 IN  [more EXCEPT !.frames = ParseFrame(SubSeq(rest(i), 1, sep[1] - 1)) \o @]
    IN from[1]

\* SseParser::finish: the tail the upstream did not terminate.
SseFinish(buf) == IF buf = <<>> THEN <<>> ELSE ParseFrame(buf)

-----------------------------------------------------------------------------
(* The chunk decoder.                                                      *)

MapFinishReason(s) ==
    CASE s = "stop"                            -> "end_turn"
      [] s \in {"tool_calls", "function_call"} -> "tool_use"
      [] s = "length"                          -> "max_tokens"
      [] s = "content_filter"                  -> "content_filter"
      [] OTHER                                 -> "error"

\* A text field that is absent or empty gives no delta.
TextDelta(kind, field) ==
    IF field \in {None, Some(<<>>)} THEN <<>>
    ELSE <<[kind |-> kind, text |-> The(field)]>>

\* push_tool_delta: array position where the index is missing, a start when
\* there is an id (with an empty name if need be), then the arguments.
ToolDeltas(tc, pos) ==
    LET index == The(Or(tc.index, Some(pos)))
    IN  (IF tc.id = None THEN <<>>
         ELSE <<[kind |-> "start", call_id |-> The(tc.id), index |-> index,
                 name |-> The(Or(tc.name, Some("")))]>>)
        \o (IF tc.arguments \in {None, Some(<<>>)} THEN <<>>
            ELSE <<[kind |-> "args", index |-> index, text |-> The(tc.arguments)]>>)

ChoiceDeltas(choice) ==
    (IF choice.role THEN <<[kind |-> "role"]>> ELSE <<>>)
    \o TextDelta("text", choice.content)
    \o TextDelta("reasoning", Or(choice.reasoning_content, choice.reasoning))
    \o FlattenSeq([i \in DOMAIN choice.tool_calls |-> ToolDeltas(choice.tool_calls[i], i - 1)])

\* to_usage, on an option: the counters the dialect does not report stay 0.
ToUsage(wire) ==
    {[input |-> u.prompt, output |-> u.completion, cached |-> u.cached, reasoning |-> 0,
      cache_write |-> 0, cache_creation |-> 0, cost |-> u.cost] : u \in wire}

\* decode_chunk: the first choice with a finish reason ends the chunk; a
\* chunk without choices that carries usage is a finish of its own.
DecodeChunk(data) ==
    LET json == SelectSeq(data, LAMBDA t : t # "n")
    IN  IF json \notin DOMAIN Json THEN [ok |-> FALSE, deltas |-> <<>>]
        ELSE LET env    == Json[json]
                 ends   == {i \in DOMAIN env.choices : env.choices[i].finish_reason # None}
                 last   == IF ends = {} THEN Len(env.choices)
                           ELSE CHOOSE i \in ends : \A j \in ends : i <= j
                 finish == IF ends # {}
                           THEN <<[kind   |-> "finish", usage |-> ToUsage(env.usage),
                                   reason |-> MapFinishReason(The(env.choices[last].finish_reason))]>>
                           ELSE IF env.choices = <<>> /\ env.usage # None
                           THEN <<[kind |-> "finish", reason |-> "end_turn", usage |-> ToUsage(env.usage)]>>
                           ELSE <<>>
             IN  [ok     |-> TRUE,
                  deltas |-> FlattenSeq([i \in 1 .. last |-> ChoiceDeltas(env.choices[i])])
                             \o finish]

=============================================================================

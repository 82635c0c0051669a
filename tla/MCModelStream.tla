---------------------------- MODULE MCModelStream ----------------------------
(***************************************************************************)
(* ModelStream with two plugins, four models and nine replies: text and    *)
(* reasoning cut in pieces with mixed line ends, heartbeats and a folded   *)
(* data line; two interleaved tool calls; a gateway that leaves indices    *)
(* out; calls opened twice, as the same call, under another name, and      *)
(* after the arguments began; and other replies that must be refused.      *)
(***************************************************************************)
EXTENDS ModelStream

-----------------------------------------------------------------------------
(* Replies.                                                                *)

MCUsage(c) == [prompt |-> 5, completion |-> 2, cached |-> 3, cost |-> c]

MCChoice ==
    [role |-> FALSE, content |-> None, reasoning_content |-> None, reasoning |-> None,
     tool_calls |-> <<>>, finish_reason |-> None]
MCChunk(choice) == [choices |-> <<choice>>, usage |-> None]
MCCall(index, id, name, args) ==
    [index |-> index, id |-> id, name |-> name, arguments |-> args]

MCJson ==
       (<<"hi", "}">> :> MCChunk([MCChoice EXCEPT !.role = TRUE, !.content = Some(<<"a">>)]))
    @@ (<<"ho">> :> MCChunk([MCChoice EXCEPT !.content = Some(<<"b">>)]))
    @@ (<<"hm">> :> MCChunk([MCChoice EXCEPT !.reasoning = Some(<<"r">>), !.content = Some(<<>>)]))
    @@ (<<"stop">> :> MCChunk([MCChoice EXCEPT !.finish_reason = Some("stop")]))
    @@ (<<"tools">> :> MCChunk([MCChoice EXCEPT !.finish_reason = Some("tool_calls")]))
    @@ (<<"both">> :> [choices |-> <<[MCChoice EXCEPT !.finish_reason = Some("tool_calls")]>>,
                       usage |-> Some(MCUsage(Some(7)))])
    @@ (<<"usage">> :> [choices |-> <<>>, usage |-> Some(MCUsage(None))])
    @@ (<<"c0">> :> MCChunk([MCChoice EXCEPT !.tool_calls =
                        <<MCCall(Some(0), Some("x"), Some("f"), None)>>]))
    @@ (<<"c0y">> :> MCChunk([MCChoice EXCEPT !.tool_calls =
                        <<MCCall(Some(0), Some("y"), Some("f"), None)>>]))
    @@ (<<"c0g">> :> MCChunk([MCChoice EXCEPT !.tool_calls =
                        <<MCCall(Some(0), Some("x"), Some("g"), None)>>]))
    @@ (<<"role">> :> MCChunk([MCChoice EXCEPT !.role = TRUE]))
    @@ (<<"c1">> :> MCChunk([MCChoice EXCEPT !.tool_calls =
                        <<MCCall(Some(1), Some("y"), Some("g"), Some(<<"[">>))>>]))
    @@ (<<"c1x">> :> MCChunk([MCChoice EXCEPT !.tool_calls =
                        <<MCCall(Some(1), Some("x"), Some("g"), None)>>]))
    @@ (<<"c2">> :> MCChunk([MCChoice EXCEPT !.tool_calls =
                        <<MCCall(Some(2), Some("z"), Some("g"), None)>>]))
    @@ (<<"a01">> :> MCChunk([MCChoice EXCEPT !.tool_calls =
                        <<MCCall(Some(1), None, None, Some(<<"]">>)),
                          MCCall(Some(0), None, None, Some(<<"[", "]">>))>>]))
    @@ (<<"two">> :> MCChunk([MCChoice EXCEPT !.tool_calls =
                        <<MCCall(None, Some("x"), Some("f"), Some(<<"[", "]">>)),
                          MCCall(None, Some("y"), Some("g"), None)>>]))

MCFrame(sort, json, crlf, folded) == [sort |-> sort, json |-> json, crlf |-> crlf, folded |-> folded]
C(t) == MCFrame("chunk", <<t>>, FALSE, FALSE)
Cr(t) == MCFrame("chunk", <<t>>, TRUE, FALSE)
Done == MCFrame("done", <<>>, FALSE, FALSE)

MCText ==
    <<Cr("hm"), MCFrame("comment", <<>>, FALSE, FALSE), MCFrame("chunk", <<"hi", "}">>, TRUE, TRUE),
      MCFrame("ping", <<>>, FALSE, FALSE), C("ho"), Cr("stop"), C("usage"), Done>>
MCTools == <<C("c0"), Cr("c1"), C("hm"), C("a01"), C("both"), Done>>
MCNoIndex == <<C("two"), C("tools"), C("usage")>>
MCGarbage == <<C("ho"), MCFrame("garbage", <<>>, FALSE, FALSE), C("stop"), Done>>
MCSameId == <<C("c0"), C("c1x"), C("tools"), Done>>
MCTooMany == <<C("c0"), C("c1x"), C("c2"), C("tools")>>
MCReopened == <<C("ho"), C("c0"), C("c0y"), C("both")>>
MCRenamed == <<C("c0"), C("c0g")>>
MCTooLate == <<C("c1"), C("c1")>>
MCReplies == {MCText, MCTools, MCNoIndex, MCGarbage, MCSameId, MCTooMany,
              MCReopened, MCRenamed, MCTooLate}

\* What an upstream may send as often as it likes.
MCFillers == {MCFrame("comment", <<>>, FALSE, FALSE), C("role")}

-----------------------------------------------------------------------------
(* Models, providers, plugins.                                             *)

MCFamily == [m \in {"gpt-5-x", "o1-y", "qwen-z", "plain"} |->
                CASE m = "gpt-5-x" -> "gpt-5" [] m = "o1-y" -> "o1"
                  [] m = "qwen-z" -> "qwen" [] OTHER -> "other"]
MCBodyCap == [f \in {"gpt-5", "o1", "qwen", "other"} |->
                CASE f \in {"gpt-5", "o1"} -> 100 [] f = "qwen" -> 6 [] OTHER -> 0]
MCPricingTable == [m \in DOMAIN MCFamily |->
                IF m = "plain" THEN None
                ELSE Some([input |-> 1, output |-> 2,
                           cached |-> IF m = "o1-y" THEN None ELSE Some(1),
                           cache_write |-> None])]

MCAll == {"max_tokens", "temperature", "tools"}
MCSetups ==
    {[provider |-> [key |-> TRUE, builtin |-> {}, enrich |-> {}],
      wish |-> [model |-> "plain", given |-> MCAll, size |-> 9], cost |-> None],
     [provider |-> [key |-> TRUE, builtin |-> {"x-title"}, enrich |-> {"provider", "models"}],
      wish |-> [model |-> "qwen-z", given |-> MCAll, size |-> 9], cost |-> Some(3)],
     [provider |-> [key |-> FALSE, builtin |-> {}, enrich |-> {}],
      wish |-> [model |-> "plain", given |-> {}, size |-> 1], cost |-> None]}

MCHeader(n, s, r, v) == [name |-> n, spelled |-> s, rank |-> r, value |-> v]
MCHook(kind, priority, model, headers) ==
    [kind |-> kind, priority |-> priority, sets |-> [model |-> model, headers |-> headers]]

MCRouter ==
    [id |-> 1, caps |-> {"on_chat_params", "on_chat_headers", "on_cost_tick"}, version_ok |-> TRUE,
     install |-> "ok", tools |-> <<>>, provider |-> None,
     hooks |-> <<MCHook("on_chat_params", 10, Some("o1-y"), <<>>),
                 MCHook("on_chat_headers", 50, None,
                        <<MCHeader("x-trace", 2, 1, "p1"), MCHeader("authorization", 1, 0, "p1")>>),
                 MCHook("on_cost_tick", 50, None, <<>>)>>]
MCQuota ==
    [id |-> 2, caps |-> {"on_chat_params", "on_chat_messages", "on_chat_headers", "tool"},
     version_ok |-> TRUE, install |-> "ok", tools |-> <<"quota">>, provider |-> None,
     hooks |-> <<MCHook("on_chat_params", 90, Some("gpt-5-x"), <<>>),
                 MCHook("on_chat_messages", 50, None, <<>>),
                 MCHook("on_chat_headers", 50, None,
                        <<MCHeader("x-title", 1, 1, "p2"), MCHeader("x-trace", 1, 2, "p2")>>)>>]

MCPluginSets ==
    {<<>>, <<MCRouter, MCQuota>>,
     <<MCQuota, [MCQuota EXCEPT !.id = 3]>>,
     <<[MCRouter EXCEPT !.caps = {}]>>}

MCExternalCosts == {4}
MCRetryAfters == {0, 1, 9}
MCJsonArgs == {<<"[", "]">>}

=============================================================================

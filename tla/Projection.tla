------------------------------ MODULE Projection ------------------------------
(***************************************************************************)
(* From the durable transcript of a session to what the model is sent:     *)
(* projection, runtime reminders, compaction and the doom guard.  Nothing  *)
(* here has state.                                                         *)
(*                                                                         *)
(* A log is the sequence of a session's messages; a message's id is its    *)
(* place in it, for messages are only ever appended.  A call's id is made  *)
(* of its message and its place in it.  Text is empty or not.              *)
(***************************************************************************)
EXTENDS Naturals, Sequences, FiniteSets, FiniteSetsExt, SequencesExt, Functions

CONSTANTS
    ReadOnly,        \* tools whose success changes nothing
    PreserveRecent,  \* PRESERVE_RECENT, which is 4
    Threshold        \* DEFAULT_THRESHOLD of the doom guard

ASSUME ProjectionAssumption ==
    PreserveRecent \in 1 .. 4 /\ Threshold \in Nat \ {0}

Message(role, parts) == [role |-> role, parts |-> parts]

TextPart(full)         == [kind |-> "text", full |-> full]
CallPart(id, tool)     == [kind |-> "call", id |-> id, tool |-> tool]
ResultPart(id, ok)     == [kind |-> "result", id |-> id, ok |-> ok]
ReminderPart(of, key)  == [kind |-> "reminder", of |-> of, key |-> key]
RequestPart(state)     == [kind |-> "request", state |-> state]
\* `covers' is for the properties: the messages whose content the summary had.
CompactionPart(of, covers) == [kind |-> "compaction", of |-> of, covers |-> covers]

Parts(m, kind) == {p \in Range(m.parts) : p.kind = kind}
HasText(m)     == \E p \in Parts(m, "text") : p.full
CallIds(m)     == {p.id : p \in Parts(m, "call")}
ResultIds(m)   == {p.id : p \in Parts(m, "result")}

-------------------------------------------------------------------------------
(* Compacted history.                                                      *)

\* collect_compactions: the message whose summary stands for message i, the last
\* one if there are several, or 0.
Owner(log, i) ==
    LET owners == {o \in DOMAIN log : \E p \in Parts(log[o], "compaction") : i \in p.of}
    IN IF owners = {} THEN 0 ELSE Max(owners)

\* effective_message_ids
Effective(log) == {i \in DOMAIN log : \A m \in Range(log) : \A p \in Parts(m, "compaction") : i \notin p.of}

-------------------------------------------------------------------------------
(* Reminders.                                                              *)

\* latest_exception: the failed calls of the last tool message, unless an
\* assistant message or something from the user came after it.
FailedLately(log) ==
    LET telling == {i \in Effective(log) :
                      \/ log[i].role \in {"assistant", "tool"}
                      \/ \E p \in Range(log[i].parts) : p.kind # "reminder"}
        last    == log[Max(telling)]
    IN IF telling # {} /\ last.role = "tool"
       THEN {p.id : p \in {r \in Parts(last, "result") : ~r.ok}}
       ELSE {}

\* build_snapshot and collect, for the two producers that read the transcript.
Active(log) ==
    {ReminderPart("recovery", {}) :
        o \in {i \in Effective(log) : Parts(log[i], "compaction") # {}}}
    \cup
    {ReminderPart("outcome", failed) : failed \in {FailedLately(log)} \ {{}}}

\* latest_effective_reminders: the message with the last reminder of a kind, or 0.
Latest(log, of) ==
    LET holders == {i \in Effective(log) : \E p \in Parts(log[i], "reminder") : p.of = of}
    IN IF holders = {} THEN 0 ELSE Max(holders)

\* Wrong on purpose: also against what a summary stands for by now.
NewEver(log) == {r \in Active(log) : \A m \in Range(log) : r \notin Range(m.parts)}

\* delivered_active_reminders and dedupe_new.
NewReminders(log) ==
    {r \in Active(log) :
        LET at == Latest(log, r.of) IN at = 0 \/ r \notin Range(log[at].parts)}

\* One more message with what is new.
PersistCandidates(log, reminders) == Append(log, Message("user", SetToSeq(reminders)))

\* prepare_session_messages and prepare_compaction_session_messages, as to the store.
WithReminders(log) ==
    IF NewReminders(log) = {} THEN log ELSE PersistCandidates(log, NewReminders(log))

\* filter_to_active_reminders: what is shown of the reminders of each message.
ShownReminders(log) ==
    LET active == Active(log)
        latest == [of \in {"recovery", "outcome"} |-> Latest(log, of)]
    IN [i \in DOMAIN log |->
          {r \in Parts(log[i], "reminder") :
              r.of = "settled" \/ (r \in active /\ latest[r.of] = i)}]

-------------------------------------------------------------------------------
(* project_for_llm.  A message of the log becomes one line, or as many as  *)
(* it has results.                                                         *)

Nothing == [role |-> "none", calls |-> {}, results |-> {}, notes |-> {}]

Line(role) == [Nothing EXCEPT !.role = role]

\* `asking' is the mode of project_for_compaction: the request is shown.
ProjectUser(m, notes, asking) ==
    LET asks == asking /\ \E p \in Parts(m, "request") : p.state = "pending"
    IN IF HasText(m) \/ notes # {} \/ asks
       THEN [Line("user") EXCEPT !.notes = notes] ELSE Nothing

\* The text of a summary is not shown as such.
ProjectAssistant(m) ==
    IF CallIds(m) # {} \/ (HasText(m) /\ Parts(m, "compaction") = {})
    THEN [Line("assistant") EXCEPT !.calls = CallIds(m)] ELSE Nothing

\* Every result, whether its call is shown or not.
ProjectTool(m) ==
    IF ResultIds(m) # {} THEN [Line("tool") EXCEPT !.results = ResultIds(m)] ELSE Nothing

\* The summary takes the place of the first message it stands for.
Project(log, asking) ==
    LET owner == [i \in DOMAIN log |-> Owner(log, i)]
        notes == ShownReminders(log)
    IN [i \in DOMAIN log |->
          IF owner[i] # 0
          THEN IF \E j \in 1 .. i - 1 : owner[j] = owner[i] THEN Nothing ELSE Line("system")
          ELSE CASE log[i].role = "user"      -> ProjectUser(log[i], notes[i], asking)
                 [] log[i].role = "assistant" -> ProjectAssistant(log[i])
                 [] log[i].role = "tool"      -> ProjectTool(log[i])]

\* Where the lines of these roles are, and how many.
Body == {"user", "assistant", "tool"}

Places(view, roles) ==
    UNION {{i} \X (IF view[i].role = "tool" THEN view[i].results ELSE {<<>>}) :
             i \in {k \in DOMAIN view : view[k].role \in roles}}

Lines(view, roles) == Cardinality(Places(view, roles))

\* The results of a message stand in the order of their calls.
Before(p, q) == p[1] < q[1] \/ (p[1] = q[1] /\ p # q /\ p[2][2] < q[2][2])

-------------------------------------------------------------------------------
(* Compaction.                                                             *)

\* should_compact, as to how much is kept.  Whether it is time depends on token
\* counts and is left open.
Keep(view) == Min({PreserveRecent, Lines(view, Body \cup {"system"})})

\* superseded_messages.  Only an injected turn of an origin that the server itself
\* never enqueues stores a system message; there is none here.
Superseded(log, keep) ==
    IF Len(log) <= keep THEN {} ELSE 1 .. Len(log) - keep

\* Wrong on purpose: without the system message.
SummarizedBody(log) ==
    LET view == Project(log, TRUE) IN
    {i \in DOMAIN view : view[i].role \in Body}

\* build_compaction_projection but for its request: the first system message and
\* everything else but other system messages and the requests in the log.
SummaryView(log) ==
    LET view    == Project(log, TRUE)
        systems == {i \in DOMAIN view : view[i].role = "system"}
    IN [i \in DOMAIN view |->
          IF \/ i \in systems /\ i # Min(systems)
             \/ view[i] = Line("user") /\ Parts(log[i], "request") # {}
          THEN Nothing ELSE view[i]]

\* Its request stands before the last `keep' lines, whatever they are: these come
\* after it.  When there are no more than that, it comes last.
AfterRequest(view, keep) ==
    LET all == Places(view, Body)
    IN IF Cardinality(all) <= keep THEN {}
       ELSE {p \in all : Cardinality({q \in all : ~Before(q, p)}) <= keep}

\* What the summary is about, directly or by an earlier summary.
Summarized(log) ==
    LET view    == Project(log, TRUE)
        systems == {i \in DOMAIN view : view[i].role = "system"}
        covered == {p.covers : p \in Parts(log[Owner(log, Min(systems))], "compaction")}
    IN {i \in DOMAIN view : view[i].role \in Body}
       \cup (IF systems = {} THEN {} ELSE UNION covered)

-------------------------------------------------------------------------------
(* The doom guard.                                                         *)

\* build_doom_summary: text, a success that is not a read, the set of calls.
DoomSummary(m, results) ==
    [text  |-> HasText(m),
     wrote |-> \E p \in Parts(m, "call"), r \in results :
                  r.id = p.id /\ r.ok /\ p.tool \notin ReadOnly,
     tools |-> {p.tool : p \in Parts(m, "call")}]

\* Wrong on purpose: one turn too few is remembered.
RememberLess(history, summary) ==
    LET h == Append(history, summary)
    IN IF Len(h) >= Threshold THEN Tail(h) ELSE h

\* The rolling history, capped at threshold + 1.
Remember(history, summary) ==
    LET h == Append(history, summary)
    IN IF Len(h) > Threshold + 1 THEN Tail(h) ELSE h

\* doom_guard::check
Doomed(history) ==
    LET from == Len(history) - Threshold IN
    /\ from >= 0
    /\ \A i \in from + 1 .. Len(history) :
          ~history[i].text /\ ~history[i].wrote /\ history[i].tools # {}
    /\ \A i \in from + 1 .. Len(history) - 1 :
          history[i + 1].tools \subseteq history[i].tools

=============================================================================

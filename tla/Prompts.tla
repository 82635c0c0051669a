-------------------------------- MODULE Prompts --------------------------------
(***************************************************************************)
(* What a tool call may wait for a human for: the permission ask of        *)
(* run_one (ConfigPermissionMgr, its wrappers and POST /v1/permission) and *)
(* the question of ask_user (QuestionRegistry and POST .../answer).        *)
(*                                                                         *)
(* A call makes at most one ask and one question, so its name serves as    *)
(* the ask id and the question id.  A permission string is a member of     *)
(* Perm; the glob made of it matches Covers of it.                         *)
(***************************************************************************)
EXTENDS Naturals, Sequences, FiniteSets

CONSTANTS
    Call,           \* tool calls
    Reply,          \* HTTP requests that answer an ask or a question
    Session,
    SessionOf,      \* the session of a call
    Perm,
    PermOf,         \* the permission a call requests
    Covers,         \* the permissions a glob matches
    BadGlob,        \* permissions that do not compile as globs
    Hardened,       \* hardened_ask
    Manner,         \* of a call: interactive, injected, detached_allow, detached_deny
    OutOfScope,     \* calls outside the allowlist of their subagent
    ContinueOnAsk,  \* calls of tools with that prompt policy
    AskUser,        \* calls of the ask_user tool
    Seed,           \* the rules installed at boot
    MaxFaults       \* bound on store errors and dropped handlers

Action == {"allow", "deny", "ask"}
Rule   == [perm : Perm, action : Action]

ASSUME PromptAssumption ==
    /\ SessionOf \in [Call -> Session]
    /\ PermOf \in [Call -> Perm]
    /\ Covers \in [Perm -> SUBSET Perm]
    /\ BadGlob \subseteq Perm /\ Hardened \subseteq Perm
    /\ Manner \in [Call -> {"interactive", "injected", "detached_allow", "detached_deny"}]
    /\ OutOfScope \subseteq Call /\ ContinueOnAsk \subseteq Call /\ AskUser \subseteq Call
    /\ Seed \in Seq(Rule)
    /\ MaxFaults \in Nat

VARIABLES
    call,       \* how far each call is
    pending,    \* the pending-ask map
    deferred,   \* the channel of each ask
    rules,      \* the ruleset, oldest first
    stored,     \* permission_decisions: asks with an "always" row
    handler,    \* the HTTP requests
    cancelled,  \* sessions whose turn was cancelled
    slot,       \* pending_per_session
    question,   \* registered questions
    answer,     \* the channel of each question
    shown,      \* what a client has been told of each call: its ask, its question
    faults,
    \* Observation only.
    resolved,   \* decisions announced for each ask
    approved,   \* asks a human allowed
    returned,   \* asks put back by an always reply that failed
    early,      \* calls whose ask was gone before they took its channel
    reasked,    \* calls asked although an acknowledged rule covers them
    prompt,     \* questions answered before their call began to wait
    stray       \* questions left registered by an error path

vars == <<call, pending, deferred, rules, stored, handler, cancelled, slot, question,
          answer, shown, faults, resolved, approved, returned, early, reasked, prompt, stray>>
asks  == <<pending, deferred, rules, stored>>
quest == <<slot, question, answer>>
hist  == <<resolved, approved, returned, early, reasked, prompt, stray>>

AskPc      == {"asked", "announced", "parked", "committed"}
QuestionPc == {"questioned", "displayed", "waiting", "polling"}
EndPc      == {"denied", "cancelled", "answered", "unanswered"}
CallPc     == {"new", "withdrawn", "run"} \cup AskPc \cup QuestionPc \cup EndPc
Kind       == {"allow", "deny", "always_allow", "always_deny", "answer"}
HandlerPc  == {"idle", "peeked", "taken", "stored", "replied", "misrouted", "ok", "failed"}

Decision(kind) == IF kind \in {"allow", "always_allow"} THEN "allow" ELSE "deny"

Init ==
    /\ call = [c \in Call |-> "new"]
    /\ pending = {} /\ stored = {} /\ cancelled = {} /\ slot = {}
    /\ question = {}
    /\ shown = [c \in Call |-> {}]
    /\ deferred = [c \in Call |-> "empty"]
    /\ answer = [c \in Call |-> "empty"]
    /\ rules = Seed
    /\ handler = [r \in Reply |-> [pc |-> "idle", of |-> CHOOSE c \in Call : TRUE,
                                   kind |-> "allow"]]
    /\ faults = 0
    /\ resolved = [c \in Call |-> <<>>]
    /\ approved = {} /\ returned = {} /\ early = {} /\ reasked = {} /\ prompt = {} /\ stray = {}

Fault == faults < MaxFaults /\ faults' = faults + 1

Goto(c, pc) == call' = [call EXCEPT ![c] = pc]

\* Either half of a oneshot channel: the first value stays, none is lost.
Sent(chan, c, v) == [chan EXCEPT ![c] = IF @ = "empty" THEN v ELSE @]

-------------------------------------------------------------------------------
(* PermissionManager::check: hooks, the ruleset, the mode, the wrappers.   *)

\* CompiledRuleset::evaluate, last match wins; without one the mode decides.
Evaluate(c, fallback) ==
    LET matching == {i \in 1 .. Len(rules) : PermOf[c] \in Covers[rules[i].perm]}
    IN IF matching = {} THEN fallback
       ELSE rules[CHOOSE i \in matching : \A j \in matching : j <= i].action

\* What a wrapper and the prompt policy make of an ask.
Wrapped(c, action) ==
    IF action # "ask" THEN action
    ELSE CASE Manner[c] = "injected"       -> "deny"
           [] Manner[c] = "interactive"    -> IF c \in ContinueOnAsk THEN "allow" ELSE "ask"
           [] Manner[c] = "detached_allow" -> IF PermOf[c] \in Hardened THEN "deny" ELSE "allow"
           [] Manner[c] = "detached_deny"  -> "deny"

\* Always answers that were acknowledged and cover the request of c.
Acknowledged(c) ==
    {r \in Reply : /\ handler[r].pc = "ok"
                   /\ handler[r].kind \in {"always_allow", "always_deny"}
                   /\ PermOf[c] \in Covers[PermOf[handler[r].of]]}

Check(c) ==
    /\ call[c] = "new"
    /\ \E hook \in {"none", "allow", "deny"}, fallback \in {"ask", "allow"} :
          LET verdict == IF c \in OutOfScope THEN "deny"
                         ELSE IF hook # "none" THEN hook
                         ELSE Wrapped(c, Evaluate(c, fallback))
          IN /\ Goto(c, CASE verdict = "allow" -> "run"
                          [] verdict = "deny"  -> "denied"
                          [] OTHER             -> "asked")
             /\ pending' = IF verdict = "ask" THEN pending \cup {c} ELSE pending
             /\ reasked' = IF verdict = "ask" /\ Acknowledged(c) # {}
                           THEN reasked \cup {c} ELSE reasked
    /\ UNCHANGED <<deferred, rules, stored, handler, cancelled, quest, shown, faults,
                   resolved, approved, returned, early, prompt, stray>>

-------------------------------------------------------------------------------
(* run_one: announce the ask, take its channel, wait.                      *)

PublishAsked(c) ==
    /\ call[c] = "asked"
    /\ Goto(c, "announced")
    /\ shown' = [shown EXCEPT ![c] = @ \cup {"ask"}]
    /\ UNCHANGED <<asks, handler, cancelled, quest, faults, hist>>

\* take_deferred: an ask that is not in the map at this moment reads as expired.
TakeDeferred(c) ==
    /\ call[c] = "announced"
    /\ Goto(c, IF c \in pending THEN "parked" ELSE "denied")
    /\ early' = IF c \in pending THEN early ELSE early \cup {c}
    /\ UNCHANGED <<asks, handler, cancelled, quest, shown, faults,
                   resolved, approved, returned, reasked, prompt, stray>>

Resume(c) ==
    /\ call[c] \in {"parked", "committed"}
    /\ deferred[c] # "empty"
    /\ Goto(c, IF deferred[c] = "allow" THEN "run" ELSE "denied")
    /\ UNCHANGED <<asks, handler, cancelled, quest, shown, faults, hist>>

\* Wrong on purpose: an ask that is gone is announced as denied all the same.
CancelParkedAnyway(c) ==
    /\ call[c] = "parked"
    /\ SessionOf[c] \in cancelled
    /\ pending' = pending \ {c}
    /\ Goto(c, "withdrawn")
    /\ UNCHANGED <<deferred, rules, stored, handler, cancelled, quest, shown, faults, hist>>

\* Wrong on purpose: the call leaves the decision to others without asking
\* whether anybody has the ask.
CancelParkedWaits(c) ==
    /\ call[c] = "parked"
    /\ SessionOf[c] \in cancelled
    /\ Goto(c, "committed")
    /\ UNCHANGED <<asks, handler, cancelled, quest, shown, faults, hist>>

\* The cancel branch of the select: cancel_ask takes the ask out; when somebody
\* else has it, the call waits for that decision and for nothing else.
CancelParked(c) ==
    /\ call[c] = "parked"
    /\ SessionOf[c] \in cancelled
    /\ \/ /\ c \in pending
          /\ pending' = pending \ {c}
          /\ deferred' = Sent(deferred, c, "deny")
          /\ Goto(c, "withdrawn")
       \/ /\ c \notin pending
          /\ Goto(c, "committed")
          /\ UNCHANGED <<pending, deferred>>
    /\ UNCHANGED <<rules, stored, handler, cancelled, quest, shown, faults, hist>>

PublishWithdrawn(c) ==
    /\ call[c] = "withdrawn"
    /\ Goto(c, "cancelled")
    /\ resolved' = [resolved EXCEPT ![c] = Append(@, "deny")]
    /\ UNCHANGED <<asks, handler, cancelled, quest, shown, faults,
                   approved, returned, early, reasked, prompt, stray>>

-------------------------------------------------------------------------------
(* ask_user.                                                               *)

\* The capability gate, then the slot of the session; the question is registered.
Claim(c) ==
    /\ call[c] = "run"
    /\ c \in AskUser
    /\ \/ /\ SessionOf[c] \notin slot
          /\ slot' = slot \cup {SessionOf[c]}
          /\ question' = question \cup {c}
          /\ Goto(c, "questioned")
       \/ /\ Goto(c, "unanswered")
          /\ UNCHANGED <<slot, question>>
    /\ UNCHANGED <<asks, handler, cancelled, answer, shown, faults, hist>>

PublishQuestion(c) ==
    /\ call[c] = "questioned"
    /\ Goto(c, "displayed")
    /\ shown' = [shown EXCEPT ![c] = @ \cup {"question"}]
    /\ UNCHANGED <<asks, handler, cancelled, quest, faults, hist>>

\* The event cannot be stored: the guard gives the slot back, and the question
\* stays registered.
PublishQuestionFails(c) ==
    /\ call[c] = "questioned"
    /\ Fault
    /\ Goto(c, "unanswered")
    /\ slot' = slot \ {SessionOf[c]}
    /\ stray' = stray \cup {c}
    /\ UNCHANGED <<asks, handler, cancelled, question, answer, shown,
                   resolved, approved, returned, early, reasked, prompt>>

\* The call ends with a result; the guard gives the slot back.
Finish(c, pc) ==
    /\ Goto(c, pc)
    /\ slot' = slot \ {SessionOf[c]}

\* drain_buffered_answer: an answer that is already there counts.
Drain(c) ==
    /\ call[c] = "displayed"
    /\ \/ answer[c] # "empty" /\ Finish(c, "answered")
       \/ answer[c] = "empty" /\ Goto(c, "waiting") /\ UNCHANGED slot
    /\ UNCHANGED <<asks, handler, cancelled, question, answer, shown, faults, hist>>

\* Wrong on purpose: the question stays registered.
GiveUpLeaves(c) ==
    /\ call[c] = "waiting"
    /\ Finish(c, "unanswered")
    /\ UNCHANGED <<asks, handler, cancelled, question, answer, shown, faults, hist>>

\* The biased select: the token comes first, then the timer; both deregister the
\* question (QuestionRegistry::cancel).
GiveUp(c) ==
    /\ call[c] = "waiting"
    /\ Finish(c, "unanswered")
    /\ question' = question \ {c}
    /\ UNCHANGED <<asks, handler, cancelled, answer, shown, faults, hist>>

\* The channel is polled after the token was seen not cancelled.
Poll(c) ==
    /\ call[c] = "waiting"
    /\ answer[c] # "empty"
    /\ SessionOf[c] \notin cancelled
    /\ Goto(c, "polling")
    /\ UNCHANGED <<asks, handler, cancelled, quest, shown, faults, hist>>

TakeAnswer(c) ==
    /\ call[c] = "polling"
    /\ Finish(c, "answered")
    /\ UNCHANGED <<asks, handler, cancelled, question, answer, shown, faults, hist>>

-------------------------------------------------------------------------------
(* POST /v1/permission/:ask_id.                                            *)

Step(r, pc) == handler' = [handler EXCEPT ![r].pc = pc]

\* The route looks the session up; only a pending ask has one.
Peek(r, c, kind) ==
    /\ handler[r].pc = "idle"
    /\ kind # "answer"
    /\ "ask" \in shown[c]
    /\ handler' = [handler EXCEPT ![r] =
                     [pc |-> IF c \in pending THEN "peeked" ELSE "failed",
                      of |-> c, kind |-> kind]]
    /\ UNCHANGED <<call, asks, cancelled, quest, shown, faults, hist>>

\* ConfigPermissionMgr::reply.
ReplyOnce(r) ==
    LET c == handler[r].of IN
    /\ handler[r].pc = "peeked"
    /\ handler[r].kind \in {"allow", "deny"}
    /\ \/ /\ c \in pending
          /\ pending' = pending \ {c}
          /\ deferred' = Sent(deferred, c, handler[r].kind)
          /\ approved' = IF handler[r].kind = "allow" THEN approved \cup {c} ELSE approved
          /\ Step(r, "replied")
       \/ /\ c \notin pending
          /\ Step(r, "failed")
          /\ UNCHANGED <<pending, deferred, approved>>
    /\ UNCHANGED <<call, rules, stored, cancelled, quest, shown, faults,
                   resolved, returned, early, reasked, prompt, stray>>

\* accept_ask takes the ask out of the map ...
AcceptTake(r) ==
    LET c == handler[r].of IN
    /\ handler[r].pc = "peeked"
    /\ handler[r].kind \in {"always_allow", "always_deny"}
    /\ pending' = pending \ {c}
    /\ Step(r, IF c \in pending THEN "taken" ELSE "failed")
    /\ UNCHANGED <<call, deferred, rules, stored, cancelled, quest, shown, faults, hist>>

PutAskBack(c) == pending' = pending \cup {c} /\ returned' = returned \cup {c}

\* ... puts it back when its permission is no glob ...
AcceptBadGlob(r) ==
    LET c == handler[r].of IN
    /\ handler[r].pc = "taken"
    /\ PermOf[c] \in BadGlob
    /\ PutAskBack(c)
    /\ Step(r, "failed")
    /\ UNCHANGED <<call, deferred, rules, stored, cancelled, quest, shown, faults,
                   resolved, approved, early, reasked, prompt, stray>>

\* ... stores the row ...
AcceptStore(r) ==
    LET c == handler[r].of IN
    /\ handler[r].pc = "taken"
    /\ PermOf[c] \notin BadGlob
    /\ stored' = stored \cup {c}
    /\ Step(r, "stored")
    /\ UNCHANGED <<call, pending, deferred, rules, cancelled, quest, shown, faults, hist>>

\* A statement that failed, or whose future was dropped, may have run.
MaybeStored(c) == \E rows \in {stored, stored \cup {c}} : stored' = rows

\* ... or puts the ask back when the store fails ...
AcceptStoreFails(r) ==
    LET c == handler[r].of IN
    /\ handler[r].pc = "taken"
    /\ PermOf[c] \notin BadGlob
    /\ Fault
    /\ MaybeStored(c)
    /\ PutAskBack(c)
    /\ Step(r, "failed")
    /\ UNCHANGED <<call, deferred, rules, cancelled, quest, shown,
                   resolved, approved, early, reasked, prompt, stray>>

\* ... and at the end installs the rule and sends the decision.
AcceptPush(r) ==
    LET c == handler[r].of
        d == Decision(handler[r].kind)
    IN
    /\ handler[r].pc = "stored"
    /\ rules' = Append(rules, [perm |-> PermOf[c], action |-> d])
    /\ deferred' = Sent(deferred, c, d)
    /\ approved' = IF d = "allow" THEN approved \cup {c} ELSE approved
    /\ Step(r, "replied")
    /\ UNCHANGED <<call, pending, stored, cancelled, quest, shown, faults,
                   resolved, returned, early, reasked, prompt, stray>>

PublishResolved(r) ==
    LET c == handler[r].of IN
    /\ handler[r].pc = "replied"
    /\ resolved' = [resolved EXCEPT ![c] = Append(@, Decision(handler[r].kind))]
    /\ Step(r, "ok")
    /\ UNCHANGED <<call, asks, cancelled, quest, shown, faults,
                   approved, returned, early, reasked, prompt, stray>>

\* The client goes away: the handler's future is dropped at an await, and with it
\* the ask it took; its channel then reads deny (Deferred::on_drop).
HandlerDropped(r) ==
    LET c == handler[r].of IN
    /\ handler[r].pc \in {"taken", "stored", "replied"}
    /\ Fault
    /\ deferred' = Sent(deferred, c, "deny")
    /\ IF handler[r].pc = "taken" THEN MaybeStored(c) ELSE UNCHANGED stored
    /\ Step(r, "failed")
    /\ UNCHANGED <<call, pending, rules, cancelled, quest, shown, hist>>

-------------------------------------------------------------------------------
(* POST /v1/session/:id/question/answer.                                   *)

Waiting(c) == call[c] \in QuestionPc

\* QuestionRegistry::resolve with the right session.
Resolve(r, c) ==
    /\ handler[r].pc = "idle"
    /\ "question" \in shown[c]
    /\ handler' = [handler EXCEPT ![r] =
                     [pc |-> IF c \in question /\ Waiting(c) THEN "ok" ELSE "failed",
                      of |-> c, kind |-> "answer"]]
    /\ question' = question \ {c}
    /\ answer' = IF c \in question THEN Sent(answer, c, "answered") ELSE answer
    /\ prompt' = IF c \in question /\ call[c] = "displayed"
                 THEN prompt \cup {c} ELSE prompt
    /\ UNCHANGED <<call, asks, cancelled, slot, shown, faults,
                   resolved, approved, returned, early, reasked, stray>>

\* With another session: the entry is taken out ...
Misroute(r, c) ==
    /\ handler[r].pc = "idle"
    /\ c \in question
    /\ "question" \in shown[c]
    /\ handler' = [handler EXCEPT ![r] = [pc |-> "misrouted", of |-> c, kind |-> "answer"]]
    /\ question' = question \ {c}
    /\ UNCHANGED <<call, asks, cancelled, slot, answer, shown, faults, hist>>

\* ... and put back, whatever became of the call meanwhile.
PutBack(r) ==
    LET c == handler[r].of IN
    /\ handler[r].pc = "misrouted"
    /\ question' = question \cup {c}
    /\ Step(r, "failed")
    /\ stray' = IF Waiting(c) THEN stray ELSE stray \cup {c}
    /\ UNCHANGED <<call, asks, cancelled, slot, answer, shown, faults,
                   resolved, approved, returned, early, reasked, prompt>>

\* Abort, DELETE or plugin cancel of the turn.
Cancel(s) ==
    /\ s \notin cancelled
    /\ cancelled' = cancelled \cup {s}
    /\ UNCHANGED <<call, asks, handler, quest, shown, faults, hist>>

-------------------------------------------------------------------------------
CallStep(c) ==
    \/ Check(c) \/ PublishAsked(c) \/ TakeDeferred(c) \/ Resume(c)
    \/ CancelParked(c) \/ PublishWithdrawn(c)
    \/ Claim(c) \/ PublishQuestion(c) \/ Drain(c) \/ GiveUp(c)
    \/ Poll(c) \/ TakeAnswer(c)

HandlerStep(r) ==
    \/ ReplyOnce(r) \/ AcceptTake(r) \/ AcceptBadGlob(r) \/ AcceptStore(r)
    \/ AcceptPush(r) \/ PublishResolved(r) \/ PutBack(r)

Next ==
    \/ \E c \in Call : CallStep(c) \/ PublishQuestionFails(c)
    \/ \E r \in Reply :
          \/ HandlerStep(r) \/ AcceptStoreFails(r) \/ HandlerDropped(r)
          \/ \E c \in Call : \/ \E kind \in Kind : Peek(r, c, kind)
                             \/ Resolve(r, c) \/ Misroute(r, c)
    \/ \E s \in Session : Cancel(s)

\* Calls and requests are polled to their end, and the timer of a question runs
\* out; nobody has to reply or to cancel.
Fairness ==
    /\ \A c \in Call : WF_vars(CallStep(c))
    /\ \A r \in Reply : WF_vars(HandlerStep(r))

Spec == Init /\ [][Next]_vars /\ Fairness

-------------------------------------------------------------------------------
(* Properties.                                                             *)

TypeOK ==
    /\ call \in [Call -> CallPc]
    /\ pending \subseteq Call /\ stored \subseteq Call /\ question \subseteq Call
    /\ deferred \in [Call -> {"empty", "allow", "deny"}]
    /\ answer \in [Call -> {"empty", "answered"}]
    /\ rules \in Seq(Rule)
    /\ handler \in [Reply -> [pc : HandlerPc, of : Call, kind : Kind]]
    /\ cancelled \subseteq Session /\ slot \subseteq Session
    /\ shown \in [Call -> SUBSET {"ask", "question"}]
    /\ faults \in 0 .. MaxFaults
    /\ resolved \in [Call -> Seq({"allow", "deny"})]
    /\ approved \cup returned \cup early \cup reasked \cup prompt \cup stray \subseteq Call

\* What a tool other than ask_user does once it runs is not modelled.
Ended(c)  == call[c] \in EndPc \/ (call[c] = "run" /\ c \notin AskUser)
Passed(c) == call[c] \in {"run", "answered", "unanswered"} \cup QuestionPc

\* One decision per ask: replies, always-replies and the cancel of the turn race
\* for it, one of them is announced, and the call does what was announced.  The
\* exception is a reply that comes before the call took its channel: the call
\* then counts as denied, never the other way round.  A call that had to ask runs
\* only if a human allowed it, whatever became of the request with the reply.
OneDecision ==
    \A c \in Call :
        /\ Len(resolved[c]) <= 1
        /\ "ask" \in shown[c] /\ Passed(c) => c \in approved
        /\ resolved[c] = <<"deny">> => ~Passed(c)
        /\ resolved[c] = <<"allow">> /\ Ended(c) => (Passed(c) \/ c \in early)

\* No ask and no question outlives its call, which would show a client a prompt
\* that nobody waits for.  The exceptions are the two windows in which an entry
\* is out of its map and comes back, and an event that cannot be stored.  The
\* question slot of a session is given back on every path.
NoOrphans ==
    /\ \A c \in pending : call[c] \in AskPc \/ c \in early
    /\ \A c \in question : Waiting(c) \/ c \in stray
    /\ slot = {SessionOf[c] : c \in {d \in Call : Waiting(d)}}

\* After an always answer was acknowledged nobody is asked for what its glob
\* covers, and each such rule was stored before it was in force.
AlwaysIsKept ==
    /\ reasked = {}
    /\ \A i \in Len(Seed) + 1 .. Len(rules) :
          \E c \in stored : PermOf[c] = rules[i].perm

\* An answer given before the call began to wait is used, even when the turn is
\* cancelled in the same instant.
PromptAnswerUsed == \A c \in prompt : Ended(c) => call[c] = "answered"

\* What a human answered is what happens: one decision per ask, an always answer
\* that was acknowledged holds from then on, and an answer to a question is used.
AnswersKept == OneDecision /\ AlwaysIsKept /\ PromptAnswerUsed

\* The cancel of a turn ends its calls, and a question ends by itself.  The
\* exception is a call that left an ask to a reply whose store then failed: the
\* ask is back and the call no longer listens to the cancel.
CallEnds ==
    \A c \in Call :
        /\ (call[c] # "new" /\ SessionOf[c] \in cancelled)
              ~> (Ended(c) \/ (call[c] = "committed" /\ c \in returned))
        /\ Waiting(c) ~> Ended(c)

=============================================================================

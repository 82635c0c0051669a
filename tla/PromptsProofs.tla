----------------------------- MODULE PromptsProofs -----------------------------
(***************************************************************************)
(* Theorems about Prompts, for every set of calls, replies, sessions and   *)
(* permissions, every seeded ruleset and any number of faults.             *)
(***************************************************************************)
EXTENDS Prompts, NaturalsInduction, WellFoundedInduction, TLAPS

USE PromptAssumption DEF PromptAssumption

\* A request that has not begun names no call yet.
HandlerRecord == [pc : HandlerPc, of : Call \cup {CHOOSE c \in Call : TRUE}, kind : Kind]

Typed ==
    /\ call \in [Call -> CallPc]
    /\ pending \subseteq Call /\ stored \subseteq Call /\ question \subseteq Call
    /\ prompt \subseteq Call
    /\ deferred \in [Call -> {"empty", "allow", "deny"}]
    /\ answer \in [Call -> {"empty", "answered"}]
    /\ rules \in Seq(Rule)
    /\ handler \in [Reply -> HandlerRecord]
    /\ \A r \in Reply : handler[r].pc # "idle" => handler[r].of \in Call
    /\ slot \subseteq Session
    /\ shown \in [Call -> SUBSET {"ask", "question"}]
    /\ resolved \in [Call -> Seq({"allow", "deny"})]

-------------------------------------------------------------------------------
(* What the small steps do.                                                *)

\* A call goes on.
LEMMA GotoEffect ==
    ASSUME call \in [Call -> CallPc], NEW c \in Call, NEW p \in CallPc, Goto(c, p)
    PROVE  /\ call' \in [Call -> CallPc] /\ call'[c] = p
           /\ \A d \in Call : d # c => call'[d] = call[d]
BY DEF Goto

\* A request goes on.
LEMMA StepEffect ==
    ASSUME handler \in [Reply -> HandlerRecord], NEW r \in Reply, NEW p \in HandlerPc,
           Step(r, p)
    PROVE  /\ handler' \in [Reply -> HandlerRecord]
           /\ handler'[r].pc = p
           /\ handler'[r].of = handler[r].of /\ handler'[r].kind = handler[r].kind
           /\ \A s \in Reply : s # r => handler'[s] = handler[s]
BY DEF Step, HandlerRecord

\* A request begins.
LEMMA BeginEffect ==
    ASSUME handler \in [Reply -> HandlerRecord], NEW r \in Reply, NEW p \in HandlerPc,
           NEW c \in Call, NEW k \in Kind,
           handler' = [handler EXCEPT ![r] = [pc |-> p, of |-> c, kind |-> k]]
    PROVE  /\ handler' \in [Reply -> HandlerRecord]
           /\ handler'[r].pc = p /\ handler'[r].of = c /\ handler'[r].kind = k
           /\ \A s \in Reply : s # r => handler'[s] = handler[s]
BY DEF HandlerRecord

\* A value enters a channel.
LEMMA SentEffect ==
    ASSUME deferred \in [Call -> {"empty", "allow", "deny"}], NEW c \in Call,
           NEW v \in {"allow", "deny"}, deferred' = Sent(deferred, c, v)
    PROVE  /\ deferred' \in [Call -> {"empty", "allow", "deny"}]
           /\ deferred'[c] = IF deferred[c] = "empty" THEN v ELSE deferred[c]
           /\ \A d \in Call : d # c => deferred'[d] = deferred[d]
BY DEF Sent

\* A nonempty set of numbers up to n has a largest one.
LEMMA LargestExists ==
    ASSUME NEW n \in Nat, NEW S \in SUBSET (1 .. n), S # {}
    PROVE  \E i \in S : \A j \in S : j <= i
<1> DEFINE T == {k \in Nat : n - k \in S}
<1>1. T \subseteq Nat /\ T # {}
  <2>1. PICK i \in S : TRUE
    OBVIOUS
  <2>2. i \in Int /\ n - i \in Nat /\ n - (n - i) = i
    BY ONLY <2>1, n \in Nat, S \in SUBSET (1 .. n)
  <2>3. n - i \in T
    BY ONLY <2>1, <2>2
  <2>4. QED
    BY <2>3
<1>2. PICK x \in T : \A y \in T : ~ (<<y, x>> \in OpToRel(<, Nat))
  BY <1>1, NatLessThanWellFounded, WFMin, Zenon
<1>3. ASSUME NEW y \in T PROVE x <= y
  <2>1. ~(y < x)
    <3>1. y < x => <<y, x>> \in OpToRel(<, Nat)
      BY ONLY <1>1, x \in T, y \in T DEF OpToRel
    <3>2. QED
      BY <1>2, <3>1
  <2>2. QED
    BY ONLY <2>1, x \in T, y \in T
<1>4. ASSUME NEW j \in S PROVE j <= n - x
  <2>1. j \in Int /\ n - j \in Nat /\ n - (n - j) = j
    BY ONLY j \in S, n \in Nat, S \in SUBSET (1 .. n)
  <2>2. n - j \in T
    BY ONLY <2>1, j \in S
  <2>3. x <= n - j
    BY <1>3, <2>2
  <2>4. QED
    BY ONLY <2>1, <2>3, x \in T, n \in Nat
<1>5. n - x \in S
  OBVIOUS
<1>6. QED
  BY <1>4, <1>5

-------------------------------------------------------------------------------
(* Types.                                                                  *)

\* The values of the channels, maps and requests are of the right kind at first.
LEMMA InitTyped == Init => Typed
<1>1. [pc |-> "idle", of |-> CHOOSE c \in Call : TRUE, kind |-> "allow"] \in HandlerRecord
  BY DEF HandlerRecord, HandlerPc, Kind
<1>2. ASSUME Init
      PROVE  /\ handler \in [Reply -> HandlerRecord]
             /\ \A r \in Reply : handler[r].pc # "idle" => handler[r].of \in Call
  BY <1>1, <1>2 DEF Init
<1>3. ASSUME Init
      PROVE  /\ call \in [Call -> CallPc]
             /\ deferred \in [Call -> {"empty", "allow", "deny"}]
             /\ answer \in [Call -> {"empty", "answered"}]
             /\ shown \in [Call -> SUBSET {"ask", "question"}]
             /\ rules \in Seq(Rule)
  BY <1>3 DEF Init, CallPc
<1>4. ASSUME Init PROVE resolved \in [Call -> Seq({"allow", "deny"})]
  BY <1>4 DEF Init
<1>5. ASSUME Init
      PROVE  pending \subseteq Call /\ stored \subseteq Call /\ question \subseteq Call
             /\ slot \subseteq Session /\ prompt \subseteq Call
  BY <1>5 DEF Init
<1>6. QED
  BY <1>2, <1>3, <1>4, <1>5 DEF Typed

\* No step changes that.
LEMMA NextTyped == Typed /\ [Next]_vars => Typed'
<1> SUFFICES ASSUME Typed, [Next]_vars PROVE Typed'
  OBVIOUS
<1> DEFINE Calls == call' \in [Call -> CallPc]
           Handlers == /\ handler' \in [Reply -> HandlerRecord]
                       /\ \A r \in Reply : handler'[r].pc # "idle" => handler'[r].of \in Call
           Rest == /\ pending' \subseteq Call /\ stored' \subseteq Call
                   /\ question' \subseteq Call /\ prompt' \subseteq Call
                   /\ deferred' \in [Call -> {"empty", "allow", "deny"}]
                   /\ answer' \in [Call -> {"empty", "answered"}]
                   /\ rules' \in Seq(Rule)
                   /\ slot' \subseteq Session
                   /\ shown' \in [Call -> SUBSET {"ask", "question"}]
                   /\ resolved' \in [Call -> Seq({"allow", "deny"})]
<1>0. Calls /\ Handlers /\ Rest => Typed'
  BY DEF Typed
<1>a. ASSUME UNCHANGED handler PROVE Handlers
  BY <1>a DEF Typed
<1>b. ASSUME NEW r \in Reply, NEW p \in HandlerPc, handler[r].pc # "idle", Step(r, p)
      PROVE  Handlers
  <2>1. /\ handler' \in [Reply -> HandlerRecord]
        /\ handler'[r].of = handler[r].of
        /\ \A s \in Reply : s # r => handler'[s] = handler[s]
    BY <1>b, StepEffect DEF Typed
  <2>2. QED
    BY <1>b, <2>1 DEF Typed
<1>c. ASSUME NEW r \in Reply, NEW p \in HandlerPc, NEW c \in Call, NEW k \in Kind,
             handler' = [handler EXCEPT ![r] = [pc |-> p, of |-> c, kind |-> k]]
      PROVE  Handlers
  <2>1. /\ handler' \in [Reply -> HandlerRecord]
        /\ handler'[r].of = c
        /\ \A s \in Reply : s # r => handler'[s] = handler[s]
    BY <1>c, BeginEffect DEF Typed
  <2>2. QED
    BY <2>1 DEF Typed
<1>1. ASSUME NEW c \in Call, CallStep(c) PROVE Typed'
  <2>1. Handlers
    BY <1>1, <1>a
       DEF CallStep, Check, PublishAsked, TakeDeferred, Resume, CancelParked,
           PublishWithdrawn, Claim, PublishQuestion, Drain, GiveUp, Poll, TakeAnswer
  <2>2. Calls
    <3>1. PICK p \in CallPc : Goto(c, p)
      BY <1>1
         DEF CallStep, Check, PublishAsked, TakeDeferred, Resume, CancelParked,
             PublishWithdrawn, Claim, PublishQuestion, Drain, GiveUp, Poll, TakeAnswer,
             Finish, CallPc, AskPc, QuestionPc, EndPc
    <3>2. QED
      BY <3>1, GotoEffect DEF Typed
  <2>3. Rest
    <3>1. CASE Check(c)
      BY <3>1 DEF Check, quest, Typed
    <3>2. CASE PublishAsked(c) \/ PublishQuestion(c)
      <4>1. PICK x \in {"ask", "question"} : shown' = [shown EXCEPT ![c] = @ \cup {x}]
        BY <3>2 DEF PublishAsked, PublishQuestion
      <4>2. shown' \in [Call -> SUBSET {"ask", "question"}]
        BY <4>1 DEF Typed
      <4>3. QED
        BY <3>2, <4>2 DEF PublishAsked, PublishQuestion, asks, quest, hist, Typed
    <3>3. CASE TakeDeferred(c) \/ Resume(c) \/ Poll(c)
      BY <3>3 DEF TakeDeferred, Resume, Poll, asks, quest, hist, Typed
    <3>4. CASE CancelParked(c)
      <4>1. deferred' \in [Call -> {"empty", "allow", "deny"}]
        BY <3>4, SentEffect DEF CancelParked, Typed
      <4>2. QED
        BY <3>4, <4>1 DEF CancelParked, quest, hist, Typed
    <3>5. CASE PublishWithdrawn(c)
      BY <3>5 DEF PublishWithdrawn, asks, quest, Typed
    <3>6. CASE Claim(c) \/ Drain(c) \/ GiveUp(c) \/ TakeAnswer(c)
      BY <3>6 DEF Claim, Drain, GiveUp, TakeAnswer, Finish, asks, hist, Typed
    <3>7. QED
      BY <1>1, <3>1, <3>2, <3>3, <3>4, <3>5, <3>6 DEF CallStep
  <2>4. QED
    BY <1>0, <2>1, <2>2, <2>3
<1>2. ASSUME NEW c \in Call, PublishQuestionFails(c) PROVE Typed'
  <2>1. Handlers
    BY <1>2, <1>a DEF PublishQuestionFails
  <2>2. Calls
    BY <1>2, GotoEffect DEF PublishQuestionFails, Typed, CallPc, EndPc
  <2>3. Rest
    BY <1>2 DEF PublishQuestionFails, asks, Typed
  <2>4. QED
    BY <1>0, <2>1, <2>2, <2>3
<1>3. ASSUME NEW r \in Reply,
             HandlerStep(r) \/ AcceptStoreFails(r) \/ HandlerDropped(r)
      PROVE  Typed'
  <2>1. handler[r].pc # "idle" /\ handler[r].of \in Call
    BY <1>3
       DEF HandlerStep, ReplyOnce, AcceptTake, AcceptBadGlob, AcceptStore, AcceptPush,
           PublishResolved, PutBack, AcceptStoreFails, HandlerDropped, Typed
  <2>2. Handlers
    <3>1. PICK p \in HandlerPc : Step(r, p)
      BY <1>3
         DEF HandlerStep, ReplyOnce, AcceptTake, AcceptBadGlob, AcceptStore, AcceptPush,
             PublishResolved, PutBack, AcceptStoreFails, HandlerDropped, HandlerPc
    <3>2. QED
      BY <1>b, <2>1, <3>1
  <2>3. Calls
    BY <1>3
       DEF HandlerStep, ReplyOnce, AcceptTake, AcceptBadGlob, AcceptStore, AcceptPush,
           PublishResolved, PutBack, AcceptStoreFails, HandlerDropped, Typed
  <2>4. Rest
    <3>1. CASE ReplyOnce(r)
      <4>1. deferred' \in [Call -> {"empty", "allow", "deny"}]
        BY <2>1, <3>1, SentEffect DEF ReplyOnce, Typed
      <4>2. QED
        BY <3>1, <4>1 DEF ReplyOnce, quest, Typed
    <3>2. CASE AcceptTake(r) \/ AcceptStore(r) \/ AcceptBadGlob(r)
      BY <2>1, <3>2 DEF AcceptTake, AcceptStore, AcceptBadGlob, PutAskBack, quest, hist, Typed
    <3>3. CASE AcceptPush(r)
      <4>1. Decision(handler[r].kind) \in {"allow", "deny"}
        BY DEF Decision
      <4>2. deferred' \in [Call -> {"empty", "allow", "deny"}]
        BY <2>1, <3>3, <4>1, SentEffect DEF AcceptPush, Typed
      <4>3. PICK rule \in Rule : rules' = Append(rules, rule)
        BY <2>1, <3>3, <4>1 DEF AcceptPush, Rule, Action
      <4>4. rules' \in Seq(Rule)
        BY <4>3 DEF Typed
      <4>5. QED
        BY <3>3, <4>2, <4>4 DEF AcceptPush, quest, Typed
    <3>4. CASE PublishResolved(r)
      BY <2>1, <3>4 DEF PublishResolved, Decision, asks, quest, Typed
    <3>5. CASE PutBack(r)
      BY <2>1, <3>5 DEF PutBack, asks, Typed
    <3>6. CASE AcceptStoreFails(r)
      BY <2>1, <3>6 DEF AcceptStoreFails, MaybeStored, PutAskBack, quest, Typed
    <3>7. CASE HandlerDropped(r)
      <4>1. deferred' \in [Call -> {"empty", "allow", "deny"}]
        BY <2>1, <3>7, SentEffect DEF HandlerDropped, Typed
      <4>2. stored' \subseteq Call
        BY <2>1, <3>7 DEF HandlerDropped, MaybeStored, Typed
      <4>3. QED
        BY <3>7, <4>1, <4>2 DEF HandlerDropped, quest, hist, Typed
    <3>8. QED
      BY <1>3, <3>1, <3>2, <3>3, <3>4, <3>5, <3>6, <3>7 DEF HandlerStep
  <2>5. QED
    BY <1>0, <2>2, <2>3, <2>4
<1>4. ASSUME NEW r \in Reply, NEW c \in Call, NEW kind \in Kind, Peek(r, c, kind)
      PROVE  Typed'
  <2>1. Handlers
    <3>1. PICK p \in HandlerPc : p = IF c \in pending THEN "peeked" ELSE "failed"
      BY DEF HandlerPc
    <3>2. handler' = [handler EXCEPT ![r] = [pc |-> p, of |-> c, kind |-> kind]]
      BY <1>4, <3>1, Zenon DEF Peek
    <3>3. QED
      BY <1>c, <3>2
  <2>2. Calls /\ Rest
    BY <1>4 DEF Peek, asks, quest, hist, Typed
  <2>3. QED
    BY <1>0, <2>1, <2>2
<1>5. ASSUME NEW r \in Reply, NEW c \in Call, Resolve(r, c) \/ Misroute(r, c)
      PROVE  Typed'
  <2>1. Handlers
    <3>1. PICK p \in HandlerPc :
             handler' = [handler EXCEPT ![r] = [pc |-> p, of |-> c, kind |-> "answer"]]
      BY <1>5 DEF Resolve, Misroute, HandlerPc
    <3>2. "answer" \in Kind
      BY DEF Kind
    <3>3. QED
      BY <1>c, <3>1, <3>2
  <2>2. answer' \in [Call -> {"empty", "answered"}]
    BY <1>5, ZenonT(60) DEF Resolve, Misroute, Sent, Typed
  <2>3. Calls /\ Rest
    BY <1>5, <2>2 DEF Resolve, Misroute, asks, hist, Typed
  <2>4. QED
    BY <1>0, <2>1, <2>3
<1>6. ASSUME NEW s \in Session, Cancel(s) PROVE Typed'
  BY <1>6 DEF Cancel, asks, quest, hist, Typed
<1>7. ASSUME UNCHANGED vars PROVE Typed'
  BY <1>7 DEF vars, Typed
<1>8. QED
  BY <1>1, <1>2, <1>3, <1>4, <1>5, <1>6, <1>7 DEF Next

-------------------------------------------------------------------------------
(* One decision per ask.                                                   *)

Always  == {"always_allow", "always_deny"}
Holding == {"taken", "stored"}
Deciding == Holding \cup {"replied"}

\* An ask that can still be decided has an empty channel and nothing announced,
\* and what is announced of it is what its channel holds.  A call goes past its
\* ask only with an allow, and it is denied without one only if it came too late
\* for the channel.
AskOf(c) ==
    /\ "ask" \notin shown[c] =>
          /\ deferred[c] = "empty" /\ resolved[c] = <<>>
          /\ call[c] \notin {"announced", "parked", "committed", "withdrawn", "cancelled"}
    /\ call[c] \in {"new", "asked"} => "ask" \notin shown[c]
    /\ c \in pending => /\ deferred[c] = "empty" /\ resolved[c] = <<>>
                        /\ call[c] \in AskPc \/ c \in early
    /\ call[c] = "withdrawn" => deferred[c] = "deny" /\ resolved[c] = <<>>
    /\ resolved[c] # <<>> => deferred[c] # "empty" /\ resolved[c] = <<deferred[c]>>
    /\ deferred[c] = "allow" => c \in approved
    /\ ("ask" \in shown[c] /\ Passed(c)) => deferred[c] = "allow"
    /\ ("ask" \in shown[c] /\ call[c] = "denied") => c \in early \/ deferred[c] = "deny"
    /\ call[c] = "cancelled" => deferred[c] = "deny"
    /\ c \in early => call[c] = "denied"

\* A request that took an ask out of the map is the only one that has it, until
\* it has announced its decision, put the ask back or was dropped.
ReplyTo(r) ==
    /\ handler[r].pc \in {"peeked"} \cup Deciding =>
          /\ "ask" \in shown[handler[r].of]
          /\ handler[r].kind # "answer"
    /\ handler[r].pc \in Holding =>
          /\ handler[r].kind \in Always
          /\ deferred[handler[r].of] = "empty"
          /\ call[handler[r].of] \in AskPc \/ handler[r].of \in early
    /\ handler[r].pc = "replied" =>
          /\ deferred[handler[r].of] = Decision(handler[r].kind)
          /\ call[handler[r].of] # "withdrawn"
    /\ handler[r].pc \in Deciding =>
          handler[r].of \notin pending /\ resolved[handler[r].of] = <<>>
    /\ \A s \in Reply :
          (s # r /\ handler[r].pc \in Deciding /\ handler[s].pc \in Deciding) =>
              handler[s].of # handler[r].of

Asks    == \A c \in Call : AskOf(c)
Replies == \A r \in Reply : ReplyTo(r)

\* What one ask depends on.
AskKept(c) ==
    /\ "ask" \in shown'[c] <=> "ask" \in shown[c]
    /\ deferred'[c] = deferred[c] /\ resolved'[c] = resolved[c]
    /\ call'[c] = call[c] \/ (Passed(c) /\ Passed(c)')
    /\ c \in pending' <=> c \in pending
    /\ c \in approved => c \in approved'
    /\ c \in early' <=> c \in early

\* A step that leaves it alone keeps the ask as it is.
LEMMA AskFrame ==
    ASSUME NEW c \in Call, AskOf(c), AskKept(c)
    PROVE  AskOf(c)'
<1>1. CASE call'[c] = call[c]
  <2>1. Passed(c)' <=> Passed(c)
    BY <1>1 DEF Passed
  <2>2. QED
    BY <1>1, <2>1 DEF AskOf, AskKept
<1>2. CASE Passed(c) /\ Passed(c)'
  <2>1. /\ call[c] \notin AskPc \cup {"new", "withdrawn", "cancelled", "denied"}
        /\ call'[c] \notin AskPc \cup {"new", "withdrawn", "cancelled", "denied"}
    BY <1>2 DEF Passed, AskPc, QuestionPc
  <2>2. QED
    BY <1>2, <2>1 DEF AskOf, AskKept, AskPc
<1>3. QED
  BY <1>1, <1>2 DEF AskKept

\* And the requests about it, when no other request joins them.
LEMMA ReplyFrame ==
    ASSUME NEW r \in Reply, ReplyTo(r), handler'[r] = handler[r],
           "ask" \in shown[handler[r].of] => "ask" \in shown'[handler[r].of],
           handler[r].pc \in Deciding => AskKept(handler[r].of),
           \A s \in Reply : s # r =>
               \/ handler'[s].pc \notin Deciding
               \/ handler'[s].of = handler[s].of /\ handler[s].pc \in Deciding
               \/ handler'[s].of # handler[r].of
    PROVE  ReplyTo(r)'
<1>1. CASE handler[r].pc \notin Deciding
  BY <1>1 DEF ReplyTo, Deciding, Holding
<1>2. CASE handler[r].pc \in Deciding
  <2>1. PICK c : c = handler[r].of
    OBVIOUS
  <2>2. AskKept(c) /\ handler'[r].of = c
    BY <1>2, <2>1
  <2>3. handler[r].pc \in Holding => call'[c] = call[c] \/ c \in early
    BY <2>1, <2>2 DEF AskKept, ReplyTo, Passed, AskPc, QuestionPc
  <2>4. handler[r].pc = "replied" => call'[c] # "withdrawn"
    BY <2>1, <2>2 DEF AskKept, ReplyTo, Passed, QuestionPc
  <2>5. \A s \in Reply :
          (s # r /\ handler'[r].pc \in Deciding /\ handler'[s].pc \in Deciding) =>
              handler'[s].of # handler'[r].of
    BY DEF ReplyTo
  <2>6. QED
    BY <2>1, <2>2, <2>3, <2>4, <2>5 DEF AskKept, ReplyTo
<1>3. QED
  BY <1>1, <1>2

\* A step about the ask of c is judged by what it makes of that ask, of the
\* request that takes the step and of the one that has the ask.
LEMMA AskStep ==
    ASSUME Typed, Asks, Replies, NEW c \in Call,
           \A d \in Call : d # c => AskKept(d),
           "ask" \in shown[c] => "ask" \in shown'[c],
           AskOf(c)',
           \A s \in Reply :
               \/ /\ handler'[s] = handler[s]
                  /\ handler[s].pc \in Deciding /\ handler[s].of = c => ReplyTo(s)'
               \/ /\ ReplyTo(s)'
                  /\ handler'[s].pc \in Deciding => handler'[s].of = c
    PROVE  Asks' /\ Replies'
<1>1. Asks'
  BY AskFrame DEF Asks
<1>2. ASSUME NEW r \in Reply PROVE ReplyTo(r)'
  <2>1. CASE handler[r].pc \in Deciding /\ handler[r].of = c
    BY <2>1
  <2>2. CASE handler'[r] # handler[r]
    BY <2>2
  <2>3. CASE handler'[r] = handler[r] /\ ~(handler[r].pc \in Deciding /\ handler[r].of = c)
    <3>1. CASE handler[r].pc \notin {"peeked"} \cup Deciding
      BY <2>3, <3>1 DEF ReplyTo, Deciding, Holding
    <3>2. CASE handler[r].pc \in {"peeked"} \cup Deciding
      <4>1. handler[r].of \in Call
        BY <3>2 DEF Typed, Deciding, Holding
      <4>2. "ask" \in shown[handler[r].of] => "ask" \in shown'[handler[r].of]
        BY <4>1 DEF AskKept
      <4>3. handler[r].pc \in Deciding => AskKept(handler[r].of)
        BY <2>3, <4>1
      <4>4. CASE handler[r].pc \in Deciding
        <5>1. \A s \in Reply : s # r =>
                 \/ handler'[s].pc \notin Deciding
                 \/ handler'[s].of = handler[s].of /\ handler[s].pc \in Deciding
                 \/ handler'[s].of # handler[r].of
          BY <2>3, <4>4
        <5>2. QED
          BY <2>3, <4>2, <4>3, <5>1, ReplyFrame DEF Replies
      <4>5. CASE handler[r].pc \notin Deciding
        BY <2>3, <3>2, <4>2, <4>5 DEF Replies, ReplyTo, Deciding, Holding
      <4>6. QED
        BY <4>4, <4>5
    <3>3. QED
      BY <3>1, <3>2
  <2>4. QED
    BY <2>1, <2>2, <2>3
<1>3. QED
  BY <1>1, <1>2 DEF Replies

\* Every step keeps every ask and every request in order.
LEMMA NextAsks ==
    Typed /\ Asks /\ Replies /\ [Next]_vars => Asks' /\ Replies'
<1> SUFFICES ASSUME Typed, Asks, Replies, [Next]_vars PROVE Asks' /\ Replies'
  OBVIOUS
<1>0. /\ call \in [Call -> CallPc] /\ handler \in [Reply -> HandlerRecord]
      /\ deferred \in [Call -> {"empty", "allow", "deny"}]
      /\ shown \in [Call -> SUBSET {"ask", "question"}]
      /\ resolved \in [Call -> Seq({"allow", "deny"})]
  BY DEF Typed
<1>a. \A c \in Call : AskOf(c)
  BY DEF Asks
<1>b. \A r \in Reply : ReplyTo(r)
  BY DEF Replies
<1>1. ASSUME NEW c \in Call, Check(c) PROVE Asks' /\ Replies'
  <2>1. /\ call[c] = "new"
        /\ UNCHANGED <<handler, shown, deferred, resolved, approved, early>>
    BY <1>1 DEF Check
  <2>2. \/ call'[c] \in {"run", "denied", "asked"} /\ pending' = pending
        \/ call'[c] = "asked" /\ pending' = pending \cup {c}
    BY <1>0, <1>1 DEF Check, Goto
  <2>3. \A d \in Call : d # c => call'[d] = call[d] /\ (d \in pending' <=> d \in pending)
    BY <1>0, <1>1 DEF Check, Goto
  <2>4. "ask" \notin shown[c]
    BY <1>a, <2>1 DEF AskOf
  <2>5. AskOf(c)'
    BY <1>a, <2>1, <2>2, <2>4 DEF AskOf, AskPc
  <2>6. \A s \in Reply : ~(handler[s].pc \in Deciding /\ handler[s].of = c)
    BY <1>b, <2>4 DEF ReplyTo
  <2>7. \A d \in Call : d # c => AskKept(d)
    BY <2>1, <2>3 DEF AskKept
  <2>8. QED
    BY <2>1, <2>5, <2>6, <2>7, AskStep
<1>2. ASSUME NEW c \in Call, PublishAsked(c) PROVE Asks' /\ Replies'
  <2>1. /\ call[c] = "asked"
        /\ UNCHANGED <<handler, pending, deferred, resolved, approved, early>>
    BY <1>2 DEF PublishAsked, asks, hist
  <2>2. call'[c] = "announced" /\ \A d \in Call : d # c => call'[d] = call[d]
    BY <1>0, <1>2 DEF PublishAsked, Goto
  <2>3. "ask" \in shown'[c] /\ \A d \in Call : d # c => shown'[d] = shown[d]
    BY <1>0, <1>2 DEF PublishAsked
  <2>4. "ask" \notin shown[c]
    BY <1>a, <2>1 DEF AskOf
  <2>5. AskOf(c)'
    BY <1>a, <2>1, <2>2, <2>3, <2>4 DEF AskOf, AskPc, Passed, QuestionPc
  <2>6. \A s \in Reply : ~(handler[s].pc \in Deciding /\ handler[s].of = c)
    BY <1>b, <2>4 DEF ReplyTo
  <2>7. \A d \in Call : d # c => AskKept(d)
    BY <2>1, <2>2, <2>3 DEF AskKept
  <2>8. QED
    BY <2>1, <2>3, <2>5, <2>6, <2>7, AskStep
<1>3. ASSUME NEW c \in Call, TakeDeferred(c) PROVE Asks' /\ Replies'
  <2>1. /\ call[c] = "announced"
        /\ UNCHANGED <<handler, shown, pending, deferred, resolved, approved>>
    BY <1>3 DEF TakeDeferred, asks
  <2>2. \/ c \in pending /\ call'[c] = "parked" /\ early' = early
        \/ c \notin pending /\ call'[c] = "denied" /\ early' = early \cup {c}
    BY <1>0, <1>3 DEF TakeDeferred, Goto
  <2>3. \A d \in Call : d # c => call'[d] = call[d]
    BY <1>0, <1>3 DEF TakeDeferred, Goto
  <2>4. AskOf(c)'
    BY <1>a, <2>1, <2>2 DEF AskOf, AskPc, Passed, QuestionPc
  <2>5. \A d \in Call : d # c => AskKept(d)
    BY <2>1, <2>2, <2>3 DEF AskKept
  <2>6. \A s \in Reply : handler[s].pc \in Deciding /\ handler[s].of = c => ReplyTo(s)'
    BY <1>b, <2>1, <2>2 DEF ReplyTo, AskPc, Deciding, Holding
  <2>7. QED
    BY <2>1, <2>4, <2>5, <2>6, AskStep
<1>4. ASSUME NEW c \in Call, Resume(c) PROVE Asks' /\ Replies'
  <2>1. /\ call[c] \in {"parked", "committed"} /\ deferred[c] # "empty"
        /\ UNCHANGED <<handler, shown, pending, deferred, resolved, approved, early>>
    BY <1>4 DEF Resume, asks, hist
  <2>2. \/ deferred[c] = "allow" /\ call'[c] = "run"
        \/ deferred[c] = "deny" /\ call'[c] = "denied"
    BY <1>0, <1>4 DEF Resume, Goto
  <2>3. \A d \in Call : d # c => call'[d] = call[d]
    BY <1>0, <1>4 DEF Resume, Goto
  <2>4. AskOf(c)'
    BY <1>a, <2>1, <2>2 DEF AskOf, AskPc, Passed, QuestionPc
  <2>5. \A d \in Call : d # c => AskKept(d)
    BY <2>1, <2>3 DEF AskKept
  <2>6. \A s \in Reply : handler[s].pc \in Deciding /\ handler[s].of = c => ReplyTo(s)'
    BY <1>b, <2>1, <2>2 DEF ReplyTo, AskPc, Deciding, Holding
  <2>7. QED
    BY <2>1, <2>4, <2>5, <2>6, AskStep
<1>5. ASSUME NEW c \in Call, CancelParked(c) PROVE Asks' /\ Replies'
  <2>1. /\ call[c] = "parked"
        /\ UNCHANGED <<handler, shown, resolved, approved, early>>
    BY <1>5 DEF CancelParked, hist
  <2>2. \A d \in Call : d # c => /\ call'[d] = call[d] /\ deferred'[d] = deferred[d]
                                 /\ d \in pending' <=> d \in pending
    BY <1>0, <1>5 DEF CancelParked, Goto, Sent
  <2>3. \/ /\ c \in pending /\ c \notin pending'
           /\ deferred'[c] = IF deferred[c] = "empty" THEN "deny" ELSE deferred[c]
           /\ call'[c] = "withdrawn"
        \/ /\ c \notin pending /\ pending' = pending
           /\ deferred' = deferred
           /\ call'[c] = "committed"
    BY <1>0, <1>5 DEF CancelParked, Goto, Sent
  <2>4. AskOf(c)'
    BY <1>a, <2>1, <2>3 DEF AskOf, AskPc, Passed, QuestionPc
  <2>5. \A d \in Call : d # c => AskKept(d)
    BY <2>1, <2>2 DEF AskKept
  <2>6. \A s \in Reply : handler[s].pc \in Deciding /\ handler[s].of = c => ReplyTo(s)'
    BY <1>b, <2>1, <2>3 DEF ReplyTo, AskPc, Deciding, Holding
  <2>7. QED
    BY <2>1, <2>4, <2>5, <2>6, AskStep
<1>6. ASSUME NEW c \in Call, PublishWithdrawn(c) PROVE Asks' /\ Replies'
  <2>1. /\ call[c] = "withdrawn"
        /\ UNCHANGED <<handler, shown, pending, deferred, approved, early>>
    BY <1>6 DEF PublishWithdrawn, asks
  <2>2. /\ call'[c] = "cancelled"
        /\ \A d \in Call : d # c => call'[d] = call[d] /\ resolved'[d] = resolved[d]
    BY <1>0, <1>6 DEF PublishWithdrawn, Goto
  <2>3. resolved[c] = <<>> /\ deferred[c] = "deny"
    BY <1>a, <2>1 DEF AskOf
  <2>4. resolved'[c] = <<"deny">>
    <3>1. resolved'[c] = Append(resolved[c], "deny")
      BY <1>0, <1>6 DEF PublishWithdrawn
    <3>2. QED
      BY ONLY <2>3, <3>1
  <2>5. c \notin pending
    BY <1>a, <2>3 DEF AskOf
  <2>6. AskOf(c)'
    BY <1>a, <2>1, <2>2, <2>3, <2>4, <2>5 DEF AskOf, AskPc, Passed, QuestionPc
  <2>7. \A d \in Call : d # c => AskKept(d)
    BY <2>1, <2>2 DEF AskKept
  <2>8. \A s \in Reply : ~(handler[s].pc \in Deciding /\ handler[s].of = c)
    BY <1>b, <2>1, <2>3 DEF ReplyTo, Deciding, Holding
  <2>9. QED
    BY <2>1, <2>6, <2>7, <2>8, AskStep
<1>7. ASSUME NEW c \in Call,
             \/ Claim(c) \/ PublishQuestion(c) \/ PublishQuestionFails(c) \/ Drain(c)
             \/ GiveUp(c) \/ Poll(c) \/ TakeAnswer(c)
      PROVE  Asks' /\ Replies'
  <2>1. UNCHANGED <<handler, pending, deferred, resolved, approved, early>>
    BY <1>7 DEF Claim, PublishQuestion, PublishQuestionFails, Drain, GiveUp, Poll,
                TakeAnswer, asks, hist
  <2>2. Passed(c) /\ Passed(c)' /\ \A d \in Call : d # c => call'[d] = call[d]
    BY <1>0, <1>7 DEF Claim, PublishQuestion, PublishQuestionFails, Drain, GiveUp, Poll,
                TakeAnswer, Finish, Goto, Passed, QuestionPc
  <2>3. \A d \in Call : "ask" \in shown'[d] <=> "ask" \in shown[d]
    BY <1>0, <1>7 DEF Claim, PublishQuestion, PublishQuestionFails, Drain, GiveUp, Poll,
                TakeAnswer
  <2>4. \A d \in Call : AskKept(d)
    BY <2>1, <2>2, <2>3 DEF AskKept
  <2>5. Asks'
    BY <2>4, AskFrame DEF Asks
  <2>6. ASSUME NEW s \in Reply, handler[s].pc \in Deciding, handler[s].of = c
        PROVE  ReplyTo(s)'
    BY <1>b, <2>1, <2>3, <2>4, <2>6, ReplyFrame
  <2>7. QED
    BY <2>1, <2>3, <2>4, <2>5, <2>6, AskStep DEF Asks
<1>c. ASSUME UNCHANGED <<call, shown, pending, deferred, resolved, approved, early>>,
             NEW r \in Reply, handler'[r].pc \notin {"peeked"} \cup Deciding,
             \A s \in Reply : s # r => handler'[s] = handler[s]
      PROVE  Asks' /\ Replies'
  <2>1. \A d \in Call : AskKept(d)
    BY <1>c DEF AskKept
  <2>2. Asks'
    BY <2>1, AskFrame DEF Asks
  <2>3. ASSUME NEW s \in Reply PROVE ReplyTo(s)'
    <3>1. CASE s = r
      BY <1>c, <3>1 DEF ReplyTo, Deciding, Holding
    <3>2. CASE s # r
      <4>1. handler[s].pc \in Deciding => AskKept(handler[s].of)
        BY <2>1 DEF Typed, Deciding, Holding
      <4>2. QED
        BY <1>b, <1>c, <3>2, <4>1, ReplyFrame
    <3>3. QED
      BY <3>1, <3>2
  <2>4. QED
    BY <2>2, <2>3 DEF Replies
<1>8. ASSUME NEW r \in Reply, NEW c \in Call, NEW kind \in Kind, Peek(r, c, kind)
      PROVE  Asks' /\ Replies'
  <2>1. /\ UNCHANGED <<call, shown, pending, deferred, resolved, approved, early>>
        /\ "ask" \in shown[c] /\ kind # "answer"
    BY <1>8 DEF Peek, asks, hist
  <2>2. PICK p \in {"peeked", "failed"} :
           handler' = [handler EXCEPT ![r] = [pc |-> p, of |-> c, kind |-> kind]]
    BY <1>8 DEF Peek
  <2>3. /\ handler'[r].pc = p /\ handler'[r].of = c /\ handler'[r].kind = kind
        /\ \A s \in Reply : s # r => handler'[s] = handler[s]
    BY <1>0, <2>2
  <2>4. \A d \in Call : AskKept(d)
    BY <2>1 DEF AskKept
  <2>5. ReplyTo(r)'
    BY <2>1, <2>3 DEF ReplyTo, Deciding, Holding
  <2>6. AskOf(c)'
    BY <1>a, <2>4, AskFrame
  <2>7. handler'[r].pc \notin Deciding
    BY <2>3 DEF Deciding, Holding
  <2>8. ASSUME NEW s \in Reply, s # r PROVE ReplyTo(s)'
    <3>1. handler[s].pc \in Deciding => AskKept(handler[s].of)
      BY <2>4 DEF Typed, Deciding, Holding
    <3>2. QED
      BY <1>b, <2>1, <2>3, <2>7, <2>8, <3>1, ReplyFrame
  <2>9. QED
    BY <2>1, <2>3, <2>4, <2>5, <2>6, <2>7, <2>8, AskStep
<1>d. ASSUME NEW r \in Reply, handler[r].pc # "idle" PROVE handler[r].of \in Call
  BY <1>d DEF Typed
<1>9. ASSUME NEW r \in Reply, ReplyOnce(r) PROVE Asks' /\ Replies'
  <2>1. PICK c \in Call : c = handler[r].of
    BY <1>9, <1>d DEF ReplyOnce
  <2>2. CASE c \in pending
    <3>1. /\ UNCHANGED <<call, shown, resolved, early>>
          /\ handler[r].pc = "peeked" /\ handler[r].kind \in {"allow", "deny"}
          /\ pending' = pending \ {c}
          /\ deferred' = Sent(deferred, c, handler[r].kind)
          /\ approved' = IF handler[r].kind = "allow" THEN approved \cup {c} ELSE approved
          /\ Step(r, "replied")
      BY <1>9, <2>1, <2>2 DEF ReplyOnce
    <3>2. /\ handler'[r].pc = "replied" /\ handler'[r].of = c
          /\ handler'[r].kind = handler[r].kind
          /\ \A s \in Reply : s # r => handler'[s] = handler[s]
      BY <1>0, <2>1, <3>1, StepEffect DEF HandlerPc
    <3>3. /\ deferred[c] = "empty" /\ resolved[c] = <<>>
          /\ call[c] \in AskPc \/ c \in early
      BY <1>a, <2>2 DEF AskOf
    <3>4. deferred'[c] = handler[r].kind /\ \A d \in Call : d # c => deferred'[d] = deferred[d]
      BY <1>0, <3>1, <3>3 DEF Sent
    <3>5. "ask" \in shown[c] /\ Decision(handler[r].kind) = handler[r].kind
      BY <1>b, <2>1, <3>1 DEF ReplyTo, Decision
    <3>6. call[c] # "withdrawn" /\ ~Passed(c)
      BY <1>a, <3>3, <3>5 DEF AskOf
    <3>7. AskOf(c)'
      BY <1>a, <3>1, <3>3, <3>4, <3>5, <3>6 DEF AskOf, Passed
    <3>8. \A s \in Reply : ~(handler[s].pc \in Deciding /\ handler[s].of = c)
      BY <1>b, <2>2 DEF ReplyTo
    <3>9. ReplyTo(r)'
      BY <1>b, <2>1, <3>1, <3>2, <3>3, <3>4, <3>5, <3>6, <3>8
         DEF ReplyTo, Deciding, Holding
    <3>10. \A d \in Call : d # c => AskKept(d)
      BY <3>1, <3>4 DEF AskKept
    <3>11. QED
      BY <3>1, <3>2, <3>7, <3>8, <3>9, <3>10, AskStep
  <2>3. CASE c \notin pending
    <3>1. /\ UNCHANGED <<call, shown, pending, deferred, resolved, approved, early>>
          /\ Step(r, "failed")
      BY <1>9, <2>1, <2>3 DEF ReplyOnce
    <3>2. /\ handler'[r].pc = "failed"
          /\ \A s \in Reply : s # r => handler'[s] = handler[s]
      BY <1>0, <3>1, StepEffect DEF HandlerPc
    <3>3. QED
      BY <1>c, <3>1, <3>2 DEF Deciding, Holding
  <2>4. QED
    BY <2>2, <2>3
<1>10. ASSUME NEW r \in Reply, AcceptTake(r) PROVE Asks' /\ Replies'
  <2>1. PICK c \in Call : c = handler[r].of
    BY <1>10, <1>d DEF AcceptTake
  <2>2. /\ UNCHANGED <<call, shown, deferred, resolved, approved, early>>
        /\ handler[r].pc = "peeked" /\ handler[r].kind \in Always
        /\ pending' = pending \ {c}
        /\ Step(r, IF c \in pending THEN "taken" ELSE "failed")
    BY <1>10, <2>1 DEF AcceptTake, Always, hist
  <2>3. CASE c \in pending
    <3>1. /\ handler'[r].pc = "taken" /\ handler'[r].of = c
          /\ handler'[r].kind = handler[r].kind
          /\ \A s \in Reply : s # r => handler'[s] = handler[s]
      BY <1>0, <2>1, <2>2, <2>3, StepEffect DEF HandlerPc
    <3>2. /\ deferred[c] = "empty" /\ resolved[c] = <<>>
          /\ call[c] \in AskPc \/ c \in early
      BY <1>a, <2>3 DEF AskOf
    <3>3. "ask" \in shown[c]
      BY <1>b, <2>1, <2>2 DEF ReplyTo
    <3>4. Passed(c)' <=> Passed(c)
      BY <2>2 DEF Passed
    <3>5. AskOf(c)'
      BY <1>a, <2>2, <3>4 DEF AskOf
    <3>6. \A s \in Reply : ~(handler[s].pc \in Deciding /\ handler[s].of = c)
      BY <1>b, <2>3 DEF ReplyTo
    <3>7. ReplyTo(r)'
      BY <2>2, <3>1, <3>2, <3>3, <3>6 DEF ReplyTo, Deciding, Holding, Always
    <3>8. \A d \in Call : d # c => AskKept(d)
      BY <2>2 DEF AskKept
    <3>9. QED
      BY <2>2, <3>1, <3>5, <3>6, <3>7, <3>8, AskStep
  <2>4. CASE c \notin pending
    <3>1. /\ handler'[r].pc = "failed"
          /\ \A s \in Reply : s # r => handler'[s] = handler[s]
      BY <1>0, <2>2, <2>4, StepEffect DEF HandlerPc
    <3>2. pending' = pending
      BY <2>2, <2>4
    <3>3. QED
      BY <1>c, <2>2, <3>1, <3>2 DEF Deciding, Holding
  <2>5. QED
    BY <2>3, <2>4
<1>11. ASSUME NEW r \in Reply, AcceptBadGlob(r) \/ AcceptStoreFails(r)
       PROVE  Asks' /\ Replies'
  <2>1. PICK c \in Call : c = handler[r].of
    BY <1>11, <1>d DEF AcceptBadGlob, AcceptStoreFails
  <2>2. /\ UNCHANGED <<call, shown, deferred, resolved, approved, early>>
        /\ handler[r].pc = "taken"
        /\ pending' = pending \cup {c}
        /\ Step(r, "failed")
    BY <1>11, <2>1 DEF AcceptBadGlob, AcceptStoreFails, PutAskBack
  <2>3. /\ handler'[r].pc = "failed"
        /\ \A s \in Reply : s # r => handler'[s] = handler[s]
    BY <1>0, <2>2, StepEffect DEF HandlerPc
  <2>4. /\ deferred[c] = "empty" /\ resolved[c] = <<>>
        /\ call[c] \in AskPc \/ c \in early
    BY <1>b, <2>1, <2>2 DEF ReplyTo, Deciding, Holding
  <2>5. Passed(c)' <=> Passed(c)
    BY <2>2 DEF Passed
  <2>6. AskOf(c)'
    BY <1>a, <2>2, <2>4, <2>5 DEF AskOf
  <2>7. \A s \in Reply : s # r => ~(handler[s].pc \in Deciding /\ handler[s].of = c)
    BY <1>b, <2>1, <2>2 DEF ReplyTo, Deciding, Holding
  <2>8. ReplyTo(r)'
    BY <2>3 DEF ReplyTo, Deciding, Holding
  <2>9. \A d \in Call : d # c => AskKept(d)
    BY <2>2 DEF AskKept
  <2>10. handler'[r].pc \notin Deciding
    BY <2>3 DEF Deciding, Holding
  <2>11. QED
    BY <2>2, <2>3, <2>6, <2>7, <2>8, <2>9, <2>10, AskStep
<1>12. ASSUME NEW r \in Reply, AcceptStore(r) PROVE Asks' /\ Replies'
  <2>1. PICK c \in Call : c = handler[r].of
    BY <1>12, <1>d DEF AcceptStore
  <2>2. /\ UNCHANGED <<call, shown, pending, deferred, resolved, approved, early>>
        /\ handler[r].pc = "taken" /\ Step(r, "stored")
    BY <1>12 DEF AcceptStore, hist
  <2>3. /\ handler'[r].pc = "stored" /\ handler'[r].of = c
        /\ handler'[r].kind = handler[r].kind
        /\ \A s \in Reply : s # r => handler'[s] = handler[s]
    BY <1>0, <2>1, <2>2, StepEffect DEF HandlerPc
  <2>4. \A d \in Call : AskKept(d)
    BY <2>2 DEF AskKept
  <2>5. AskOf(c)'
    BY <1>a, <2>4, AskFrame
  <2>6. \A s \in Reply : s # r => ~(handler[s].pc \in Deciding /\ handler[s].of = c)
    BY <1>b, <2>1, <2>2 DEF ReplyTo, Deciding, Holding
  <2>7. ReplyTo(r)'
    BY <1>b, <2>1, <2>2, <2>3, <2>6 DEF ReplyTo, Deciding, Holding
  <2>8. QED
    BY <2>2, <2>3, <2>4, <2>5, <2>6, <2>7, AskStep
<1>13. ASSUME NEW r \in Reply, AcceptPush(r) PROVE Asks' /\ Replies'
  <2>1. PICK c \in Call : c = handler[r].of
    BY <1>13, <1>d DEF AcceptPush
  <2>2. PICK v \in {"allow", "deny"} : v = Decision(handler[r].kind)
    BY DEF Decision
  <2>3. /\ UNCHANGED <<call, shown, pending, resolved, early>>
        /\ handler[r].pc = "stored"
        /\ deferred' = Sent(deferred, c, v)
        /\ approved' = IF v = "allow" THEN approved \cup {c} ELSE approved
        /\ Step(r, "replied")
    BY <1>13, <2>1, <2>2, Zenon DEF AcceptPush
  <2>4. /\ handler'[r].pc = "replied" /\ handler'[r].of = c
        /\ handler'[r].kind = handler[r].kind
        /\ \A s \in Reply : s # r => handler'[s] = handler[s]
    BY <1>0, <2>1, <2>3, StepEffect DEF HandlerPc
  <2>5. /\ deferred[c] = "empty" /\ resolved[c] = <<>> /\ c \notin pending
        /\ call[c] \in AskPc \/ c \in early
        /\ "ask" \in shown[c] /\ handler[r].kind # "answer"
    BY <1>b, <2>1, <2>3 DEF ReplyTo, Deciding, Holding
  <2>6. deferred'[c] = v /\ \A d \in Call : d # c => deferred'[d] = deferred[d]
    BY <1>0, <2>3, <2>5 DEF Sent
  <2>7. call[c] # "withdrawn" /\ ~Passed(c)
    BY <1>a, <2>5 DEF AskOf
  <2>8. AskOf(c)'
    BY <1>a, <2>3, <2>5, <2>6, <2>7 DEF AskOf, Passed
  <2>9. \A s \in Reply : s # r => ~(handler[s].pc \in Deciding /\ handler[s].of = c)
    BY <1>b, <2>1, <2>3 DEF ReplyTo, Deciding, Holding
  <2>10. Decision(handler'[r].kind) = v
    BY <2>2, <2>4
  <2>11. ReplyTo(r)'
    BY <2>3, <2>4, <2>5, <2>6, <2>7, <2>9, <2>10 DEF ReplyTo, Deciding, Holding
  <2>12. \A d \in Call : d # c => AskKept(d)
    BY <2>3, <2>6 DEF AskKept
  <2>13. QED
    BY <2>3, <2>4, <2>8, <2>9, <2>11, <2>12, AskStep
<1>14. ASSUME NEW r \in Reply, PublishResolved(r) PROVE Asks' /\ Replies'
  <2>1. PICK c \in Call : c = handler[r].of
    BY <1>14, <1>d DEF PublishResolved
  <2>2. PICK v \in {"allow", "deny"} : v = Decision(handler[r].kind)
    BY DEF Decision
  <2>3. /\ UNCHANGED <<call, shown, pending, deferred, approved, early>>
        /\ handler[r].pc = "replied"
        /\ resolved' = [resolved EXCEPT ![c] = Append(@, v)]
        /\ Step(r, "ok")
    BY <1>14, <2>1, <2>2, Zenon DEF PublishResolved, asks
  <2>4. /\ handler'[r].pc = "ok"
        /\ \A s \in Reply : s # r => handler'[s] = handler[s]
    BY <1>0, <2>3, StepEffect DEF HandlerPc
  <2>5. /\ deferred[c] = v /\ resolved[c] = <<>> /\ call[c] # "withdrawn"
        /\ c \notin pending /\ "ask" \in shown[c]
    BY <1>b, <2>1, <2>2, <2>3 DEF ReplyTo, Deciding, Holding
  <2>6. resolved'[c] = <<v>> /\ \A d \in Call : d # c => resolved'[d] = resolved[d]
    <3>1. resolved'[c] = Append(resolved[c], v)
      BY <1>0, <2>3
    <3>2. resolved'[c] = <<v>>
      BY ONLY <2>5, <3>1
    <3>3. QED
      BY <1>0, <2>3, <3>2
  <2>7. Passed(c)' <=> Passed(c)
    BY <2>3 DEF Passed
  <2>8. AskOf(c)'
    BY <1>a, <2>3, <2>5, <2>6, <2>7 DEF AskOf
  <2>9. \A s \in Reply : s # r => ~(handler[s].pc \in Deciding /\ handler[s].of = c)
    BY <1>b, <2>1, <2>3 DEF ReplyTo, Deciding, Holding
  <2>10. ReplyTo(r)' /\ handler'[r].pc \notin Deciding
    BY <2>4 DEF ReplyTo, Deciding, Holding
  <2>11. \A d \in Call : d # c => AskKept(d)
    BY <2>3, <2>6 DEF AskKept
  <2>12. QED
    BY <2>3, <2>4, <2>8, <2>9, <2>10, <2>11, AskStep
<1>15. ASSUME NEW r \in Reply, HandlerDropped(r) PROVE Asks' /\ Replies'
  <2>1. PICK c \in Call : c = handler[r].of
    BY <1>15, <1>d DEF HandlerDropped
  <2>2. /\ UNCHANGED <<call, shown, pending, resolved, approved, early>>
        /\ handler[r].pc \in Deciding
        /\ deferred' = Sent(deferred, c, "deny")
        /\ Step(r, "failed")
    BY <1>15, <2>1 DEF HandlerDropped, hist, Deciding, Holding
  <2>3. /\ handler'[r].pc = "failed"
        /\ \A s \in Reply : s # r => handler'[s] = handler[s]
    BY <1>0, <2>2, StepEffect DEF HandlerPc
  <2>4. /\ resolved[c] = <<>> /\ c \notin pending /\ "ask" \in shown[c]
        /\ deferred[c] = "empty" => call[c] \in AskPc \/ c \in early
    <3>1. CASE handler[r].pc \in Holding
      BY <1>b, <2>1, <2>2, <3>1 DEF ReplyTo
    <3>2. CASE handler[r].pc = "replied"
      BY <1>b, <2>1, <2>2, <3>2 DEF ReplyTo, Decision
    <3>3. QED
      BY <2>2, <3>1, <3>2 DEF Deciding
  <2>5. /\ deferred'[c] = IF deferred[c] = "empty" THEN "deny" ELSE deferred[c]
        /\ \A d \in Call : d # c => deferred'[d] = deferred[d]
    BY <1>0, <2>2 DEF Sent
  <2>6. Passed(c)' <=> Passed(c)
    BY <2>2 DEF Passed
  <2>7. AskOf(c)'
    BY <1>a, <2>2, <2>4, <2>5, <2>6 DEF AskOf
  <2>8. \A s \in Reply : s # r => ~(handler[s].pc \in Deciding /\ handler[s].of = c)
    BY <1>b, <2>1, <2>2 DEF ReplyTo
  <2>9. ReplyTo(r)' /\ handler'[r].pc \notin Deciding
    BY <2>3 DEF ReplyTo, Deciding, Holding
  <2>10. \A d \in Call : d # c => AskKept(d)
    BY <2>2, <2>5 DEF AskKept
  <2>11. QED
    BY <2>2, <2>3, <2>7, <2>8, <2>9, <2>10, AskStep
<1>16. ASSUME NEW r \in Reply, NEW c \in Call, Resolve(r, c) \/ Misroute(r, c)
       PROVE  Asks' /\ Replies'
  <2>1. UNCHANGED <<call, shown, pending, deferred, resolved, approved, early>>
    BY <1>16 DEF Resolve, Misroute, asks, hist
  <2>2. PICK p \in {"ok", "failed", "misrouted"} :
           handler' = [handler EXCEPT ![r] = [pc |-> p, of |-> c, kind |-> "answer"]]
    BY <1>16 DEF Resolve, Misroute
  <2>3. handler'[r].pc = p /\ \A s \in Reply : s # r => handler'[s] = handler[s]
    BY <1>0, <2>2
  <2>4. QED
    BY <1>c, <2>1, <2>3 DEF Deciding, Holding
<1>17. ASSUME NEW r \in Reply, PutBack(r) PROVE Asks' /\ Replies'
  <2>1. /\ UNCHANGED <<call, shown, pending, deferred, resolved, approved, early>>
        /\ Step(r, "failed")
    BY <1>17 DEF PutBack, asks
  <2>2. handler'[r].pc = "failed" /\ \A s \in Reply : s # r => handler'[s] = handler[s]
    BY <1>0, <2>1, StepEffect DEF HandlerPc
  <2>3. QED
    BY <1>c, <2>1, <2>2 DEF Deciding, Holding
<1>18. ASSUME (\E s \in Session : Cancel(s)) \/ UNCHANGED vars PROVE Asks' /\ Replies'
  <2>1. UNCHANGED <<call, handler, shown, pending, deferred, resolved, approved, early>>
    BY <1>18 DEF Cancel, vars, asks, hist
  <2>2. ASSUME NEW d \in Call PROVE AskOf(d)'
    <3>1. AskKept(d)
      BY <2>1 DEF AskKept
    <3>2. QED
      BY <1>a, <3>1, AskFrame
  <2>3. ASSUME NEW s \in Reply PROVE ReplyTo(s)'
    BY <1>b, <2>1 DEF ReplyTo
  <2>4. QED
    BY <2>2, <2>3 DEF Asks, Replies
<1>19. QED
  BY <1>1, <1>2, <1>3, <1>4, <1>5, <1>6, <1>7, <1>8, <1>9, <1>10, <1>11, <1>12, <1>13,
     <1>14, <1>15, <1>16, <1>17, <1>18 DEF Next, CallStep, HandlerStep

-------------------------------------------------------------------------------
(* Always answers.                                                         *)

Installed == Len(Seed) + 1 .. Len(rules)

\* A rule that was not seeded is an allow or a deny that is in the store, and
\* an always answer is acknowledged only with its rule installed.
Ruled ==
    /\ Len(rules) >= Len(Seed)
    /\ \A i \in Installed : /\ rules[i].action # "ask"
                            /\ \E c \in stored : PermOf[c] = rules[i].perm
    /\ \A r \in Reply :
          /\ handler[r].pc = "stored" => handler[r].of \in stored
          /\ (handler[r].pc \in {"replied", "ok"} /\ handler[r].kind \in Always) =>
                \E i \in Installed : rules[i].perm = PermOf[handler[r].of]
    /\ reasked = {}

\* The steps that install nothing and ask nobody.
LEMMA RuleFrame ==
    ASSUME Ruled, UNCHANGED <<rules, reasked>>, stored \subseteq stored',
           \A r \in Reply :
               \/ handler'[r] = handler[r]
               \/ handler'[r].pc \notin {"stored", "replied", "ok"}
               \/ handler'[r].pc # "stored" /\ handler'[r].kind \notin Always
               \/ handler'[r].pc = "stored" /\ handler'[r].of \in stored'
               \/ /\ handler[r].pc = "replied" /\ handler'[r].pc = "ok"
                  /\ handler'[r].of = handler[r].of /\ handler'[r].kind = handler[r].kind
    PROVE  Ruled'
<1>1. Installed' = Installed
  BY DEF Installed
<1>2. Len(rules') >= Len(Seed) /\ reasked' = {}
  BY DEF Ruled
<1>3. \A i \in Installed' : /\ rules'[i].action # "ask"
                            /\ \E c \in stored' : PermOf[c] = rules'[i].perm
  BY <1>1 DEF Ruled
<1>4. ASSUME NEW r \in Reply
      PROVE  /\ handler'[r].pc = "stored" => handler'[r].of \in stored'
             /\ (handler'[r].pc \in {"replied", "ok"} /\ handler'[r].kind \in Always) =>
                   \E i \in Installed' : rules'[i].perm = PermOf[handler'[r].of]
  BY <1>1 DEF Ruled
<1>5. QED
  BY <1>2, <1>3, <1>4 DEF Ruled

\* Who is covered by an acknowledged always answer is not asked: the last rule
\* that matches is not a seeded one.
LEMMA CoveredNotAsked ==
    ASSUME Typed, Ruled, NEW c \in Call, Acknowledged(c) # {}, NEW fallback
    PROVE  Evaluate(c, fallback) # "ask"
<1> DEFINE matching == {i \in 1 .. Len(rules) : PermOf[c] \in Covers[rules[i].perm]}
<1>1. PICK r \in Reply : /\ handler[r].pc = "ok" /\ handler[r].kind \in Always
                         /\ PermOf[c] \in Covers[PermOf[handler[r].of]]
  BY DEF Acknowledged, Always
<1>2. PICK i \in Installed : rules[i].perm = PermOf[handler[r].of]
  BY <1>1 DEF Ruled
<1>3. Len(rules) \in Nat /\ Len(Seed) \in Nat
  BY DEF Typed
<1>4. i \in 1 .. Len(rules) /\ i > Len(Seed)
  BY <1>2, <1>3 DEF Installed
<1>5. i \in matching
  BY <1>1, <1>2, <1>4
<1>6. \E m \in matching : \A j \in matching : j <= m
  BY <1>3, <1>5, LargestExists
<1>7. PICK m : m = CHOOSE k \in matching : \A j \in matching : j <= k
  OBVIOUS
<1>8. m \in matching /\ \A j \in matching : j <= m
  BY <1>6, <1>7, Zenon
<1>9. m \in Installed
  BY <1>3, <1>4, <1>5, <1>8 DEF Installed
<1>10. Evaluate(c, fallback) = rules[m].action
  BY <1>5, <1>7 DEF Evaluate
<1>11. QED
  BY <1>9, <1>10 DEF Ruled

\* Every step keeps the rules in order.
LEMMA NextRules ==
    Typed /\ Replies /\ Ruled /\ [Next]_vars => Ruled'
<1> SUFFICES ASSUME Typed, Replies, Ruled, [Next]_vars PROVE Ruled'
  OBVIOUS
<1>0. handler \in [Reply -> HandlerRecord] /\ rules \in Seq(Rule)
  BY DEF Typed
<1>1. ASSUME NEW c \in Call, Check(c) PROVE Ruled'
  <2>1. UNCHANGED <<handler, rules, stored>>
    BY <1>1 DEF Check
  <2>2. reasked' = reasked
    <3>1. CASE Acknowledged(c) = {}
      BY <1>1, <3>1 DEF Check
    <3>2. CASE Acknowledged(c) # {}
      <4>1. \A fallback : Evaluate(c, fallback) # "ask"
        BY <3>2, CoveredNotAsked
      <4>2. \A fallback : Wrapped(c, Evaluate(c, fallback)) # "ask"
        BY <4>1 DEF Wrapped
      <4>3. QED
        BY <1>1, <4>2 DEF Check
    <3>3. QED
      BY <3>1, <3>2
  <2>3. QED
    BY <2>1, <2>2, RuleFrame
<1>2. ASSUME NEW c \in Call,
             \/ PublishAsked(c) \/ TakeDeferred(c) \/ Resume(c) \/ CancelParked(c)
             \/ PublishWithdrawn(c) \/ Claim(c) \/ PublishQuestion(c)
             \/ PublishQuestionFails(c) \/ Drain(c) \/ GiveUp(c) \/ Poll(c)
             \/ TakeAnswer(c)
      PROVE  Ruled'
  <2>1. UNCHANGED <<handler, rules, stored, reasked>>
    BY <1>2 DEF PublishAsked, TakeDeferred, Resume, CancelParked, PublishWithdrawn, Claim,
                PublishQuestion, PublishQuestionFails, Drain, GiveUp, Poll, TakeAnswer,
                asks, hist
  <2>2. QED
    BY <2>1, RuleFrame
<1>3. ASSUME NEW r \in Reply, NEW c \in Call, NEW kind \in Kind,
             Peek(r, c, kind) \/ Resolve(r, c) \/ Misroute(r, c)
      PROVE  Ruled'
  <2>1. UNCHANGED <<rules, stored, reasked>>
    BY <1>3 DEF Peek, Resolve, Misroute, asks, hist
  <2>2. \A s \in Reply :
           \/ handler'[s] = handler[s]
           \/ handler'[s].pc \in {"peeked", "failed", "misrouted"}
           \/ handler'[s].pc = "ok" /\ handler'[s].kind = "answer"
    BY <1>0, <1>3 DEF Peek, Resolve, Misroute
  <2>3. QED
    BY <2>1, <2>2, RuleFrame DEF Always
<1>4. ASSUME NEW r \in Reply, NEW p \in HandlerPc, Step(r, p), UNCHANGED <<rules, reasked>>,
             stored \subseteq stored',
             \/ p \notin {"stored", "replied", "ok"}
             \/ p # "stored" /\ handler[r].kind \notin Always
             \/ p = "stored" /\ handler[r].of \in stored'
             \/ handler[r].pc = "replied" /\ p = "ok"
      PROVE  Ruled'
  <2>1. /\ handler'[r].pc = p
        /\ handler'[r].of = handler[r].of /\ handler'[r].kind = handler[r].kind
        /\ \A s \in Reply : s # r => handler'[s] = handler[s]
    BY <1>0, <1>4, StepEffect
  <2>2. QED
    BY <1>4, <2>1, RuleFrame
<1>5. ASSUME NEW r \in Reply, ReplyOnce(r) \/ AcceptTake(r) \/ AcceptBadGlob(r) \/ PutBack(r)
      PROVE  Ruled'
  <2>1. UNCHANGED <<rules, stored, reasked>>
    BY <1>5 DEF ReplyOnce, AcceptTake, AcceptBadGlob, PutBack, asks, hist
  <2>2. \/ Step(r, "taken") \/ Step(r, "failed")
        \/ Step(r, "replied") /\ handler[r].kind \notin Always
    BY <1>5 DEF ReplyOnce, AcceptTake, AcceptBadGlob, PutBack, Always
  <2>3. {"taken", "failed", "replied"} \subseteq HandlerPc
    BY DEF HandlerPc
  <2>4. QED
    BY <1>4, <2>1, <2>2, <2>3
<1>6. ASSUME NEW r \in Reply,
             \/ AcceptStore(r) \/ PublishResolved(r)
             \/ AcceptStoreFails(r) \/ HandlerDropped(r)
      PROVE  Ruled'
  <2>1. UNCHANGED <<rules, reasked>> /\ stored \subseteq stored'
    BY <1>6 DEF AcceptStore, PublishResolved, AcceptStoreFails, HandlerDropped,
                MaybeStored, asks, hist
  <2>2. \/ Step(r, "stored") /\ handler[r].of \in stored'
        \/ Step(r, "ok") /\ handler[r].pc = "replied"
        \/ Step(r, "failed")
    BY <1>6 DEF AcceptStore, PublishResolved, AcceptStoreFails, HandlerDropped
  <2>3. {"stored", "failed", "ok"} \subseteq HandlerPc
    BY DEF HandlerPc
  <2>4. QED
    BY <1>4, <2>1, <2>2, <2>3
<1>7. ASSUME NEW r \in Reply, AcceptPush(r) PROVE Ruled'
  <2>1. PICK c \in Call : c = handler[r].of
    BY <1>7 DEF AcceptPush, Typed
  <2>2. PICK rule \in Rule : rule = [perm |-> PermOf[c], action |-> Decision(handler[r].kind)]
    <3>1. Decision(handler[r].kind) \in Action
      BY DEF Decision, Action
    <3>2. QED
      BY <3>1 DEF Rule
  <2>3. /\ UNCHANGED <<stored, reasked>> /\ Step(r, "replied")
        /\ handler[r].pc = "stored" /\ rules' = Append(rules, rule)
    BY <1>7, <2>1, <2>2, Zenon DEF AcceptPush
  <2>4. c \in stored
    BY <2>1, <2>3 DEF Ruled
  <2>5. /\ handler'[r].pc = "replied" /\ handler'[r].of = c
        /\ \A s \in Reply : s # r => handler'[s] = handler[s]
    BY <1>0, <2>1, <2>3, StepEffect DEF HandlerPc
  <2>6. /\ Len(rules') = Len(rules) + 1 /\ rules'[Len(rules) + 1] = rule
        /\ \A i \in 1 .. Len(rules) : rules'[i] = rules[i]
        /\ Len(rules) \in Nat /\ Len(Seed) \in Nat
    BY <1>0, <2>3
  <2>7. rule.action # "ask" /\ rule.perm = PermOf[c]
    BY <2>2 DEF Decision
  <2>8. /\ Len(rules) + 1 \in Installed'
        /\ \A i \in Installed : i \in Installed' /\ i \in 1 .. Len(rules)
        /\ \A i \in Installed' : i \in Installed \/ i = Len(rules) + 1
        /\ Len(rules') >= Len(Seed)
    BY <2>6 DEF Installed, Ruled
  <2>9. \A i \in Installed' : /\ rules'[i].action # "ask"
                              /\ \E d \in stored' : PermOf[d] = rules'[i].perm
    BY <2>3, <2>4, <2>6, <2>7, <2>8 DEF Ruled
  <2>10. ASSUME NEW s \in Reply
         PROVE  /\ handler'[s].pc = "stored" => handler'[s].of \in stored'
                /\ (handler'[s].pc \in {"replied", "ok"} /\ handler'[s].kind \in Always) =>
                      \E i \in Installed' : rules'[i].perm = PermOf[handler'[s].of]
    <3>1. CASE s = r
      BY <2>5, <2>6, <2>7, <2>8, <3>1
    <3>2. CASE s # r
      BY <2>3, <2>5, <2>6, <2>8, <3>2 DEF Ruled
    <3>3. QED
      BY <3>1, <3>2
  <2>11. reasked' = {}
    BY <2>3 DEF Ruled
  <2>12. QED
    BY <2>8, <2>9, <2>10, <2>11 DEF Ruled
<1>8. ASSUME (\E s \in Session : Cancel(s)) \/ UNCHANGED vars PROVE Ruled'
  <2>1. UNCHANGED <<handler, rules, stored, reasked>>
    BY <1>8 DEF Cancel, vars, asks, hist
  <2>2. QED
    BY <2>1, RuleFrame
<1>9. "allow" \in Kind
  BY DEF Kind
<1>10. QED
  BY <1>1, <1>2, <1>3, <1>5, <1>6, <1>7, <1>8, <1>9 DEF Next, CallStep, HandlerStep

-------------------------------------------------------------------------------
(* Questions.                                                              *)

\* A question is in the map, in the hands of one misrouted request, or answered,
\* and no two of these at once; a session has at most one waiting question.
QuestionOf(c) ==
    /\ "question" \in shown[c] =>
          call[c] \in {"displayed", "waiting", "polling", "answered", "unanswered"}
    /\ answer[c] # "empty" => "question" \in shown[c] /\ c \notin question
    /\ c \in question => Waiting(c) \/ c \in stray
    /\ c \in stray => call[c] \in {"answered", "unanswered"}
    /\ c \in prompt => answer[c] # "empty" /\ call[c] \in {"displayed", "answered"}
    /\ call[c] = "polling" => answer[c] # "empty"
    /\ \A d \in Call : (d # c /\ Waiting(c) /\ Waiting(d)) => SessionOf[c] # SessionOf[d]
    /\ Waiting(c) => SessionOf[c] \in slot

Misrouted(r) ==
    handler[r].pc = "misrouted" =>
        /\ handler[r].of \notin question /\ answer[handler[r].of] = "empty"
        /\ "question" \in shown[handler[r].of]
        /\ \A s \in Reply : (s # r /\ handler[s].pc = "misrouted") =>
               handler[s].of # handler[r].of

Questions ==
    /\ \A c \in Call : QuestionOf(c)
    /\ \A r \in Reply : Misrouted(r)
    /\ \A s \in slot : \E c \in Call : Waiting(c) /\ SessionOf[c] = s

Asked == {"questioned", "displayed", "waiting", "polling", "answered", "unanswered"}

\* The steps of a call before and instead of a question, and of requests that
\* answer none.
LEMMA QuestionFrame ==
    ASSUME Questions, UNCHANGED <<slot, question, answer, prompt, stray>>,
           \A d \in Call : "question" \in shown'[d] <=> "question" \in shown[d],
           \A d \in Call : \/ call'[d] = call[d]
                           \/ call'[d] \notin Asked /\ call[d] \notin Asked,
           \A r \in Reply : \/ handler'[r] = handler[r]
                            \/ handler'[r].pc # "misrouted",
           Typed
    PROVE  Questions'
<1>1. \A d \in Call : Waiting(d)' <=> Waiting(d)
  BY DEF Waiting, QuestionPc, Asked
<1>2. ASSUME NEW c \in Call PROVE QuestionOf(c)'
  <2>1. QuestionOf(c)
    BY DEF Questions
  <2>2. CASE call'[c] = call[c]
    BY <1>1, <2>1, <2>2 DEF QuestionOf
  <2>3. CASE call'[c] \notin Asked /\ call[c] \notin Asked
    BY <1>1, <2>1, <2>3 DEF QuestionOf, Asked
  <2>4. QED
    BY <2>2, <2>3
<1>3. ASSUME NEW r \in Reply PROVE Misrouted(r)'
  <2>1. CASE handler'[r].pc # "misrouted"
    BY <2>1 DEF Misrouted
  <2>2. CASE handler'[r] = handler[r] /\ handler[r].pc = "misrouted"
    <3>1. handler[r].of \in Call
      BY <2>2 DEF Typed
    <3>2. QED
      BY <2>2, <3>1 DEF Questions, Misrouted
  <2>3. QED
    BY <2>1, <2>2
<1>4. \A s \in slot' : \E c \in Call : Waiting(c)' /\ SessionOf[c] = s
  BY <1>1 DEF Questions
<1>5. QED
  BY <1>2, <1>3, <1>4 DEF Questions

\* Every step keeps the questions in order.
LEMMA NextQuestions == Typed /\ Questions /\ [Next]_vars => Questions'
<1> SUFFICES ASSUME Typed, Questions, [Next]_vars PROVE Questions'
  OBVIOUS
<1>0. /\ call \in [Call -> CallPc] /\ handler \in [Reply -> HandlerRecord]
      /\ answer \in [Call -> {"empty", "answered"}]
      /\ shown \in [Call -> SUBSET {"ask", "question"}]
  BY DEF Typed
<1>a. \A c \in Call : QuestionOf(c)
  BY DEF Questions
<1>b. \A r \in Reply : Misrouted(r)
  BY DEF Questions
<1>c. \A s \in slot : \E c \in Call : Waiting(c) /\ SessionOf[c] = s
  BY DEF Questions
<1>d. ASSUME NEW r \in Reply, handler[r].pc # "idle" PROVE handler[r].of \in Call
  BY <1>d DEF Typed
<1>1. ASSUME NEW c \in Call,
             \/ Check(c) \/ PublishAsked(c) \/ TakeDeferred(c) \/ Resume(c)
             \/ CancelParked(c) \/ PublishWithdrawn(c)
      PROVE  Questions'
  <2>1. UNCHANGED <<handler, slot, question, answer, prompt, stray>>
    BY <1>1 DEF Check, PublishAsked, TakeDeferred, Resume, CancelParked, PublishWithdrawn,
                quest, hist
  <2>2. \A d \in Call : "question" \in shown'[d] <=> "question" \in shown[d]
    BY <1>0, <1>1 DEF Check, PublishAsked, TakeDeferred, Resume, CancelParked,
                      PublishWithdrawn
  <2>3. call'[c] \notin Asked /\ call[c] \notin Asked
    BY <1>0, <1>1 DEF Check, PublishAsked, TakeDeferred, Resume, CancelParked,
                PublishWithdrawn, Goto, Asked
  <2>4. \A d \in Call : d # c => call'[d] = call[d]
    BY <1>0, <1>1 DEF Check, PublishAsked, TakeDeferred, Resume, CancelParked,
                PublishWithdrawn, Goto
  <2>5. QED
    BY <2>1, <2>2, <2>3, <2>4, QuestionFrame
<1>2. ASSUME NEW r \in Reply,
             \/ ReplyOnce(r) \/ AcceptTake(r) \/ AcceptBadGlob(r) \/ AcceptStore(r)
             \/ AcceptPush(r) \/ PublishResolved(r) \/ AcceptStoreFails(r)
             \/ HandlerDropped(r)
             \/ \E c \in Call, kind \in Kind : Peek(r, c, kind)
      PROVE  Questions'
  <2>1. UNCHANGED <<call, shown, slot, question, answer, prompt, stray>>
    BY <1>2 DEF ReplyOnce, AcceptTake, AcceptBadGlob, AcceptStore, AcceptPush,
                PublishResolved, AcceptStoreFails, HandlerDropped, Peek, quest, hist
  <2>2. \A s \in Reply : s # r => handler'[s] = handler[s]
    BY <1>0, <1>2 DEF ReplyOnce, AcceptTake, AcceptBadGlob, AcceptStore, AcceptPush,
                PublishResolved, AcceptStoreFails, HandlerDropped, Peek, Step
  <2>3. handler'[r].pc # "misrouted"
    BY <1>0, <1>2 DEF ReplyOnce, AcceptTake, AcceptBadGlob, AcceptStore, AcceptPush,
                PublishResolved, AcceptStoreFails, HandlerDropped, Peek, Step, HandlerRecord
  <2>4. QED
    BY <2>1, <2>2, <2>3, QuestionFrame
<1>3. ASSUME NEW c \in Call, Claim(c) PROVE Questions'
  <2>1. /\ UNCHANGED <<handler, shown, answer, prompt, stray>>
        /\ call[c] = "run"
    BY <1>3 DEF Claim, hist
  <2>2. \A d \in Call : d # c => call'[d] = call[d]
    BY <1>0, <1>3 DEF Claim, Goto
  <2>3. \/ /\ SessionOf[c] \notin slot /\ slot' = slot \cup {SessionOf[c]}
           /\ question' = question \cup {c} /\ call'[c] = "questioned"
        \/ call'[c] = "unanswered" /\ UNCHANGED <<slot, question>>
    BY <1>0, <1>3 DEF Claim, Goto
  <2>4. ~Waiting(c) /\ "question" \notin shown[c] /\ answer[c] = "empty"
    BY <1>0, <1>a, <2>1 DEF QuestionOf, Waiting, QuestionPc
  <2>5. \A d \in Call : d # c => (Waiting(d)' <=> Waiting(d))
    BY <2>2 DEF Waiting
  <2>6. ASSUME NEW d \in Call PROVE QuestionOf(d)'
    <3>1. CASE d = c
      BY <1>a, <2>1, <2>3, <2>4, <2>5, <3>1 DEF QuestionOf, Waiting, QuestionPc
    <3>2. CASE d # c
      <4>1. Waiting(c)' => SessionOf[c] \notin slot
        BY <2>3 DEF Waiting, QuestionPc
      <4>2. QED
        BY <1>a, <2>1, <2>2, <2>3, <2>5, <3>2, <4>1 DEF QuestionOf
    <3>3. QED
      BY <3>1, <3>2
  <2>7. ASSUME NEW r \in Reply PROVE Misrouted(r)'
    BY <1>b, <2>1, <2>3, <2>4 DEF Misrouted
  <2>8. \A s \in slot' : \E d \in Call : Waiting(d)' /\ SessionOf[d] = s
    <3>1. \A s \in slot : \E d \in Call : Waiting(d)' /\ SessionOf[d] = s
      BY <1>c, <2>4, <2>5
    <3>2. SessionOf[c] \in slot' \ slot => Waiting(c)'
      BY <2>3 DEF Waiting, QuestionPc
    <3>3. QED
      BY <2>3, <3>1, <3>2
  <2>9. QED
    BY <2>6, <2>7, <2>8 DEF Questions
<1>4. ASSUME NEW c \in Call,
             \/ PublishQuestion(c) \/ Poll(c)
             \/ Drain(c) /\ answer[c] = "empty"
      PROVE  Questions'
  <2>1. UNCHANGED <<handler, slot, question, answer, prompt, stray>>
    BY <1>0, <1>4 DEF PublishQuestion, Poll, Drain, quest, hist
  <2>2. /\ \A d \in Call : d # c => call'[d] = call[d]
        /\ \/ call[c] = "questioned" /\ call'[c] = "displayed"
           \/ call[c] = "displayed" /\ call'[c] = "waiting" /\ answer[c] = "empty"
           \/ call[c] = "waiting" /\ call'[c] = "polling" /\ answer[c] # "empty"
    BY <1>0, <1>4 DEF PublishQuestion, Poll, Drain, Goto
  <2>3. /\ \A d \in Call : d # c => shown'[d] = shown[d]
        /\ "question" \in shown[c] => "question" \in shown'[c]
        /\ shown'[c] = shown[c] \/ call'[c] = "displayed"
    BY <1>0, <1>4 DEF PublishQuestion, Poll, Drain, Goto
  <2>4. \A d \in Call : Waiting(d)' <=> Waiting(d)
    BY <2>2 DEF Waiting, QuestionPc
  <2>5. ASSUME NEW d \in Call PROVE QuestionOf(d)'
    <3>1. CASE d = c
      BY <1>a, <2>1, <2>2, <2>3, <2>4, <3>1 DEF QuestionOf
    <3>2. CASE d # c
      BY <1>a, <2>1, <2>2, <2>3, <2>4, <3>2 DEF QuestionOf
    <3>3. QED
      BY <3>1, <3>2
  <2>6. ASSUME NEW r \in Reply PROVE Misrouted(r)'
    <3>1. CASE handler[r].pc = "misrouted"
      <4>1. "question" \in shown'[handler[r].of]
        BY <1>b, <1>d, <2>3, <3>1 DEF Misrouted
      <4>2. QED
        BY <1>b, <2>1, <4>1 DEF Misrouted
    <3>2. QED
      BY <2>1, <3>1 DEF Misrouted
  <2>7. \A s \in slot' : \E d \in Call : Waiting(d)' /\ SessionOf[d] = s
    BY <1>c, <2>1, <2>4
  <2>8. QED
    BY <2>5, <2>6, <2>7 DEF Questions
<1>5. ASSUME NEW c \in Call,
             \/ PublishQuestionFails(c) \/ GiveUp(c) \/ TakeAnswer(c)
             \/ Drain(c) /\ answer[c] # "empty"
      PROVE  Questions'
  <2>1. UNCHANGED <<handler, shown, answer, prompt>> /\ slot' = slot \ {SessionOf[c]}
    BY <1>0, <1>5 DEF PublishQuestionFails, GiveUp, TakeAnswer, Drain, Finish, hist
  <2>2. /\ Waiting(c) /\ call'[c] \in {"answered", "unanswered"}
        /\ \A d \in Call : d # c => call'[d] = call[d]
    BY <1>0, <1>5 DEF PublishQuestionFails, GiveUp, TakeAnswer, Drain, Finish, Goto,
                      Waiting, QuestionPc
  <2>3. \/ question' = question /\ stray' = stray \cup {c} /\ call[c] = "questioned"
        \/ question' = question \ {c} /\ stray' = stray /\ call[c] = "waiting"
        \/ /\ question' = question /\ stray' = stray /\ answer[c] # "empty"
           /\ call'[c] = "answered"
    BY <1>0, <1>5, <1>a DEF PublishQuestionFails, GiveUp, TakeAnswer, Drain, Finish, Goto,
                      hist, QuestionOf
  <2>4. ~Waiting(c)' /\ \A d \in Call : d # c => (Waiting(d)' <=> Waiting(d))
    BY <2>2 DEF Waiting, QuestionPc
  <2>5. ASSUME NEW d \in Call PROVE QuestionOf(d)'
    <3>1. CASE d = c
      BY <1>a, <2>1, <2>2, <2>3, <2>4, <3>1 DEF QuestionOf
    <3>2. CASE d # c
      <4>1. Waiting(d) => SessionOf[d] # SessionOf[c]
        BY <1>a, <2>2, <3>2 DEF QuestionOf
      <4>2. /\ d \in question' <=> d \in question
            /\ d \in stray' <=> d \in stray
        BY <2>3, <3>2
      <4>3. QED
        BY <1>a, <2>1, <2>2, <2>4, <3>2, <4>1, <4>2 DEF QuestionOf
    <3>3. QED
      BY <3>1, <3>2
  <2>6. ASSUME NEW r \in Reply PROVE Misrouted(r)'
    BY <1>b, <2>1, <2>3 DEF Misrouted
  <2>7. \A s \in slot' : \E d \in Call : Waiting(d)' /\ SessionOf[d] = s
    BY <1>c, <2>1, <2>4
  <2>8. QED
    BY <2>5, <2>6, <2>7 DEF Questions
<1>6. ASSUME NEW r \in Reply, NEW c \in Call, Resolve(r, c) PROVE Questions'
  <2>1. UNCHANGED <<call, shown, slot, stray>> /\ "question" \in shown[c]
    BY <1>6 DEF Resolve
  <2>2. /\ handler'[r].pc # "misrouted"
        /\ \A s \in Reply : s # r => handler'[s] = handler[s]
    BY <1>0, <1>6 DEF Resolve
  <2>3. \A d \in Call : Waiting(d)' <=> Waiting(d)
    BY <2>1 DEF Waiting
  <2>4. /\ question' = question \ {c}
        /\ \A d \in Call : d # c => answer'[d] = answer[d] /\ (d \in prompt' <=> d \in prompt)
    BY <1>0, <1>6 DEF Resolve, Sent
  <2>5. /\ answer[c] # "empty" => answer'[c] # "empty"
        /\ c \in question => answer'[c] # "empty"
        /\ c \notin question => answer'[c] = answer[c]
        /\ c \in prompt' => c \in prompt \/ (c \in question /\ call[c] = "displayed")
    BY <1>0, <1>6 DEF Resolve, Sent
  <2>6. ASSUME NEW d \in Call PROVE QuestionOf(d)'
    <3>1. CASE d = c
      BY <1>a, <2>1, <2>3, <2>4, <2>5, <3>1 DEF QuestionOf
    <3>2. CASE d # c
      BY <1>a, <2>1, <2>3, <2>4, <3>2 DEF QuestionOf
    <3>3. QED
      BY <3>1, <3>2
  <2>7. ASSUME NEW s \in Reply PROVE Misrouted(s)'
    <3>1. CASE handler'[s].pc # "misrouted"
      BY <3>1 DEF Misrouted
    <3>2. CASE handler'[s].pc = "misrouted"
      <4>1. s # r /\ handler'[s] = handler[s] /\ handler[s].of \in Call
        BY <1>d, <2>2, <3>2
      <4>2. handler[s].of = c => c \notin question
        BY <1>b, <3>2, <4>1 DEF Misrouted
      <4>3. answer'[handler[s].of] = answer[handler[s].of]
        BY <2>4, <2>5, <4>1, <4>2
      <4>4. QED
        BY <1>b, <2>1, <2>2, <2>4, <3>2, <4>1, <4>3 DEF Misrouted
    <3>3. QED
      BY <3>1, <3>2
  <2>8. \A s \in slot' : \E d \in Call : Waiting(d)' /\ SessionOf[d] = s
    BY <1>c, <2>1, <2>3
  <2>9. QED
    BY <2>6, <2>7, <2>8 DEF Questions
<1>7. ASSUME NEW r \in Reply, NEW c \in Call, Misroute(r, c) PROVE Questions'
  <2>1. /\ UNCHANGED <<call, shown, slot, stray, answer, prompt>> /\ "question" \in shown[c]
        /\ c \in question /\ question' = question \ {c}
    BY <1>7 DEF Misroute, hist
  <2>2. /\ handler'[r].pc = "misrouted" /\ handler'[r].of = c
        /\ \A s \in Reply : s # r => handler'[s] = handler[s]
    BY <1>0, <1>7 DEF Misroute
  <2>3. \A d \in Call : Waiting(d)' <=> Waiting(d)
    BY <2>1 DEF Waiting
  <2>4. answer[c] = "empty"
    BY <1>a, <2>1 DEF QuestionOf
  <2>5. ASSUME NEW d \in Call PROVE QuestionOf(d)'
    BY <1>a, <2>1, <2>3 DEF QuestionOf
  <2>6. \A s \in Reply : handler[s].pc = "misrouted" => handler[s].of # c
    BY <1>b, <2>1 DEF Misrouted
  <2>7. ASSUME NEW s \in Reply PROVE Misrouted(s)'
    <3>1. CASE s = r
      BY <2>1, <2>2, <2>4, <2>6, <3>1 DEF Misrouted
    <3>2. CASE s # r
      BY <1>b, <2>1, <2>2, <2>6, <3>2 DEF Misrouted
    <3>3. QED
      BY <3>1, <3>2
  <2>8. \A s \in slot' : \E d \in Call : Waiting(d)' /\ SessionOf[d] = s
    BY <1>c, <2>1, <2>3
  <2>9. QED
    BY <2>5, <2>7, <2>8 DEF Questions
<1>8. ASSUME NEW r \in Reply, PutBack(r) PROVE Questions'
  <2>1. PICK c \in Call : c = handler[r].of
    BY <1>8, <1>d DEF PutBack
  <2>2. /\ UNCHANGED <<call, shown, slot, answer, prompt>>
        /\ handler[r].pc = "misrouted" /\ Step(r, "failed")
        /\ question' = question \cup {c}
        /\ stray' = IF Waiting(c) THEN stray ELSE stray \cup {c}
    BY <1>8, <2>1 DEF PutBack
  <2>3. /\ handler'[r].pc = "failed"
        /\ \A s \in Reply : s # r => handler'[s] = handler[s]
    BY <1>0, <2>2, StepEffect DEF HandlerPc
  <2>4. /\ answer[c] = "empty" /\ "question" \in shown[c]
        /\ \A s \in Reply : (s # r /\ handler[s].pc = "misrouted") => handler[s].of # c
    BY <1>b, <2>1, <2>2 DEF Misrouted
  <2>5. \A d \in Call : Waiting(d)' <=> Waiting(d)
    BY <2>2 DEF Waiting
  <2>6. ~Waiting(c) => call[c] \in {"answered", "unanswered"}
    BY <1>a, <2>4 DEF QuestionOf, Waiting, QuestionPc
  <2>7. ASSUME NEW d \in Call PROVE QuestionOf(d)'
    <3>1. CASE d = c
      BY <1>a, <2>2, <2>4, <2>5, <2>6, <3>1 DEF QuestionOf
    <3>2. CASE d # c
      <4>1. /\ d \in question' <=> d \in question
            /\ d \in stray' <=> d \in stray
        BY <2>2, <3>2
      <4>2. QED
        BY <1>a, <2>2, <2>5, <4>1 DEF QuestionOf
    <3>3. QED
      BY <3>1, <3>2
  <2>8. ASSUME NEW s \in Reply PROVE Misrouted(s)'
    <3>1. CASE s = r
      BY <2>3, <3>1 DEF Misrouted
    <3>2. CASE s # r
      BY <1>b, <2>2, <2>3, <2>4, <3>2 DEF Misrouted
    <3>3. QED
      BY <3>1, <3>2
  <2>9. \A s \in slot' : \E d \in Call : Waiting(d)' /\ SessionOf[d] = s
    BY <1>c, <2>2, <2>5
  <2>10. QED
    BY <2>7, <2>8, <2>9 DEF Questions
<1>9. ASSUME (\E s \in Session : Cancel(s)) \/ UNCHANGED vars PROVE Questions'
  <2>1. UNCHANGED <<call, shown, handler, slot, question, answer, prompt, stray>>
    BY <1>9 DEF Cancel, vars, quest, hist
  <2>2. QED
    BY <2>1, QuestionFrame
<1>10. QED
  BY <1>1, <1>2, <1>3, <1>4, <1>5, <1>6, <1>7, <1>8, <1>9 DEF Next, CallStep, HandlerStep

-------------------------------------------------------------------------------
(* The theorems.                                                           *)

Prompting == Typed /\ Asks /\ Replies /\ Ruled /\ Questions

\* It holds to begin with and every step keeps it.
LEMMA InitPrompting == Init => Prompting
<1> SUFFICES ASSUME Init PROVE Prompting
  OBVIOUS
<1>1. Typed
  BY InitTyped
<1>2. \A r \in Reply : handler[r].pc = "idle"
  BY DEF Init
<1>3. Asks
  BY DEF Init, Asks, AskOf, Passed, QuestionPc
<1>4. Replies
  BY <1>2 DEF Replies, ReplyTo, Deciding, Holding
<1>5. Ruled
  <2>1. rules = Seed /\ reasked = {}
    BY DEF Init
  <2>2. Len(Seed) \in Nat
    OBVIOUS
  <2>3. Installed = {}
    BY <2>1, <2>2 DEF Installed
  <2>4. Len(rules) >= Len(Seed)
    BY <2>1, <2>2
  <2>5. QED
    BY <1>2, <2>1, <2>3, <2>4 DEF Ruled
<1>6. Questions
  BY <1>2 DEF Init, Questions, QuestionOf, Misrouted, Waiting, QuestionPc
<1>7. QED
  BY <1>1, <1>3, <1>4, <1>5, <1>6 DEF Prompting

\* The conjunction is inductive.
LEMMA NextPrompting == Prompting /\ [Next]_vars => Prompting'
BY NextTyped, NextAsks, NextRules, NextQuestions DEF Prompting

\* What a human answered is what happens, whatever replies, always-replies,
\* cancels and store errors race for one ask: one decision is announced and the
\* call does it, an acknowledged always answer holds from then on and was stored
\* before it was in force, and an answer given before the call began to wait is
\* used (permission/mod.rs, question.rs).
THEOREM PromptAnswersKept == Spec => []AnswersKept
<1>1. Prompting => OneDecision
  <2> SUFFICES ASSUME Prompting, NEW c \in Call
               PROVE  /\ Len(resolved[c]) <= 1
                      /\ "ask" \in shown[c] /\ Passed(c) => c \in approved
                      /\ resolved[c] = <<"deny">> => ~Passed(c)
                      /\ resolved[c] = <<"allow">> /\ Ended(c) => (Passed(c) \/ c \in early)
    BY DEF OneDecision
  <2>1. AskOf(c)
    BY DEF Prompting, Asks
  <2>2. PICK v : v = deferred[c]
    OBVIOUS
  <2>3. resolved[c] = <<>> \/ resolved[c] = <<v>>
    BY <2>1, <2>2 DEF AskOf
  <2>4. Len(resolved[c]) <= 1
    <3>1. CASE resolved[c] = <<>>
      BY <3>1
    <3>2. CASE resolved[c] = <<v>>
      <4>1. Len(<<v>>) = 1
        OBVIOUS
      <4>2. PICK n \in Nat : n = Len(resolved[c]) /\ n = 1
        BY <3>2, <4>1
      <4>3. QED
        BY <4>2
    <3>3. QED
      BY <2>3, <3>1, <3>2
  <2>5. /\ resolved[c] = <<"deny">> => v = "deny" /\ "ask" \in shown[c]
        /\ resolved[c] = <<"allow">> => v = "allow" /\ "ask" \in shown[c]
    <3>1. resolved[c] # <<>> => "ask" \in shown[c]
      BY <2>1 DEF AskOf
    <3>2. /\ resolved[c] = <<"deny">> => v = "deny" /\ resolved[c] # <<>>
          /\ resolved[c] = <<"allow">> => v = "allow" /\ resolved[c] # <<>>
      BY ONLY <2>3
    <3>3. QED
      BY <3>1, <3>2
  <2>6. /\ "ask" \in shown[c] /\ Passed(c) => c \in approved
        /\ resolved[c] = <<"deny">> => ~Passed(c)
    BY <2>1, <2>2, <2>5 DEF AskOf
  <2>7. resolved[c] = <<"allow">> /\ Ended(c) => (Passed(c) \/ c \in early)
    BY <2>1, <2>2, <2>5 DEF AskOf, Ended, Passed, EndPc
  <2>8. QED
    BY <2>4, <2>6, <2>7
<1>2. Prompting => AlwaysIsKept
  BY DEF Prompting, Ruled, Installed, AlwaysIsKept
<1>3. Prompting => PromptAnswerUsed
  <2> SUFFICES ASSUME Prompting, NEW c \in prompt, Ended(c) PROVE call[c] = "answered"
    BY DEF PromptAnswerUsed
  <2>1. c \in Call
    BY DEF Prompting, Typed
  <2>2. QED
    BY <2>1 DEF Prompting, Questions, QuestionOf, Ended, EndPc
<1>4. QED
  BY <1>1, <1>2, <1>3, InitPrompting, NextPrompting, PTL DEF Spec, AnswersKept

\* No ask and no question outlives its call except through the windows that
\* NoOrphans names, and the question slot of a session is taken exactly while one
\* of its calls waits, on every path of ask_user.
THEOREM PromptNoOrphans == Spec => []NoOrphans
<1>1. Prompting => NoOrphans
  <2> SUFFICES ASSUME Prompting PROVE NoOrphans
    OBVIOUS
  <2>1. \A c \in pending : call[c] \in AskPc \/ c \in early
    BY DEF Prompting, Typed, Asks, AskOf
  <2>2. \A c \in question : Waiting(c) \/ c \in stray
    BY DEF Prompting, Typed, Questions, QuestionOf
  <2>3. slot = {SessionOf[c] : c \in {d \in Call : Waiting(d)}}
    BY DEF Prompting, Questions, QuestionOf
  <2>4. QED
    BY <2>1, <2>2, <2>3 DEF NoOrphans
<1>2. QED
  BY <1>1, InitPrompting, NextPrompting, PTL DEF Spec
=============================================================================

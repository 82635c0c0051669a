---------------------------- MODULE TurnLoopProofs ----------------------------
(***************************************************************************)
(* Proofs about TurnLoop, for any tools, thresholds and bounds.            *)
(***************************************************************************)
EXTENDS TurnLoop, FiniteSetTheorems, NaturalsInduction, WellFoundedInduction, TLAPS

-------------------------------------------------------------------------------
(* The inductive invariant.                                                *)

Ids == Nat \X Nat

PartSet ==
    [kind : {"text"}, full : BOOLEAN]
    \cup [kind : {"call"}, id : Ids, tool : Tool]
    \cup [kind : {"result"}, id : Ids, ok : BOOLEAN]
    \cup [kind : {"reminder"}, of : {"settled", "recovery", "outcome"}, key : SUBSET (Nat \cup Ids)]
    \cup [kind : {"request"}, state : {"pending", "committed", "failed"}]
    \cup [kind : {"compaction"}, of : SUBSET Nat, covers : SUBSET Nat]

MessageSet == [role : {"user", "assistant", "tool"}, parts : Seq(PartSet)]

SummarySet == [text : BOOLEAN, wrote : BOOLEAN, tools : SUBSET Tool]

LoopSet ==
    [pc : {"idle", "top", "check", "create", "stream", "tail", "tools", "before", "mark",
           "commit", "reject", "after"},
     manual : BOOLEAN, steps : Nat, compacted : BOOLEAN, history : Seq(SummarySet),
     seen : Nat, cur : Nat, todo : Seq(PartSet), marker : Nat, keep : Nat,
     cut : SUBSET Nat, covers : SUBSET Nat]

Typed ==
    /\ log \in Seq(MessageSet)
    /\ loop \in LoopSet
    /\ budget \in [inputs : Nat, turns : Nat]
    /\ mine \in Seq(Nat) /\ laps \in Nat /\ doomed \in Seq(Nat)

\* A message that a settlement wrote.
Settled(m) ==
    /\ m.role = "user" /\ m.parts # <<>>
    /\ \A p \in Range(m.parts) : p.kind = "reminder" /\ p.of = "settled"

FitsRole(role, kind) ==
    \/ role = "user"      /\ kind \in {"text", "reminder", "request"}
    \/ role = "assistant" /\ kind \in {"text", "call", "compaction"}
    \/ role = "tool"      /\ kind = "result"

\* Messages from the first one on, all before message n.
Prefix(S, n) == \A x \in S : x < n /\ \A y \in 1 .. x : y \in S

\* Part p may stand in message j of transcript l: a call is numbered after its
\* message, a result follows its call with nothing but settlements in between, and a
\* compaction stands for the first messages.
Suits(l, j, p) ==
    /\ FitsRole(l[j].role, p.kind)
    /\ p.kind = "call" => p.id[1] = j
    /\ p.kind = "result" =>
          /\ p.id[1] \in 1 .. j - 1
          /\ p.id \in CallIds(l[p.id[1]])
          /\ \A k \in p.id[1] + 1 .. j - 1 : Settled(l[k])
    /\ p.kind = "compaction" => Prefix(p.of, j)

\* Text is the first part of a message or none.
TextFirst(parts) == \A k \in DOMAIN parts : parts[k].kind = "text" => k = 1

Sound(l) ==
    \A j \in DOMAIN l :
        /\ TextFirst(l[j].parts)
        /\ \A p \in Range(l[j].parts) : Suits(l, j, p)

\* No text yet, or the shell of one.
Blank(m) == m.parts = <<>> \/ m.parts = <<TextPart(FALSE)>>

\* What is still to be written fits the message it goes to.
Pending ==
    loop.todo # <<>> =>
      /\ loop.pc \in {"top", "tail", "mark", "commit"}
      /\ loop.cur \in DOMAIN log /\ ~Settled(log[loop.cur])
      /\ loop.pc \in {"top", "mark"} => log[loop.cur].role # "assistant"
      /\ TextFirst(loop.todo)
      /\ \A p \in Range(loop.todo) :
            /\ Suits(log, loop.cur, p)
            /\ p.kind # "reminder"
            /\ p.kind = "text" => Blank(log[loop.cur])
            /\ loop.pc = "tail" => p.kind # "compaction" /\ (p.kind = "call" => loop.marker = 0)
            /\ loop.pc = "commit" => p.kind = "compaction"

\* Where the loop is at work.
Located ==
    /\ loop.pc \in {"idle", "top", "check", "before", "tools"} => loop.marker = 0
    /\ loop.pc \in {"mark", "commit", "reject", "after"} => loop.marker # 0
    /\ loop.marker # 0 =>
          /\ loop.marker \in DOMAIN log
          /\ log[loop.marker].role = "user" /\ ~Settled(log[loop.marker])
          /\ Prefix(loop.cut, loop.marker)
    /\ loop.pc \in {"stream", "tail", "tools", "commit"} =>
          /\ loop.cur \in DOMAIN log /\ log[loop.cur].role = "assistant"
          /\ loop.marker < loop.cur
    /\ loop.pc \in {"stream", "tail", "tools"} => Parts(log[loop.cur], "compaction") = {}
    /\ loop.pc \in {"stream", "tail"} /\ loop.marker # 0 => CallIds(log[loop.cur]) = {}
    /\ loop.pc = "stream" => Blank(log[loop.cur])

\* Only settlements came after the message of the step, or after what was projected.
Following ==
    /\ loop.marker = 0 /\ loop.pc \in {"stream", "tail", "tools"} =>
          \A k \in loop.cur + 1 .. Len(log) : Settled(log[k])
    /\ loop.pc \in {"check", "create"} =>
          loop.seen <= Len(log) /\ \A k \in loop.seen + 1 .. Len(log) : Settled(log[k])

\* The results that are stored, and those that are about to be.
Given(l) == UNION {Parts(m, "result") : m \in Range(l)}

Outcomes(l, todo) == Given(l) \cup {p \in Range(todo) : p.kind = "result"}

\* Every call has a result, or will have, or a loop ended before it had.
Answered ==
    \A i \in DOMAIN log : \A id \in CallIds(log[i]) :
        \/ i \in stopped
        \/ \E r \in Outcomes(log, loop.todo) : r.id = id
        \/ loop.pc \in {"tail", "tools"} /\ loop.marker = 0 /\ i = loop.cur

\* The messages of the steps.
Turns ==
    /\ \A x \in Range(mine) : x \in DOMAIN log /\ log[x].role = "assistant"
    /\ loop.pc \in {"stream", "tail", "commit"} => loop.cur \notin Range(mine)
    /\ loop.pc = "tools" =>
          /\ mine # <<>> /\ mine[Len(mine)] = loop.cur
          /\ \A k \in 1 .. Len(mine) - 1 : mine[k] # loop.cur
          /\ Parts(log[loop.cur], "call") # {}
    /\ loop.pc = "idle" => mine = <<>>

\* Steps the doom guard has judged.
Judged == IF loop.pc = "tools" THEN Len(mine) - 1 ELSE Len(mine)

\* A call of message x that is no read has succeeded.
Wrote(l, todo, x) ==
    \E p \in Parts(l[x], "call") :
        p.tool \notin ReadOnly /\ ResultPart(p.id, TRUE) \in Outcomes(l, todo)

ToolsOf(m) == {p.tool : p \in Parts(m, "call")}

Recalls(h, l, todo, x) ==
    /\ h.text <=> HasText(l[x])
    /\ h.wrote <=> Wrote(l, todo, x)
    /\ h.tools = ToolsOf(l[x]) /\ h.tools # {}

\* The history is that of the last steps, and has not doomed the loop.
Remembered ==
    /\ Len(loop.history) = IF Judged <= Threshold THEN Judged ELSE Threshold + 1
    /\ \A k \in DOMAIN loop.history :
          Recalls(loop.history[k], log, loop.todo, mine[Judged - Len(loop.history) + k])
    /\ ~Doomed(loop.history)

LastTurns(ms) == SubSeq(ms, Len(ms) - Threshold + 1, Len(ms))

\* The loop that the guard ended was idle.
Ended ==
    doomed # <<>> =>
      /\ loop.pc = "idle" /\ Range(doomed) \subseteq DOMAIN log
      /\ Len(doomed) >= Threshold /\ Idle(LastTurns(doomed))

\* What is about to be sent has its reminders.
Reminded ==
    loop.pc \in {"check", "create"} =>
        NewReminders(SubSeq(log, 1, loop.seen)) = {}

\* Each lap is paid for.
Paced ==
    LET late == IF loop.compacted THEN 1 ELSE 0 IN
    /\ loop.pc = "tools" => laps = 0 /\ ~loop.compacted
    /\ IF loop.marker = 0 /\ loop.pc \in {"check", "create", "stream", "tail"}
       THEN laps <= late + 1 ELSE laps <= late

Local ==
    /\ Pending /\ Located /\ Following /\ Answered
    /\ Turns /\ Remembered /\ Ended
    /\ Reminded
    /\ Paced

Inv == Typed /\ Sound(log) /\ Local

-------------------------------------------------------------------------------
(* Sequences and their elements.                                           *)

\* The elements of a sequence are those at its places.
LEMMA InRange ==
    ASSUME NEW S, NEW s \in Seq(S)
    PROVE  /\ \A k \in 1 .. Len(s) : s[k] \in Range(s)
           /\ \A x \in Range(s) : \E k \in 1 .. Len(s) : s[k] = x
           /\ Range(s) \subseteq S
           /\ DOMAIN s = 1 .. Len(s) /\ Len(s) \in Nat
BY DEF Range

\* Append adds one element.
LEMMA RangeAppend ==
    ASSUME NEW S, NEW s \in Seq(S), NEW x \in S
    PROVE  Range(Append(s, x)) = Range(s) \cup {x}
<1>1. \A y \in Range(Append(s, x)) : y \in Range(s) \cup {x}
  BY DEF Range
<1>2. \A y \in Range(s) : y \in Range(Append(s, x))
  <2> SUFFICES ASSUME NEW k \in DOMAIN s PROVE s[k] \in Range(Append(s, x))
    BY DEF Range
  <2>1. k \in DOMAIN Append(s, x) /\ Append(s, x)[k] = s[k]
    OBVIOUS
  <2> QED BY <2>1 DEF Range
<1>3. x \in Range(Append(s, x))
  <2>1. Len(s) + 1 \in DOMAIN Append(s, x) /\ Append(s, x)[Len(s) + 1] = x
    OBVIOUS
  <2> QED BY <2>1 DEF Range
<1> QED BY <1>1, <1>2, <1>3

\* The message that a sequence of messages grows by.
LEMMA AppendLog ==
    ASSUME NEW l \in Seq(MessageSet), NEW m \in MessageSet
    PROVE  /\ Append(l, m) \in Seq(MessageSet)
           /\ Len(Append(l, m)) = Len(l) + 1
           /\ DOMAIN l = 1 .. Len(l) /\ DOMAIN Append(l, m) = 1 .. Len(l) + 1
           /\ \A i \in 1 .. Len(l) : Append(l, m)[i] = l[i]
           /\ Append(l, m)[Len(l) + 1] = m
           /\ Range(Append(l, m)) = Range(l) \cup {m}
           /\ Len(l) \in Nat
BY RangeAppend

\* What a message is made of.
LEMMA MessageParts ==
    ASSUME NEW m \in MessageSet
    PROVE  /\ m.parts \in Seq(PartSet) /\ Range(m.parts) \subseteq PartSet
           /\ m.role \in {"user", "assistant", "tool"}
BY InRange DEF MessageSet

\* The kinds of parts.
LEMMA PartKinds ==
    ASSUME NEW p \in PartSet
    PROVE  /\ p.kind \in {"text", "call", "result", "reminder", "request", "compaction"}
           /\ p.kind = "text" => p.full \in BOOLEAN /\ p = TextPart(p.full)
           /\ p.kind = "call" => p.id \in Ids /\ p.tool \in Tool
           /\ p.kind = "result" => p.id \in Ids /\ p.ok \in BOOLEAN /\ p = ResultPart(p.id, p.ok)
           /\ p.kind = "reminder" =>
                 /\ p.of \in {"settled", "recovery", "outcome"}
                 /\ p.key \in SUBSET (Nat \cup Ids)
                 /\ p = ReminderPart(p.of, p.key)
           /\ p.kind = "compaction" => p.of \subseteq Nat /\ p.covers \subseteq Nat
BY DEF PartSet, TextPart, ResultPart, ReminderPart

\* The parts that the loop makes.
LEMMA MadeParts ==
    /\ \A b \in BOOLEAN : TextPart(b) \in PartSet
    /\ \A id \in Ids, t \in Tool : CallPart(id, t) \in PartSet
    /\ \A id \in Ids, ok \in BOOLEAN : ResultPart(id, ok) \in PartSet
    /\ \A of \in {"settled", "recovery", "outcome"}, key \in SUBSET (Nat \cup Ids) :
          ReminderPart(of, key) \in PartSet
    /\ \A state \in {"pending", "committed", "failed"} : RequestPart(state) \in PartSet
    /\ \A of \in SUBSET Nat, covers \in SUBSET Nat : CompactionPart(of, covers) \in PartSet
BY DEF PartSet, TextPart, CallPart, ResultPart, ReminderPart, RequestPart, CompactionPart

-------------------------------------------------------------------------------
(* How the transcript grows.                                               *)

\* Nothing that a result rests on goes away.
Kept(l, new) ==
    /\ Len(l) <= Len(new)
    /\ \A i \in 1 .. Len(l) :
          /\ new[i].role = l[i].role
          /\ CallIds(l[i]) \subseteq CallIds(new[i])
          /\ Settled(l[i]) => Settled(new[i])

\* What suits a transcript suits what it grows into.
LEMMA SuitsKept ==
    ASSUME NEW l \in Seq(MessageSet), NEW new \in Seq(MessageSet), Kept(l, new),
           NEW j \in 1 .. Len(l), NEW p \in PartSet, Suits(l, j, p)
    PROVE  Suits(new, j, p)
<1>1. FitsRole(new[j].role, p.kind)
  BY DEF Kept, Suits
<1>2. ASSUME p.kind = "result"
      PROVE  /\ p.id[1] \in 1 .. j - 1
             /\ p.id \in CallIds(new[p.id[1]])
             /\ \A k \in p.id[1] + 1 .. j - 1 : Settled(new[k])
  <2>1. p.id[1] \in 1 .. j - 1 /\ p.id \in CallIds(l[p.id[1]])
    BY <1>2 DEF Suits
  <2>2. \A k \in p.id[1] + 1 .. j - 1 : Settled(l[k])
    BY <1>2 DEF Suits
  <2> PICK i \in 1 .. j - 1 : i = p.id[1]
    BY <2>1
  <2>3. Len(l) \in Nat /\ i \in 1 .. Len(l)
    OBVIOUS
  <2>4. \A k \in i + 1 .. j - 1 : k \in 1 .. Len(l)
    BY <2>3
  <2> QED BY <2>1, <2>2, <2>3, <2>4 DEF Kept
<1>3. p.kind = "call" => p.id[1] = j
  BY DEF Suits
<1>4. p.kind = "compaction" => Prefix(p.of, j)
  BY DEF Suits
<1> QED BY <1>1, <1>2, <1>3, <1>4 DEF Suits

\* A message without calls, results and summaries may be appended to any transcript.
Plain(m) ==
    /\ TextFirst(m.parts)
    /\ \A p \in Range(m.parts) :
          FitsRole(m.role, p.kind) /\ p.kind \notin {"call", "result", "compaction"}

\* Such a message keeps a transcript sound.
LEMMA SoundAppend ==
    ASSUME NEW l \in Seq(MessageSet), Sound(l), NEW m \in MessageSet, Plain(m)
    PROVE  Kept(l, Append(l, m)) /\ Sound(Append(l, m))
<1> DEFINE new == Append(l, m)
<1>1. /\ new \in Seq(MessageSet) /\ Len(new) = Len(l) + 1 /\ Len(l) \in Nat
      /\ DOMAIN new = 1 .. Len(l) + 1 /\ DOMAIN l = 1 .. Len(l)
      /\ \A i \in 1 .. Len(l) : new[i] = l[i]
      /\ new[Len(l) + 1] = m
  BY AppendLog
<1> HIDE DEF new
<1>2. Kept(l, new)
  BY <1>1 DEF Kept
<1>3. ASSUME NEW j \in 1 .. Len(l)
      PROVE  TextFirst(new[j].parts) /\ \A p \in Range(new[j].parts) : Suits(new, j, p)
  <2>1. new[j] = l[j] /\ l[j] \in MessageSet
    BY <1>1
  <2>2. Range(l[j].parts) \subseteq PartSet
    BY <2>1, MessageParts
  <2>3. TextFirst(l[j].parts) /\ \A p \in Range(l[j].parts) : Suits(l, j, p)
    BY <1>1 DEF Sound
  <2> QED BY <1>1, <1>2, <2>1, <2>2, <2>3, SuitsKept
<1>4. TextFirst(m.parts) /\ \A p \in Range(m.parts) : Suits(new, Len(l) + 1, p)
  BY <1>1 DEF Plain, Suits
<1>5. \A j \in 1 .. Len(l) + 1 : j \in 1 .. Len(l) \/ j = Len(l) + 1
  BY <1>1
<1>6. Sound(new)
  BY <1>1, <1>3, <1>4, <1>5 DEF Sound
<1> QED BY <1>2, <1>6 DEF new

\* So may the parts of a message be replaced by others that suit it.
Rewrite(l, c, parts) == [l EXCEPT ![c].parts = parts]

\* What a rewritten transcript looks like.
LEMMA RewriteLog ==
    ASSUME NEW l \in Seq(MessageSet), NEW c \in 1 .. Len(l), NEW parts \in Seq(PartSet)
    PROVE  /\ Rewrite(l, c, parts) \in Seq(MessageSet)
           /\ Len(Rewrite(l, c, parts)) = Len(l) /\ Len(l) \in Nat
           /\ DOMAIN l = 1 .. Len(l) /\ DOMAIN Rewrite(l, c, parts) = 1 .. Len(l)
           /\ \A i \in 1 .. Len(l) : i # c => Rewrite(l, c, parts)[i] = l[i]
           /\ Rewrite(l, c, parts)[c] = Message(l[c].role, parts)
           /\ Rewrite(l, c, parts)[c].role = l[c].role
           /\ Rewrite(l, c, parts)[c].parts = parts
<1>1. l[c] \in MessageSet
  OBVIOUS
<1>2. [l[c] EXCEPT !.parts = parts] = Message(l[c].role, parts)
  BY <1>1 DEF MessageSet, Message
<1>3. Message(l[c].role, parts) \in MessageSet
  BY <1>1 DEF MessageSet, Message
<1>4. Rewrite(l, c, parts) = [l EXCEPT ![c] = Message(l[c].role, parts)]
  BY <1>2 DEF Rewrite
<1>5. Message(l[c].role, parts).role = l[c].role /\ Message(l[c].role, parts).parts = parts
  BY DEF Message
<1> QED BY <1>3, <1>4, <1>5

Fitting(l, c, parts) ==
    /\ TextFirst(parts)
    /\ \A p \in Range(parts) : Suits(l, c, p)
    /\ CallIds(l[c]) \subseteq CallIds(Message(l[c].role, parts))
    /\ ~Settled(l[c])

\* Rewriting a message with what fits keeps a transcript sound.
LEMMA SoundRewrite ==
    ASSUME NEW l \in Seq(MessageSet), Sound(l), NEW c \in 1 .. Len(l), NEW parts \in Seq(PartSet),
           Fitting(l, c, parts)
    PROVE  Kept(l, Rewrite(l, c, parts)) /\ Sound(Rewrite(l, c, parts))
<1> DEFINE new == Rewrite(l, c, parts)
<1>1. /\ new \in Seq(MessageSet) /\ Len(new) = Len(l) /\ Len(l) \in Nat
      /\ DOMAIN new = 1 .. Len(l) /\ DOMAIN l = 1 .. Len(l)
      /\ \A i \in 1 .. Len(l) : i # c => new[i] = l[i]
      /\ new[c] = Message(l[c].role, parts)
      /\ new[c].role = l[c].role /\ new[c].parts = parts
  BY RewriteLog
<1> HIDE DEF new
<1>2. Kept(l, new)
  BY <1>1 DEF Kept, Fitting
<1>3. ASSUME NEW j \in 1 .. Len(l)
      PROVE  TextFirst(new[j].parts) /\ \A p \in Range(new[j].parts) : Suits(new, j, p)
  <2>1. CASE j # c
    <3>1. new[j] = l[j] /\ l[j] \in MessageSet
      BY <1>1, <2>1
    <3>2. Range(l[j].parts) \subseteq PartSet
      BY <3>1, MessageParts
    <3>3. TextFirst(l[j].parts) /\ \A p \in Range(l[j].parts) : Suits(l, j, p)
      BY <1>1 DEF Sound
    <3> QED BY <1>1, <1>2, <3>1, <3>2, <3>3, SuitsKept
  <2>2. CASE j = c
    <3>1. Range(parts) \subseteq PartSet
      BY InRange
    <3>2. \A p \in Range(parts) : Suits(new, c, p)
      BY <1>1, <1>2, <3>1, SuitsKept DEF Fitting
    <3> QED BY <1>1, <2>2, <3>2 DEF Fitting
  <2> QED BY <2>1, <2>2
<1>4. Sound(new)
  BY <1>1, <1>3 DEF Sound
<1> QED BY <1>2, <1>4 DEF new

-------------------------------------------------------------------------------
(* Finite sets of places.                                                  *)

\* A nonempty set of places in a sequence has a last one.
LEMMA LastPlace ==
    ASSUME NEW n \in Nat, NEW S \in SUBSET (1 .. n), S # {}
    PROVE  Max(S) \in S /\ \A j \in S : j <= Max(S)
<1> DEFINE T == {k \in Nat : n - k \in S}
<1>1. T \subseteq Nat /\ T # {}
  <2>1. PICK i \in S : TRUE
    OBVIOUS
  <2>2. i \in Int /\ n - i \in Nat /\ n - (n - i) = i
    BY ONLY <2>1, n \in Nat, S \in SUBSET (1 .. n)
  <2>3. n - i \in T
    BY ONLY <2>1, <2>2
  <2> QED BY <2>3
<1>2. PICK x \in T : \A y \in T : ~ (<<y, x>> \in OpToRel(<, Nat))
  BY <1>1, NatLessThanWellFounded, WFMin, Zenon
<1>3. ASSUME NEW y \in T PROVE x <= y
  <2>1. y < x => <<y, x>> \in OpToRel(<, Nat)
    BY ONLY <1>1, x \in T, y \in T DEF OpToRel
  <2>2. ~(y < x)
    BY <1>2, <2>1
  <2> QED BY ONLY <1>1, <2>2, x \in T, y \in T
<1>4. n - x \in S
  OBVIOUS
<1>5. ASSUME NEW j \in S PROVE j <= n - x
  <2>1. j \in Int /\ n - j \in Nat /\ n - (n - j) = j
    BY ONLY n \in Nat, S \in SUBSET (1 .. n), j \in S
  <2>2. n - j \in T
    BY ONLY <2>1, j \in S
  <2>3. x <= n - j
    BY <1>3, <2>2
  <2> QED BY ONLY <2>1, <2>3, x \in T, n \in Nat, T \subseteq Nat
<1>6. \E i \in S : \A j \in S : i >= j
  <2>1. \A j \in S : n - x >= j
    BY <1>5, <1>1
  <2> QED BY <1>4, <2>1
<1>7. Max(S) \in S /\ \A j \in S : Max(S) >= j
  BY <1>6, Zenon DEF Max
<1> QED BY <1>7

\* It has a first one, too.
LEMMA FirstPlace ==
    ASSUME NEW S \in SUBSET Nat, S # {}
    PROVE  Min(S) \in S /\ \A j \in S : Min(S) <= j
<1>1. PICK x \in S : \A y \in S : ~ (<<y, x>> \in OpToRel(<, Nat))
  BY NatLessThanWellFounded, WFMin, Zenon
<1>2. ASSUME NEW y \in S PROVE x <= y
  <2>1. y < x => <<y, x>> \in OpToRel(<, Nat)
    BY ONLY S \in SUBSET Nat, x \in S, y \in S DEF OpToRel
  <2>2. ~(y < x)
    BY <1>1, <2>1
  <2> QED BY ONLY <2>2, S \in SUBSET Nat, x \in S, y \in S
<1>3. \E i \in S : \A j \in S : i =< j
  BY <1>2
<1> QED BY <1>3, Zenon DEF Min

\* A finite set is listed without repetition.
LEMMA Listed ==
    ASSUME NEW S, IsFiniteSet(S)
    PROVE  SetToSeq(S) \in Seq(S) /\ Range(SetToSeq(S)) = S
<1> DEFINE n == Cardinality(S)
           s == SetToSeq(S)
<1>1. n \in Nat /\ \E f \in [1 .. n -> S] : IsInjective(f)
  BY FS_CardinalityType DEF ExistsBijection, Bijection, Injection
<1>2. s \in [1 .. n -> S] /\ IsInjective(s)
  BY <1>1, Zenon DEF SetToSeq
<1> HIDE DEF s
<1>3. s \in Injection(1 .. n, S)
  BY <1>2 DEF Injection
<1>4. Cardinality(1 .. n) = n
  BY <1>1, FS_Interval
<1>5. s \in Surjection(1 .. n, S)
  BY <1>3, <1>4, FS_Injection
<1>6. \A x \in S : \E k \in 1 .. n : s[k] = x
  BY <1>5 DEF Surjection
<1> HIDE DEF n
<1>7. s \in Seq(S)
  BY <1>1, <1>2
<1>8. Range(s) = S
  BY <1>2, <1>6 DEF Range
<1> QED BY <1>7, <1>8 DEF s

-------------------------------------------------------------------------------
(* Reminders.                                                              *)

\* Calls that failed lately are calls.
LEMMA FailedTyped ==
    ASSUME NEW l \in Seq(MessageSet)
    PROVE  FailedLately(l) \subseteq Ids
<1> DEFINE telling == {i \in Effective(l) :
                         \/ l[i].role \in {"assistant", "tool"}
                         \/ \E p \in Range(l[i].parts) : p.kind # "reminder"}
<1>1. telling \in SUBSET (1 .. Len(l)) /\ Len(l) \in Nat
  BY DEF Effective
<1>2. CASE telling = {}
  BY <1>2 DEF FailedLately
<1>3. CASE telling # {}
  <2>1. Max(telling) \in 1 .. Len(l)
    BY <1>1, <1>3, LastPlace
  <2> HIDE DEF telling
  <2>2. PICK i \in 1 .. Len(l) : i = Max(telling)
    BY <2>1
  <2>3. \A p \in Range(l[i].parts) : p \in PartSet
    BY MessageParts
  <2>4. \A p \in Parts(l[i], "result") : p.id \in Ids
    BY <2>3, PartKinds DEF Parts
  <2>5. {p.id : p \in {r \in Parts(l[i], "result") : ~r.ok}} \subseteq Ids
    BY <2>4
  <2>6. FailedLately(l) = {p.id : p \in {r \in Parts(l[i], "result") : ~r.ok}} \/ FailedLately(l) = {}
    BY <2>2 DEF FailedLately, telling
  <2> QED BY <2>5, <2>6
<1> QED BY <1>2, <1>3

\* The active reminders are few, and there is one of a kind.
LEMMA ActiveFacts ==
    ASSUME NEW l \in Seq(MessageSet)
    PROVE  /\ IsFiniteSet(Active(l)) /\ Active(l) \subseteq PartSet
           /\ \A r \in Active(l) : r.kind = "reminder" /\ r.of \in {"recovery", "outcome"}
           /\ \A r, s \in Active(l) : r.of = s.of => r = s
<1> DEFINE r1 == ReminderPart("recovery", {})
           r2 == ReminderPart("outcome", FailedLately(l))
<1>1. Active(l) \subseteq {r1} \cup {r2}
  BY DEF Active
<1>2. r1 \in PartSet /\ r2 \in PartSet
  BY FailedTyped, MadeParts
<1>3. r1.kind = "reminder" /\ r2.kind = "reminder" /\ r1.of = "recovery" /\ r2.of = "outcome"
  BY DEF ReminderPart
<1> HIDE DEF r1, r2
<1>4. IsFiniteSet({r1} \cup {r2})
  BY FS_Singleton, FS_Union
<1>5. IsFiniteSet(Active(l))
  BY <1>1, <1>4, FS_Subset
<1> QED BY <1>1, <1>2, <1>3, <1>5

\* A message of reminders only.
Reminding(m) == m.role = "user" /\ \A p \in Range(m.parts) : p.kind = "reminder"

\* One more such message changes nothing that reminders are about.
LEMMA ActiveAppend ==
    ASSUME NEW l \in Seq(MessageSet), Sound(l), NEW m \in MessageSet, Reminding(m)
    PROVE  /\ Effective(Append(l, m)) = Effective(l) \cup {Len(l) + 1}
           /\ Active(Append(l, m)) = Active(l)
<1> DEFINE new == Append(l, m)
<1>1. /\ DOMAIN new = 1 .. Len(l) + 1 /\ DOMAIN l = 1 .. Len(l) /\ Len(l) \in Nat
      /\ \A i \in 1 .. Len(l) : new[i] = l[i]
      /\ new[Len(l) + 1] = m
      /\ Range(new) = Range(l) \cup {m}
  BY AppendLog
<1> HIDE DEF new
<1>2. Parts(m, "compaction") = {}
  BY DEF Reminding, Parts
<1>3. ASSUME NEW x \in Range(l), NEW p \in Parts(x, "compaction") PROVE Len(l) + 1 \notin p.of
  <2>1. PICK j \in 1 .. Len(l) : l[j] = x
    BY InRange
  <2>2. Suits(l, j, p) /\ p.kind = "compaction"
    BY <1>1, <2>1 DEF Sound, Parts
  <2>3. \A y \in p.of : y < j
    BY <2>2 DEF Suits, Prefix
  <2> QED BY <1>1, <2>3
<1>4. Effective(new) = Effective(l) \cup {Len(l) + 1}
  <2>1. \A i : i \in Effective(new) <=>
               i \in 1 .. Len(l) + 1 /\ \A x \in Range(l) : \A p \in Parts(x, "compaction") : i \notin p.of
    BY <1>1, <1>2 DEF Effective
  <2>2. \A i : i \in Effective(l) <=>
               i \in 1 .. Len(l) /\ \A x \in Range(l) : \A p \in Parts(x, "compaction") : i \notin p.of
    BY <1>1 DEF Effective
  <2>3. \A i : i \in 1 .. Len(l) + 1 <=> i \in 1 .. Len(l) \/ i = Len(l) + 1
    BY <1>1
  <2> QED BY <1>3, <2>1, <2>2, <2>3
<1>5. Effective(l) \subseteq 1 .. Len(l)
  BY <1>1 DEF Effective
<1> DEFINE Telling(s) == {i \in Effective(s) :
                            \/ s[i].role \in {"assistant", "tool"}
                            \/ \E p \in Range(s[i].parts) : p.kind # "reminder"}
<1>6. Telling(new) = Telling(l) /\ Telling(l) \in SUBSET (1 .. Len(l))
  BY <1>1, <1>4, <1>5 DEF Reminding
<1>7. FailedLately(new) = FailedLately(l)
  <2>1. CASE Telling(l) = {}
    BY <1>6, <2>1 DEF FailedLately
  <2>2. CASE Telling(l) # {}
    <3>1. Max(Telling(l)) \in 1 .. Len(l)
      BY <1>1, <1>6, <2>2, LastPlace
    <3>2. new[Max(Telling(l))] = l[Max(Telling(l))]
      BY <1>1, <3>1
    <3> QED BY <1>6, <3>2 DEF FailedLately
  <2> QED BY <2>1, <2>2
<1>8. {i \in Effective(new) : Parts(new[i], "compaction") # {}}
         = {i \in Effective(l) : Parts(l[i], "compaction") # {}}
  BY <1>1, <1>2, <1>4, <1>5
<1>9. Active(new) = Active(l)
  BY <1>7, <1>8 DEF Active
<1> QED BY <1>4, <1>9 DEF new

\* What prepare_session_messages stores, and that it need not be stored again.
LEMMA Prepared ==
    ASSUME NEW l \in Seq(MessageSet), Sound(l)
    PROVE  /\ \/ WithReminders(l) = l
              \/ \E m \in MessageSet :
                    WithReminders(l) = Append(l, m) /\ Reminding(m) /\ Plain(m)
           /\ NewReminders(WithReminders(l)) = {}
<1>1. CASE NewReminders(l) = {}
  BY <1>1 DEF WithReminders
<1>2. CASE NewReminders(l) # {}
  <2> DEFINE R == NewReminders(l)
             m == Message("user", SetToSeq(R))
             new == Append(l, m)
  <2>1. R \subseteq Active(l)
    BY DEF NewReminders
  <2>2. IsFiniteSet(R)
    BY <2>1, ActiveFacts, FS_Subset
  <2> HIDE DEF R
  <2>3. SetToSeq(R) \in Seq(R) /\ Range(SetToSeq(R)) = R
    BY <2>2, Listed
  <2>4. R \subseteq PartSet /\ \A r \in R : r.kind = "reminder"
    BY <2>1, ActiveFacts
  <2>5. SetToSeq(R) \in Seq(PartSet)
    BY <2>3, <2>4
  <2>6. m.role = "user" /\ m.parts = SetToSeq(R) /\ m \in MessageSet
    BY <2>5 DEF Message, MessageSet
  <2>7. WithReminders(l) = new
    BY <1>2 DEF WithReminders, PersistCandidates, R
  <2> HIDE DEF m
  <2>8. Reminding(m)
    BY <2>3, <2>4, <2>6 DEF Reminding
  <2>9. TextFirst(m.parts)
    <3>1. \A k \in DOMAIN m.parts : m.parts[k] \in Range(m.parts)
      BY DEF Range
    <3> QED BY <3>1, <2>8 DEF TextFirst, Reminding
  <2>10. Plain(m)
    BY <2>8, <2>9 DEF Plain, Reminding, FitsRole
  <2>11. /\ DOMAIN new = 1 .. Len(l) + 1 /\ DOMAIN l = 1 .. Len(l) /\ Len(l) \in Nat
         /\ \A i \in 1 .. Len(l) : new[i] = l[i]
         /\ new[Len(l) + 1] = m
    BY <2>6, AppendLog
  <2>12. Effective(new) = Effective(l) \cup {Len(l) + 1} /\ Active(new) = Active(l)
    BY <2>6, <2>8, ActiveAppend
  <2> HIDE DEF new
  <2>13. Effective(l) \subseteq 1 .. Len(l)
    BY <2>11 DEF Effective
  <2>14. ASSUME NEW r \in Active(l)
         PROVE  Latest(new, r.of) # 0 /\ r \in Range(new[Latest(new, r.of)].parts)
    <3> DEFINE H(s) == {i \in Effective(s) : \E p \in Parts(s[i], "reminder") : p.of = r.of}
    <3>1. H(l) \in SUBSET (1 .. Len(l)) /\ H(new) \in SUBSET (1 .. Len(l) + 1)
      BY <2>11, <2>12, <2>13
    <3>2. Latest(l, r.of) = IF H(l) = {} THEN 0 ELSE Max(H(l))
      BY DEF Latest
    <3>3. Latest(new, r.of) = IF H(new) = {} THEN 0 ELSE Max(H(new))
      BY DEF Latest
    <3>4. CASE r \in R
      <4>1. r \in Parts(m, "reminder")
        BY <2>3, <2>4, <2>6, <3>4 DEF Parts
      <4>2. Len(l) + 1 \in H(new)
        BY <2>11, <2>12, <4>1
      <4> HIDE DEF H
      <4>3. Max(H(new)) \in H(new) /\ \A j \in H(new) : j <= Max(H(new))
        <5>1. Len(l) + 1 \in Nat /\ H(new) # {}
          BY <2>11, <4>2
        <5> QED BY <3>1, <5>1, LastPlace
      <4>4. Max(H(new)) = Len(l) + 1
        BY <2>11, <3>1, <4>2, <4>3
      <4> QED BY <2>11, <3>3, <4>1, <4>2, <4>4 DEF Parts
    <3>5. CASE r \notin R
      <4>1. Latest(l, r.of) # 0 /\ r \in Range(l[Latest(l, r.of)].parts)
        BY <3>5 DEF NewReminders, R
      <4>2. \A p \in Range(m.parts) : p.of # r.of
        BY <2>1, <2>3, <2>6, <3>5, ActiveFacts
      <4>3. Len(l) + 1 \notin H(new)
        BY <2>11, <4>2 DEF Parts
      <4>4. H(new) = H(l)
        BY <2>11, <2>12, <2>13, <4>3
      <4>5. Max(H(l)) \in 1 .. Len(l)
        BY <2>11, <3>1, <3>2, <4>1, LastPlace
      <4> HIDE DEF H
      <4> QED BY <2>11, <3>2, <3>3, <4>1, <4>4, <4>5
    <3> QED BY <3>4, <3>5
  <2>15. NewReminders(new) = {}
    BY <2>12, <2>14 DEF NewReminders
  <2> QED BY <2>6, <2>7, <2>8, <2>10, <2>15 DEF new
<1> QED BY <1>1, <1>2

-------------------------------------------------------------------------------
(* The projection.                                                         *)

Shown(l, i) ==
    {r \in Parts(l[i], "reminder") :
        r.of = "settled" \/ (r \in Active(l) /\ Latest(l, r.of) = i)}

\* What becomes of message i.
Rendered(l, i, line) ==
    /\ line.role = "system" => Owner(l, i) # 0
    /\ line.calls # {} => line.role = "assistant"
    /\ Owner(l, i) # 0 => line.calls = {} /\ line.results = {} /\ line.notes = {}
    /\ Owner(l, i) = 0 =>
          /\ l[i].role = "user" =>
                /\ line.role \in {"user", "none"} /\ line.calls = {} /\ line.results = {}
                /\ line.notes = Shown(l, i)
          /\ l[i].role = "assistant" =>
                line.calls = CallIds(l[i]) /\ line.results = {} /\ line.notes = {}
          /\ l[i].role = "tool" =>
                line.calls = {} /\ line.results = ResultIds(l[i]) /\ line.notes = {}

\* project_for_llm: what becomes of each message.
LEMMA Projected ==
    ASSUME NEW l \in Seq(MessageSet), NEW asking \in BOOLEAN
    PROVE  /\ DOMAIN Project(l, asking) = 1 .. Len(l)
           /\ \A i \in 1 .. Len(l) : Rendered(l, i, Project(l, asking)[i])
<1>1. DOMAIN Project(l, asking) = 1 .. Len(l)
  BY DEF Project
<1>2. ASSUME NEW i \in 1 .. Len(l) PROVE Rendered(l, i, Project(l, asking)[i])
  <2> DEFINE line == Project(l, asking)[i]
  <2>1. i \in DOMAIN l /\ l[i].role \in {"user", "assistant", "tool"}
    BY MessageParts
  <2>2. /\ Nothing.role = "none" /\ Nothing.calls = {} /\ Nothing.results = {} /\ Nothing.notes = {}
        /\ Line("system").role = "system" /\ Line("system").calls = {}
        /\ Line("system").results = {} /\ Line("system").notes = {}
    BY DEF Nothing, Line
  <2>3. CASE Owner(l, i) # 0
    <3>1. line = Nothing \/ line = Line("system")
      BY <2>1, <2>3 DEF Project
    <3> QED BY <2>2, <2>3, <3>1 DEF Rendered
  <2>4. CASE Owner(l, i) = 0
    <3>1. ShownReminders(l)[i] = Shown(l, i)
      <4>1. ASSUME NEW r \in Parts(l[i], "reminder"), r.of # "settled"
            PROVE  r.of \in {"recovery", "outcome"}
        <5>1. r \in PartSet /\ r.kind = "reminder"
          BY MessageParts DEF Parts
        <5> QED BY <4>1, <5>1, PartKinds
      <4> QED BY <2>1, <4>1 DEF ShownReminders, Shown
    <3>2. CASE l[i].role = "user"
      <4>1. line = ProjectUser(l[i], Shown(l, i), asking)
        BY <2>1, <2>4, <3>1, <3>2 DEF Project
      <4> DEFINE notes == Shown(l, i)
      <4> HIDE DEF notes
      <4>2. LET said == [Line("user") EXCEPT !.notes = notes]
            IN said.role = "user" /\ said.calls = {} /\ said.results = {} /\ said.notes = notes
        BY DEF Nothing, Line
      <4>3. \/ ProjectUser(l[i], notes, asking) = [Line("user") EXCEPT !.notes = notes]
            \/ ProjectUser(l[i], notes, asking) = Nothing /\ notes = {}
        BY DEF ProjectUser
      <4> QED BY <2>2, <2>4, <3>2, <4>1, <4>2, <4>3 DEF Rendered, notes
    <3>3. CASE l[i].role = "assistant"
      <4>1. line = ProjectAssistant(l[i])
        BY <2>1, <2>4, <3>3 DEF Project
      <4> DEFINE calls == CallIds(l[i])
      <4> HIDE DEF calls
      <4>2. LET said == [Line("assistant") EXCEPT !.calls = calls]
            IN said.role = "assistant" /\ said.calls = calls /\ said.results = {} /\ said.notes = {}
        BY DEF Nothing, Line
      <4>3. \/ ProjectAssistant(l[i]) = [Line("assistant") EXCEPT !.calls = calls]
            \/ ProjectAssistant(l[i]) = Nothing /\ calls = {}
        BY DEF ProjectAssistant, calls
      <4> QED BY <2>2, <2>4, <3>3, <4>1, <4>2, <4>3 DEF Rendered, calls
    <3>4. CASE l[i].role = "tool"
      <4>1. line = ProjectTool(l[i])
        BY <2>1, <2>4, <3>4 DEF Project
      <4> DEFINE results == ResultIds(l[i])
      <4> HIDE DEF results
      <4>2. LET said == [Line("tool") EXCEPT !.results = results]
            IN said.role = "tool" /\ said.calls = {} /\ said.results = results /\ said.notes = {}
        BY DEF Nothing, Line
      <4>3. \/ ProjectTool(l[i]) = [Line("tool") EXCEPT !.results = results]
            \/ ProjectTool(l[i]) = Nothing /\ results = {}
        BY DEF ProjectTool, results
      <4> QED BY <2>2, <2>4, <3>4, <4>1, <4>2, <4>3 DEF Rendered, results
    <3> QED BY <2>1, <3>2, <3>3, <3>4
  <2> QED BY <2>3, <2>4
<1> QED BY <1>1, <1>2

\* Owners are messages.
LEMMA OwnerPlace ==
    ASSUME NEW l \in Seq(MessageSet), NEW i
    PROVE  /\ Owner(l, i) \in 0 .. Len(l)
           /\ Owner(l, i) # 0 => \E p \in Parts(l[Owner(l, i)], "compaction") : i \in p.of
           /\ (\E o \in 1 .. Len(l) : \E p \in Parts(l[o], "compaction") : i \in p.of)
                 => Owner(l, i) # 0
<1> DEFINE owners == {o \in DOMAIN l : \E p \in Parts(l[o], "compaction") : i \in p.of}
<1>1. Owner(l, i) = IF owners = {} THEN 0 ELSE Max(owners)
  BY DEF Owner
<1>2. owners \in SUBSET (1 .. Len(l)) /\ Len(l) \in Nat
  OBVIOUS
<1>3. owners # {} => Max(owners) \in owners
  <2> HIDE DEF owners
  <2> QED BY <1>2, LastPlace
<1> QED BY <1>1, <1>2, <1>3

\* A summary has something to be about.
LEMMA SummarizedTyped ==
    ASSUME NEW l \in Seq(MessageSet)
    PROVE  Summarized(l) \subseteq Nat
<1> DEFINE view == Project(l, TRUE)
           systems == {i \in DOMAIN view : view[i].role = "system"}
           owner == Owner(l, Min(systems))
<1>1. DOMAIN view = 1 .. Len(l) /\ \A i \in 1 .. Len(l) : Rendered(l, i, view[i])
  BY Projected
<1> HIDE DEF view
<1>2. CASE systems = {}
  <2>1. Summarized(l) = {i \in DOMAIN view : view[i].role \in Body}
    BY <1>2 DEF Summarized, view
  <2> QED BY <1>1, <2>1
<1>3. CASE systems # {}
  <2>1. systems \in SUBSET Nat /\ systems \subseteq 1 .. Len(l)
    BY <1>1
  <2>2. Min(systems) \in systems
    BY <1>3, <2>1, FirstPlace
  <2>3. owner # 0
    BY <1>1, <2>2 DEF Rendered
  <2>4. owner \in 1 .. Len(l)
    BY <2>3, OwnerPlace
  <2> HIDE DEF owner
  <2>5. \A p \in Parts(l[owner], "compaction") : p.covers \subseteq Nat
    <3>1. l[owner] \in MessageSet
      BY <2>4
    <3>2. \A p \in Parts(l[owner], "compaction") : p \in PartSet /\ p.kind = "compaction"
      BY <3>1, MessageParts DEF Parts
    <3> QED BY <3>2, PartKinds
  <2>6. Summarized(l) = {i \in DOMAIN view : view[i].role \in Body}
                          \cup UNION {p.covers : p \in Parts(l[owner], "compaction")}
    BY <1>3 DEF Summarized, view, owner
  <2> QED BY <1>1, <2>5, <2>6
<1> QED BY <1>2, <1>3

\* The ids of a message's results are finitely many.
LEMMA ResultsFinite ==
    ASSUME NEW m \in MessageSet
    PROVE  IsFiniteSet(ResultIds(m))
<1> DEFINE D == {k \in 1 .. Len(m.parts) : m.parts[k].kind = "result"}
           f == [k \in D |-> m.parts[k].id]
<1>1. m.parts \in Seq(PartSet) /\ Len(m.parts) \in Nat
  BY MessageParts
<1>2. IsFiniteSet(D)
  <2>1. IsFiniteSet(1 .. Len(m.parts)) /\ D \in SUBSET (1 .. Len(m.parts))
    BY <1>1, FS_Interval, SMTT(40)
  <2> QED BY <2>1, FS_Subset
<1>3. \A x \in ResultIds(m) : \E k \in D : f[k] = x
  BY <1>1, InRange DEF ResultIds, Parts
<1>4. \A k \in D : f[k] \in ResultIds(m)
  BY <1>1, InRange DEF ResultIds, Parts
<1>5. f \in Surjection(D, ResultIds(m))
  BY <1>3, <1>4 DEF Surjection
<1> QED BY <1>2, <1>5, FS_Surjection

\* What a line is.
LEMMA RowFacts ==
    ASSUME NEW view, NEW roles
    PROVE  /\ Lines(view, roles) = Cardinality(Places(view, roles))
           /\ \A r \in Places(view, roles) :
                 \E i \in DOMAIN view :
                    /\ view[i].role \in roles /\ r[1] = i
                    /\ view[i].role # "tool" => r = <<i, <<>>>>
           /\ \A i \in DOMAIN view : view[i].role \in roles =>
                 /\ view[i].role # "tool" => <<i, <<>>>> \in Places(view, roles)
                 /\ view[i].role = "tool" => \A id \in view[i].results : <<i, id>> \in Places(view, roles)
<1>1. Lines(view, roles) = Cardinality(Places(view, roles))
  BY DEF Lines, Places
<1> DEFINE X(i) == IF view[i].role = "tool" THEN view[i].results ELSE {<<>>}
<1>2. \A r : r \in Places(view, roles) <=>
          \E i \in DOMAIN view : view[i].role \in roles /\ r \in {i} \X X(i)
  BY Zenon DEF Places
<1>3. ASSUME NEW r \in Places(view, roles)
      PROVE  \E i \in DOMAIN view :
                /\ view[i].role \in roles /\ r[1] = i
                /\ view[i].role # "tool" => r = <<i, <<>>>>
  <2>1. PICK i \in DOMAIN view : view[i].role \in roles /\ r \in {i} \X X(i)
    BY <1>2
  <2>2. PICK x \in X(i) : r = <<i, x>>
    BY <2>1
  <2> QED BY <2>1, <2>2
<1>4. ASSUME NEW i \in DOMAIN view, view[i].role \in roles, NEW x \in X(i)
      PROVE  <<i, x>> \in Places(view, roles)
  BY <1>2, <1>4
<1> QED BY <1>1, <1>3, <1>4

\* They are finitely many when the results of each message are.
LEMMA PlacesFinite ==
    ASSUME NEW n \in Nat, NEW view, NEW roles, DOMAIN view = 1 .. n,
           \A i \in 1 .. n : IsFiniteSet(view[i].results)
    PROVE  IsFiniteSet(Places(view, roles))
<1> DEFINE X(i) == IF view[i].role = "tool" THEN view[i].results ELSE {<<>>}
           f == [i \in 1 .. n |-> X(i)]
           all == UNION {f[i] : i \in 1 .. n}
<1>3. \A i \in 1 .. n : IsFiniteSet(f[i])
  BY FS_Singleton
<1>4. IsFiniteSet({f[i] : i \in 1 .. n})
  <2> DEFINE T == {f[i] : i \in 1 .. n}
  <2> HIDE DEF f
  <2>0. DOMAIN f = 1 .. n /\ f = [i \in 1 .. n |-> f[i]]
    BY DEF f
  <2>1. f \in Surjection(1 .. n, T)
    BY <2>0 DEF Surjection
  <2>2. IsFiniteSet(1 .. n)
    BY FS_Interval
  <2> QED BY <2>1, <2>2, FS_Surjection
<1>5. IsFiniteSet(all)
  BY <1>3, <1>4, FS_UNION
<1>6. IsFiniteSet((1 .. n) \X all)
  <2> HIDE DEF all
  <2>1. IsFiniteSet(1 .. n)
    BY FS_Interval
  <2> QED BY <1>5, <2>1, FS_Product
<1>7. Places(view, roles) \subseteq (1 .. n) \X all
  <2> SUFFICES ASSUME NEW i \in 1 .. n, NEW x \in X(i) PROVE <<i, x>> \in (1 .. n) \X all
    BY DEF Places
  <2>1. x \in f[i]
    OBVIOUS
  <2> QED BY <2>1
<1> QED BY <1>6, <1>7, FS_Subset

\* The results of a line are.
LEMMA RenderedFinite ==
    ASSUME NEW l \in Seq(MessageSet), NEW i \in 1 .. Len(l), NEW line, Rendered(l, i, line)
    PROVE  IsFiniteSet(line.results)
<1>1. l[i] \in MessageSet /\ l[i].role \in {"user", "assistant", "tool"}
  BY MessageParts
<1>2. line.results = {} \/ line.results = ResultIds(l[i])
  BY <1>1 DEF Rendered
<1> QED BY <1>1, <1>2, ResultsFinite, FS_EmptySet

\* So are the lines of a projection.
LEMMA RowsFinite ==
    ASSUME NEW l \in Seq(MessageSet), NEW roles
    PROVE  /\ IsFiniteSet(Places(Project(l, FALSE), roles))
           /\ Lines(Project(l, FALSE), roles) \in Nat
<1> DEFINE view == Project(l, FALSE)
<1>1. DOMAIN view = 1 .. Len(l) /\ \A i \in 1 .. Len(l) : Rendered(l, i, view[i])
  BY Projected
<1> HIDE DEF view
<1>2. \A i \in 1 .. Len(l) : IsFiniteSet(view[i].results)
  BY <1>1, RenderedFinite
<1>3. Len(l) \in Nat
  OBVIOUS
<1>4. IsFiniteSet(Places(view, roles))
  BY <1>1, <1>2, <1>3, PlacesFinite
<1>5. Lines(view, roles) \in Nat
  BY <1>4, RowFacts, FS_CardinalityType
<1> QED BY <1>4, <1>5 DEF view

\* What a compaction keeps is a number.
LEMMA KeepTyped ==
    ASSUME NEW l \in Seq(MessageSet)
    PROVE  Keep(Project(l, FALSE)) \in Nat
<1> DEFINE roles == Body \cup {"system"}
           lines == Lines(Project(l, FALSE), roles)
<1>1. lines \in Nat
  BY RowsFinite, Zenon
<1>2. Keep(Project(l, FALSE)) = Min({PreserveRecent, lines})
  BY Zenon DEF Keep
<1> HIDE DEF lines
<1>3. {PreserveRecent, lines} \in SUBSET Nat
  BY <1>1, ProjectionAssumption DEF ProjectionAssumption
<1>4. Min({PreserveRecent, lines}) \in Nat
  BY <1>3, FirstPlace
<1> QED BY <1>2, <1>4, Zenon

\* A compaction is about the first messages.
LEMMA SupersededPrefix ==
    ASSUME NEW l \in Seq(MessageSet), NEW keep \in Nat
    PROVE  Superseded(l, keep) \subseteq Nat /\ Prefix(Superseded(l, keep), Len(l) + 1)
BY DEF Superseded, Prefix

-------------------------------------------------------------------------------
(* What the steps do to the transcript.                                    *)

\* One write of a part.
LEMMA PutFacts ==
    ASSUME NEW m \in MessageSet, NEW p \in PartSet, TextFirst(m.parts),
           p.kind = "text" => Blank(m)
    PROVE  /\ Put(m.parts, p) \in Seq(PartSet) /\ TextFirst(Put(m.parts, p))
           /\ Range(Put(m.parts, p)) \subseteq Range(m.parts) \cup {p}
           /\ p \in Range(Put(m.parts, p))
           /\ \A q \in Range(m.parts) : q.kind # "text" => q \in Range(Put(m.parts, p))
           /\ p.kind # "text" => Range(Put(m.parts, p)) = Range(m.parts) \cup {p}
<1>1. m.parts \in Seq(PartSet) /\ Len(m.parts) \in Nat
  BY MessageParts
<1>2. CASE p.kind # "text"
  <2>1. Put(m.parts, p) = Append(m.parts, p)
    BY <1>2 DEF Put
  <2>2. Range(Append(m.parts, p)) = Range(m.parts) \cup {p}
    BY <1>1, RangeAppend
  <2>3. Append(m.parts, p) \in Seq(PartSet)
    BY <1>1
  <2>4. TextFirst(Append(m.parts, p))
    BY <1>1, <1>2 DEF TextFirst
  <2> QED BY <2>1, <2>2, <2>3, <2>4
<1>3. CASE p.kind = "text"
  <2>1. Put(m.parts, p) = <<p>>
    <3>1. CASE m.parts = <<>>
      BY <1>1, <3>1 DEF Put
    <3>2. CASE m.parts = <<TextPart(FALSE)>>
      <4>1. m.parts # <<>> /\ Tail(m.parts) = <<>>
        BY <3>2
      <4>2. Put(m.parts, p) = <<p>> \o Tail(m.parts)
        BY <1>3, <4>1 DEF Put
      <4>3. <<p>> \o <<>> = <<p>>
        OBVIOUS
      <4> QED BY <4>1, <4>2, <4>3
    <3> QED BY <1>3, <3>1, <3>2 DEF Blank
  <2>2. Range(<<p>>) = {p}
    BY DEF Range
  <2>3. \A q \in Range(m.parts) : q.kind = "text"
    BY <1>3 DEF Blank, Range, TextPart
  <2>4. <<p>> \in Seq(PartSet) /\ TextFirst(<<p>>)
    BY DEF TextFirst
  <2> QED BY <1>3, <2>1, <2>2, <2>3, <2>4
<1> QED BY <1>2, <1>3

\* The first of the parts to be written, and the others.
LEMMA TodoFacts ==
    ASSUME NEW todo \in Seq(PartSet), todo # <<>>
    PROVE  /\ Head(todo) \in PartSet /\ Head(todo) \in Range(todo)
           /\ Tail(todo) \in Seq(PartSet)
           /\ Range(todo) = {Head(todo)} \cup Range(Tail(todo))
           /\ TextFirst(todo) => \A p \in Range(Tail(todo)) : p.kind # "text"
<1>1. Head(todo) = todo[1] /\ 1 \in 1 .. Len(todo) /\ Len(todo) \in Nat /\ DOMAIN todo = 1 .. Len(todo)
  OBVIOUS
<1>2. /\ Tail(todo) \in Seq(PartSet) /\ Len(Tail(todo)) = Len(todo) - 1
      /\ \A k \in 1 .. Len(todo) - 1 : Tail(todo)[k] = todo[k + 1]
  OBVIOUS
<1>3. \A p \in Range(Tail(todo)) : \E k \in 2 .. Len(todo) : todo[k] = p
  <2> SUFFICES ASSUME NEW p \in Range(Tail(todo)) PROVE \E k \in 2 .. Len(todo) : todo[k] = p
    OBVIOUS
  <2>1. PICK k \in 1 .. Len(Tail(todo)) : Tail(todo)[k] = p
    BY <1>2, InRange
  <2>2. k + 1 \in 2 .. Len(todo) /\ todo[k + 1] = p
    BY <1>1, <1>2, <2>1
  <2> QED BY <2>2
<1>4. \A k \in 2 .. Len(todo) : todo[k] \in Range(Tail(todo))
  <2> SUFFICES ASSUME NEW k \in 2 .. Len(todo) PROVE todo[k] \in Range(Tail(todo))
    OBVIOUS
  <2>1. k - 1 \in 1 .. Len(Tail(todo)) /\ Tail(todo)[k - 1] = todo[k]
    BY <1>1, <1>2
  <2> QED BY <1>2, <2>1, InRange
<1>5. \A x \in Range(todo) : x = todo[1] \/ \E k \in 2 .. Len(todo) : todo[k] = x
  BY <1>1, InRange
<1>6. \A k \in 1 .. Len(todo) : todo[k] \in Range(todo) /\ todo[k] \in PartSet
  BY InRange
<1>7. Range(todo) = {Head(todo)} \cup Range(Tail(todo))
  BY <1>1, <1>3, <1>4, <1>5, <1>6
<1>8. TextFirst(todo) => \A p \in Range(Tail(todo)) : p.kind # "text"
  BY <1>1, <1>3 DEF TextFirst
<1> QED BY <1>1, <1>2, <1>6, <1>7, <1>8

\* The types of the locals.
LEMMA LoopFields ==
    ASSUME NEW x \in LoopSet
    PROVE  /\ x.pc \in {"idle", "top", "check", "create", "stream", "tail", "tools", "before", "mark",
                        "commit", "reject", "after"}
           /\ x.manual \in BOOLEAN /\ x.steps \in Nat /\ x.compacted \in BOOLEAN
           /\ x.history \in Seq(SummarySet) /\ x.seen \in Nat /\ x.cur \in Nat
           /\ x.todo \in Seq(PartSet) /\ x.marker \in Nat /\ x.keep \in Nat
           /\ x.cut \in SUBSET Nat /\ x.covers \in SUBSET Nat
BY DEF LoopSet

\* The next part that is to be written fits.
LEMMA WriteFits ==
    ASSUME Typed, Sound(log), Pending, Write
    PROVE  /\ loop.cur \in 1 .. Len(log) /\ log[loop.cur] \in MessageSet
           /\ log' = Rewrite(log, loop.cur, Put(log[loop.cur].parts, Head(loop.todo)))
           /\ Put(log[loop.cur].parts, Head(loop.todo)) \in Seq(PartSet)
           /\ Fitting(log, loop.cur, Put(log[loop.cur].parts, Head(loop.todo)))
<1> DEFINE c == loop.cur
           m == log[c]
           p == Head(loop.todo)
           parts == Put(m.parts, p)
<1>1. loop.todo # <<>> /\ loop.todo \in Seq(PartSet)
  BY LoopFields DEF Write, Typed
<1>2. p \in PartSet /\ p \in Range(loop.todo)
  BY <1>1, TodoFacts
<1>3. c \in 1 .. Len(log) /\ m \in MessageSet /\ ~Settled(m)
  BY <1>1 DEF Pending, Typed
<1>4. Suits(log, c, p) /\ (p.kind = "text" => Blank(m))
  BY <1>1, <1>2 DEF Pending
<1>5. TextFirst(m.parts) /\ \A q \in Range(m.parts) : Suits(log, c, q)
  BY <1>3 DEF Sound, Typed
<1>6. log' = Rewrite(log, c, parts)
  BY DEF Write, Rewrite
<1> HIDE DEF p
<1>7. /\ parts \in Seq(PartSet) /\ TextFirst(parts)
      /\ Range(parts) \subseteq Range(m.parts) \cup {p}
      /\ \A q \in Range(m.parts) : q.kind # "text" => q \in Range(parts)
  BY <1>2, <1>3, <1>4, <1>5, PutFacts
<1> HIDE DEF parts, m, c
<1>8. CallIds(m) \subseteq CallIds(Message(m.role, parts))
  BY <1>7 DEF CallIds, Parts, Message
<1>9. Fitting(log, c, parts)
  BY <1>3, <1>4, <1>5, <1>7, <1>8 DEF Fitting, m
<1> QED BY <1>3, <1>6, <1>7, <1>9 DEF p, parts, m, c

\* A plain message is added.
Grown == \E m \in MessageSet : Plain(m) /\ log' = Append(log, m)

\* The parts of a message are replaced.
Rewritten ==
    \E c \in 1 .. Len(log), parts \in Seq(PartSet) :
        Fitting(log, c, parts) /\ log' = Rewrite(log, c, parts)

\* However the transcript changes, it stays sound and keeps what results rest on.
LEMMA LogStep ==
    ASSUME Typed, Sound(log), log' = log \/ Grown \/ Rewritten
    PROVE  log' \in Seq(MessageSet) /\ Sound(log') /\ Kept(log, log')
<1>1. CASE log' = log
  BY <1>1 DEF Typed, Kept
<1>2. CASE Grown
  BY <1>2, AppendLog, SoundAppend DEF Typed, Grown
<1>3. CASE Rewritten
  BY <1>3, RewriteLog, SoundRewrite DEF Typed, Rewritten
<1> QED BY <1>1, <1>2, <1>3

\* New messages start empty.
LEMMA EmptyMessage ==
    ASSUME NEW role \in {"user", "assistant", "tool"}
    PROVE  Message(role, <<>>) \in MessageSet /\ Plain(Message(role, <<>>))
<1>1. Message(role, <<>>) \in MessageSet /\ Message(role, <<>>).parts = <<>>
  BY DEF Message, MessageSet
<1>2. Range(<<>>) = {}
  BY DEF Range
<1> QED BY <1>1, <1>2 DEF Plain, TextFirst

\* The message of a settlement.
LEMMA SettledMessage ==
    ASSUME NEW key \in SUBSET Nat
    PROVE  LET m == Message("user", <<ReminderPart("settled", key)>>)
           IN m \in MessageSet /\ Plain(m) /\ Settled(m) /\ m.role = "user"
<1> DEFINE p == ReminderPart("settled", key)
           m == Message("user", <<p>>)
<1>1. p \in PartSet
  BY MadeParts
<1>2. p.kind = "reminder" /\ p.of = "settled"
  BY DEF ReminderPart
<1> HIDE DEF p
<1>3. m.role = "user" /\ m.parts = <<p>> /\ m \in MessageSet
  BY <1>1 DEF Message, MessageSet
<1>4. Range(<<p>>) = {p}
  BY DEF Range
<1> HIDE DEF m
<1>5. Settled(m)
  BY <1>2, <1>3, <1>4 DEF Settled
<1>6. TextFirst(m.parts)
  BY <1>3 DEF TextFirst
<1>7. Plain(m)
  BY <1>2, <1>3, <1>4, <1>6 DEF Plain, FitsRole
<1> QED BY <1>3, <1>5, <1>7 DEF m, p

\* prepare_session_messages adds one message or none.
LEMMA RemindersStep ==
    ASSUME Typed, Sound(log), log' = WithReminders(log)
    PROVE  log' = log \/ Grown
BY Prepared DEF Typed, Grown

\* set_compaction_request_state
LEMMA MarkStep ==
    ASSUME Typed, Sound(log), Located, loop.marker # 0,
           NEW state \in {"pending", "committed", "failed"}, Mark(state)
    PROVE  /\ Rewritten
           /\ loop.marker \in 1 .. Len(log) /\ <<RequestPart(state)>> \in Seq(PartSet)
           /\ log' = Rewrite(log, loop.marker, <<RequestPart(state)>>)
<1> DEFINE p == RequestPart(state)
           c == loop.marker
<1>1. p \in PartSet /\ p.kind = "request"
  BY MadeParts DEF RequestPart
<1>2. c \in 1 .. Len(log) /\ log[c].role = "user" /\ ~Settled(log[c])
  BY DEF Located, Typed
<1>3. log' = Rewrite(log, c, <<p>>)
  BY DEF Mark, Rewrite
<1> HIDE DEF p, c
<1>4. <<p>> \in Seq(PartSet) /\ Range(<<p>>) = {p} /\ TextFirst(<<p>>)
  BY <1>1 DEF Range, TextFirst
<1>5. Suits(log, c, p)
  BY <1>1, <1>2 DEF Suits, FitsRole
<1>6. CallIds(log[c]) = {}
  <2>1. \A q \in Range(log[c].parts) : Suits(log, c, q)
    BY <1>2 DEF Sound, Typed
  <2> QED BY <1>2, <2>1 DEF Suits, FitsRole, CallIds, Parts
<1>7. Fitting(log, c, <<p>>)
  BY <1>2, <1>4, <1>5, <1>6 DEF Fitting
<1> QED BY <1>2, <1>3, <1>4, <1>7 DEF Rewritten, p, c

\* The shell of a text.
LEMMA ShellStep ==
    ASSUME Typed, Sound(log), Located, TextDelta
    PROVE  /\ Rewritten
           /\ loop.cur \in 1 .. Len(log) /\ <<TextPart(FALSE)>> \in Seq(PartSet)
           /\ log' = Rewrite(log, loop.cur, <<TextPart(FALSE)>>)
<1> DEFINE p == TextPart(FALSE)
           c == loop.cur
<1>1. p \in PartSet /\ p.kind = "text"
  BY MadeParts DEF TextPart
<1>2. c \in 1 .. Len(log) /\ log[c].role = "assistant" /\ log[c].parts = <<>>
  BY DEF Located, Typed, TextDelta, Streaming
<1>3. log' = Rewrite(log, c, <<p>>)
  BY DEF TextDelta, Rewrite
<1> HIDE DEF p, c
<1>4. <<p>> \in Seq(PartSet) /\ Range(<<p>>) = {p} /\ TextFirst(<<p>>)
  BY <1>1 DEF Range, TextFirst
<1>5. Suits(log, c, p)
  BY <1>1, <1>2 DEF Suits, FitsRole
<1>6. CallIds(log[c]) = {}
  BY <1>2 DEF CallIds, Parts, Range
<1>7. Fitting(log, c, <<p>>)
  BY <1>2, <1>4, <1>5, <1>6 DEF Fitting, Settled
<1> QED BY <1>2, <1>3, <1>4, <1>7 DEF Rewritten, p, c

\* Every step keeps the transcript sound.
LEMMA NextLog ==
    ASSUME Typed, Sound(log), Pending, Located, Next
    PROVE  log' \in Seq(MessageSet) /\ Sound(log') /\ Kept(log, log')
<1> SUFFICES log' = log \/ Grown \/ Rewritten
  BY LogStep
<1>1. CASE Prompt
  BY <1>1, EmptyMessage DEF Prompt, Grown
<1>2. CASE Wake
  BY <1>2 DEF Wake
<1>3. CASE Compact
  BY <1>3, RemindersStep DEF Compact
<1>4. CASE Settle
  BY <1>4, SettledMessage DEF Settle, Grown, Typed
<1>5. CASE StepsUsedUp \/ WindowFull \/ Proceed \/ Finish \/ TurnFails \/ StepDone
           \/ BeforeHookStops \/ SummaryDone \/ Fault
  BY <1>5 DEF StepsUsedUp, WindowFull, Proceed, Finish, TurnFails, StepDone,
              BeforeHookStops, SummaryDone, Fault
<1>6. CASE Prepare
  BY <1>6, RemindersStep DEF Prepare
<1>7. CASE Create
  BY <1>7, EmptyMessage DEF Create, Grown
<1>8. CASE TextDelta
  BY <1>8, ShellStep
<1>9. CASE Write
  BY <1>9, WriteFits DEF Rewritten
<1>10. CASE RunTools
  BY <1>10, EmptyMessage DEF RunTools, Grown
<1>11. CASE Request
  BY <1>11, EmptyMessage DEF Request, Grown
<1>12. CASE Ask
  BY <1>12, RemindersStep DEF Ask
<1>13. CASE Commit
  BY <1>13, MarkStep DEF Commit, At, Located
<1>14. CASE Reject
  BY <1>14, MarkStep DEF Reject, At, Located
<1>15. CASE AfterCompaction
  BY <1>15, RemindersStep DEF AfterCompaction
<1> QED BY <1>1, <1>2, <1>3, <1>4, <1>5, <1>6, <1>7, <1>8, <1>9, <1>10, <1>11, <1>12, <1>13, <1>14, <1>15 DEF Next

-------------------------------------------------------------------------------
(* The results of a step.                                                  *)

\* Text and calls, in this order.
CallsOnly(m) == TextFirst(m.parts) /\ \A p \in Range(m.parts) : p.kind \in {"text", "call"}

\* collect_tool_calls finds the calls.
LEMMA CallsFacts ==
    ASSUME NEW m \in MessageSet, CallsOnly(m)
    PROVE  Calls(m) \in Seq(PartSet) /\ Range(Calls(m)) = Parts(m, "call")
<1>1. m.parts \in Seq(PartSet)
  BY MessageParts
<1>2. CASE Parts(m, "text") = {}
  <2>1. \A p \in Range(m.parts) : p.kind = "call"
    BY <1>2 DEF CallsOnly, Parts
  <2> QED BY <1>1, <1>2, <2>1 DEF Calls, Parts
<1>3. CASE Parts(m, "text") # {}
  <2>1. PICK p \in Range(m.parts) : p.kind = "text"
    BY <1>3 DEF Parts
  <2>2. PICK k \in 1 .. Len(m.parts) : m.parts[k] = p
    BY <1>1, InRange
  <2>3. k = 1 /\ m.parts # <<>>
    BY <1>1, <2>1, <2>2 DEF CallsOnly, TextFirst
  <2>4. Head(m.parts) = p
    BY <1>1, <2>2, <2>3
  <2>5. /\ Tail(m.parts) \in Seq(PartSet)
        /\ Range(m.parts) = {Head(m.parts)} \cup Range(Tail(m.parts))
        /\ \A q \in Range(Tail(m.parts)) : q.kind # "text"
    BY <1>1, <2>3, TodoFacts DEF CallsOnly
  <2>6. Range(Tail(m.parts)) = Parts(m, "call")
    BY <2>1, <2>4, <2>5 DEF CallsOnly, Parts
  <2> QED BY <1>3, <2>5, <2>6 DEF Calls
<1> QED BY <1>2, <1>3

\* merge_with_denied: each call has its result, and nothing else has.
LEMMA MergeFacts ==
    ASSUME NEW m \in MessageSet, CallsOnly(m), NEW denied, NEW ok
    PROVE  LET results == Merge(Calls(m), denied, ok)
           IN /\ results \in Seq(PartSet)
              /\ \A r \in Range(results) : r.kind = "result" /\ r.id \in CallIds(m)
              /\ \A id \in CallIds(m) : \E r \in Range(results) : r.id = id
<1> DEFINE calls == Calls(m)
           good(i) == calls[i].id \in ok /\ calls[i].id \notin denied
           results == Merge(calls, denied, ok)
<1>1. calls \in Seq(PartSet) /\ Range(calls) = Parts(m, "call")
  BY CallsFacts
<1> HIDE DEF calls
<1>2. DOMAIN calls = 1 .. Len(calls) /\ Len(calls) \in Nat
  BY <1>1
<1>3. \A i \in 1 .. Len(calls) : calls[i] \in PartSet /\ calls[i].kind = "call"
  BY <1>1, InRange DEF Parts
<1>4. \A i \in 1 .. Len(calls) : calls[i].id \in Ids /\ calls[i].id \in CallIds(m)
  <2>1. \A i \in 1 .. Len(calls) : calls[i] \in Parts(m, "call")
    BY <1>1, InRange
  <2> QED BY <1>3, <2>1, PartKinds DEF CallIds
<1>5. results = [i \in 1 .. Len(calls) |-> ResultPart(calls[i].id, good(i))]
  BY <1>2 DEF Merge
<1>6. \A i \in 1 .. Len(calls) : ResultPart(calls[i].id, good(i)) \in PartSet
  <2>1. \A i \in 1 .. Len(calls) : good(i) \in BOOLEAN
    OBVIOUS
  <2> HIDE DEF good
  <2> QED BY <1>4, <2>1, MadeParts
<1>7. \A i \in 1 .. Len(calls) :
         /\ ResultPart(calls[i].id, good(i)).kind = "result"
         /\ ResultPart(calls[i].id, good(i)).id = calls[i].id
  BY DEF ResultPart
<1> HIDE DEF results, good
<1>8. /\ results \in Seq(PartSet) /\ Len(results) = Len(calls)
      /\ \A i \in 1 .. Len(calls) : results[i] = ResultPart(calls[i].id, good(i))
  BY <1>2, <1>5, <1>6
<1>9. \A r \in Range(results) : r.kind = "result" /\ r.id \in CallIds(m)
  BY <1>4, <1>7, <1>8, InRange
<1>10. ASSUME NEW id \in CallIds(m) PROVE \E r \in Range(results) : r.id = id
  <2>1. PICK p \in Parts(m, "call") : p.id = id
    BY DEF CallIds
  <2>2. PICK i \in 1 .. Len(calls) : calls[i] = p
    BY <1>1, <2>1, InRange
  <2>3. results[i] \in Range(results) /\ results[i].id = id
    BY <1>7, <1>8, <2>1, <2>2, InRange
  <2> QED BY <2>3
<1> QED BY <1>8, <1>9, <1>10 DEF results, calls

\* What the doom guard is shown.
LEMMA SummaryTyped ==
    ASSUME NEW m \in MessageSet, NEW results
    PROVE  DoomSummary(m, results) \in SummarySet
<1>1. \A p \in Parts(m, "call") : p \in PartSet /\ p.kind = "call"
  BY MessageParts DEF Parts
<1>2. {p.tool : p \in Parts(m, "call")} \in SUBSET Tool
  BY <1>1, PartKinds
<1>3. HasText(m) \in BOOLEAN
  BY DEF HasText
<1> DEFINE wrote == \E p \in Parts(m, "call"), r \in results :
                        r.id = p.id /\ r.ok /\ p.tool \notin ReadOnly
<1>4. wrote \in BOOLEAN
  OBVIOUS
<1>5. DoomSummary(m, results) = [text |-> HasText(m), wrote |-> wrote, tools |-> {p.tool : p \in Parts(m, "call")}]
  BY DEF DoomSummary
<1> HIDE DEF wrote
<1> QED BY <1>2, <1>3, <1>4, <1>5 DEF SummarySet

\* The rolling history.
LEMMA RememberFacts ==
    ASSUME NEW h \in Seq(SummarySet), NEW s \in SummarySet
    PROVE  LET new == Remember(h, s) IN
           /\ new \in Seq(SummarySet)
           /\ Len(new) = IF Len(h) <= Threshold THEN Len(h) + 1 ELSE Len(h)
           /\ Len(new) > 0 /\ new[Len(new)] = s
           /\ \A k \in 1 .. Len(new) - 1 : new[k] = h[Len(h) - Len(new) + 1 + k]
<1>1. Threshold \in Nat
  BY ProjectionAssumption DEF ProjectionAssumption
<1> DEFINE a == Append(h, s)
<1>2. /\ a \in Seq(SummarySet) /\ Len(a) = Len(h) + 1 /\ Len(h) \in Nat
      /\ a[Len(h) + 1] = s /\ \A k \in 1 .. Len(h) : a[k] = h[k]
  OBVIOUS
<1> HIDE DEF a
<1>3. CASE Len(h) <= Threshold
  <2>1. Remember(h, s) = a
    BY <1>1, <1>2, <1>3 DEF Remember, a
  <2> QED BY <1>2, <1>3, <2>1
<1>4. CASE ~(Len(h) <= Threshold)
  <2>1. Remember(h, s) = Tail(a)
    BY <1>1, <1>2, <1>4 DEF Remember, a
  <2>2. /\ Tail(a) \in Seq(SummarySet) /\ Len(Tail(a)) = Len(h)
        /\ \A k \in 1 .. Len(h) : Tail(a)[k] = a[k + 1]
    BY <1>2
  <2> QED BY <1>1, <1>2, <1>4, <2>1, <2>2, SMTT(40)
<1> QED BY <1>3, <1>4

\* The message whose calls are run.
LEMMA ToolsMessage ==
    ASSUME Typed, Sound(log), Located, loop.pc \in {"tail", "tools"}
    PROVE  loop.cur \in 1 .. Len(log) /\ log[loop.cur] \in MessageSet /\ CallsOnly(log[loop.cur])
<1>1. loop.cur \in 1 .. Len(log) /\ log[loop.cur].role = "assistant"
      /\ Parts(log[loop.cur], "compaction") = {}
  BY DEF Located, Typed
<1>2. log[loop.cur] \in MessageSet
  BY <1>1 DEF Typed
<1>3. TextFirst(log[loop.cur].parts) /\ \A p \in Range(log[loop.cur].parts) : Suits(log, loop.cur, p)
  BY <1>1 DEF Sound, Typed
<1>4. CallsOnly(log[loop.cur])
  BY <1>1, <1>3 DEF CallsOnly, Suits, FitsRole, Parts
<1> QED BY <1>1, <1>2, <1>4

\* The transcript that the request is made of.
LEMMA ViewLog ==
    ASSUME NEW l \in Seq(MessageSet), NEW n \in Nat, n <= Len(l)
    PROVE  /\ SubSeq(l, 1, n) \in Seq(MessageSet) /\ Len(SubSeq(l, 1, n)) = n
           /\ \A i \in 1 .. n : SubSeq(l, 1, n)[i] = l[i]
OBVIOUS

-------------------------------------------------------------------------------
(* Types.                                                                  *)

\* No loop is a loop by type.
LEMMA NoLoopTyped == NoLoop \in LoopSet
BY DEF NoLoop, LoopSet

\* Every step keeps the types.
LEMMA NextTyped ==
    ASSUME Inv, Next
    PROVE  Typed'
<1> USE DEF Inv, Local
<1>1. log' \in Seq(MessageSet) /\ log \in Seq(MessageSet)
  BY NextLog, SMTT(40) DEF Typed
<1>2. budget' \in [inputs : Nat, turns : Nat]
  <2>1. ASSUME NEW what \in {"inputs", "turns"}, Spend(what)
        PROVE  budget' \in [inputs : Nat, turns : Nat]
    BY <2>1, SMTT(40) DEF Spend, Typed
  <2> QED BY <2>1 DEF Typed, Next, Prompt, Wake, Compact, Settle, StepsUsedUp, Prepare, WindowFull, Proceed,
       Create, TextDelta, Finish, Write, TurnFails, StepDone, RunTools, BeforeHookStops, Request,
       Ask, SummaryDone, Commit, Reject, AfterCompaction, Fault
<1>3. mine' \in Seq(Nat) /\ laps' \in Nat /\ doomed' \in Seq(Nat)
  <2>1. mine \in Seq(Nat) /\ laps \in Nat /\ doomed \in Seq(Nat) /\ loop.cur \in Nat
    BY LoopFields DEF Typed
  <2>2. <<>> \in Seq(Nat) /\ Append(mine, loop.cur) \in Seq(Nat) /\ laps + 1 \in Nat /\ 0 \in Nat
    BY <2>1
  <2> QED BY <2>1, <2>2 DEF Next, Prompt, Wake, Compact, Settle, StepsUsedUp, Prepare, WindowFull, Proceed,
       Create, TextDelta, Finish, Write, TurnFails, StepDone, RunTools, BeforeHookStops, Request,
       Ask, SummaryDone, Commit, Reject, AfterCompaction, Fault, Enter, Return, Abandon, GoOn
<1>4. loop' \in LoopSet
  <2>1. loop \in LoopSet /\ NoLoop \in LoopSet
    BY NoLoopTyped DEF Typed
  <2>2. CASE Prompt
    <3>1. Len(log) + 1 \in Nat /\ <<TextPart(TRUE)>> \in Seq(PartSet)
      <4>1. PICK t \in PartSet : t = TextPart(TRUE)
        BY MadeParts
      <4>2. <<t>> \in Seq(PartSet)
        OBVIOUS
      <4>3. <<TextPart(TRUE)>> \in Seq(PartSet)
        BY <4>1, <4>2, Zenon
      <4>4. Len(log) + 1 \in Nat
        BY <1>1
      <4> QED BY <4>3, <4>4, Zenon
    <3> QED BY <2>1, <2>2, <3>1 DEF Prompt, Enter, LoopSet
  <2>3. CASE Wake
    BY <2>1, <2>3 DEF Wake, Enter, LoopSet
  <2>4. CASE Compact
    <3> DEFINE x == [NoLoop EXCEPT !.pc = "before", !.manual = TRUE, !.keep = PreserveRecent]
    <3>1. PreserveRecent \in Nat
      BY ProjectionAssumption DEF ProjectionAssumption
    <3>2. x \in LoopSet
      BY <2>1, <3>1 DEF LoopSet
    <3>3. loop' = NoLoop \/ loop' = x
      BY <2>4 DEF Compact, Enter
    <3> QED BY <2>1, <3>2, <3>3
  <2>5. CASE Settle \/ TextDelta
    BY <2>1, <2>5 DEF Settle, TextDelta
  <2>6. CASE StepsUsedUp \/ Reject \/ Fault
    BY <2>1, <2>6 DEF StepsUsedUp, Reject, Fault, Return, Abandon
  <2>7. CASE Prepare
    <3>1. Len(log') \in Nat
      BY <1>1
    <3> QED BY <2>1, <2>7, <3>1 DEF Prepare, LoopSet
  <2>8. CASE WindowFull
    <3>1. loop.seen \in Nat /\ loop.seen <= Len(log)
      BY <2>8, LoopFields DEF WindowFull, At, Following, Located, Typed
    <3>2. Keep(View) \in Nat
      BY <1>1, <3>1, ViewLog, KeepTyped DEF View
    <3> QED BY <2>1, <2>8, <3>2 DEF WindowFull, LoopSet
  <2>9. CASE Proceed \/ BeforeHookStops \/ Commit
    BY <2>1, <2>9, ZenonT(60) DEF Proceed, BeforeHookStops, Commit, GoOn, GoTo, Return, LoopSet
  <2>10. CASE Create
    <3>1. Len(log) + 1 \in Nat
      BY <1>1
    <3> QED BY <2>1, <2>10, <3>1 DEF Create, LoopSet
  <2>11. CASE Finish
    <3> DEFINE c == loop.cur
               text == [i \in DOMAIN log[c].parts |-> TextPart(TRUE)]
               calls(tools) == [i \in DOMAIN tools |-> CallPart(<<c, i>>, tools[i])]
               n == IF loop.marker = 0 THEN MaxCalls ELSE 0
    <3>1. PICK tools \in SeqOf(Tool, n) : loop' = [loop EXCEPT !.pc = "tail", !.todo = text \o calls(tools)]
      BY <2>11 DEF Finish
    <3>2. c \in Nat /\ c \in 1 .. Len(log)
      BY <2>11, LoopFields DEF Finish, Streaming, Located, Typed
    <3>3. log[c] \in MessageSet
      BY <1>1, <3>2
    <3>4. log[c].parts \in Seq(PartSet)
      BY <3>3, MessageParts
    <3>5. n \in Nat
      BY TurnLoopAssumption DEF TurnLoopAssumption
    <3>6. tools \in Seq(Tool)
      BY <3>1, <3>5 DEF SeqOf
    <3>7. text \in Seq(PartSet)
      <4>1. PICK t \in PartSet : t = TextPart(TRUE)
        BY MadeParts
      <4>2. DOMAIN log[c].parts = 1 .. Len(log[c].parts) /\ Len(log[c].parts) \in Nat
        BY <3>4
      <4>3. text = [i \in 1 .. Len(log[c].parts) |-> t]
        BY <4>1, <4>2
      <4> HIDE DEF text
      <4> QED BY <4>2, <4>3
    <3>8. calls(tools) \in Seq(PartSet)
      <4>1. \A i \in 1 .. Len(tools) : <<c, i>> \in Ids /\ tools[i] \in Tool
        BY <3>2, <3>6 DEF Ids
      <4>2. \A i \in 1 .. Len(tools) : CallPart(<<c, i>>, tools[i]) \in PartSet
        BY <4>1, MadeParts
      <4>3. DOMAIN tools = 1 .. Len(tools) /\ Len(tools) \in Nat
        BY <3>6
      <4> QED BY <4>2, <4>3
    <3> HIDE DEF text, calls
    <3>9. text \o calls(tools) \in Seq(PartSet)
      BY <3>7, <3>8
    <3> QED BY <2>1, <3>1, <3>9 DEF LoopSet
  <2>12. CASE Write
    <3>1. Tail(loop.todo) \in Seq(PartSet)
      BY <2>1, <2>12, LoopFields, TodoFacts DEF Write
    <3> QED BY <2>1, <2>12, <3>1 DEF Write, LoopSet
  <2>13. CASE TurnFails
    <3>1. <<>> \in Seq(PartSet)
      OBVIOUS
    <3> QED BY <2>1, <2>13, <3>1, ZenonT(60) DEF TurnFails, Abandon, Return, LoopSet
  <2>14. CASE StepDone
    <3>1. loop' = NoLoop \/ loop' = [loop EXCEPT !.pc = "tools", !.steps = @ + 1, !.compacted = FALSE]
      BY <2>14 DEF StepDone, Return, Abandon
    <3>2. loop.steps + 1 \in Nat
      BY <2>1, LoopFields
    <3> QED BY <2>1, <3>1, <3>2, ZenonT(60) DEF LoopSet
  <2>15. CASE RunTools
    <3> DEFINE m == log[loop.cur]
    <3>1. m \in MessageSet /\ CallsOnly(m)
      BY <2>15, ToolsMessage DEF RunTools, At
    <3>2. CASE loop' = NoLoop
      BY <2>1, <3>2
    <3>3. CASE loop' # NoLoop
      <4>1. PICK denied, ok :
               LET results == Merge(Calls(m), denied, ok)
               IN loop' = [loop EXCEPT !.pc = "top",
                             !.history = Remember(loop.history, DoomSummary(m, Range(results))),
                             !.cur = Len(log) + 1, !.todo = results]
        BY <2>15, <3>3 DEF RunTools, Abandon, Return
      <4> DEFINE results == Merge(Calls(m), denied, ok)
                 past == Remember(loop.history, DoomSummary(m, Range(results)))
      <4>2. results \in Seq(PartSet)
        BY <3>1, MergeFacts
      <4>3. past \in Seq(SummarySet)
        BY <2>1, <3>1, LoopFields, SummaryTyped, RememberFacts
      <4>4. Len(log) + 1 \in Nat
        BY <1>1
      <4>5. loop' = [loop EXCEPT !.pc = "top", !.history = past, !.cur = Len(log) + 1, !.todo = results]
        BY <4>1
      <4> HIDE DEF results, past
      <4> QED BY <2>1, <4>2, <4>3, <4>4, <4>5 DEF LoopSet
    <3> QED BY <3>2, <3>3
  <2>16. CASE Request
    <3>1. Len(log) + 1 \in Nat /\ <<RequestPart("pending")>> \in Seq(PartSet)
      BY <1>1, MadeParts
    <3>2. Superseded(log, loop.keep) \in SUBSET Nat
      BY <1>1, <2>1, LoopFields, SupersededPrefix
    <3> QED BY <2>1, <2>16, <3>1, <3>2 DEF Request, LoopSet
  <2>17. CASE Ask
    <3>1. Summarized(log') \in SUBSET Nat
      BY <1>1, SummarizedTyped
    <3>2. Len(log') \in Nat
      BY <1>1
    <3> QED BY <2>1, <2>17, <3>1, <3>2 DEF Ask, LoopSet
  <2>18. CASE SummaryDone
    <3>1. <<CompactionPart(loop.cut, loop.covers)>> \in Seq(PartSet)
      BY <2>1, LoopFields, MadeParts
    <3>2. \/ loop' = [loop EXCEPT !.pc = "commit", !.todo = <<CompactionPart(loop.cut, loop.covers)>>]
          \/ loop' = [loop EXCEPT !.pc = "reject"]
      BY <2>18 DEF SummaryDone
    <3> QED BY <2>1, <3>1, <3>2, ZenonT(60) DEF LoopSet
  <2>19. CASE AfterCompaction
    <3>1. \/ loop' = NoLoop
          \/ loop' = [NoLoop EXCEPT !.pc = "top", !.steps = loop.steps,
                                    !.compacted = loop.compacted, !.history = loop.history]
      BY <2>19 DEF AfterCompaction, Return
    <3>2. loop.steps \in Nat /\ loop.compacted \in BOOLEAN /\ loop.history \in Seq(SummarySet)
      BY <2>1, LoopFields
    <3> QED BY <2>1, <3>1, <3>2, ZenonT(60) DEF LoopSet
  <2> QED BY <2>2, <2>3, <2>4, <2>5, <2>6, <2>7, <2>8, <2>9, <2>10, <2>11, <2>12, <2>13, <2>14,
             <2>15, <2>16, <2>17, <2>18, <2>19 DEF Next
<1> QED BY <1>1, <1>2, <1>3, <1>4 DEF Typed

-------------------------------------------------------------------------------
(* What the steps leave alone.                                             *)

\* No result comes or goes, and no call comes.
Quiet(l, new) ==
    /\ Given(new) = Given(l)
    /\ \A i \in 1 .. Len(new) :
          CallIds(new[i]) = {} \/ (i \in 1 .. Len(l) /\ CallIds(new[i]) \subseteq CallIds(l[i]))

\* A plain message brings no call and no result.
LEMMA QuietAppend ==
    ASSUME NEW l \in Seq(MessageSet), NEW m \in MessageSet, Plain(m)
    PROVE  Quiet(l, Append(l, m))
<1> DEFINE new == Append(l, m)
<1>1. /\ Len(new) = Len(l) + 1 /\ Len(l) \in Nat
      /\ \A i \in 1 .. Len(l) : new[i] = l[i]
      /\ new[Len(l) + 1] = m
      /\ Range(new) = Range(l) \cup {m}
  BY AppendLog
<1> HIDE DEF new
<1>2. Parts(m, "result") = {} /\ CallIds(m) = {}
  BY DEF Plain, Parts, CallIds
<1>3. Given(new) = Given(l)
  BY <1>1, <1>2 DEF Given
<1>4. \A i \in 1 .. Len(new) : i \in 1 .. Len(l) \/ i = Len(l) + 1
  BY <1>1
<1> QED BY <1>1, <1>2, <1>3, <1>4 DEF Quiet, new

\* Nor does a message that is rewritten without any.
LEMMA QuietRewrite ==
    ASSUME NEW l \in Seq(MessageSet), NEW c \in 1 .. Len(l), NEW parts \in Seq(PartSet),
           Parts(l[c], "result") = {}, \A p \in Range(parts) : p.kind \notin {"call", "result"}
    PROVE  Quiet(l, Rewrite(l, c, parts))
<1> DEFINE new == Rewrite(l, c, parts)
<1>1. /\ new \in Seq(MessageSet) /\ Len(new) = Len(l)
      /\ \A i \in 1 .. Len(l) : i # c => new[i] = l[i]
      /\ new[c].parts = parts
  BY RewriteLog
<1> HIDE DEF new
<1>2. Parts(new[c], "result") = {} /\ CallIds(new[c]) = {}
  BY <1>1 DEF Parts, CallIds
<1>3. \A i \in 1 .. Len(l) : Parts(new[i], "result") = Parts(l[i], "result")
  BY <1>1, <1>2
<1>4. \A x : x \in Given(new) <=> \E i \in 1 .. Len(new) : x \in Parts(new[i], "result")
  BY <1>1, InRange DEF Given
<1>5. \A x : x \in Given(l) <=> \E i \in 1 .. Len(l) : x \in Parts(l[i], "result")
  BY InRange DEF Given
<1>6. Given(new) = Given(l)
  BY <1>1, <1>3, <1>4, <1>5
<1>7. \A i \in 1 .. Len(new) :
          CallIds(new[i]) = {} \/ (i \in 1 .. Len(l) /\ CallIds(new[i]) \subseteq CallIds(l[i]))
  BY <1>1, <1>2
<1> QED BY <1>6, <1>7 DEF Quiet, new

\* The transcript is the same so far.
Longer(l, new) == Len(l) <= Len(new) /\ \A i \in 1 .. Len(l) : new[i] = l[i]

\* Appending changes nothing before it.
LEMMA LongerAppend ==
    ASSUME NEW l \in Seq(MessageSet), NEW m \in MessageSet
    PROVE  Longer(l, Append(l, m)) /\ Longer(l, l)
BY AppendLog DEF Longer

\* A step that appends a plain message, or nothing.
LEMMA GrownStep ==
    ASSUME Typed, log' = log \/ Grown
    PROVE  Longer(log, log') /\ Quiet(log, log')
<1>1. CASE log' = log
  <2>1. Longer(log, log)
    BY DEF Longer, Typed
  <2>2. Quiet(log, log)
    BY DEF Quiet
  <2> QED BY <1>1, <2>1, <2>2
<1>2. CASE Grown
  BY <1>2, LongerAppend, QuietAppend DEF Grown, Typed
<1> QED BY <1>1, <1>2

\* Calls stay answered.
LEMMA AnsweredKept ==
    ASSUME Typed, Typed', Answered, Quiet(log, log'), stopped' = stopped,
           Outcomes(log, loop.todo) \subseteq Outcomes(log', loop'.todo),
           loop.pc \in {"tail", "tools"} /\ loop.marker = 0 =>
              \/ CallIds(log[loop.cur]) = {}
              \/ loop'.pc \in {"tail", "tools"} /\ loop'.marker = 0 /\ loop'.cur = loop.cur
    PROVE  Answered'
<1> SUFFICES ASSUME NEW i \in DOMAIN log', NEW id \in CallIds(log'[i])
             PROVE  \/ i \in stopped'
                    \/ \E r \in Outcomes(log', loop'.todo) : r.id = id
                    \/ loop'.pc \in {"tail", "tools"} /\ loop'.marker = 0 /\ i = loop'.cur
  BY DEF Answered
<1>1. i \in 1 .. Len(log') /\ DOMAIN log = 1 .. Len(log)
  BY DEF Typed
<1>2. i \in DOMAIN log /\ id \in CallIds(log[i])
  BY <1>1 DEF Quiet
<1>3. \/ i \in stopped
      \/ \E r \in Outcomes(log, loop.todo) : r.id = id
      \/ loop.pc \in {"tail", "tools"} /\ loop.marker = 0 /\ i = loop.cur
  BY <1>2 DEF Answered
<1> QED BY <1>2, <1>3

\* The doom guard remembers the same steps.
Steady == \A x \in Range(mine) : log'[x] = log[x]

\* The history stays right while the steps it is about do.
LEMMA RememberedKept ==
    ASSUME Typed, Remembered, loop'.history = loop.history, Steady,
           Outcomes(log', loop'.todo) = Outcomes(log, loop.todo),
           \A k \in 1 .. Judged : mine'[k] = mine[k], Judged' = Judged, Judged \in 0 .. Len(mine)
    PROVE  Remembered'
<1>1. loop.history \in Seq(SummarySet) /\ mine \in Seq(Nat)
  BY LoopFields DEF Typed
<1>2. Threshold \in Nat
  BY ProjectionAssumption DEF ProjectionAssumption
<1> DEFINE n == Len(loop.history)
           x(k) == mine[Judged - n + k]
<1>3. n \in Nat /\ n <= Judged /\ DOMAIN loop.history = 1 .. n
  BY <1>1, <1>2 DEF Remembered
<1>4. \A k \in 1 .. n : x(k) \in Range(mine)
  <2> HIDE DEF n
  <2>1. Len(mine) \in Nat
    BY <1>1
  <2>2. \A k \in 1 .. n : Judged - n + k \in 1 .. Len(mine)
    BY <1>3, <2>1
  <2> QED BY <1>1, <2>2, InRange
<1>5. \A k \in 1 .. n : Recalls(loop.history[k], log, loop.todo, x(k))
  BY <1>3 DEF Remembered
<1> HIDE DEF x
<1>6. \A k \in 1 .. n : log'[x(k)] = log[x(k)]
  BY <1>4 DEF Steady
<1>7. \A k \in 1 .. n : Recalls(loop.history[k], log', loop'.todo, x(k))
  <2> SUFFICES ASSUME NEW k \in 1 .. n PROVE Recalls(loop.history[k], log', loop'.todo, x(k))
    OBVIOUS
  <2>1. Wrote(log', loop'.todo, x(k)) <=> Wrote(log, loop.todo, x(k))
    BY <1>6 DEF Wrote
  <2>2. log'[x(k)] = log[x(k)] /\ Recalls(loop.history[k], log, loop.todo, x(k))
    BY <1>5, <1>6
  <2> QED BY <2>1, <2>2 DEF Recalls
<1> HIDE DEF n
<1>8. DOMAIN loop'.history = 1 .. n /\ Len(loop'.history) = n
  BY <1>3 DEF n
<1>9. \A k \in DOMAIN loop'.history :
         Recalls(loop'.history[k], log', loop'.todo, mine'[Judged' - Len(loop'.history) + k])
  <2>1. \A k \in 1 .. n : Judged - n + k \in 1 .. Judged
    BY <1>3
  <2>2. \A k \in 1 .. n : mine'[Judged' - n + k] = x(k)
    BY <2>1 DEF x
  <2> QED BY <1>7, <1>8, <2>2
<1>10. n = IF Judged <= Threshold THEN Judged ELSE Threshold + 1
  BY DEF Remembered, n
<1>11. ~Doomed(loop'.history)
  BY DEF Remembered
<1> QED BY <1>8, <1>9, <1>10, <1>11 DEF Remembered

\* A loop that starts, or is none.
LEMMA Fresh ==
    ASSUME Typed', loop'.pc \in {"idle", "top", "before"}, loop'.marker = 0,
           loop'.history = <<>>, mine' = <<>>, laps' = 0
    PROVE  Located' /\ Following' /\ Turns' /\ Remembered' /\ Reminded' /\ Paced'
<1>1. Range(<<>>) = {} /\ Len(<<>>) = 0 /\ DOMAIN <<>> = {}
  BY DEF Range
<1>2. Judged' = 0
  BY <1>1 DEF Judged
<1>3. Threshold \in Nat \ {0}
  BY ProjectionAssumption DEF ProjectionAssumption
<1>4. ~Doomed(<<>>)
  BY <1>1, <1>3 DEF Doomed
<1>5. Remembered'
  BY <1>1, <1>2, <1>3, <1>4 DEF Remembered
<1>6. Located' /\ Following' /\ Reminded'
  BY DEF Located, Following, Reminded
<1>7. Turns'
  BY <1>1 DEF Turns
<1>8. Paced'
  BY DEF Paced
<1> QED BY <1>5, <1>6, <1>7, <1>8

\* While a loop runs, no loop has been ended by the guard.
LEMMA Awake ==
    ASSUME Ended, loop.pc # "idle", doomed' = doomed
    PROVE  Ended'
BY DEF Ended

\* Nothing is left to be written.
LEMMA NothingPending ==
    ASSUME Typed', loop'.todo = <<>>
    PROVE  Pending'
BY DEF Pending

-------------------------------------------------------------------------------
(* The ends of a loop, and its starts.                                     *)

\* What is true of every step by now.
Stepped == Inv /\ Typed' /\ Sound(log') /\ Kept(log, log')

\* After the end of a loop nothing is left but the transcript.
LEMMA ReturnKeeps ==
    ASSUME Stepped, Return, loop.pc # "idle", doomed' = doomed, Answered'
    PROVE  Local'
<1>1. loop' = NoLoop /\ mine' = <<>> /\ laps' = 0
  BY DEF Return
<1>2. loop'.pc = "idle" /\ loop'.marker = 0 /\ loop'.history = <<>> /\ loop'.todo = <<>>
  BY <1>1 DEF NoLoop
<1>3. Located' /\ Following' /\ Turns' /\ Remembered' /\ Reminded' /\ Paced'
  BY <1>1, <1>2, Fresh DEF Stepped
<1>4. Pending'
  BY <1>2, NothingPending DEF Stepped
<1>5. Ended'
  BY Awake DEF Stepped, Inv, Local
<1> QED BY <1>3, <1>4, <1>5 DEF Local

\* A loop that ends in order leaves nothing open.
LEMMA ReturnAnswers ==
    ASSUME Stepped, Return, Quiet(log, log'), stopped' = stopped, loop.todo = <<>>,
           loop.pc \in {"tail", "tools"} /\ loop.marker = 0 => CallIds(log[loop.cur]) = {}
    PROVE  Answered'
<1>1. loop'.todo = <<>>
  BY DEF Return, NoLoop
<1>2. Outcomes(log', loop'.todo) = Outcomes(log, loop.todo)
  BY <1>1 DEF Outcomes, Quiet
<1> QED BY <1>2, AnsweredKept DEF Stepped, Inv, Local

\* One that does not says what it left open.
LEMMA AbandonAnswers ==
    ASSUME Stepped, Abandon, log' = log
    PROVE  Answered'
<1>1. stopped' = Unanswered
  BY DEF Abandon
<1> SUFFICES ASSUME NEW i \in DOMAIN log, NEW id \in CallIds(log[i]), i \notin Unanswered
             PROVE  \E r \in Outcomes(log', loop'.todo) : r.id = id
  BY <1>1 DEF Answered
<1>2. id \in UNION {ResultIds(m) : m \in Range(log)}
  BY DEF Unanswered
<1>3. PICK m \in Range(log) : id \in ResultIds(m)
  BY <1>2
<1>4. PICK r \in Parts(m, "result") : r.id = id
  BY <1>3 DEF ResultIds
<1>5. r \in Given(log')
  BY <1>3, <1>4 DEF Given
<1> QED BY <1>4, <1>5 DEF Outcomes

\* A loop that ends early keeps the invariant.
LEMMA AbandonKeeps ==
    ASSUME Stepped, Abandon, log' = log, loop.pc # "idle", doomed' = doomed
    PROVE  Local'
BY AbandonAnswers, ReturnKeeps DEF Abandon

\* So does one that dies.
LEMMA FaultKeeps ==
    ASSUME Stepped, Fault
    PROVE  Local'
BY AbandonKeeps DEF Fault, At

\* max_steps is reached.
LEMMA StepsUsedUpKeeps ==
    ASSUME Stepped, StepsUsedUp
    PROVE  Local'
<1>1. loop.pc = "top" /\ loop.todo = <<>> /\ Return /\ log' = log /\ stopped' = stopped /\ doomed' = doomed
  BY DEF StepsUsedUp, At, Stored
<1>2. Quiet(log, log')
  BY <1>1, GrownStep DEF Stepped, Inv
<1>3. Answered'
  BY <1>1, <1>2, ReturnAnswers
<1> QED BY <1>1, <1>3, ReturnKeeps

\* A message that has just been made.
LEMMA NewMessage ==
    ASSUME Typed, NEW role \in {"user", "assistant", "tool"},
           log' = Append(log, Message(role, <<>>))
    PROVE  /\ Len(log) \in Nat /\ Len(log') = Len(log) + 1 /\ DOMAIN log' = 1 .. Len(log) + 1
           /\ Longer(log, log') /\ Quiet(log, log')
           /\ log'[Len(log) + 1].role = role /\ log'[Len(log) + 1].parts = <<>>
           /\ ~Settled(log'[Len(log) + 1]) /\ Blank(log'[Len(log) + 1])
           /\ CallIds(log'[Len(log) + 1]) = {} /\ Parts(log'[Len(log) + 1], "compaction") = {}
<1> DEFINE m == Message(role, <<>>)
<1>1. m \in MessageSet /\ Plain(m) /\ m.role = role /\ m.parts = <<>>
  BY EmptyMessage DEF Message
<1> HIDE DEF m
<1>2. Grown
  BY <1>1 DEF Grown, m
<1>3. /\ Len(log) \in Nat /\ Len(log') = Len(log) + 1 /\ DOMAIN log' = 1 .. Len(log) + 1
      /\ log'[Len(log) + 1] = m
  BY <1>1, AppendLog DEF Typed, m
<1>4. Longer(log, log') /\ Quiet(log, log')
  BY <1>2, GrownStep
<1>5. CallIds(m) = {} /\ Parts(m, "compaction") = {}
  BY <1>1 DEF CallIds, Parts, Range
<1> QED BY <1>1, <1>3, <1>4, <1>5 DEF Settled, Blank

\* A loop starts.
LEMMA EnterKeeps ==
    ASSUME Stepped, NEW locals, Enter(locals), locals.pc \in {"idle", "top", "before"},
           locals.marker = 0, locals.history = <<>>, Quiet(log, log'), Pending'
    PROVE  Local'
<1>1. /\ loop.pc = "idle" /\ loop' = locals /\ mine' = <<>> /\ laps' = 0 /\ doomed' = <<>>
      /\ stopped' = stopped
  BY DEF Enter, At
<1>2. Located' /\ Following' /\ Turns' /\ Remembered' /\ Reminded' /\ Paced'
  BY <1>1, Fresh DEF Stepped
<1>3. Ended'
  BY <1>1 DEF Ended
<1>4. loop.todo = <<>>
  BY <1>1 DEF Stepped, Inv, Local, Pending
<1>5. Outcomes(log, loop.todo) \subseteq Outcomes(log', loop'.todo)
  BY <1>4 DEF Outcomes, Quiet, Range
<1>6. Answered'
  BY <1>1, <1>5, AnsweredKept DEF Stepped, Inv, Local
<1> QED BY <1>2, <1>3, <1>6 DEF Local

\* It starts with a prompt.
LEMMA PromptKeeps ==
    ASSUME Stepped, Prompt
    PROVE  Local'
<1> DEFINE c == Len(log) + 1
           t == TextPart(TRUE)
           locals == [NoLoop EXCEPT !.pc = "top", !.cur = c, !.todo = <<t>>]
<1>1. /\ DOMAIN log' = 1 .. c /\ Len(log) \in Nat /\ Quiet(log, log') /\ log'[c].role = "user"
      /\ ~Settled(log'[c]) /\ Blank(log'[c])
  BY NewMessage DEF Prompt, Stepped, Inv
<1>2. t.kind = "text"
  BY DEF TextPart
<1>3. Enter(locals) /\ loop' = locals
  BY DEF Prompt, Enter
<1> HIDE DEF t, c
<1>4. /\ locals.pc = "top" /\ locals.marker = 0 /\ locals.history = <<>>
      /\ locals.cur = c /\ locals.todo = <<t>>
  BY DEF NoLoop
<1> HIDE DEF locals
<1>5. Range(<<t>>) = {t} /\ TextFirst(<<t>>)
  BY DEF Range, TextFirst
<1>6. Suits(log', c, t)
  BY <1>1, <1>2 DEF Suits, FitsRole
<1>7. c \in 1 .. c
  BY <1>1 DEF c
<1>8. Pending'
  BY <1>1, <1>2, <1>3, <1>4, <1>5, <1>6, <1>7 DEF Pending
<1> QED BY <1>1, <1>3, <1>4, <1>8, EnterKeeps

\* It starts with the reminder of a settlement.
LEMMA WakeKeeps ==
    ASSUME Stepped, Wake
    PROVE  Local'
<1> DEFINE locals == [NoLoop EXCEPT !.pc = "top"]
<1>1. Enter(locals) /\ loop' = locals /\ log' = log
  BY DEF Wake, Enter
<1>2. locals.pc = "top" /\ locals.marker = 0 /\ locals.history = <<>> /\ locals.todo = <<>>
  BY DEF NoLoop
<1> HIDE DEF locals
<1>3. Quiet(log, log')
  BY <1>1, GrownStep DEF Stepped, Inv
<1>4. Pending'
  BY <1>1, <1>2, NothingPending DEF Stepped
<1> QED BY <1>1, <1>2, <1>3, <1>4, EnterKeeps

\* It starts with /compact.
LEMMA CompactKeeps ==
    ASSUME Stepped, Compact
    PROVE  Local'
<1>1. log' = log \/ Grown
  BY RemindersStep DEF Compact, Stepped, Inv
<1>2. Quiet(log, log')
  BY <1>1, GrownStep DEF Stepped, Inv
<1>3. PICK locals : /\ Enter(locals) /\ loop' = locals
                    /\ \/ locals = NoLoop
                       \/ locals = [NoLoop EXCEPT !.pc = "before", !.manual = TRUE, !.keep = PreserveRecent]
  BY DEF Compact, Enter
<1>4. /\ locals.pc \in {"idle", "before"} /\ locals.marker = 0 /\ locals.history = <<>>
      /\ locals.todo = <<>>
  <2> DEFINE x == [NoLoop EXCEPT !.pc = "before", !.manual = TRUE, !.keep = PreserveRecent]
  <2>1. x.pc = "before" /\ x.marker = 0 /\ x.history = <<>> /\ x.todo = <<>>
    BY ONLY DEF NoLoop
  <2>2. NoLoop.pc = "idle" /\ NoLoop.marker = 0 /\ NoLoop.history = <<>> /\ NoLoop.todo = <<>>
    BY ONLY DEF NoLoop
  <2> HIDE DEF x
  <2>3. locals = NoLoop \/ locals = x
    BY <1>3 DEF x
  <2> QED BY <2>1, <2>2, <2>3
<1>5. Pending'
  BY <1>3, <1>4, NothingPending DEF Stepped
<1> QED BY <1>2, <1>3, <1>4, <1>5, EnterKeeps

-------------------------------------------------------------------------------
(* The top of the loop, and settlements.                                   *)

\* The messages of the steps stay what they are.
LEMMA TurnsStay ==
    ASSUME Stepped, mine' = mine
    PROVE  \A x \in Range(mine') : x \in DOMAIN log' /\ log'[x].role = "assistant"
<1>1. DOMAIN log = 1 .. Len(log) /\ DOMAIN log' = 1 .. Len(log') /\ Len(log) \in Nat /\ Len(log') \in Nat
  BY DEF Stepped, Inv, Typed
<1>2. \A x \in Range(mine) : x \in 1 .. Len(log) /\ log[x].role = "assistant"
  BY <1>1 DEF Stepped, Inv, Local, Turns
<1>3. Len(log) <= Len(log') /\ \A i \in 1 .. Len(log) : log'[i].role = log[i].role
  BY DEF Stepped, Kept
<1>4. \A i \in 1 .. Len(log) : i \in 1 .. Len(log')
  BY <1>1, <1>3
<1> QED BY <1>1, <1>2, <1>3, <1>4

\* No more steps are judged than were made.
LEMMA JudgedBound ==
    ASSUME Typed, Turns
    PROVE  Judged \in 0 .. Len(mine)
<1>1. mine \in Seq(Nat) /\ Len(mine) \in Nat
  BY DEF Typed
<1>2. mine # <<>> => Len(mine) > 0
  BY <1>1
<1> QED BY <1>1, <1>2 DEF Turns, Judged

\* Steps that add to the transcript, at most, while the guard does nothing.
LEMMA RememberedLonger ==
    ASSUME Stepped, Longer(log, log'), Quiet(log, log'), mine' = mine,
           loop'.history = loop.history, loop'.pc = "tools" <=> loop.pc = "tools",
           {p \in Range(loop'.todo) : p.kind = "result"} = {p \in Range(loop.todo) : p.kind = "result"}
    PROVE  Remembered'
<1>1. Steady
  <2>1. \A x \in Range(mine) : x \in 1 .. Len(log)
    BY DEF Stepped, Inv, Local, Turns, Typed
  <2> QED BY <2>1 DEF Steady, Longer
<1>2. Judged' = Judged
  BY DEF Judged
<1>3. Outcomes(log', loop'.todo) = Outcomes(log, loop.todo)
  BY DEF Outcomes, Quiet
<1>4. Judged \in 0 .. Len(mine)
  BY JudgedBound DEF Stepped, Inv, Local
<1> QED BY <1>1, <1>2, <1>3, <1>4, RememberedKept DEF Stepped, Inv, Local

\* What was to be written still fits.
LEMMA PendingLonger ==
    ASSUME Stepped, Longer(log, log'), loop' = loop
    PROVE  Pending'
<1> SUFFICES ASSUME loop.todo # <<>> PROVE Pending'
  BY DEF Pending
<1> DEFINE c == loop.cur
<1>1. c \in 1 .. Len(log) /\ DOMAIN log' = 1 .. Len(log') /\ Len(log') \in Nat /\ Len(log) \in Nat
  BY DEF Stepped, Inv, Local, Pending, Typed
<1>2. log'[c] = log[c] /\ c \in DOMAIN log'
  BY <1>1 DEF Longer
<1>3. loop.todo \in Seq(PartSet)
  BY LoopFields DEF Stepped, Inv, Typed
<1>4. Range(loop.todo) \subseteq PartSet
  BY <1>3, InRange
<1>5. \A p \in Range(loop.todo) : Suits(log, c, p)
  BY DEF Stepped, Inv, Local, Pending
<1>6. \A p \in Range(loop.todo) : Suits(log', c, p)
  BY <1>1, <1>4, <1>5, SuitsKept DEF Stepped, Inv, Typed
<1> QED BY <1>2, <1>6 DEF Stepped, Inv, Local, Pending

\* What was read of a transcript stays the same as it grows.
LEMMA SamePrefix ==
    ASSUME NEW l \in Seq(MessageSet), NEW new \in Seq(MessageSet), Longer(l, new),
           NEW n \in Nat, n <= Len(l)
    PROVE  SubSeq(new, 1, n) = SubSeq(l, 1, n)
<1>1. n <= Len(new) /\ \A i \in 1 .. n : new[i] = l[i]
  BY DEF Longer
<1>2. SubSeq(new, 1, n) \in Seq(MessageSet) /\ SubSeq(l, 1, n) \in Seq(MessageSet)
  BY <1>1
<1>3. Len(SubSeq(new, 1, n)) = n /\ Len(SubSeq(l, 1, n)) = n
  BY <1>1
<1>4. \A i \in 1 .. n : SubSeq(new, 1, n)[i] = SubSeq(l, 1, n)[i]
  BY <1>1
<1> QED BY <1>2, <1>3, <1>4

\* A settlement may come at any moment.
LEMMA SettleKeeps ==
    ASSUME Stepped, Settle
    PROVE  Local'
<1> DEFINE s == Message("user", <<ReminderPart("settled", {budget.inputs})>>)
           n == Len(log)
<1>1. s \in MessageSet /\ Plain(s) /\ Settled(s)
  BY SettledMessage DEF Stepped, Inv, Typed
<1>2. /\ log' = Append(log, s)
      /\ UNCHANGED <<loop, mine, stopped, laps, doomed>>
  BY DEF Settle
<1> HIDE DEF s
<1>3. /\ Len(log') = n + 1 /\ n \in Nat /\ DOMAIN log' = 1 .. n + 1 /\ DOMAIN log = 1 .. n
      /\ log'[n + 1] = s
      /\ \A i \in 1 .. n : log'[i] = log[i]
  BY <1>1, <1>2, AppendLog DEF Stepped, Inv, Typed
<1>4. Longer(log, log') /\ Quiet(log, log')
  BY <1>1, <1>2, GrownStep DEF Stepped, Inv, Grown
<1> HIDE DEF n
<1>5. Pending'
  BY <1>2, <1>4, PendingLonger
<1>6. Located'
  <2>1. \A c \in DOMAIN log : c \in DOMAIN log' /\ log'[c] = log[c]
    BY <1>3
  <2> QED BY <1>2, <2>1 DEF Stepped, Inv, Local, Located
<1>7. Following'
  <2>1. ASSUME NEW a \in Nat, \A k \in a + 1 .. n : Settled(log[k])
        PROVE  \A k \in a + 1 .. n + 1 : Settled(log'[k])
    BY <1>1, <1>3, <2>1
  <2>2. loop.cur \in Nat /\ loop.seen \in Nat /\ loop.seen <= n => loop.seen <= n + 1
    BY <1>3, LoopFields DEF Stepped, Inv, Typed
  <2> QED BY <1>2, <1>3, <2>1, <2>2, LoopFields DEF Stepped, Inv, Local, Following, Typed, n
<1>8. Answered'
  <2>1. Outcomes(log', loop'.todo) = Outcomes(log, loop.todo)
    BY <1>2, <1>4 DEF Outcomes, Quiet
  <2> QED BY <1>2, <1>4, <2>1, AnsweredKept DEF Stepped, Inv, Local
<1>9. Turns'
  <2>1. loop.pc = "tools" => log'[loop.cur] = log[loop.cur]
    BY <1>3 DEF Stepped, Inv, Local, Located
  <2> QED BY <1>2, <2>1, TurnsStay DEF Stepped, Inv, Local, Turns
<1>10. Remembered'
  BY <1>2, <1>4, RememberedLonger
<1>11. Ended'
  <2> SUFFICES ASSUME doomed # <<>> PROVE Idle(LastTurns(doomed))' /\ Range(doomed) \subseteq DOMAIN log'
    BY <1>2 DEF Stepped, Inv, Local, Ended
  <2>0. PICK ms : ms = LastTurns(doomed)
    OBVIOUS
  <2>1. Idle(ms) /\ Range(doomed) \subseteq 1 .. n /\ Len(doomed) >= Threshold
    BY <1>3, <2>0 DEF Stepped, Inv, Local, Ended
  <2>2. Len(doomed) \in Nat /\ doomed \in Seq(Nat) /\ Threshold \in Nat
    BY ProjectionAssumption DEF Stepped, Inv, Typed, ProjectionAssumption
  <2>3. /\ ms \in Seq(Nat)
        /\ \A i \in DOMAIN ms : ms[i] \in Range(doomed)
    <3>1. /\ ms \in Seq(Nat) /\ Len(ms) = Threshold
          /\ \A i \in 1 .. Threshold : ms[i] = doomed[Len(doomed) - Threshold + i]
      BY <2>0, <2>1, <2>2 DEF LastTurns
    <3>2. \A i \in 1 .. Threshold : Len(doomed) - Threshold + i \in 1 .. Len(doomed)
      BY <2>1, <2>2
    <3>3. DOMAIN ms = 1 .. Threshold
      BY <3>1
    <3>4. \A k \in 1 .. Len(doomed) : doomed[k] \in Range(doomed)
      BY <2>2, InRange
    <3> QED BY <3>1, <3>2, <3>3, <3>4
  <2>4. \A i \in DOMAIN ms : log'[ms[i]] = log[ms[i]]
    BY <1>3, <2>1, <2>3
  <2>5. \A x : \A m \in Range(log') : m \in Range(log) \/ ResultPart(x, TRUE) \notin Range(m.parts)
    <3>1. Range(log') = Range(log) \cup {s}
      BY <1>1, <1>2, AppendLog DEF Stepped, Inv, Typed
    <3>2. \A x : ResultPart(x, TRUE).kind = "result"
      BY DEF ResultPart
    <3> QED BY <1>1, <3>1, <3>2 DEF Plain
  <2>6. Idle(ms)'
    <3>1. \A i \in DOMAIN ms :
             /\ ~HasText(log'[ms[i]])
             /\ \A p \in Parts(log'[ms[i]], "call"), m \in Range(log') :
                   p.tool \notin ReadOnly => ResultPart(p.id, TRUE) \notin Range(m.parts)
      BY <2>1, <2>4, <2>5, Zenon DEF Idle
    <3>2. \A i \in 1 .. Len(ms) - 1 : i \in DOMAIN ms /\ i + 1 \in DOMAIN ms
      BY <2>3
    <3>3. \A i \in 1 .. Len(ms) - 1 :
             {p.tool : p \in Parts(log'[ms[i + 1]], "call")} \subseteq {p.tool : p \in Parts(log'[ms[i]], "call")}
      BY <2>1, <2>4, <3>2 DEF Idle
    <3> QED BY <3>1, <3>3 DEF Idle
  <2>7. Range(doomed) \subseteq DOMAIN log'
    BY <1>3, <2>1
  <2> QED BY <1>2, <2>0, <2>6, <2>7 DEF LastTurns
<1>12. Reminded'
  <2> SUFFICES ASSUME loop.pc \in {"check", "create"}
               PROVE  SubSeq(log', 1, loop.seen) = SubSeq(log, 1, loop.seen)
    BY <1>2 DEF Stepped, Inv, Local, Reminded
  <2>1. loop.seen \in Nat /\ loop.seen <= Len(log)
    BY LoopFields DEF Stepped, Inv, Local, Following, Typed
  <2>2. log \in Seq(MessageSet) /\ log' \in Seq(MessageSet)
    BY DEF Stepped, Inv, Typed
  <2> QED BY <1>4, <2>1, <2>2, SamePrefix
<1>13. Paced'
  BY <1>2 DEF Stepped, Inv, Local, Paced
<1> QED BY <1>5, <1>6, <1>7, <1>8, <1>9, <1>10, <1>11, <1>12, <1>13 DEF Local

\* What the loop is at, in a step within it.
LEMMA Fields ==
    ASSUME Stepped
    PROVE  /\ loop \in LoopSet /\ loop' \in LoopSet
           /\ log \in Seq(MessageSet) /\ log' \in Seq(MessageSet)
           /\ DOMAIN log = 1 .. Len(log) /\ Len(log) \in Nat
           /\ DOMAIN log' = 1 .. Len(log') /\ Len(log') \in Nat
           /\ mine \in Seq(Nat) /\ laps \in Nat
BY DEF Stepped, Inv, Typed

\* The top of the loop: afterwards no reminder is missing.
LEMMA PrepareKeeps ==
    ASSUME Stepped, Prepare
    PROVE  Local'
<1>1. /\ loop.pc = "top" /\ loop.todo = <<>> /\ log' = WithReminders(log)
      /\ laps' = laps + 1 /\ UNCHANGED <<mine, stopped, doomed>>
      /\ loop' = [loop EXCEPT !.pc = "check", !.seen = Len(log')]
  BY DEF Prepare, At, Stored
<1>2. /\ loop'.pc = "check" /\ loop'.seen = Len(log') /\ loop'.todo = <<>>
      /\ loop'.marker = loop.marker /\ loop'.history = loop.history /\ loop'.compacted = loop.compacted
  BY <1>1, Fields DEF LoopSet
<1>3. loop.marker = 0
  BY <1>1 DEF Stepped, Inv, Local, Located
<1>4. log' = log \/ Grown
  BY <1>1, RemindersStep DEF Stepped, Inv
<1>5. Longer(log, log') /\ Quiet(log, log')
  BY <1>4, GrownStep DEF Stepped, Inv
<1>6. NewReminders(log') = {}
  BY <1>1, Prepared DEF Stepped, Inv, Typed
<1>7. Pending'
  BY <1>2, NothingPending DEF Stepped
<1>8. Located'
  BY <1>2, <1>3 DEF Located
<1>9. Following'
  BY <1>2, Fields DEF Following
<1>10. Answered'
  <2>1. Outcomes(log', loop'.todo) = Outcomes(log, loop.todo)
    BY <1>1, <1>2, <1>5 DEF Outcomes, Quiet
  <2> QED BY <1>1, <1>5, <2>1, AnsweredKept DEF Stepped, Inv, Local
<1>11. Turns'
  BY <1>1, <1>2, TurnsStay DEF Turns
<1>12. Remembered'
  BY <1>1, <1>2, <1>5, RememberedLonger
<1>13. Ended'
  BY <1>1, Awake DEF Stepped, Inv, Local
<1>14. Reminded'
  <2>1. SubSeq(log', 1, Len(log')) = log'
    BY Fields
  <2> QED BY <1>2, <1>6, <2>1 DEF Reminded
<1>15. Paced'
  <2>1. laps <= IF loop.compacted THEN 1 ELSE 0
    BY <1>1 DEF Stepped, Inv, Local, Paced
  <2> QED BY <1>1, <1>2, <1>3, <2>1, Fields DEF Paced
<1> QED BY <1>7, <1>8, <1>9, <1>10, <1>11, <1>12, <1>13, <1>14, <1>15 DEF Local

\* Steps that change nothing but the place in the loop, and write nothing.
LEMMA MoveKeeps ==
    ASSUME Stepped, log' = log, UNCHANGED <<mine, stopped, doomed>>,
           loop.pc \notin {"idle", "tail", "tools"}, loop'.pc # "tools", loop'.pc # "idle",
           loop'.pc \notin {"stream", "tail", "commit"},
           loop.todo = <<>>, loop'.todo = <<>>, loop'.history = loop.history
    PROVE  Pending' /\ Answered' /\ Turns' /\ Remembered' /\ Ended'
<1>1. Longer(log, log') /\ Quiet(log, log')
  BY GrownStep DEF Stepped, Inv
<1>2. Pending'
  BY NothingPending DEF Stepped
<1>3. Answered'
  <2>1. Outcomes(log', loop'.todo) = Outcomes(log, loop.todo)
    OBVIOUS
  <2> QED BY <1>1, <2>1, AnsweredKept DEF Stepped, Inv, Local
<1>4. Turns'
  BY TurnsStay DEF Turns
<1>5. Remembered'
  BY <1>1, RememberedLonger
<1>6. Ended'
  BY Awake DEF Stepped, Inv, Local
<1> QED BY <1>2, <1>3, <1>4, <1>5, <1>6

\* Where nothing is pending.
LEMMA StoredAt ==
    ASSUME Inv, loop.pc \notin {"top", "tail", "mark", "commit"}
    PROVE  loop.todo = <<>>
BY DEF Inv, Local, Pending

\* should_compact says Run.
LEMMA WindowFullKeeps ==
    ASSUME Stepped, WindowFull
    PROVE  Local'
<1>1. /\ loop.pc = "check" /\ ~loop.compacted /\ UNCHANGED <<log, mine, stopped, laps, doomed>>
      /\ loop' = [loop EXCEPT !.pc = "before", !.compacted = TRUE, !.keep = Keep(View)]
  BY DEF WindowFull, At
<1>2. /\ loop'.pc = "before" /\ loop'.compacted = TRUE /\ loop'.todo = loop.todo
      /\ loop'.marker = loop.marker /\ loop'.history = loop.history
  BY <1>1, Fields DEF LoopSet
<1>3. loop.marker = 0
  BY <1>1 DEF Stepped, Inv, Local, Located
<1>4. loop.todo = <<>>
  BY <1>1, StoredAt DEF Stepped
<1>5. Pending' /\ Answered' /\ Turns' /\ Remembered' /\ Ended'
  BY <1>1, <1>2, <1>4, MoveKeeps
<1>6. Located' /\ Following' /\ Reminded'
  BY <1>2, <1>3 DEF Located, Following, Reminded
<1>7. Paced'
  <2>1. laps <= 1
    BY <1>1, <1>3 DEF Stepped, Inv, Local, Paced
  <2> QED BY <1>1, <1>2, <2>1 DEF Paced
<1> QED BY <1>5, <1>6, <1>7 DEF Local

\* should_compact says Skip.
LEMMA ProceedKeeps ==
    ASSUME Stepped, Proceed
    PROVE  Local'
<1>1. loop.pc = "check" /\ UNCHANGED <<log, stopped, doomed>>
  BY DEF Proceed, At
<1>2. loop.todo = <<>> /\ loop.marker = 0
  BY <1>1, StoredAt DEF Stepped, Inv, Local, Located
<1>3. CASE Return
  <2>1. Quiet(log, log')
    BY <1>1, GrownStep DEF Stepped, Inv
  <2>2. Answered'
    BY <1>1, <1>2, <1>3, <2>1, ReturnAnswers
  <2> QED BY <1>1, <1>3, <2>2, ReturnKeeps
<1>4. CASE GoTo("create") /\ UNCHANGED <<mine, laps>>
  <2>1. /\ loop'.pc = "create" /\ loop'.compacted = loop.compacted /\ loop'.todo = loop.todo
        /\ loop'.marker = loop.marker /\ loop'.history = loop.history /\ loop'.seen = loop.seen
    BY <1>4, Fields DEF LoopSet, GoTo
  <2>2. Pending' /\ Answered' /\ Turns' /\ Remembered' /\ Ended'
    BY <1>1, <1>2, <1>4, <2>1, MoveKeeps
  <2>3. Located'
    BY <1>2, <2>1 DEF Located
  <2>4. Following' /\ Reminded'
    BY <1>1, <1>2, <2>1 DEF Stepped, Inv, Local, Following, Reminded
  <2>5. Paced'
    BY <1>1, <1>2, <1>4, <2>1 DEF Stepped, Inv, Local, Paced
  <2> QED BY <2>2, <2>3, <2>4, <2>5 DEF Local
<1> QED BY <1>3, <1>4 DEF Proceed

\* create_assistant_message.
LEMMA CreateKeeps ==
    ASSUME Stepped, Create
    PROVE  Local'
<1> DEFINE c == Len(log) + 1
<1>1. /\ loop.pc = "create" /\ log' = Append(log, Message("assistant", <<>>))
      /\ loop' = [loop EXCEPT !.pc = "stream", !.cur = c]
      /\ UNCHANGED <<mine, stopped, laps, doomed>>
  BY DEF Create, At
<1>2. /\ Len(log) \in Nat /\ DOMAIN log' = 1 .. c /\ Len(log') = c /\ Longer(log, log') /\ Quiet(log, log')
      /\ log'[c].role = "assistant" /\ Blank(log'[c])
      /\ CallIds(log'[c]) = {} /\ Parts(log'[c], "compaction") = {}
  BY <1>1, NewMessage DEF Stepped, Inv
<1>3. /\ loop'.pc = "stream" /\ loop'.compacted = loop.compacted /\ loop'.todo = loop.todo
      /\ loop'.marker = loop.marker /\ loop'.history = loop.history /\ loop'.cur = c
      /\ loop'.cut = loop.cut
  BY <1>1, <1>2, Fields DEF LoopSet
<1>4. loop.todo = <<>>
  BY <1>1, StoredAt DEF Stepped
<1>5. Pending'
  BY <1>3, <1>4, NothingPending DEF Stepped
<1>6. loop.marker \in Nat /\ c \in 1 .. c /\ loop.marker < c
  BY <1>2, Fields, LoopFields DEF Stepped, Inv, Local, Located
<1> HIDE DEF c
<1>7. Located'
  <2>1. loop.marker # 0 =>
          /\ loop.marker \in 1 .. Len(log) /\ log[loop.marker].role = "user"
          /\ ~Settled(log[loop.marker]) /\ Prefix(loop.cut, loop.marker)
    BY Fields DEF Stepped, Inv, Local, Located
  <2>2. loop.marker # 0 => loop.marker \in DOMAIN log' /\ log'[loop.marker] = log[loop.marker]
    BY <1>2, <2>1 DEF Longer, c
  <2> QED BY <1>2, <1>3, <1>6, <2>1, <2>2 DEF Located
<1>8. Following'
  <2>1. \A k \in c + 1 .. c : FALSE
    BY <1>2 DEF c
  <2> QED BY <1>2, <1>3, <2>1 DEF Following
<1>9. Answered'
  <2>1. Outcomes(log', loop'.todo) = Outcomes(log, loop.todo)
    BY <1>2, <1>3 DEF Outcomes, Quiet
  <2> QED BY <1>1, <1>2, <2>1, AnsweredKept DEF Stepped, Inv, Local
<1>10. Turns'
  <2>1. c \notin Range(mine)
    BY <1>2, Fields DEF Stepped, Inv, Local, Turns, c
  <2> QED BY <1>1, <1>3, <2>1, TurnsStay DEF Turns
<1>11. Remembered'
  BY <1>1, <1>2, <1>3, RememberedLonger
<1>12. Ended'
  BY <1>1, Awake DEF Stepped, Inv, Local
<1>13. Reminded'
  BY <1>3 DEF Reminded
<1>14. Paced'
  BY <1>1, <1>3 DEF Stepped, Inv, Local, Paced
<1> QED BY <1>5, <1>7, <1>8, <1>9, <1>10, <1>11, <1>12, <1>13, <1>14 DEF Local

-------------------------------------------------------------------------------
(* The stream.                                                             *)

\* The shell of the text.
LEMMA TextDeltaKeeps ==
    ASSUME Stepped, TextDelta
    PROVE  Local'
<1> DEFINE c == loop.cur
<1>0. PICK t \in PartSet : t = TextPart(FALSE) /\ t.kind = "text"
  BY MadeParts DEF TextPart
<1>1. /\ loop.pc = "stream" /\ loop.todo = <<>> /\ log[c].parts = <<>>
      /\ UNCHANGED <<loop, mine, stopped, laps, doomed>>
  BY DEF TextDelta, Streaming, Stored
<1>2. c \in 1 .. Len(log) /\ <<t>> \in Seq(PartSet) /\ log' = Rewrite(log, c, <<t>>)
  <2>1. c \in 1 .. Len(log) /\ <<TextPart(FALSE)>> \in Seq(PartSet) /\ log' = Rewrite(log, c, <<TextPart(FALSE)>>)
    BY ShellStep DEF Stepped, Inv, Local
  <2> QED BY <1>0, <2>1, Zenon
<1>3. /\ Len(log') = Len(log) /\ DOMAIN log' = 1 .. Len(log) /\ DOMAIN log = 1 .. Len(log)
      /\ \A i \in 1 .. Len(log) : i # c => log'[i] = log[i]
      /\ log'[c].role = log[c].role /\ log'[c].parts = <<t>>
  <2>1. PICK parts \in Seq(PartSet) : parts = <<t>>
    BY <1>2
  <2>2. log' = Rewrite(log, c, parts) /\ log \in Seq(MessageSet) /\ c \in 1 .. Len(log)
    BY <1>2, <2>1, Fields
  <2>3. /\ Len(log') = Len(log) /\ DOMAIN log' = 1 .. Len(log) /\ DOMAIN log = 1 .. Len(log)
        /\ \A i \in 1 .. Len(log) : i # c => log'[i] = log[i]
        /\ log'[c].role = log[c].role /\ log'[c].parts = parts
    BY <2>2, RewriteLog, ZenonT(60)
  <2> QED BY <2>1, <2>3
<1>4. t.kind = "text" /\ Range(<<t>>) = {t}
  <2>1. Range(<<t>>) = {t}
    BY DEF Range
  <2> QED BY <1>0, <2>1, Zenon
<1>5. Quiet(log, log')
  <2>1. Parts(log[c], "result") = {}
    BY <1>1 DEF Parts, Range
  <2> QED BY <1>2, <1>4, <2>1, QuietRewrite DEF Stepped, Inv, Typed
<1>6. Blank(log'[c])
  BY <1>0, <1>3, Zenon DEF Blank
<1>7. CallIds(log'[c]) = {} /\ Parts(log'[c], "compaction") = {}
  BY <1>3, <1>4 DEF CallIds, Parts
<1>8. Pending'
  BY <1>1, NothingPending DEF Stepped
<1>9. Located'
  <2>1. loop.marker # 0 => loop.marker # c /\ loop.marker \in 1 .. Len(log)
    BY <1>1, Fields, LoopFields DEF Stepped, Inv, Local, Located
  <2> QED BY <1>1, <1>2, <1>3, <1>6, <1>7, <2>1 DEF Stepped, Inv, Local, Located
<1>10. Following'
  <2>0. c \in Nat /\ Len(log) \in Nat
    BY <1>2, Fields
  <2>1. \A k \in c + 1 .. Len(log) : log'[k] = log[k]
    <3>1. \A k \in c + 1 .. Len(log) : k \in 1 .. Len(log) /\ k # c
      BY ONLY <2>0
    <3> QED BY <1>3, <3>1
  <2> QED BY <1>1, <1>3, <2>1 DEF Stepped, Inv, Local, Following
<1>11. Outcomes(log', loop'.todo) = Outcomes(log, loop.todo)
  BY <1>1, <1>5 DEF Outcomes, Quiet
<1>12. Answered'
  BY <1>1, <1>5, <1>11, AnsweredKept DEF Stepped, Inv, Local
<1>13. Turns'
  BY <1>1, TurnsStay DEF Stepped, Inv, Local, Turns
<1>14. Remembered'
  <2>1. Steady
    BY <1>1, <1>3, Fields DEF Stepped, Inv, Local, Turns, Steady
  <2>2. Judged \in 0 .. Len(mine) /\ Judged' = Judged
    BY <1>1, JudgedBound DEF Stepped, Inv, Local, Judged
  <2> QED BY <1>1, <1>11, <2>1, <2>2, RememberedKept DEF Stepped, Inv, Local
<1>15. Ended'
  BY <1>1, Awake DEF Stepped, Inv, Local
<1>16. Reminded' /\ Paced'
  BY <1>1 DEF Stepped, Inv, Local, Reminded, Paced
<1> QED BY <1>8, <1>9, <1>10, <1>12, <1>13, <1>14, <1>15, <1>16 DEF Local

\* Finish: the parts that are to be written.
LEMMA FinishKeeps ==
    ASSUME Stepped, Finish
    PROVE  Local'
<1> DEFINE c == loop.cur
           text == [i \in DOMAIN log[c].parts |-> TextPart(TRUE)]
           calls(tools) == [i \in DOMAIN tools |-> CallPart(<<c, i>>, tools[i])]
           n == IF loop.marker = 0 THEN MaxCalls ELSE 0
<1>1. loop.pc = "stream" /\ loop.todo = <<>> /\ UNCHANGED <<log, mine, stopped, laps, doomed>>
  BY SMTT(40) DEF Finish, Streaming, Stored
<1>2. PICK tools \in SeqOf(Tool, n) : loop' = [loop EXCEPT !.pc = "tail", !.todo = text \o calls(tools)]
  BY DEF Finish
<1>3. /\ c \in 1 .. Len(log) /\ log[c].role = "assistant" /\ Blank(log[c])
      /\ Parts(log[c], "compaction") = {}
  BY <1>1, Fields DEF Stepped, Inv, Local, Located
<1>4. tools \in Seq(Tool) /\ (loop.marker # 0 => tools = <<>>)
  <2>1. n \in Nat
    BY TurnLoopAssumption DEF TurnLoopAssumption
  <2>2. PICK k \in 0 .. n : tools \in [1 .. k -> Tool]
    BY <1>2, <2>1 DEF SeqOf
  <2>3. n = 0 => tools \in [1 .. 0 -> Tool]
    BY <2>2
  <2> QED BY <2>1, <2>2, <2>3
<1>5. PICK t \in PartSet : t = TextPart(TRUE) /\ t.kind = "text"
  BY MadeParts DEF TextPart
<1>6. text = <<>> \/ text = <<t>>
  <2>1. CASE log[c].parts = <<>>
    BY <2>1
  <2>2. CASE log[c].parts = <<TextPart(FALSE)>>
    <3>1. DOMAIN log[c].parts = {1}
      BY <2>2
    <3>2. text = [i \in {1} |-> t]
      BY <1>5, <3>1
    <3> HIDE DEF text
    <3> QED BY <3>2
  <2> QED BY <1>3, <2>1, <2>2 DEF Blank
<1> DEFINE cs == calls(tools)
           todo == text \o cs
<1>7. /\ cs \in Seq(PartSet) /\ Len(cs) = Len(tools)
      /\ \A i \in 1 .. Len(cs) : cs[i].kind = "call" /\ cs[i].id = <<c, i>>
  <2>1. DOMAIN tools = 1 .. Len(tools) /\ Len(tools) \in Nat
    BY <1>4
  <2>2. c \in Nat
    BY Fields, LoopFields
  <2>3. \A i \in 1 .. Len(tools) : <<c, i>> \in Ids /\ tools[i] \in Tool
    BY <1>4, <2>2 DEF Ids
  <2>4. \A i \in 1 .. Len(tools) : CallPart(<<c, i>>, tools[i]) \in PartSet
    BY <2>3, MadeParts
  <2>5. \A i \in 1 .. Len(tools) :
           CallPart(<<c, i>>, tools[i]).kind = "call" /\ CallPart(<<c, i>>, tools[i]).id = <<c, i>>
    BY DEF CallPart
  <2>6. cs = [i \in 1 .. Len(tools) |-> CallPart(<<c, i>>, tools[i])]
    BY <2>1
  <2> HIDE DEF cs
  <2> QED BY <2>1, <2>4, <2>5, <2>6
<1> HIDE DEF text, cs, c
<1>8. Len(cs) \in Nat /\ (loop.marker # 0 => Len(cs) = 0)
  BY <1>4, <1>7
<1>9. /\ todo \in Seq(PartSet)
      /\ \A k \in 1 .. Len(todo) :
            \/ k = 1 /\ todo[k].kind = "text"
            \/ todo[k].kind = "call" /\ todo[k].id[1] = c /\ Len(cs) > 0
  <2>1. CASE text = <<>>
    <3>1. todo = cs
      BY <1>7, <2>1
    <3> HIDE DEF todo
    <3> QED BY <1>7, <1>8, <3>1
  <2>2. CASE text = <<t>>
    <3>1. /\ todo \in Seq(PartSet) /\ Len(todo) = Len(cs) + 1
          /\ todo[1] = t /\ \A k \in 2 .. Len(cs) + 1 : todo[k] = cs[k - 1]
      BY <1>7, <1>8, <2>2
    <3> HIDE DEF todo
    <3>2. \A k \in 2 .. Len(cs) + 1 : k - 1 \in 1 .. Len(cs) /\ Len(cs) > 0
      BY <1>8
    <3>3. \A k \in 1 .. Len(cs) + 1 : k = 1 \/ k \in 2 .. Len(cs) + 1
      BY <1>8
    <3>4. ASSUME NEW k \in 2 .. Len(cs) + 1
          PROVE  todo[k].kind = "call" /\ todo[k].id[1] = c /\ Len(cs) > 0
      <4>1. PICK j \in 1 .. Len(cs) : j = k - 1
        BY <3>2
      <4>2. todo[k] = cs[j] /\ cs[j].kind = "call" /\ cs[j].id = <<c, j>> /\ Len(cs) > 0
        BY <1>7, <3>1, <3>2, <4>1, SMTT(40)
      <4> QED BY <4>2
    <3> QED BY <1>5, <3>1, <3>3, <3>4
  <2> QED BY <1>6, <2>1, <2>2
<1>10. /\ loop'.pc = "tail" /\ loop'.todo = todo /\ loop'.cur = c /\ loop'.marker = loop.marker
       /\ loop'.history = loop.history /\ loop'.compacted = loop.compacted /\ loop'.cut = loop.cut
  BY <1>2, Fields, ZenonT(60) DEF LoopSet, cs, c, text
<1> HIDE DEF todo
<1>11. \A p \in Range(todo) :
          /\ p.kind = "text" \/ (p.kind = "call" /\ p.id[1] = c /\ loop.marker = 0)
  BY <1>8, <1>9, InRange
<1>12. TextFirst(todo)
  BY <1>9 DEF TextFirst
<1>13. \A p \in Range(todo) : Suits(log', c, p)
  BY <1>1, <1>3, <1>11 DEF Suits, FitsRole, c
<1>14. Pending'
  BY <1>1, <1>3, <1>10, <1>11, <1>12, <1>13, Fields DEF Pending, Settled, c
<1>15. Located'
  <2>1. loop.cur = c
    BY DEF c
  <2> QED BY <1>1, <1>10, <2>1 DEF Stepped, Inv, Local, Located
<1>16. Following'
  BY <1>1, <1>10 DEF Stepped, Inv, Local, Following, c
<1>17. Longer(log, log') /\ Quiet(log, log')
  BY <1>1, GrownStep DEF Stepped, Inv
<1>18. {p \in Range(loop'.todo) : p.kind = "result"} = {p \in Range(loop.todo) : p.kind = "result"}
  <2>1. {p \in Range(loop'.todo) : p.kind = "result"} = {}
    BY <1>10, <1>11
  <2>2. {p \in Range(loop.todo) : p.kind = "result"} = {}
    BY <1>1 DEF Range
  <2> QED BY <2>1, <2>2
<1>19. Answered'
  <2>1. Outcomes(log', loop'.todo) = Outcomes(log, loop.todo)
    BY <1>1, <1>18 DEF Outcomes
  <2> QED BY <1>1, <1>17, <2>1, AnsweredKept DEF Stepped, Inv, Local
<1>20. Turns'
  BY <1>1, <1>10, TurnsStay DEF Stepped, Inv, Local, Turns, c
<1>21. Remembered'
  BY <1>1, <1>10, <1>17, <1>18, RememberedLonger
<1>22. Ended'
  BY <1>1, Awake DEF Stepped, Inv, Local
<1>23. Reminded' /\ Paced'
  BY <1>1, <1>10 DEF Stepped, Inv, Local, Reminded, Paced
<1> QED BY <1>14, <1>15, <1>16, <1>19, <1>20, <1>21, <1>22, <1>23 DEF Local

\* One write of a part.
LEMMA WriteKeeps ==
    ASSUME Stepped, Write
    PROVE  Local'
<1> DEFINE c == loop.cur
           m == log[c]
           p == Head(loop.todo)
           parts == Put(m.parts, p)
<1>1. /\ loop.todo # <<>> /\ loop' = [loop EXCEPT !.todo = Tail(loop.todo)]
      /\ UNCHANGED <<mine, stopped, laps, doomed>>
  BY DEF Write
<1>2. loop.todo \in Seq(PartSet)
  BY Fields, LoopFields
<1>3. /\ p \in PartSet /\ p \in Range(loop.todo) /\ Tail(loop.todo) \in Seq(PartSet)
      /\ Range(loop.todo) = {p} \cup Range(Tail(loop.todo))
  BY <1>1, <1>2, TodoFacts
<1>4. /\ loop.pc \in {"top", "tail", "mark", "commit"} /\ c \in 1 .. Len(log)
      /\ loop.pc \in {"top", "mark"} => m.role # "assistant"
      /\ TextFirst(loop.todo)
      /\ \A q \in Range(loop.todo) :
            /\ Suits(log, c, q) /\ q.kind # "reminder" /\ (q.kind = "text" => Blank(m))
            /\ loop.pc = "tail" => q.kind # "compaction" /\ (q.kind = "call" => loop.marker = 0)
            /\ loop.pc = "commit" => q.kind = "compaction"
  BY <1>1, Fields DEF Stepped, Inv, Local, Pending
<1>5. \A q \in Range(Tail(loop.todo)) : q.kind # "text"
  BY <1>1, <1>2, <1>4, TodoFacts
<1>6. m \in MessageSet /\ log' = Rewrite(log, c, parts) /\ parts \in Seq(PartSet)
  BY WriteFits DEF Stepped, Inv, Local
<1>7. TextFirst(m.parts) /\ \A q \in Range(m.parts) : Suits(log, c, q)
  BY <1>4, Fields DEF Stepped, Inv, Sound
<1> HIDE DEF p
<1>8. /\ Range(parts) \subseteq Range(m.parts) \cup {p} /\ p \in Range(parts)
      /\ \A q \in Range(m.parts) : q.kind # "text" => q \in Range(parts)
  BY <1>3, <1>4, <1>6, <1>7, PutFacts
<1> HIDE DEF parts
<1>9. /\ Len(log') = Len(log) /\ DOMAIN log' = 1 .. Len(log) /\ Len(log) \in Nat
      /\ \A i \in 1 .. Len(log) : i # c => log'[i] = log[i]
      /\ log'[c].role = m.role /\ log'[c].parts = parts
  <2>1. log \in Seq(MessageSet) /\ c \in 1 .. Len(log) /\ parts \in Seq(PartSet)
    BY <1>4, <1>6, Fields
  <2> QED BY <1>6, <2>1, RewriteLog, ZenonT(60)
<1>10. /\ loop'.pc = loop.pc /\ loop'.todo = Tail(loop.todo) /\ loop'.cur = c /\ loop'.marker = loop.marker
       /\ loop'.history = loop.history /\ loop'.compacted = loop.compacted /\ loop'.cut = loop.cut
  BY <1>1, Fields DEF LoopSet
<1> HIDE DEF m, c
<1>11. ~Settled(log'[c])
  BY <1>3, <1>4, <1>8, <1>9 DEF Settled
<1>12. Pending'
  <2>1. \A q \in Range(Tail(loop.todo)) : q \in PartSet
    BY <1>3, InRange
  <2>2. \A q \in Range(Tail(loop.todo)) : Suits(log', c, q)
    BY <1>3, <1>4, <2>1, SuitsKept, Fields DEF Stepped
  <2>3. TextFirst(Tail(loop.todo))
    BY <1>3, <1>5, InRange DEF TextFirst
  <2> QED BY <1>3, <1>4, <1>5, <1>9, <1>10, <1>11, <2>2, <2>3 DEF Pending
<1>13. ASSUME loop.pc = "tail" PROVE Parts(log'[c], "compaction") = {} /\ (loop.marker # 0 => CallIds(log'[c]) = {})
  <2>1. Parts(m, "compaction") = {} /\ (loop.marker # 0 => CallIds(m) = {})
    BY <1>13 DEF Stepped, Inv, Local, Located, m, c
  <2>2. \A q \in Range(m.parts) : q.kind # "compaction" /\ (loop.marker # 0 => q.kind # "call")
    BY <2>1 DEF Parts, CallIds
  <2>3. \A q \in Range(log'[c].parts) : q.kind # "compaction" /\ (loop.marker # 0 => q.kind # "call")
    BY <1>3, <1>4, <1>8, <1>9, <1>13, <2>2
  <2> QED BY <2>3 DEF Parts, CallIds
<1>14. Located'
  <2>1. loop.marker # 0 =>
          /\ loop.marker \in 1 .. Len(log) /\ log[loop.marker].role = "user"
          /\ ~Settled(log[loop.marker]) /\ Prefix(loop.cut, loop.marker)
    BY Fields DEF Stepped, Inv, Local, Located
  <2>2. loop.marker # 0 => log'[loop.marker].role = "user" /\ ~Settled(log'[loop.marker])
    BY <1>9, <1>11, <2>1 DEF m
  <2>3. loop.pc \in {"tail", "commit"} => m.role = "assistant" /\ loop.marker < c
    BY DEF Stepped, Inv, Local, Located, m, c
  <2>4. /\ loop.pc \in {"idle", "top", "check", "before", "tools"} => loop.marker = 0
        /\ loop.pc \in {"mark", "commit", "reject", "after"} => loop.marker # 0
    BY DEF Stepped, Inv, Local, Located
  <2> QED BY <1>4, <1>9, <1>10, <1>13, <2>1, <2>2, <2>3, <2>4 DEF Located
<1>15. Following'
  <2>1. c \in Nat
    BY <1>4
  <2>2. \A k \in c + 1 .. Len(log) : k \in 1 .. Len(log) /\ k # c
    BY <1>9, <2>1
  <2>3. loop.marker = 0 /\ loop.pc = "tail" => \A k \in c + 1 .. Len(log) : Settled(log[k])
    BY DEF Stepped, Inv, Local, Following, c
  <2> QED BY <1>4, <1>9, <1>10, <2>2, <2>3 DEF Following
<1>16. Outcomes(log', loop'.todo) = Outcomes(log, loop.todo)
  <2>0. log' \in Seq(MessageSet)
    BY Fields
  <2>1. \A x : x \in Given(log') <=> \E i \in 1 .. Len(log) : x \in Parts(log'[i], "result")
    <3>1. \A y \in Range(log') : \E i \in 1 .. Len(log) : log'[i] = y
      BY <1>9, <2>0, InRange
    <3>2. \A i \in 1 .. Len(log) : log'[i] \in Range(log')
      BY <1>9, <2>0, InRange
    <3> QED BY <3>1, <3>2 DEF Given
  <2>2. \A x : x \in Given(log) <=> \E i \in 1 .. Len(log) : x \in Parts(log[i], "result")
    BY Fields, InRange DEF Given
  <2>3. /\ \A x \in Parts(log'[c], "result") : x \in Parts(m, "result") \/ (x = p /\ p.kind = "result")
        /\ \A x \in Parts(m, "result") : x \in Parts(log'[c], "result")
        /\ p.kind = "result" => p \in Parts(log'[c], "result")
    BY <1>8, <1>9 DEF Parts
  <2>4. \A x : x \in Given(log') <=> x \in Given(log) \/ (x = p /\ p.kind = "result")
    BY <1>4, <1>9, <2>1, <2>2, <2>3 DEF m
  <2> QED BY <1>3, <1>10, <2>4 DEF Outcomes
<1>17. Answered'
  <2> SUFFICES ASSUME NEW i \in DOMAIN log', NEW id \in CallIds(log'[i])
               PROVE  \/ i \in stopped'
                      \/ \E r \in Outcomes(log', loop'.todo) : r.id = id
                      \/ loop'.pc \in {"tail", "tools"} /\ loop'.marker = 0 /\ i = loop'.cur
    BY DEF Answered
  <2>1. i \in DOMAIN log
    BY <1>9, Fields
  <2>2. CASE id \in CallIds(log[i])
    BY <1>1, <1>10, <1>16, <2>1, <2>2 DEF Stepped, Inv, Local, Answered, c
  <2>3. CASE id \notin CallIds(log[i])
    <3>1. i = c
      BY <1>9, <2>1, <2>3
    <3>2. PICK q \in Range(parts) : q.kind = "call" /\ q.id = id
      BY <1>9, <3>1 DEF CallIds, Parts
    <3>3. q \notin Range(m.parts)
      BY <2>3, <3>1, <3>2 DEF CallIds, Parts, m
    <3>4. p.kind = "call"
      BY <1>8, <3>2, <3>3
    <3>5. m.role = "assistant"
      BY <1>3, <1>4, <3>4 DEF Suits, FitsRole, m
    <3> QED BY <1>3, <1>4, <1>10, <3>1, <3>4, <3>5
  <2> QED BY <2>2, <2>3
<1>18. Turns'
  BY <1>1, <1>4, <1>10, TurnsStay DEF Stepped, Inv, Local, Turns, c
<1>19. Remembered'
  <2>1. c \notin Range(mine)
    <3>1. \A x \in Range(mine) : log[x].role = "assistant"
      BY DEF Stepped, Inv, Local, Turns
    <3>2. loop.pc \in {"tail", "commit"} => c \notin Range(mine)
      BY DEF Stepped, Inv, Local, Turns, c
    <3> QED BY <1>4, <3>1, <3>2 DEF m
  <2>2. Steady
    BY <1>9, <2>1, Fields DEF Stepped, Inv, Local, Turns, Steady
  <2>3. Judged \in 0 .. Len(mine) /\ Judged' = Judged
    BY <1>1, <1>10, JudgedBound DEF Stepped, Inv, Local, Judged
  <2> QED BY <1>1, <1>10, <1>16, <2>2, <2>3, RememberedKept DEF Stepped, Inv, Local
<1>20. Ended'
  BY <1>1, <1>4, Awake DEF Stepped, Inv, Local
<1>21. Reminded' /\ Paced'
  BY <1>1, <1>4, <1>10 DEF Stepped, Inv, Local, Reminded, Paced
<1> QED BY <1>12, <1>14, <1>15, <1>17, <1>18, <1>19, <1>20, <1>21 DEF Local

\* A turn fails: a summary is rejected, any other turn ends the loop.
LEMMA TurnFailsKeeps ==
    ASSUME Stepped, TurnFails
    PROVE  Local'
<1>1. loop.pc \in {"stream", "tail"} /\ log' = log /\ doomed' = doomed
  BY DEF TurnFails
<1>2. CASE loop.marker = 0
  BY <1>1, <1>2, AbandonKeeps DEF TurnFails
<1>3. CASE loop.marker # 0
  <2>1. /\ loop' = [loop EXCEPT !.pc = "reject", !.todo = <<>>]
        /\ UNCHANGED <<mine, laps, stopped>>
    BY <1>3 DEF TurnFails
  <2>2. /\ loop'.pc = "reject" /\ loop'.todo = <<>> /\ loop'.marker = loop.marker /\ loop'.cut = loop.cut
        /\ loop'.history = loop.history /\ loop'.compacted = loop.compacted
    BY <2>1, Fields DEF LoopSet
  <2>3. Longer(log, log') /\ Quiet(log, log')
    BY <1>1, GrownStep DEF Stepped, Inv
  <2>4. {p \in Range(loop'.todo) : p.kind = "result"} = {p \in Range(loop.todo) : p.kind = "result"}
    <3>1. {p \in Range(loop'.todo) : p.kind = "result"} = {}
      BY <2>2 DEF Range
    <3>2. CASE loop.todo = <<>>
      BY <2>2, <3>2
    <3>3. CASE loop.todo # <<>>
      <4>1. \A p \in Range(loop.todo) : FitsRole(log[loop.cur].role, p.kind)
        BY <3>3 DEF Stepped, Inv, Local, Pending, Suits
      <4>2. log[loop.cur].role = "assistant"
        BY <1>1 DEF Stepped, Inv, Local, Located
      <4> QED BY <3>1, <4>1, <4>2 DEF FitsRole
    <3> QED BY <3>2, <3>3
  <2>5. Pending'
    BY <2>2, NothingPending DEF Stepped
  <2>6. Located'
    BY <1>1, <1>3, <2>2 DEF Stepped, Inv, Local, Located
  <2>7. Following' /\ Reminded'
    BY <1>3, <2>2 DEF Following, Reminded
  <2>8. Answered'
    <3>1. Outcomes(log', loop'.todo) = Outcomes(log, loop.todo)
      BY <1>1, <2>4 DEF Outcomes
    <3> QED BY <1>3, <2>1, <2>3, <3>1, AnsweredKept DEF Stepped, Inv, Local
  <2>9. Turns'
    BY <2>1, <2>2, TurnsStay DEF Turns
  <2>10. Remembered'
    BY <1>1, <2>1, <2>2, <2>3, <2>4, RememberedLonger
  <2>11. Ended'
    BY <1>1, Awake DEF Stepped, Inv, Local
  <2>12. Paced'
    BY <1>1, <1>3, <2>1, <2>2 DEF Stepped, Inv, Local, Paced
  <2> QED BY <2>5, <2>6, <2>7, <2>8, <2>9, <2>10, <2>11, <2>12 DEF Local
<1> QED BY <1>2, <1>3

-------------------------------------------------------------------------------
(* The rest of a step.                                                     *)

\* A step is done, with calls or without.
LEMMA StepDoneKeeps ==
    ASSUME Stepped, StepDone
    PROVE  Local'
<1> DEFINE c == loop.cur
<1>1. /\ loop.pc \in {"stream", "tail"} /\ loop.todo = <<>> /\ loop.marker = 0
      /\ log' = log /\ doomed' = doomed
  BY DEF StepDone, Streaming, Stored
<1>2. Longer(log, log') /\ Quiet(log, log')
  BY <1>1, GrownStep DEF Stepped, Inv
<1>3. CASE Parts(log[c], "call") = {} /\ Return /\ UNCHANGED stopped
  <2>1. CallIds(log[c]) = {}
    BY <1>3 DEF CallIds
  <2>2. Answered'
    BY <1>1, <1>2, <1>3, <2>1, ReturnAnswers
  <2> QED BY <1>1, <1>3, <2>2, ReturnKeeps
<1>4. CASE Abandon
  BY <1>1, <1>4, AbandonKeeps
<1>5. CASE /\ Parts(log[c], "call") # {}
           /\ loop' = [loop EXCEPT !.pc = "tools", !.steps = @ + 1, !.compacted = FALSE]
           /\ mine' = Append(mine, c) /\ laps' = 0
           /\ UNCHANGED stopped
  <2>1. /\ loop'.pc = "tools" /\ loop'.todo = <<>> /\ loop'.marker = 0 /\ loop'.cur = c
        /\ loop'.history = loop.history /\ loop'.compacted = FALSE
    BY <1>1, <1>5, Fields DEF LoopSet
  <2>2. /\ c \in DOMAIN log /\ log[c].role = "assistant" /\ c \in Nat
        /\ Parts(log[c], "compaction") = {} /\ 0 < c
    BY <1>1, Fields DEF Stepped, Inv, Local, Located
  <2>3. mine \in Seq(Nat) /\ Len(mine) \in Nat /\ c \notin Range(mine)
    BY <1>1, Fields DEF Stepped, Inv, Local, Turns
  <2>4. /\ Len(mine') = Len(mine) + 1 /\ mine'[Len(mine) + 1] = c
        /\ \A k \in 1 .. Len(mine) : mine'[k] = mine[k]
        /\ Range(mine') = Range(mine) \cup {c} /\ mine' # <<>>
    BY <1>5, <2>2, <2>3, RangeAppend
  <2>5. Pending'
    BY <2>1, NothingPending DEF Stepped
  <2>6. Located'
    BY <1>1, <2>1, <2>2 DEF Located
  <2>7. Following'
    BY <1>1, <2>1 DEF Stepped, Inv, Local, Following
  <2>8. Answered'
    <3>1. Outcomes(log', loop'.todo) = Outcomes(log, loop.todo)
      BY <1>1, <2>1
    <3> QED BY <1>2, <1>5, <2>1, <3>1, AnsweredKept DEF Stepped, Inv, Local
  <2>9. Turns'
    <3>1. \A x \in Range(mine') : x \in DOMAIN log' /\ log'[x].role = "assistant"
      BY <1>1, <2>2, <2>4 DEF Stepped, Inv, Local, Turns
    <3>2. \A k \in 1 .. Len(mine) : mine'[k] # c
      BY <2>3, <2>4, InRange
    <3>3. Len(mine') - 1 = Len(mine)
      BY <2>3, <2>4
    <3> QED BY <1>1, <1>5, <2>1, <2>4, <3>1, <3>2, <3>3 DEF Turns
  <2>10. Remembered'
    <3>1. Judged = Len(mine) /\ Judged' = Len(mine)
      BY <1>1, <2>1, <2>3, <2>4 DEF Judged
    <3>2. Steady
      BY <1>1 DEF Steady
    <3>3. Outcomes(log', loop'.todo) = Outcomes(log, loop.todo)
      BY <1>1, <2>1
    <3> QED BY <2>1, <2>3, <2>4, <3>1, <3>2, <3>3, RememberedKept DEF Stepped, Inv, Local
  <2>11. Ended'
    BY <1>1, Awake DEF Stepped, Inv, Local
  <2>12. Reminded' /\ Paced'
    BY <1>5, <2>1 DEF Reminded, Paced
  <2> QED BY <2>5, <2>6, <2>7, <2>8, <2>9, <2>10, <2>11, <2>12 DEF Local
<1> QED BY <1>3, <1>4, <1>5 DEF StepDone

\* No call of the message has a result yet.
LEMMA Unserved ==
    ASSUME Inv, loop.pc = "tools"
    PROVE  \A r \in Given(log) : r.id[1] # loop.cur
<1> SUFFICES ASSUME NEW r \in Given(log), r.id[1] = loop.cur PROVE FALSE
  OBVIOUS
<1>0. log \in Seq(MessageSet)
  BY DEF Inv, Typed
<1>1. PICK m \in Range(log) : r \in Range(m.parts) /\ r.kind = "result"
  BY DEF Given, Parts
<1>2. PICK j \in 1 .. Len(log) : log[j] = m
  BY <1>0, InRange
<1>3. Suits(log, j, r)
  BY <1>0, <1>1, <1>2 DEF Inv, Sound
<1>4. loop.cur \in 1 .. j - 1 /\ FitsRole(log[j].role, "result")
  BY <1>1, <1>3 DEF Suits
<1>5. j \in loop.cur + 1 .. Len(log)
  BY <1>0, <1>4
<1>6. Settled(log[j])
  BY <1>5 DEF Inv, Local, Following, Located
<1> QED BY <1>4, <1>6 DEF Settled, FitsRole

\* The calls of a message are numbered after it.
LEMMA CallNumbers ==
    ASSUME Inv, NEW i \in DOMAIN log, NEW id \in CallIds(log[i])
    PROVE  id[1] = i /\ id \in Ids
<1>1. PICK p \in Range(log[i].parts) : p.kind = "call" /\ p.id = id
  BY DEF CallIds, Parts
<1>2. Suits(log, i, p)
  BY <1>1 DEF Inv, Sound
<1>3. log[i] \in MessageSet
  BY DEF Inv, Typed
<1>4. p \in PartSet
  BY <1>1, <1>3, MessageParts
<1> QED BY <1>1, <1>2, <1>4, PartKinds DEF Suits

\* What a result says.
LEMMA ResultFields ==
    ASSUME NEW id, NEW b
    PROVE  ResultPart(id, b).kind = "result" /\ ResultPart(id, b).id = id /\ ResultPart(id, b).ok = b
BY DEF ResultPart

\* The history with the step that has just been made.
LEMMA PastRecalls ==
    ASSUME Inv, loop.pc = "tools", NEW denied, NEW ok
    PROVE  LET m       == log[loop.cur]
               results == Merge(Calls(m), denied, ok)
               past    == Remember(loop.history, DoomSummary(m, Range(results)))
               n       == Len(mine)
           IN /\ past \in Seq(SummarySet)
              /\ Len(past) = IF n <= Threshold THEN n ELSE Threshold + 1
              /\ \A k \in 1 .. Len(past) : Recalls(past[k], log, results, mine[n - Len(past) + k])
<1> DEFINE c == loop.cur
           m == log[c]
           results == Merge(Calls(m), denied, ok)
           s == DoomSummary(m, Range(results))
           h == loop.history
           past == Remember(h, s)
           n == Len(mine)
<1>1. c \in 1 .. Len(log) /\ m \in MessageSet /\ CallsOnly(m)
  BY ToolsMessage DEF Inv, Local
<1>2. /\ results \in Seq(PartSet)
      /\ \A r \in Range(results) : r.kind = "result" /\ r.id \in CallIds(m)
  BY <1>1, MergeFacts
<1>3. h \in Seq(SummarySet) /\ s \in SummarySet
  BY <1>1, SummaryTyped, LoopFields DEF Inv, Typed
<1>4. Threshold \in Nat
  BY ProjectionAssumption DEF ProjectionAssumption
<1>5. /\ mine \in Seq(Nat) /\ n \in Nat /\ n > 0 /\ mine[n] = c
      /\ \A k \in 1 .. n - 1 : mine[k] # c
      /\ Parts(m, "call") # {}
  <2>1. mine \in Seq(Nat) /\ mine # <<>>
    BY DEF Inv, Typed, Local, Turns
  <2> QED BY <2>1 DEF Inv, Local, Turns
<1>6. /\ Len(h) = IF n - 1 <= Threshold THEN n - 1 ELSE Threshold + 1
      /\ \A k \in 1 .. Len(h) : Recalls(h[k], log, loop.todo, mine[n - 1 - Len(h) + k])
  <2>1. Judged = n - 1 /\ DOMAIN h = 1 .. Len(h)
    BY <1>3 DEF Judged
  <2> QED BY <2>1 DEF Inv, Local, Remembered
<1>7. loop.todo = <<>>
  BY StoredAt
<1> HIDE DEF results
<1>8. /\ past \in Seq(SummarySet)
      /\ Len(past) = IF Len(h) <= Threshold THEN Len(h) + 1 ELSE Len(h)
      /\ Len(past) > 0 /\ past[Len(past)] = s
      /\ \A k \in 1 .. Len(past) - 1 : past[k] = h[Len(h) - Len(past) + 1 + k]
  BY <1>3, RememberFacts
<1>9. s.text <=> HasText(m)
  BY DEF DoomSummary
<1>10. s.tools = ToolsOf(m) /\ s.tools # {}
  BY <1>5 DEF DoomSummary, ToolsOf
<1>11. s.wrote <=> Wrote(log, results, c)
  <2>1. s.wrote <=> \E p \in Parts(m, "call"), r \in Range(results) :
                        r.id = p.id /\ r.ok /\ p.tool \notin ReadOnly
    BY DEF DoomSummary
  <2>2. ASSUME NEW p \in Parts(m, "call")
        PROVE  ResultPart(p.id, TRUE) \in Outcomes(log, results)
                  <=> \E r \in Range(results) : r.id = p.id /\ r.ok
    <3>1. p.id \in CallIds(m)
      BY DEF CallIds
    <3>2. p.id[1] = c
      BY <1>1, <3>1, CallNumbers DEF Inv, Typed
    <3>0. PICK yes : yes = TRUE
      OBVIOUS
    <3> PICK good : good = ResultPart(p.id, yes)
      OBVIOUS
    <3>a. good = ResultPart(p.id, TRUE)
      BY <3>0, Zenon
    <3>b. good.kind = "result" /\ good.id = p.id /\ good.ok = yes
      BY ONLY ResultFields, good = ResultPart(p.id, yes)
    <3>3. good.kind = "result" /\ good.id = p.id /\ good.ok
      BY <3>0, <3>b
    <3>4. good \notin Given(log)
      BY <3>2, <3>3, Unserved
    <3>5. good \in Outcomes(log, results) <=> good \in Range(results)
      BY <3>3, <3>4 DEF Outcomes
    <3>6. \A r \in Range(results) : r.id = p.id /\ r.ok => r = good
      <4> SUFFICES ASSUME NEW r \in Range(results), r.id = p.id, r.ok PROVE r = good
        OBVIOUS
      <4>1. r \in PartSet /\ r.kind = "result"
        BY <1>2, InRange
      <4>2. r = ResultPart(r.id, r.ok) /\ r.ok \in BOOLEAN
        BY <4>1, PartKinds
      <4>3. r.ok = TRUE
        BY <4>2
      <4> QED BY <3>a, <4>2, <4>3, Zenon
    <3> QED BY <3>3, <3>5, <3>6, <3>a, Zenon
  <2> QED BY <2>1, <2>2, Zenon DEF Wrote
<1>12. Recalls(s, log, results, c)
  BY <1>9, <1>10, <1>11, Zenon DEF Recalls
<1> HIDE DEF s, past, n, h
<1>13. ASSUME NEW x \in DOMAIN log, x # c, NEW g, Recalls(g, log, loop.todo, x)
       PROVE  Recalls(g, log, results, x)
  <2>1. ASSUME NEW p \in Parts(log[x], "call")
        PROVE  ResultPart(p.id, TRUE) \in Outcomes(log, results)
                  <=> ResultPart(p.id, TRUE) \in Outcomes(log, loop.todo)
    <3>0. PICK yes : yes = TRUE
      OBVIOUS
    <3> PICK good : good = ResultPart(p.id, yes)
      OBVIOUS
    <3>a. good = ResultPart(p.id, TRUE)
      BY <3>0, Zenon
    <3>1. good.id = p.id
      BY ONLY ResultFields, good = ResultPart(p.id, yes)
    <3>2. p.id[1] = x
      BY CallNumbers DEF CallIds
    <3>3. good \notin Range(results)
      <4>1. \A r \in Range(results) : r.id[1] = c
        BY <1>1, <1>2, CallNumbers DEF Inv, Typed
      <4> QED BY <1>13, <3>1, <3>2, <4>1
    <3>4. Range(loop.todo) = {}
      BY <1>7 DEF Range
    <3>5. good \in Outcomes(log, results) <=> good \in Outcomes(log, loop.todo)
      BY <3>3, <3>4 DEF Outcomes
    <3> QED BY <3>5, <3>a, Zenon
  <2>2. Wrote(log, results, x) <=> Wrote(log, loop.todo, x)
    BY <2>1, Zenon DEF Wrote
  <2> QED BY <1>13, <2>2, Zenon DEF Recalls
<1>14. Len(h) \in Nat /\ Len(past) \in Nat
  BY <1>3, <1>8
<1>15. Len(past) = IF n <= Threshold THEN n ELSE Threshold + 1
  BY <1>4, <1>5, <1>6, <1>8, <1>14
<1>16. ASSUME NEW k \in 1 .. Len(past) PROVE Recalls(past[k], log, results, mine[n - Len(past) + k])
  <2>1. CASE k = Len(past)
    <3>1. n - Len(past) + k = n
      BY <1>5, <1>14, <2>1
    <3> QED BY <1>5, <1>8, <1>12, <2>1, <3>1
  <2>2. CASE k # Len(past)
    <3>1. k \in 1 .. Len(past) - 1
      BY <1>14, <2>2
    <3>2. PICK j \in 1 .. Len(h) : j = Len(h) - Len(past) + 1 + k
      BY <1>4, <1>8, <1>14, <3>1
    <3>3. past[k] = h[j] /\ Recalls(h[j], log, loop.todo, mine[n - 1 - Len(h) + j])
      BY <1>6, <1>8, <3>1, <3>2
    <3>4. n - 1 - Len(h) + j = n - Len(past) + k /\ n - Len(past) + k \in 1 .. n - 1
      BY <1>4, <1>5, <1>14, <1>15, <3>1, <3>2
    <3>5. mine[n - Len(past) + k] \in DOMAIN log /\ mine[n - Len(past) + k] # c
      <4>1. mine[n - Len(past) + k] \in Range(mine)
        BY <1>5, <3>4, InRange DEF n
      <4> QED BY <1>5, <3>4, <4>1 DEF Inv, Local, Turns
    <3> QED BY <1>13, <3>3, <3>4, <3>5
  <2> QED BY <2>1, <2>2
<1> QED BY <1>8, <1>15, <1>16 DEF past, s, n, h, results

-------------------------------------------------------------------------------
(* The doom guard.                                                         *)

\* Judged by the transcript, no call of message x but reads has succeeded.
Harmless(x) ==
    \A p \in Parts(log[x], "call"), m \in Range(log) :
        p.tool \notin ReadOnly => ResultPart(p.id, TRUE) \notin Range(m.parts)

\* The same, by what is stored and what is about to be.
LEMMA HarmlessWrote ==
    ASSUME NEW todo, NEW x
    PROVE  /\ ~Wrote(log, todo, x) => Harmless(x)
           /\ todo = <<>> /\ Harmless(x) => ~Wrote(log, todo, x)
<1>1. ASSUME NEW p \in Parts(log[x], "call")
      PROVE  /\ ResultPart(p.id, TRUE) \notin Outcomes(log, todo)
                  => \A m \in Range(log) : ResultPart(p.id, TRUE) \notin Range(m.parts)
             /\ todo = <<>> /\ (\A m \in Range(log) : ResultPart(p.id, TRUE) \notin Range(m.parts))
                  => ResultPart(p.id, TRUE) \notin Outcomes(log, todo)
  <2>0. PICK yes : yes = TRUE
    OBVIOUS
  <2> PICK good : good = ResultPart(p.id, yes)
    OBVIOUS
  <2>1. good = ResultPart(p.id, TRUE)
    BY <2>0, Zenon
  <2>2. good.kind = "result"
    BY ONLY ResultFields, good = ResultPart(p.id, yes)
  <2>3. good \in Given(log) <=> \E m \in Range(log) : good \in Range(m.parts)
    BY <2>2 DEF Given, Parts
  <2>4. good \in Given(log) => good \in Outcomes(log, todo)
    BY DEF Outcomes
  <2>5. todo = <<>> => (good \in Outcomes(log, todo) => good \in Given(log))
    BY DEF Outcomes, Range
  <2> QED BY <2>1, <2>3, <2>4, <2>5, Zenon
<1>2. ~Wrote(log, todo, x) => Harmless(x)
  BY <1>1, Zenon DEF Wrote, Harmless
<1>3. todo = <<>> /\ Harmless(x) => ~Wrote(log, todo, x)
  <2> SUFFICES ASSUME todo = <<>>, Harmless(x) PROVE ~Wrote(log, todo, x)
    OBVIOUS
  <2>1. \A p \in Parts(log[x], "call") : p.tool \notin ReadOnly =>
            \A m \in Range(log) : ResultPart(p.id, TRUE) \notin Range(m.parts)
    BY Zenon DEF Harmless
  <2> QED BY <1>1, <2>1, Zenon DEF Wrote
<1> QED BY <1>2, <1>3

\* The guard judges by its history as the transcript says.
LEMMA GuardJudges ==
    ASSUME NEW h \in Seq(SummarySet), NEW todo, NEW ms \in Seq(Nat),
           Len(h) = IF Len(ms) <= Threshold THEN Len(ms) ELSE Threshold + 1,
           \A k \in 1 .. Len(h) : Recalls(h[k], log, todo, ms[Len(ms) - Len(h) + k])
    PROVE  /\ Doomed(h) => Len(ms) >= Threshold /\ Idle(LastTurns(ms))
           /\ todo = <<>> /\ Len(ms) >= Threshold /\ Idle(LastTurns(ms)) => Doomed(h)
<1> DEFINE T == Threshold
           n == Len(ms)
           d == Len(h) - T
           last == LastTurns(ms)
<1>1. T \in Nat /\ T > 0
  BY ProjectionAssumption DEF ProjectionAssumption
<1>2. n \in Nat /\ Len(h) \in Nat
  OBVIOUS
<1>3. Len(h) >= T <=> n >= T
  BY <1>1, <1>2
<1>4. Doomed(h) => n >= T
  BY <1>1, <1>2, <1>3 DEF Doomed
<1>5. ASSUME n >= T
      PROVE  /\ Doomed(h) => Idle(last)
             /\ todo = <<>> /\ Idle(last) => Doomed(h)
  <2>1. last \in Seq(Nat) /\ Len(last) = T /\ \A i \in 1 .. T : last[i] = ms[n - T + i]
    BY <1>1, <1>2, <1>5, SMTT(40) DEF LastTurns
  <2> DEFINE g(i) == h[d + i]
  <2>2. d \in Nat /\ Len(h) = d + T
    BY <1>1, <1>2, <1>3, <1>5
  <2> HIDE DEF d
  <2>3. ASSUME NEW i \in 1 .. T PROVE Recalls(g(i), log, todo, last[i])
    <3>1. d + i \in 1 .. Len(h)
      BY <1>1, <2>2
    <3>2. Recalls(h[d + i], log, todo, ms[n - Len(h) + (d + i)])
      BY <3>1
    <3>3. n - Len(h) + (d + i) = n - T + i
      BY ONLY <1>1, <1>2, <2>2, i \in 1 .. T
    <3> QED BY <2>1, <3>2, <3>3
  <2>4. Doomed(h) <=> /\ \A i \in 1 .. T : ~g(i).text /\ ~g(i).wrote /\ g(i).tools # {}
                      /\ \A i \in 1 .. T - 1 : g(i + 1).tools \subseteq g(i).tools
    <3>1. \A j \in d + 1 .. Len(h) : j - d \in 1 .. T /\ d + (j - d) = j
      BY <1>1, <2>2
    <3>2. \A j \in d + 1 .. Len(h) - 1 : j - d \in 1 .. T - 1 /\ d + (j - d) = j /\ d + (j - d + 1) = j + 1
      BY <1>1, <2>2
    <3>3. \A i \in 1 .. T : d + i \in d + 1 .. Len(h)
      BY <1>1, <2>2
    <3>4. \A i \in 1 .. T - 1 : d + i \in d + 1 .. Len(h) - 1 /\ (d + i) + 1 = d + (i + 1)
      BY <1>1, <2>2
    <3>5. Doomed(h) <=> /\ d >= 0
                        /\ \A i \in d + 1 .. Len(h) : ~h[i].text /\ ~h[i].wrote /\ h[i].tools # {}
                        /\ \A i \in d + 1 .. Len(h) - 1 : h[i + 1].tools \subseteq h[i].tools
      BY DEF Doomed, d
    <3>6. (\A i \in d + 1 .. Len(h) : ~h[i].text /\ ~h[i].wrote /\ h[i].tools # {})
             <=> \A i \in 1 .. T : ~g(i).text /\ ~g(i).wrote /\ g(i).tools # {}
      BY <3>1, <3>3
    <3>7. (\A i \in d + 1 .. Len(h) - 1 : h[i + 1].tools \subseteq h[i].tools)
             <=> \A i \in 1 .. T - 1 : g(i + 1).tools \subseteq g(i).tools
      BY <3>2, <3>4
    <3>8. d >= 0
      BY <2>2
    <3> QED BY <3>5, <3>6, <3>7, <3>8, Zenon
  <2>5. Idle(last) <=> /\ \A i \in 1 .. T : ~HasText(log[last[i]]) /\ Harmless(last[i])
                       /\ \A i \in 1 .. T - 1 : ToolsOf(log[last[i + 1]]) \subseteq ToolsOf(log[last[i]])
    <3>1. DOMAIN last = 1 .. T
      BY <2>1
    <3> HIDE DEF last
    <3> QED BY <2>1, <3>1, Zenon DEF Idle, Harmless, ToolsOf
  <2> HIDE DEF g, last
  <2>6. \A i \in 1 .. T : /\ g(i).text <=> HasText(log[last[i]])
                          /\ g(i).wrote <=> Wrote(log, todo, last[i])
                          /\ g(i).tools = ToolsOf(log[last[i]]) /\ g(i).tools # {}
    BY <2>3, Zenon DEF Recalls
  <2>7. \A i \in 1 .. T - 1 : i \in 1 .. T /\ i + 1 \in 1 .. T
    BY <1>1
  <2>8. (\A i \in 1 .. T - 1 : g(i + 1).tools \subseteq g(i).tools)
           <=> \A i \in 1 .. T - 1 : ToolsOf(log[last[i + 1]]) \subseteq ToolsOf(log[last[i]])
    <3>1. \A i \in 1 .. T - 1 : /\ g(i).tools = ToolsOf(log[last[i]])
                              /\ g(i + 1).tools = ToolsOf(log[last[i + 1]])
      BY <2>6, <2>7, Zenon
    <3>2. ASSUME NEW i \in 1 .. T - 1
          PROVE  g(i + 1).tools \subseteq g(i).tools
                    <=> ToolsOf(log[last[i + 1]]) \subseteq ToolsOf(log[last[i]])
      BY <3>1
    <3> QED BY <3>2, Zenon
  <2>9. \A i \in 1 .. T : /\ ~Wrote(log, todo, last[i]) => Harmless(last[i])
                          /\ todo = <<>> /\ Harmless(last[i]) => ~Wrote(log, todo, last[i])
    BY HarmlessWrote, Zenon
  <2> QED BY <2>4, <2>5, <2>6, <2>8, <2>9, Zenon
<1> QED BY <1>4, <1>5

\* The tools of a step: the guard ends the loop, or every call gets a result.
LEMMA RunToolsKeeps ==
    ASSUME Stepped, RunTools
    PROVE  Local'
<1> DEFINE c == loop.cur
           m == log[c]
           new == Len(log) + 1
<1>0. loop.pc = "tools" /\ Inv
  BY DEF RunTools, At, Stepped
<1>1. PICK denied, ok :
         LET rs == Merge(Calls(m), denied, ok)
             past == Remember(loop.history, DoomSummary(m, Range(rs)))
         IN \/ Doomed(past) /\ Abandon /\ doomed' = mine /\ log' = log
            \/ /\ ~Doomed(past)
               /\ log' = Append(log, Message("tool", <<>>))
               /\ loop' = [loop EXCEPT !.pc = "top", !.history = past, !.cur = new, !.todo = rs]
               /\ UNCHANGED <<mine, laps, stopped, doomed>>
  BY DEF RunTools
<1> PICK rs : rs = Merge(Calls(m), denied, ok)
  OBVIOUS
<1> PICK past : past = Remember(loop.history, DoomSummary(m, Range(rs)))
  OBVIOUS
<1>2. c \in 1 .. Len(log) /\ m \in MessageSet /\ CallsOnly(m)
  BY <1>0, ToolsMessage DEF Inv, Local
<1>3. /\ rs \in Seq(PartSet)
      /\ \A r \in Range(rs) : r.kind = "result" /\ r.id \in CallIds(m)
      /\ \A id \in CallIds(m) : \E r \in Range(rs) : r.id = id
  BY <1>2, MergeFacts
<1>4. /\ past \in Seq(SummarySet)
      /\ Len(past) = IF Len(mine) <= Threshold THEN Len(mine) ELSE Threshold + 1
      /\ \A k \in 1 .. Len(past) : Recalls(past[k], log, rs, mine[Len(mine) - Len(past) + k])
  BY <1>0, PastRecalls
<1>5. /\ mine \in Seq(Nat) /\ Len(mine) \in Nat /\ mine # <<>> /\ loop.todo = <<>>
      /\ loop.marker = 0 /\ laps = 0 /\ ~loop.compacted /\ m.role = "assistant" /\ 0 < c
  BY <1>0, Fields, StoredAt DEF Inv, Local, Turns, Located, Paced
<1>6. CASE Doomed(past) /\ Abandon /\ doomed' = mine /\ log' = log
  <2>1. Len(mine) >= Threshold /\ Idle(LastTurns(mine))
    BY <1>4, <1>5, <1>6, GuardJudges
  <2>2. loop' = NoLoop /\ mine' = <<>> /\ laps' = 0
    BY <1>6 DEF Abandon, Return
  <2>3. loop'.pc = "idle" /\ loop'.marker = 0 /\ loop'.history = <<>> /\ loop'.todo = <<>>
    BY <2>2 DEF NoLoop
  <2>4. Located' /\ Following' /\ Turns' /\ Remembered' /\ Reminded' /\ Paced'
    BY <2>2, <2>3, Fresh DEF Stepped
  <2>5. Answered'
    BY <1>6, AbandonAnswers
  <2>6. Pending'
    BY <2>3, NothingPending DEF Stepped
  <2>7. Ended'
    <3>1. Range(mine) \subseteq DOMAIN log
      BY <1>0 DEF Inv, Local, Turns
    <3>2. Idle(LastTurns(doomed))'
      <4> PICK ms : ms = LastTurns(mine)
        OBVIOUS
      <4>1. Idle(ms)
        BY <2>1
      <4>2. Idle(ms)'
        BY <1>6, <4>1, Zenon DEF Idle
      <4>3. LastTurns(doomed') = ms
        BY <1>6
      <4> QED BY <4>2, <4>3
    <3> QED BY <1>6, <2>1, <2>3, <3>1, <3>2 DEF Ended
  <2> QED BY <2>4, <2>5, <2>6, <2>7 DEF Local
<1>7. CASE /\ ~Doomed(past)
           /\ log' = Append(log, Message("tool", <<>>))
           /\ loop' = [loop EXCEPT !.pc = "top", !.history = past, !.cur = new, !.todo = rs]
           /\ UNCHANGED <<mine, laps, stopped, doomed>>
  <2>1. /\ Len(log) \in Nat /\ Len(log') = new /\ DOMAIN log' = 1 .. new
        /\ Longer(log, log') /\ Quiet(log, log')
        /\ log'[new].role = "tool" /\ ~Settled(log'[new])
    BY <1>7, NewMessage DEF Stepped, Inv
  <2>2. /\ loop'.pc = "top" /\ loop'.history = past /\ loop'.cur = new /\ loop'.todo = rs
        /\ loop'.marker = 0 /\ loop'.compacted = loop.compacted
    BY <1>5, <1>7, Fields DEF LoopSet
  <2>3. \A i \in 1 .. Len(log) : log'[i] = log[i]
    BY <2>1 DEF Longer
  <2>4. ASSUME NEW r \in Range(rs) PROVE Suits(log', new, r)
    <3>1. r.kind = "result" /\ r.id \in CallIds(m) /\ r.id[1] = c
      BY <1>0, <1>2, <1>3, Fields, CallNumbers
    <3>2. c \in 1 .. new - 1 /\ new - 1 = Len(log)
      BY <1>2, <2>1
    <3>3. \A k \in c + 1 .. Len(log) : Settled(log[k])
      BY <1>0, <1>5 DEF Inv, Local, Following
    <3>4. \A k \in c + 1 .. Len(log) : k \in 1 .. Len(log)
      BY <1>2, <2>1
    <3>5. \A k \in c + 1 .. new - 1 : Settled(log'[k])
      BY <2>3, <3>2, <3>3, <3>4
    <3>6. r.id \in CallIds(log'[c])
      BY <1>2, <2>3, <3>1
    <3> HIDE DEF c, m, new
    <3> QED BY <2>1, <3>1, <3>2, <3>5, <3>6 DEF Suits, FitsRole
  <2>5. Pending'
    <3>1. TextFirst(rs)
      BY <1>3, InRange DEF TextFirst
    <3>2. new \in DOMAIN log'
      BY <2>1
    <3> HIDE DEF new
    <3> QED BY <1>3, <2>1, <2>2, <2>4, <3>1, <3>2 DEF Pending
  <2>6. Located' /\ Following' /\ Reminded'
    BY <2>2 DEF Located, Following, Reminded
  <2>7. Given(log') = Given(log)
    BY <2>1 DEF Quiet
  <2>8. Answered'
    <3> SUFFICES ASSUME NEW i \in DOMAIN log', NEW id \in CallIds(log'[i])
                 PROVE  i \in stopped' \/ \E r \in Outcomes(log', loop'.todo) : r.id = id
      BY DEF Answered
    <3>1. i \in 1 .. Len(log) /\ id \in CallIds(log[i])
      <4>1. i \in 1 .. Len(log')
        BY <2>1
      <4> QED BY <2>1, <4>1 DEF Quiet
    <3>2. CASE i = c
      <4>1. PICK r \in Range(rs) : r.id = id
        BY <1>3, <3>1, <3>2
      <4> QED BY <1>3, <2>2, <4>1 DEF Outcomes
    <3>3. CASE i # c
      <4>1. i \in stopped \/ \E r \in Outcomes(log, loop.todo) : r.id = id
        BY <1>0, <3>1, <3>3, Fields DEF Inv, Local, Answered
      <4>2. Outcomes(log, loop.todo) = Given(log)
        BY <1>5 DEF Outcomes, Range
      <4> QED BY <1>7, <2>7, <4>1, <4>2 DEF Outcomes
    <3> QED BY <3>2, <3>3
  <2>9. Turns'
    BY <1>7, <2>2, TurnsStay DEF Turns
  <2>10. Remembered'
    <3>1. Judged' = Len(mine) /\ DOMAIN past = 1 .. Len(past) /\ Len(past) \in Nat
      BY <1>4, <1>7, <2>2 DEF Judged
    <3>2. Threshold \in Nat
      BY ProjectionAssumption DEF ProjectionAssumption
    <3>3. \A k \in 1 .. Len(past) : Len(mine) - Len(past) + k \in 1 .. Len(mine)
      BY <1>4, <1>5, <3>1, <3>2
    <3>4. Outcomes(log', rs) = Outcomes(log, rs)
      BY <2>7 DEF Outcomes
    <3>5. ASSUME NEW k \in 1 .. Len(past)
          PROVE  Recalls(past[k], log', rs, mine[Len(mine) - Len(past) + k])
      <4> PICK x : x = mine[Len(mine) - Len(past) + k]
        OBVIOUS
      <4>1. x \in Range(mine)
        BY <1>5, <3>3, InRange
      <4>2. x \in 1 .. Len(log)
        BY <1>0, <4>1, Fields DEF Inv, Local, Turns
      <4>3. log'[x] = log[x]
        BY <2>3, <4>2
      <4>4. Recalls(past[k], log, rs, x)
        BY <1>4
      <4>5. Wrote(log', rs, x) <=> Wrote(log, rs, x)
        BY <3>4, <4>3, Zenon DEF Wrote
      <4>6. Recalls(past[k], log', rs, x)
        BY <4>3, <4>4, <4>5, Zenon DEF Recalls
      <4> QED BY <4>6
    <3>6. Len(past) = IF Judged' <= Threshold THEN Judged' ELSE Threshold + 1
      BY <1>4, <3>1
    <3>7. \A k \in DOMAIN past : Recalls(past[k], log', rs, mine'[Judged' - Len(past) + k])
      BY <1>7, <3>1, <3>5
    <3> QED BY <1>7, <2>2, <3>6, <3>7, Zenon DEF Remembered
  <2>11. Ended'
    BY <1>0, <1>7, Awake DEF Inv, Local
  <2>12. Paced'
    BY <1>5, <1>7, <2>2 DEF Paced
  <2> QED BY <2>5, <2>6, <2>8, <2>9, <2>10, <2>11, <2>12 DEF Local
<1> QED BY <1>1, <1>6, <1>7

-------------------------------------------------------------------------------
(* A compaction.                                                           *)

\* What a step leaves alone that moves the loop on and stores reminders.
LEMMA GrowKeeps ==
    ASSUME Stepped, Longer(log, log'), Quiet(log, log'), UNCHANGED <<mine, stopped, doomed>>,
           loop.pc \notin {"idle", "tail", "tools"}, loop'.pc # "tools", loop'.pc # "idle",
           loop'.pc \notin {"stream", "tail", "commit"},
           loop.todo = <<>>, loop'.todo = <<>>, loop'.history = loop.history
    PROVE  Pending' /\ Answered' /\ Turns' /\ Remembered' /\ Ended'
<1>1. Pending'
  BY NothingPending DEF Stepped
<1>2. Answered'
  <2>1. Outcomes(log', loop'.todo) = Outcomes(log, loop.todo)
    BY DEF Outcomes, Quiet
  <2> QED BY <2>1, AnsweredKept DEF Stepped, Inv, Local
<1>3. Turns'
  BY TurnsStay DEF Turns
<1>4. Remembered'
  BY RememberedLonger
<1>5. Ended'
  BY Awake DEF Stepped, Inv, Local
<1> QED BY <1>1, <1>2, <1>3, <1>4, <1>5

\* The Before hook stops it.
LEMMA BeforeHookStopsKeeps ==
    ASSUME Stepped, BeforeHookStops
    PROVE  Local'
<1>1. loop.pc = "before" /\ UNCHANGED <<log, stopped, doomed>>
  BY DEF BeforeHookStops, At
<1>2. loop.todo = <<>> /\ loop.marker = 0
  BY <1>1, StoredAt DEF Stepped, Inv, Local, Located
<1>3. CASE Return
  <2>1. Quiet(log, log')
    BY <1>1, GrownStep DEF Stepped, Inv
  <2>2. Answered'
    BY <1>1, <1>2, <1>3, <2>1, ReturnAnswers
  <2> QED BY <1>1, <1>3, <2>2, ReturnKeeps
<1>4. CASE GoTo("top") /\ UNCHANGED <<mine, laps>>
  <2>1. /\ loop'.pc = "top" /\ loop'.compacted = loop.compacted /\ loop'.todo = loop.todo
        /\ loop'.marker = loop.marker /\ loop'.history = loop.history
    BY <1>4, Fields DEF LoopSet, GoTo
  <2>2. Pending' /\ Answered' /\ Turns' /\ Remembered' /\ Ended'
    BY <1>1, <1>2, <1>4, <2>1, MoveKeeps
  <2>3. Located' /\ Following' /\ Reminded'
    BY <1>2, <2>1 DEF Located, Following, Reminded
  <2>4. Paced'
    BY <1>1, <1>2, <1>4, <2>1 DEF Stepped, Inv, Local, Paced
  <2> QED BY <2>2, <2>3, <2>4 DEF Local
<1> QED BY <1>3, <1>4 DEF BeforeHookStops, GoOn

\* append_synthetic_request: what is superseded is a beginning of the transcript.
LEMMA RequestKeeps ==
    ASSUME Stepped, Request
    PROVE  Local'
<1> DEFINE c == Len(log) + 1
           cut == Superseded(log, loop.keep)
<1>0. PICK p \in PartSet : p = RequestPart("pending") /\ p.kind = "request"
  BY MadeParts DEF RequestPart
<1>1. /\ loop.pc = "before" /\ log' = Append(log, Message("user", <<>>))
      /\ loop' = [loop EXCEPT !.pc = "mark", !.cut = cut, !.cur = c, !.marker = c, !.todo = <<p>>]
      /\ UNCHANGED <<mine, stopped, laps, doomed>>
  BY <1>0 DEF Request, At
<1>2. /\ Len(log) \in Nat /\ DOMAIN log' = 1 .. c /\ Len(log') = c /\ Longer(log, log') /\ Quiet(log, log')
      /\ log'[c].role = "user" /\ ~Settled(log'[c]) /\ CallIds(log'[c]) = {}
  BY <1>1, NewMessage DEF Stepped, Inv
<1>3. Prefix(cut, c)
  BY Fields, LoopFields, SupersededPrefix
<1> HIDE DEF cut
<1>4. /\ loop'.pc = "mark" /\ loop'.compacted = loop.compacted /\ loop'.todo = <<p>>
      /\ loop'.marker = c /\ loop'.history = loop.history /\ loop'.cur = c /\ loop'.cut = cut
  BY <1>1, <1>2, Fields DEF LoopSet
<1>5. loop.todo = <<>> /\ loop.marker = 0
  BY <1>1, StoredAt DEF Stepped, Inv, Local, Located
<1>6. c \in 1 .. c /\ c # 0 /\ c \in Nat
  BY <1>2
<1> HIDE DEF c
<1>7. Range(<<p>>) = {p} /\ TextFirst(<<p>>)
  BY <1>0 DEF Range, TextFirst
<1>8. Suits(log', c, p)
  BY ONLY <1>0, <1>2 DEF Suits, FitsRole
<1>9. Pending'
  BY <1>0, <1>2, <1>4, <1>6, <1>7, <1>8 DEF Pending
<1>10. Located'
  BY <1>2, <1>3, <1>4, <1>6 DEF Located
<1>11. Following' /\ Reminded'
  BY <1>4, <1>6 DEF Following, Reminded
<1>12. {q \in Range(loop'.todo) : q.kind = "result"} = {q \in Range(loop.todo) : q.kind = "result"}
  <2>1. {q \in Range(loop'.todo) : q.kind = "result"} = {}
    BY <1>0, <1>4, <1>7
  <2>2. {q \in Range(loop.todo) : q.kind = "result"} = {}
    BY <1>5 DEF Range
  <2> QED BY <2>1, <2>2
<1>13. Answered'
  <2>1. Outcomes(log', loop'.todo) = Outcomes(log, loop.todo)
    BY <1>2, <1>12 DEF Outcomes, Quiet
  <2> QED BY <1>1, <1>2, <2>1, AnsweredKept DEF Stepped, Inv, Local
<1>14. Turns'
  BY <1>1, <1>4, TurnsStay DEF Turns
<1>15. Remembered'
  BY <1>1, <1>2, <1>4, <1>12, RememberedLonger
<1>16. Ended'
  BY <1>1, Awake DEF Stepped, Inv, Local
<1>17. Paced'
  BY <1>1, <1>4, <1>5, <1>6 DEF Stepped, Inv, Local, Paced
<1> QED BY <1>9, <1>10, <1>11, <1>13, <1>14, <1>15, <1>16, <1>17 DEF Local

\* The summarizer is asked.
LEMMA AskKeeps ==
    ASSUME Stepped, Ask
    PROVE  Local'
<1>1. /\ loop.pc = "mark" /\ loop.todo = <<>> /\ log' = WithReminders(log)
      /\ loop' = [loop EXCEPT !.pc = "create", !.seen = Len(log'), !.covers = Summarized(log')]
      /\ UNCHANGED <<mine, stopped, laps, doomed>>
  BY DEF Ask, At, Stored
<1>2. Longer(log, log') /\ Quiet(log, log')
  BY <1>1, RemindersStep, GrownStep DEF Stepped, Inv
<1>3. /\ loop'.pc = "create" /\ loop'.compacted = loop.compacted /\ loop'.todo = <<>>
      /\ loop'.marker = loop.marker /\ loop'.history = loop.history /\ loop'.cut = loop.cut
      /\ loop'.seen = Len(log')
  BY <1>1, Fields DEF LoopSet
<1>4. Pending' /\ Answered' /\ Turns' /\ Remembered' /\ Ended'
  BY <1>1, <1>2, <1>3, GrowKeeps
<1>5. /\ loop.marker # 0 /\ loop.marker \in 1 .. Len(log) /\ log[loop.marker].role = "user"
      /\ ~Settled(log[loop.marker]) /\ Prefix(loop.cut, loop.marker)
  BY <1>1, Fields DEF Stepped, Inv, Local, Located
<1>6. loop.marker \in DOMAIN log' /\ log'[loop.marker] = log[loop.marker]
  BY <1>2, <1>5, Fields DEF Longer
<1>7. Located'
  BY <1>3, <1>5, <1>6 DEF Located
<1>8. Following'
  BY <1>3, <1>5, Fields DEF Following
<1>8a. Reminded'
  <2>1. NewReminders(log') = {}
    BY <1>1, Prepared DEF Stepped, Inv, Typed
  <2>2. SubSeq(log', 1, Len(log')) = log'
    BY Fields
  <2> QED BY <1>3, <2>1, <2>2 DEF Reminded
<1>9. Paced'
  BY <1>1, <1>3, <1>5 DEF Stepped, Inv, Local, Paced
<1> QED BY <1>4, <1>7, <1>8, <1>8a, <1>9 DEF Local

\* The summary is there, or is none.
LEMMA SummaryDoneKeeps ==
    ASSUME Stepped, SummaryDone
    PROVE  Local'
<1> DEFINE c == loop.cur
<1>1. /\ loop.pc \in {"stream", "tail"} /\ loop.todo = <<>> /\ loop.marker # 0
      /\ UNCHANGED <<log, mine, stopped, laps, doomed>>
  BY DEF SummaryDone, Streaming, Stored
<1>2. /\ loop.marker \in 1 .. Len(log) /\ log[loop.marker].role = "user"
      /\ ~Settled(log[loop.marker]) /\ Prefix(loop.cut, loop.marker)
      /\ c \in DOMAIN log /\ log[c].role = "assistant" /\ loop.marker < c /\ c \in Nat
      /\ c \notin Range(mine)
  BY <1>1, Fields, LoopFields DEF Stepped, Inv, Local, Located, Turns
<1>3. Longer(log, log') /\ Quiet(log, log')
  BY <1>1, GrownStep DEF Stepped, Inv
<1>4. PICK p \in PartSet : p = CompactionPart(loop.cut, loop.covers) /\ p.kind = "compaction" /\ p.of = loop.cut
  BY Fields, LoopFields, MadeParts DEF CompactionPart
<1>5. \/ loop' = [loop EXCEPT !.pc = "commit", !.todo = <<p>>]
      \/ loop' = [loop EXCEPT !.pc = "reject"]
  BY <1>4 DEF SummaryDone
<1>6. /\ \/ loop'.pc = "commit" /\ loop'.todo = <<p>>
         \/ loop'.pc = "reject" /\ loop'.todo = <<>>
      /\ loop'.compacted = loop.compacted /\ loop'.cur = c /\ loop'.marker = loop.marker
      /\ loop'.history = loop.history /\ loop'.cut = loop.cut
  BY <1>1, <1>5, Fields DEF LoopSet
<1> HIDE DEF c
<1>7. Range(<<p>>) = {p} /\ TextFirst(<<p>>)
  BY <1>4 DEF Range, TextFirst
<1>8. Prefix(loop.cut, c)
  <2>1. \A x \in loop.cut : x \in Nat
    BY Fields, LoopFields
  <2>2. loop.marker \in Nat
    BY <1>2, Fields
  <2> QED BY <1>2, <2>1, <2>2 DEF Prefix
<1>9. Suits(log', c, p)
  BY <1>1, <1>2, <1>4, <1>8 DEF Suits, FitsRole
<1>10. Pending'
  <2>1. CASE loop'.todo = <<>>
    BY <2>1, NothingPending DEF Stepped
  <2>2. CASE loop'.pc = "commit" /\ loop'.todo = <<p>>
    <3>1. c \in DOMAIN log' /\ ~Settled(log'[c])
      BY <1>1, <1>2 DEF Settled
    <3> QED BY <1>4, <1>6, <1>7, <1>9, <2>2, <3>1 DEF Pending
  <2> QED BY <1>6, <2>1, <2>2
<1>11. Located'
  BY <1>1, <1>2, <1>6, Fields DEF Located
<1>12. Following' /\ Reminded'
  BY <1>1, <1>6 DEF Following, Reminded
<1>13. {q \in Range(loop'.todo) : q.kind = "result"} = {q \in Range(loop.todo) : q.kind = "result"}
  <2>1. Range(<<>>) = {}
    BY DEF Range
  <2>2. {q \in Range(loop'.todo) : q.kind = "result"} = {}
    BY <1>4, <1>6, <1>7, <2>1
  <2>3. {q \in Range(loop.todo) : q.kind = "result"} = {}
    BY <1>1, <2>1
  <2> QED BY <2>2, <2>3
<1>14. Answered'
  <2>1. Outcomes(log', loop'.todo) = Outcomes(log, loop.todo)
    BY <1>1, <1>13 DEF Outcomes
  <2> QED BY <1>1, <1>3, <2>1, AnsweredKept DEF Stepped, Inv, Local
<1>15. Turns'
  BY <1>1, <1>2, <1>6, TurnsStay DEF Turns
<1>16. Remembered'
  BY <1>1, <1>3, <1>6, <1>13, RememberedLonger
<1>17. Ended'
  BY <1>1, Awake DEF Stepped, Inv, Local
<1>18. Paced'
  BY <1>1, <1>6 DEF Stepped, Inv, Local, Paced
<1> QED BY <1>10, <1>11, <1>12, <1>14, <1>15, <1>16, <1>17, <1>18 DEF Local

\* The message with the request changes, and nothing else.
LEMMA MarkKeeps ==
    ASSUME Stepped, loop.marker # 0, NEW state \in {"pending", "committed", "failed"}, Mark(state)
    PROVE  /\ Quiet(log, log') /\ Steady
           /\ loop.marker \in DOMAIN log' /\ log'[loop.marker].role = "user"
           /\ ~Settled(log'[loop.marker])
<1> DEFINE c == loop.marker
           p == RequestPart(state)
<1>1. c \in 1 .. Len(log) /\ <<p>> \in Seq(PartSet) /\ log' = Rewrite(log, c, <<p>>)
  BY MarkStep DEF Stepped, Inv, Local
<1>2. log[c].role = "user" /\ log \in Seq(MessageSet)
  BY Fields DEF Stepped, Inv, Local, Located
<1>3. p.kind = "request"
  BY DEF RequestPart
<1> HIDE DEF p, c
<1>4. /\ DOMAIN log' = 1 .. Len(log)
      /\ \A i \in 1 .. Len(log) : i # c => log'[i] = log[i]
      /\ log'[c].role = "user" /\ log'[c].parts = <<p>>
  BY <1>1, <1>2, RewriteLog, ZenonT(60)
<1>5. Range(<<p>>) = {p}
  BY DEF Range
<1>6. Parts(log[c], "result") = {}
  <2>1. \A q \in Range(log[c].parts) : Suits(log, c, q)
    BY <1>1, Fields DEF Stepped, Inv, Sound
  <2> QED BY <1>2, <2>1 DEF Suits, FitsRole, Parts
<1>7. Quiet(log, log')
  <2>1. \A q \in Range(<<p>>) : q.kind \notin {"call", "result"}
    BY <1>3, <1>5
  <2> QED BY <1>1, <1>2, <1>6, <2>1, QuietRewrite
<1>8. ~Settled(log'[c])
  BY <1>3, <1>4, <1>5 DEF Settled
<1>9. Steady
  BY <1>2, <1>4, Fields DEF Stepped, Inv, Local, Turns, Steady
<1> QED BY <1>1, <1>4, <1>7, <1>8, <1>9 DEF c

\* The compaction is committed.
LEMMA CommitKeeps ==
    ASSUME Stepped, Commit
    PROVE  Local'
<1>1. /\ loop.pc = "commit" /\ loop.todo = <<>> /\ Mark("committed") /\ loop' = [loop EXCEPT !.pc = "after"]
      /\ UNCHANGED <<mine, stopped, laps, doomed>>
  BY DEF Commit, At, Stored, GoTo
<1>2. loop.marker # 0 /\ Prefix(loop.cut, loop.marker)
  BY <1>1 DEF Stepped, Inv, Local, Located
<1>3. /\ loop'.pc = "after" /\ loop'.compacted = loop.compacted /\ loop'.todo = <<>>
      /\ loop'.marker = loop.marker /\ loop'.history = loop.history /\ loop'.cut = loop.cut
  BY <1>1, Fields DEF LoopSet
<1>4. /\ Quiet(log, log') /\ Steady /\ loop.marker \in DOMAIN log'
      /\ log'[loop.marker].role = "user" /\ ~Settled(log'[loop.marker])
  BY <1>1, <1>2, MarkKeeps
<1>5. Pending'
  BY <1>3, NothingPending DEF Stepped
<1>6. Outcomes(log', loop'.todo) = Outcomes(log, loop.todo)
  BY <1>1, <1>3, <1>4 DEF Outcomes, Quiet
<1>7. Answered'
  BY <1>1, <1>4, <1>6, AnsweredKept DEF Stepped, Inv, Local
<1>8. Located'
  BY <1>2, <1>3, <1>4 DEF Located
<1>9. Following' /\ Reminded'
  BY <1>2, <1>3 DEF Following, Reminded
<1>10. Turns'
  BY <1>1, <1>3, TurnsStay DEF Turns
<1>11. Remembered'
  <2>1. Judged \in 0 .. Len(mine) /\ Judged' = Judged
    BY <1>1, <1>3, JudgedBound DEF Stepped, Inv, Local, Judged
  <2> QED BY <1>1, <1>3, <1>4, <1>6, <2>1, RememberedKept DEF Stepped, Inv, Local
<1>12. Ended'
  BY <1>1, Awake DEF Stepped, Inv, Local
<1>13. Paced'
  BY <1>1, <1>2, <1>3 DEF Stepped, Inv, Local, Paced
<1> QED BY <1>5, <1>7, <1>8, <1>9, <1>10, <1>11, <1>12, <1>13 DEF Local

\* It has failed.
LEMMA RejectKeeps ==
    ASSUME Stepped, Reject
    PROVE  Local'
<1>1. loop.pc = "reject" /\ Mark("failed") /\ Return /\ UNCHANGED <<stopped, doomed>>
  BY DEF Reject, At
<1>2. loop.marker # 0 /\ loop.todo = <<>>
  BY <1>1, StoredAt DEF Stepped, Inv, Local, Located
<1>3. Quiet(log, log')
  BY <1>1, <1>2, MarkKeeps
<1>4. Answered'
  BY <1>1, <1>2, <1>3, ReturnAnswers
<1> QED BY <1>1, <1>4, ReturnKeeps

\* The loop goes on, or does not.
LEMMA AfterCompactionKeeps ==
    ASSUME Stepped, AfterCompaction
    PROVE  Local'
<1>1. loop.pc = "after" /\ log' = WithReminders(log) /\ UNCHANGED <<stopped, doomed>>
  BY DEF AfterCompaction, At
<1>2. Longer(log, log') /\ Quiet(log, log')
  BY <1>1, RemindersStep, GrownStep DEF Stepped, Inv
<1>3. loop.todo = <<>>
  BY <1>1, StoredAt DEF Stepped
<1>4. CASE Return
  <2>1. Answered'
    BY <1>1, <1>2, <1>3, <1>4, ReturnAnswers
  <2> QED BY <1>1, <1>4, <2>1, ReturnKeeps
<1>5. CASE /\ loop' = [NoLoop EXCEPT !.pc = "top", !.steps = loop.steps,
                                     !.compacted = loop.compacted, !.history = loop.history]
           /\ UNCHANGED <<mine, laps>>
  <2>1. /\ loop'.pc = "top" /\ loop'.compacted = loop.compacted /\ loop'.todo = <<>>
        /\ loop'.marker = 0 /\ loop'.history = loop.history
    BY <1>5 DEF NoLoop
  <2>2. Pending' /\ Answered' /\ Turns' /\ Remembered' /\ Ended'
    BY <1>1, <1>2, <1>3, <1>5, <2>1, GrowKeeps
  <2>3. Located' /\ Following' /\ Reminded'
    BY <2>1 DEF Located, Following, Reminded
  <2>4. Paced'
    BY <1>1, <1>5, <2>1 DEF Stepped, Inv, Local, Paced
  <2> QED BY <2>2, <2>3, <2>4 DEF Local
<1> QED BY <1>4, <1>5 DEF AfterCompaction

-------------------------------------------------------------------------------
(* The invariant.                                                          *)

\* The invariant holds at first.
LEMMA InvInit == Init => Inv
<1> SUFFICES ASSUME Init PROVE Inv
  OBVIOUS
<1>1. /\ log = <<>> /\ loop = NoLoop /\ mine = <<>> /\ laps = 0 /\ doomed = <<>>
      /\ budget = [inputs |-> MaxInputs, turns |-> MaxTurns]
  BY DEF Init
<1>2. /\ loop.pc = "idle" /\ loop.marker = 0 /\ loop.history = <<>> /\ loop.todo = <<>>
      /\ loop.compacted = FALSE
  BY <1>1 DEF NoLoop
<1>3. Typed
  BY <1>1, NoLoopTyped, TurnLoopAssumption DEF Typed, TurnLoopAssumption
<1>4. Range(<<>>) = {} /\ Len(<<>>) = 0 /\ DOMAIN <<>> = {}
  BY DEF Range
<1>5. Sound(log)
  BY <1>1, <1>4 DEF Sound
<1>6. Pending /\ Located /\ Following /\ Answered /\ Turns /\ Ended /\ Reminded /\ Paced
  BY <1>1, <1>2, <1>4 DEF Pending, Located, Following, Answered, Turns, Ended, Reminded, Paced
<1>7. Remembered
  <2>1. Threshold \in Nat \ {0}
    BY ProjectionAssumption DEF ProjectionAssumption
  <2>2. Judged = 0
    BY <1>1, <1>2, <1>4 DEF Judged
  <2>3. ~Doomed(loop.history)
    BY <1>2, <1>4, <2>1 DEF Doomed
  <2> QED BY <1>2, <1>4, <2>1, <2>2, <2>3 DEF Remembered
<1> QED BY <1>3, <1>5, <1>6, <1>7 DEF Inv, Local

\* Every step keeps it.
LEMMA InvNext ==
    ASSUME Inv, Next
    PROVE  Inv'
<1>1. Stepped
  BY NextLog, NextTyped DEF Stepped, Inv, Local
<1>2. Local'
  BY <1>1, PromptKeeps, WakeKeeps, CompactKeeps, SettleKeeps, StepsUsedUpKeeps, PrepareKeeps,
     WindowFullKeeps, ProceedKeeps, CreateKeeps, TextDeltaKeeps, FinishKeeps, WriteKeeps,
     TurnFailsKeeps, StepDoneKeeps, RunToolsKeeps, BeforeHookStopsKeeps, RequestKeeps, AskKeeps,
     SummaryDoneKeeps, CommitKeeps, RejectKeeps, AfterCompactionKeeps, FaultKeeps DEF Next
<1> QED BY <1>1, <1>2 DEF Stepped, Inv

\* So does a step that changes nothing.
LEMMA InvStutter ==
    ASSUME Inv, UNCHANGED vars
    PROVE  Inv'
<1> USE DEF vars
<1>1. Typed' /\ Sound(log')
  BY DEF Inv, Typed
<1>2. Pending' /\ Located' /\ Following' /\ Answered' /\ Turns'
  BY DEF Inv, Local, Pending, Located, Following, Answered, Turns
<1>3. Remembered'
  BY DEF Inv, Local, Remembered, Judged
<1>4. Ended'
  BY DEF Inv, Local, Ended, Idle
<1>5. Reminded' /\ Paced'
  BY DEF Inv, Local, Reminded, Paced
<1> QED BY <1>1, <1>2, <1>3, <1>4, <1>5 DEF Inv, Local

\* The invariant holds throughout: types, a sound transcript, and what the loop knows
\* of it at each point of run_loop, run_turn and run_compaction.
THEOREM TurnLoopInv == Spec => []Inv
<1>1. Init => Inv
  BY InvInit
<1>2. Inv /\ [Next]_vars => Inv'
  BY InvNext, InvStutter
<1> QED BY <1>1, <1>2, PTL DEF Spec

-------------------------------------------------------------------------------
(* What the invariant is for.                                              *)

\* The invariant bounds the laps and makes the doom guard exact.
LEMMA BoundedByInv == Inv => LoopBounded
<1> SUFFICES ASSUME Inv PROVE LoopBounded
  OBVIOUS
<1>1. Progress
  <2>1. laps \in Nat
    BY DEF Inv, Typed
  <2> QED BY <2>1 DEF Inv, Local, Paced, Progress
<1>2. doomed # <<>> => Len(doomed) >= Threshold /\ Idle(LastTurns(doomed))
  BY DEF Inv, Local, Ended
<1>3. ASSUME At("top"), Stored, Len(mine) >= Threshold PROVE ~Idle(LastTurns(mine))
  <2>1. loop.history \in Seq(SummarySet) /\ mine \in Seq(Nat)
    BY LoopFields DEF Inv, Typed
  <2>2. Judged = Len(mine) /\ DOMAIN loop.history = 1 .. Len(loop.history) /\ loop.todo = <<>>
    BY <1>3, <2>1 DEF Judged, At, Stored
  <2>3. /\ Len(loop.history) = IF Len(mine) <= Threshold THEN Len(mine) ELSE Threshold + 1
        /\ \A k \in 1 .. Len(loop.history) :
              Recalls(loop.history[k], log, loop.todo, mine[Len(mine) - Len(loop.history) + k])
        /\ ~Doomed(loop.history)
    BY <2>2 DEF Inv, Local, Remembered
  <2> QED BY <1>3, <2>1, <2>2, <2>3, GuardJudges
<1>4. DoomExact
  BY <1>2, <1>3, Zenon DEF DoomExact, LastTurns
<1> QED BY <1>1, <1>4 DEF LoopBounded

\* The same of the request of a compaction.
LEMMA SummaryRendered ==
    ASSUME NEW l \in Seq(MessageSet)
    PROVE  /\ DOMAIN SummaryView(l) = 1 .. Len(l)
           /\ \A i \in 1 .. Len(l) : Rendered(l, i, SummaryView(l)[i])
<1> PICK yes \in BOOLEAN : yes = TRUE
  OBVIOUS
<1> DEFINE view    == Project(l, yes)
           systems == {i \in DOMAIN view : view[i].role = "system"}
           dropped(i) == \/ i \in systems /\ i # Min(systems)
                         \/ view[i] = Line("user") /\ Parts(l[i], "request") # {}
<1>1. DOMAIN view = 1 .. Len(l) /\ \A i \in 1 .. Len(l) : Rendered(l, i, view[i])
  BY Projected
<1>2. SummaryView(l) = [i \in DOMAIN view |-> IF dropped(i) THEN Nothing ELSE view[i]]
  BY Zenon DEF SummaryView
<1> HIDE DEF view
<1>3. /\ Nothing.role = "none" /\ Nothing.calls = {} /\ Nothing.results = {} /\ Nothing.notes = {}
      /\ Line("user").role = "user" /\ Line("user").notes = {}
      /\ Line("user").calls = {} /\ Line("user").results = {}
  BY DEF Nothing, Line
<1>4. ASSUME NEW i \in 1 .. Len(l) PROVE Rendered(l, i, SummaryView(l)[i])
  <2>1. Rendered(l, i, view[i]) /\ l[i].role \in {"user", "assistant", "tool"}
    BY <1>1, MessageParts
  <2>2. SummaryView(l)[i] = IF dropped(i) THEN Nothing ELSE view[i]
    BY <1>1, <1>2
  <2>3. CASE view[i].role = "system"
    <3>1. Owner(l, i) # 0
      BY <2>1, <2>3 DEF Rendered
    <3> HIDE DEF dropped
    <3> QED BY <1>3, <2>1, <2>2, <3>1 DEF Rendered
  <2>4. CASE view[i] = Line("user")
    <3> HIDE DEF dropped
    <3> QED BY <1>3, <2>1, <2>2, <2>4 DEF Rendered
  <2>5. CASE view[i].role # "system" /\ view[i] # Line("user")
    BY <2>1, <2>2, <2>5
  <2> QED BY <2>3, <2>4, <2>5
<1> QED BY <1>1, <1>2, <1>4

\* What a request is made of.
LEMMA RequestView ==
    ASSUME Inv, Sending
    PROVE  LET L == SubSeq(log, 1, loop.seen) IN
           /\ L \in Seq(MessageSet) /\ Len(L) = loop.seen /\ DOMAIN L = 1 .. Len(L)
           /\ loop.seen \in 0 .. Len(log) /\ Len(log) \in Nat
           /\ \A i \in 1 .. Len(L) : L[i] = log[i] /\ i \in 1 .. Len(log)
           /\ \A k \in loop.seen + 1 .. Len(log) : Settled(log[k])
           /\ DOMAIN Sent = 1 .. Len(L)
           /\ \A i \in 1 .. Len(L) : Rendered(L, i, Sent[i])
           /\ NewReminders(L) = {}
           /\ loop.todo = <<>>
<1> DEFINE L == SubSeq(log, 1, loop.seen)
<1>1. loop.pc = "create"
  BY DEF Sending, At
<1>2. log \in Seq(MessageSet) /\ loop.seen \in Nat /\ Len(log) \in Nat
  BY LoopFields DEF Inv, Typed
<1>3. loop.seen <= Len(log) /\ \A k \in loop.seen + 1 .. Len(log) : Settled(log[k])
  BY <1>1 DEF Inv, Local, Following
<1>4. L \in Seq(MessageSet) /\ Len(L) = loop.seen /\ \A i \in 1 .. loop.seen : L[i] = log[i]
  BY <1>2, <1>3, ViewLog
<1>5. NewReminders(L) = {}
  BY <1>1 DEF Inv, Local, Reminded
<1>6. Sent = Project(L, FALSE) \/ Sent = SummaryView(L)
  BY Zenon DEF Sent, View
<1> HIDE DEF L
<1>7. DOMAIN Sent = 1 .. Len(L) /\ \A i \in 1 .. Len(L) : Rendered(L, i, Sent[i])
  <2>1. CASE Sent = Project(L, FALSE)
    BY <1>4, <2>1, Projected
  <2>2. CASE Sent = SummaryView(L)
    BY <1>4, <2>2, SummaryRendered
  <2> QED BY <1>6, <2>1, <2>2
<1>8. loop.todo = <<>>
  BY <1>1, StoredAt
<1> QED BY <1>2, <1>3, <1>4, <1>5, <1>7, <1>8 DEF L

\* A message in effect has no summary that stands for it.
LEMMA EffectiveOwner ==
    ASSUME NEW l \in Seq(MessageSet), NEW i \in Effective(l)
    PROVE  Owner(l, i) = 0
<1> SUFFICES ASSUME Owner(l, i) # 0 PROVE FALSE
  OBVIOUS
<1>1. Owner(l, i) \in 1 .. Len(l) /\ \E p \in Parts(l[Owner(l, i)], "compaction") : i \in p.of
  BY OwnerPlace
<1>2. l[Owner(l, i)] \in Range(l)
  BY <1>1, InRange
<1> QED BY <1>1, <1>2 DEF Effective

\* It makes the reminders of a request exact.
LEMMA ExactByInv == Inv => RemindersExact
<1> SUFFICES ASSUME Inv, Sending
             PROVE  LET view   == Sent
                        active == Active(SubSeq(log, 1, loop.seen))
                    IN /\ \A r \in active : Cardinality({i \in DOMAIN view : r \in view[i].notes}) = 1
                       /\ \A i \in DOMAIN view : \A r \in view[i].notes : r.of = "settled" \/ r \in active
  BY DEF RemindersExact
<1> DEFINE L == SubSeq(log, 1, loop.seen)
<1>1. /\ L \in Seq(MessageSet) /\ DOMAIN L = 1 .. Len(L) /\ Len(L) \in Nat
      /\ \A i \in 1 .. Len(L) : L[i] = log[i] /\ i \in 1 .. Len(log)
      /\ DOMAIN Sent = 1 .. Len(L)
      /\ \A i \in 1 .. Len(L) : Rendered(L, i, Sent[i])
      /\ NewReminders(L) = {}
  BY RequestView
<1> HIDE DEF L
<1>2. ASSUME NEW i \in 1 .. Len(L), NEW r \in Sent[i].notes
      PROVE  r \in Shown(L, i)
  <2>1. L[i].role \in {"user", "assistant", "tool"}
    BY <1>1, MessageParts
  <2>2. Rendered(L, i, Sent[i])
    BY <1>1
  <2> QED BY <1>2, <2>1, <2>2 DEF Rendered
<1>3. ASSUME NEW i \in DOMAIN Sent, NEW r \in Sent[i].notes PROVE r.of = "settled" \/ r \in Active(L)
  BY <1>1, <1>2 DEF Shown
<1>4. ASSUME NEW r \in Active(L) PROVE Cardinality({i \in DOMAIN Sent : r \in Sent[i].notes}) = 1
  <2> DEFINE at == Latest(L, r.of)
             holders == {i \in Effective(L) : \E p \in Parts(L[i], "reminder") : p.of = r.of}
  <2>1. at # 0 /\ r \in Range(L[at].parts)
    BY <1>1 DEF NewReminders
  <2>2. r.kind = "reminder" /\ r.of \in {"recovery", "outcome"}
    BY <1>1, ActiveFacts
  <2>3. holders \in SUBSET (1 .. Len(L)) /\ (at = IF holders = {} THEN 0 ELSE Max(holders))
    BY <1>1 DEF Latest, Effective
  <2>4. at \in holders
    <3> HIDE DEF holders, at
    <3> QED BY <1>1, <2>1, <2>3, LastPlace
  <2>5. at \in 1 .. Len(L) /\ Owner(L, at) = 0
    BY <1>1, <2>3, <2>4, EffectiveOwner
  <2> HIDE DEF at
  <2>6. L[at].role = "user"
    <3>1. L[at] = log[at] /\ at \in DOMAIN log
      BY <1>1, <2>5 DEF Inv, Typed
    <3>2. Suits(log, at, r)
      BY <2>1, <3>1 DEF Inv, Sound
    <3> QED BY <2>2, <3>1, <3>2 DEF Suits, FitsRole
  <2>7. r \in Sent[at].notes
    <3>1. Sent[at].notes = Shown(L, at)
      BY <1>1, <2>5, <2>6 DEF Rendered
    <3> QED BY <2>1, <2>2, <3>1 DEF Shown, Parts, at
  <2>8. \A i \in 1 .. Len(L) : r \in Sent[i].notes => i = at
    BY <1>2, <2>2 DEF Shown, at
  <2>9. {i \in DOMAIN Sent : r \in Sent[i].notes} = {at}
    BY <1>1, <2>5, <2>7, <2>8
  <2> QED BY <2>9, FS_Singleton
<1> QED BY <1>3, <1>4 DEF L

\* What a summary stands for it stands for from the first message on, and later
\* messages change nothing about that.
LEMMA OwnedBefore ==
    ASSUME Inv, Sending, NEW k \in 1 .. loop.seen, NEW i \in 1 .. k,
           Owner(SubSeq(log, 1, loop.seen), k) # 0
    PROVE  Owner(SubSeq(log, 1, loop.seen), i) # 0 /\ Owner(log, i) # 0
<1> DEFINE L == SubSeq(log, 1, loop.seen)
<1>1. /\ L \in Seq(MessageSet) /\ Len(L) = loop.seen
      /\ \A j \in 1 .. Len(L) : L[j] = log[j] /\ j \in 1 .. Len(log)
  BY RequestView
<1>2. log \in Seq(MessageSet) /\ DOMAIN log = 1 .. Len(log)
  BY DEF Inv, Typed
<1> HIDE DEF L
<1>3. PICK o \in 1 .. Len(L) : \E p \in Parts(L[o], "compaction") : k \in p.of
  <2>1. Owner(L, k) # 0
    BY DEF L
  <2>2. Owner(L, k) \in 1 .. Len(L) /\ \E p \in Parts(L[Owner(L, k)], "compaction") : k \in p.of
    BY <1>1, <2>1, OwnerPlace
  <2> QED BY <2>2
<1>4. PICK p \in Range(L[o].parts) : p.kind = "compaction" /\ k \in p.of
  BY <1>3 DEF Parts
<1>5. L[o] = log[o] /\ o \in 1 .. Len(log)
  BY <1>1
<1>6. Suits(log, o, p)
  BY <1>2, <1>4, <1>5 DEF Inv, Sound
<1>7. i \in p.of
  BY <1>4, <1>6 DEF Suits, Prefix
<1>8. p \in Parts(L[o], "compaction")
  BY <1>4 DEF Parts
<1> QED BY <1>1, <1>2, <1>5, <1>7, <1>8, OwnerPlace DEF L

\* The call that a result is for, and what stands in between.
LEMMA ResultPlace ==
    ASSUME Inv, NEW j \in 1 .. Len(log), NEW id \in ResultIds(log[j])
    PROVE  /\ log[j].role = "tool"
           /\ id[1] \in 1 .. j - 1 /\ id \in CallIds(log[id[1]])
           /\ log[id[1]].role = "assistant"
           /\ \A k \in id[1] + 1 .. j - 1 : Settled(log[k])
<1>1. PICK r \in Range(log[j].parts) : r.kind = "result" /\ r.id = id
  BY DEF ResultIds, Parts
<1>2. log \in Seq(MessageSet) /\ DOMAIN log = 1 .. Len(log) /\ Len(log) \in Nat
  BY DEF Inv, Typed
<1>3. Suits(log, j, r)
  BY <1>1, <1>2 DEF Inv, Sound
<1>4. log[j].role = "tool"
  BY <1>1, <1>3 DEF Suits, FitsRole
<1>5. /\ id[1] \in 1 .. j - 1 /\ id \in CallIds(log[id[1]])
      /\ \A k \in id[1] + 1 .. j - 1 : Settled(log[k])
  BY <1>1, <1>3 DEF Suits
<1>6. id[1] \in 1 .. Len(log)
  BY <1>2, <1>5
<1>7. PICK p \in Range(log[id[1]].parts) : p.kind = "call" /\ p.id = id
  BY <1>5 DEF CallIds, Parts
<1>8. Suits(log, id[1], p)
  BY <1>2, <1>6, <1>7 DEF Inv, Sound
<1> QED BY <1>4, <1>5, <1>7, <1>8 DEF Suits, FitsRole

\* It pairs calls and results in a request.
LEMMA PairedByInv == Inv => RequestPaired
<1> SUFFICES ASSUME Inv, Sending
             PROVE  LET view == Sent IN
                    /\ \A i \in DOMAIN view : \A id \in view[i].calls :
                          i \in stopped \/ \E j \in i + 1 .. Len(view) : id \in view[j].results
                    /\ \A j \in DOMAIN view : \A id \in view[j].results :
                          /\ id[1] < j
                          /\ id \in view[id[1]].calls \/ Owner(log, id[1]) # 0
                          /\ \A k \in id[1] + 1 .. j - 1 :
                                \/ view[k].role = "none" \/ Settlement(view[k])
                                \/ Owner(log, id[1]) # 0
                    /\ loop.marker # 0 => \A i, k \in Parted(view, loop.keep) : i = k
  BY DEF RequestPaired
<1> DEFINE L == SubSeq(log, 1, loop.seen)
           n == loop.seen
<1>1. /\ L \in Seq(MessageSet) /\ Len(L) = n /\ n \in 0 .. Len(log) /\ Len(log) \in Nat
      /\ \A i \in 1 .. n : L[i] = log[i] /\ i \in 1 .. Len(log)
      /\ \A k \in n + 1 .. Len(log) : Settled(log[k])
      /\ DOMAIN Sent = 1 .. n
      /\ \A i \in 1 .. n : Rendered(L, i, Sent[i])
      /\ loop.todo = <<>>
  BY RequestView
<1>2. \A k \in 1 .. n : \A i \in 1 .. k : Owner(L, k) # 0 => Owner(L, i) # 0 /\ Owner(log, i) # 0
  BY OwnedBefore
<1>3. Len(Sent) = n
  <2>2. DOMAIN Sent = 1 .. n /\ n \in Nat
    BY <1>1
  <2> HIDE DEF L, n
  <2> QED BY <2>2
<1>4. log \in Seq(MessageSet) /\ DOMAIN log = 1 .. Len(log)
  BY DEF Inv, Typed
<1>5. loop.pc = "create"
  BY DEF Sending, At
<1> HIDE DEF L, n
<1>6. \A i \in 1 .. n : L[i].role \in {"user", "assistant", "tool"}
  BY <1>1, MessageParts
<1>7. ASSUME NEW i \in 1 .. n, NEW id \in Sent[i].calls, i \notin stopped
      PROVE  \E j \in i + 1 .. n : id \in Sent[j].results
  <2>1. Owner(L, i) = 0 /\ id \in CallIds(log[i])
    BY <1>1, <1>6, <1>7 DEF Rendered
  <2>2. id[1] = i
    BY <1>1, <1>4, <2>1, CallNumbers
  <2>3. PICK r \in Given(log) : r.id = id
    <3>1. \E r \in Outcomes(log, loop.todo) : r.id = id
      BY <1>1, <1>4, <1>5, <1>7, <2>1 DEF Inv, Local, Answered
    <3> QED BY <1>1, <3>1 DEF Outcomes, Range
  <2>4. PICK m \in Range(log) : r \in Parts(m, "result")
    BY DEF Given
  <2>5. PICK j \in 1 .. Len(log) : log[j] = m
    BY <1>4, InRange
  <2>6. id \in ResultIds(log[j])
    BY <2>3, <2>4, <2>5 DEF ResultIds
  <2>7. log[j].role = "tool" /\ i \in 1 .. j - 1
    BY <2>2, <2>6, ResultPlace
  <2>8. j \notin n + 1 .. Len(log)
    BY <1>1, <2>7 DEF Settled
  <2>9. j \in i + 1 .. n /\ j \in 1 .. n /\ i \in 1 .. j
    BY <1>1, <2>7, <2>8
  <2>10. Owner(L, j) = 0
    BY <1>2, <2>1, <2>9
  <2>11. Sent[j].results = ResultIds(L[j])
    BY <1>1, <2>7, <2>9, <2>10 DEF Rendered
  <2> QED BY <1>1, <2>6, <2>9, <2>11
<1>8. ASSUME NEW j \in 1 .. n, NEW id \in Sent[j].results
      PROVE  /\ id[1] < j
             /\ id \in Sent[id[1]].calls \/ Owner(log, id[1]) # 0
             /\ \A k \in id[1] + 1 .. j - 1 :
                   Sent[k].role = "none" \/ Settlement(Sent[k]) \/ Owner(log, id[1]) # 0
  <2>1. id \in ResultIds(log[j]) /\ j \in 1 .. Len(log)
    BY <1>1, <1>6, <1>8 DEF Rendered
  <2>2. /\ id[1] \in 1 .. j - 1 /\ id \in CallIds(log[id[1]])
        /\ log[id[1]].role = "assistant"
        /\ \A k \in id[1] + 1 .. j - 1 : Settled(log[k])
    BY <2>1, ResultPlace
  <2> PICK i \in 1 .. j - 1 : i = id[1]
    BY <2>2
  <2>3. i \in 1 .. n /\ i < j /\ i \in 1 .. i
    BY <1>1
  <2>4. id \in Sent[i].calls \/ Owner(log, i) # 0
    <3>1. CASE Owner(L, i) = 0
      BY <1>1, <2>2, <2>3, <3>1 DEF Rendered
    <3>2. CASE Owner(L, i) # 0
      BY <1>2, <2>3, <3>2
    <3> QED BY <3>1, <3>2
  <2>5. ASSUME NEW k \in i + 1 .. j - 1
        PROVE  Sent[k].role = "none" \/ Settlement(Sent[k]) \/ Owner(log, i) # 0
    <3>1. k \in 1 .. n /\ i \in 1 .. k
      BY <1>1, <2>3
    <3>2. CASE Owner(L, k) # 0
      BY <1>2, <3>1, <3>2
    <3>3. CASE Owner(L, k) = 0
      <4>1. Settled(L[k]) /\ L[k].role = "user"
        BY <1>1, <2>2, <3>1 DEF Settled
      <4>2. Sent[k].role \in {"user", "none"} /\ Sent[k].notes = Shown(L, k)
        BY <1>1, <3>1, <3>3, <4>1 DEF Rendered
      <4>3. \A r \in Shown(L, k) : r.of = "settled"
        BY <4>1 DEF Shown, Settled, Parts
      <4> QED BY <4>2, <4>3 DEF Settlement
    <3> QED BY <3>2, <3>3
  <2> QED BY <2>3, <2>4, <2>5
<1>9. ASSUME NEW i \in Parted(Sent, loop.keep), NEW k \in Parted(Sent, loop.keep), i < k
      PROVE  FALSE
  <2> DEFINE all == Places(Sent, Body)
             after == AfterRequest(Sent, loop.keep)
             below(p) == {q \in all : ~Before(q, p)}
  <2>1. loop.keep \in Nat
    BY LoopFields DEF Inv, Typed
  <2>2. IsFiniteSet(all)
    <3>1. \A x \in 1 .. n : IsFiniteSet(Sent[x].results)
      BY <1>1, RenderedFinite
    <3> QED BY <1>1, <3>1, PlacesFinite
  <2>3. i \in 1 .. n /\ k \in 1 .. n
    BY <1>1 DEF Parted
  <2>4. PICK id \in Sent[i].calls, j \in 1 .. n : id \in Sent[j].results /\ <<j, id>> \in after
    BY <1>1 DEF Parted
  <2>5. Sent[k].calls # {} /\ <<k, <<>>>> \notin after
    BY DEF Parted
  <2>6. id \in CallIds(log[i]) /\ id \in ResultIds(log[j]) /\ j \in 1 .. Len(log)
    BY <1>1, <1>6, <2>3, <2>4 DEF Rendered
  <2>7. id[1] = i
    BY <1>1, <1>4, <2>3, <2>6, CallNumbers
  <2>8. i \in 1 .. j - 1 /\ log[j].role = "tool" /\ \A x \in i + 1 .. j - 1 : Settled(log[x])
    BY <2>6, <2>7, ResultPlace
  <2>9. L[k].role \notin {"user", "tool"} /\ Sent[k].role = "assistant"
    BY <1>1, <2>3, <2>5 DEF Rendered
  <2>10. j < k
    <3>1. k # j
      BY <1>1, <2>4, <2>8, <2>9
    <3>2. k \notin i + 1 .. j - 1
      BY <1>1, <2>3, <2>8, <2>9 DEF Settled
    <3> QED BY <1>1, <1>9, <2>3, <2>8, <3>1, <3>2
  <2>11. <<k, <<>>>> \in all
    BY <1>1, <2>3, <2>9, RowFacts DEF Body
  <2>12. \A q \in all : q[1] \in 1 .. n
    BY <1>1, RowFacts
  <2> HIDE DEF all, after
  <2>13. below(<<k, <<>>>>) \subseteq below(<<j, id>>)
    <3> SUFFICES ASSUME NEW q \in all, Before(q, <<j, id>>) PROVE Before(q, <<k, <<>>>>)
      OBVIOUS
    <3>1. q[1] \in 1 .. n /\ q[1] <= j
      BY <1>1, <2>4, <2>12 DEF Before
    <3> QED BY <1>1, <2>3, <2>4, <2>10, <3>1 DEF Before
  <2>14. after = IF Cardinality(all) <= loop.keep THEN {}
                 ELSE {p \in all : Cardinality(below(p)) <= loop.keep}
    BY Zenon DEF AfterRequest, after, all
  <2>15. IsFiniteSet(below(<<j, id>>)) /\ IsFiniteSet(below(<<k, <<>>>>))
    BY <2>2, FS_Subset
  <2>16. Cardinality(below(<<k, <<>>>>)) <= Cardinality(below(<<j, id>>))
    BY <2>13, <2>15, FS_Subset
  <2>17. /\ Cardinality(below(<<j, id>>)) \in Nat /\ Cardinality(below(<<k, <<>>>>)) \in Nat
    BY <2>15, FS_CardinalityType
  <2> HIDE DEF below
  <2> QED BY <2>1, <2>4, <2>5, <2>11, <2>14, <2>16, <2>17
<1>10. ASSUME NEW i \in Parted(Sent, loop.keep), NEW k \in Parted(Sent, loop.keep) PROVE i = k
  <2>1. i \in 1 .. n /\ k \in 1 .. n
    BY <1>1 DEF Parted
  <2> QED BY <1>1, <1>9, <2>1
<1> QED BY <1>1, <1>3, <1>7, <1>8, <1>10

\* In every request, of a turn or of a compaction, each call is followed by its
\* result, unless a loop ended before it had one, and a result by nothing that
\* separates it from its call, but settlements and the summarization request:
\* whatever was denied, failed, compacted, retried or reminded of.  That request
\* parts the calls of one message at most from their results (project_for_llm,
\* build_compaction_projection, run_loop).
THEOREM RequestsPaired == Spec => []RequestPaired
BY TurnLoopInv, PairedByInv, PTL

\* A request reminds of exactly what holds, each thing once (prepare_session_messages,
\* filter_to_active_reminders).
THEOREM RemindersAreExact == Spec => []RemindersExact
BY TurnLoopInv, ExactByInv, PTL

\* The loop is at its top at most twice between two steps of the model, and the doom
\* guard ends it exactly when the transcript says that its last turns were idle
\* (run_loop, doom_guard::check).
THEOREM LoopIsBounded == Spec => []LoopBounded
BY TurnLoopInv, BoundedByInv, PTL

-------------------------------------------------------------------------------
(* Nothing is lost: the second invariant.                                  *)

\* The message of a compaction request.
Asking(m) == m.role = "user" /\ \A p \in Range(m.parts) : p.kind = "request"

\* S is what a compaction supersedes whose request is message mk: the first messages.
\* If a result is kept, at least two messages are, or as many as the floor says.
CutAt(l, S, mk) ==
    \E a \in 0 .. mk - 1 :
        /\ S = 1 .. a
        /\ (a > 0 /\ \E t \in a + 1 .. mk - 1 : ResultIds(l[t]) # {})
              => mk - 1 - a >= 2 \/ mk - 1 - a >= PreserveRecent

\* The summary in message o has what it stands for, and follows its request.
Faithful(l, o, p) ==
    /\ HasText(l[o]) /\ CallIds(l[o]) = {}
    /\ \A i \in p.of : Says(l[i]) => i \in p.covers
    /\ \E mk \in 1 .. o - 1 : Asking(l[mk]) /\ CutAt(l, p.of, mk)

Compactions(l, o) == Parts(l[o], "compaction")

\* All summaries are, and a later one stands for all that an earlier one does.
Faithfully(l) ==
    \A o \in 1 .. Len(l) : \A p \in Compactions(l, o) :
        /\ Faithful(l, o, p)
        /\ \A o2 \in o .. Len(l) : \A p2 \in Compactions(l, o2) : p.of \subseteq p2.of

\* Messages S may be superseded by the compaction whose request is message mk.
MayCut(l, S, mk) ==
    /\ CutAt(l, S, mk)
    /\ \A o \in 1 .. Len(l) : \A p \in Compactions(l, o) : p.of \subseteq S

\* This many messages may be kept: a compaction that keeps a result keeps more than
\* that, or as much as the floor says, and everything that a summary stands for goes.
MayKeep(l, keep) ==
    /\ (\E t \in 1 .. Len(l) : t + keep > Len(l) /\ ResultIds(l[t]) # {})
          => keep >= 2 \/ keep >= PreserveRecent
    /\ \A o \in 1 .. Len(l) : \A p \in Compactions(l, o) : \A x \in p.of : x + keep <= Len(l)

\* What is written comes after every summary.
Ahead ==
    loop.todo # <<>> \/ loop.pc \in {"stream", "tail"} =>
        \A o \in 1 .. Len(log) : Compactions(log, o) # {} => o < loop.cur

\* What a compaction has settled before it is committed.
Compacting ==
    /\ loop.pc = "before" => MayKeep(log, loop.keep)
    /\ loop.marker # 0 =>
          /\ Asking(log[loop.marker])
          /\ MayCut(log, loop.cut, loop.marker)
          /\ loop.pc = "mark" =>
                loop.cur = loop.marker /\ \A p \in Range(loop.todo) : p.kind = "request"
          /\ loop.pc # "mark" => \A i \in loop.cut : Says(log[i]) => i \in loop.covers
          /\ loop.pc = "commit" /\ loop.todo # <<>> =>
                /\ loop.todo = <<CompactionPart(loop.cut, loop.covers)>>
                /\ HasText(log[loop.cur]) /\ CallIds(log[loop.cur]) = {}

Lossless == Faithfully(log) /\ Ahead /\ Compacting

-------------------------------------------------------------------------------
(* Who stands for what.                                                    *)

\* The last summary that stands for a message is its owner.
LEMMA OwnerLast ==
    ASSUME NEW l \in Seq(MessageSet), NEW o \in 1 .. Len(l), NEW p \in Compactions(l, o), NEW i \in p.of
    PROVE  Owner(l, i) \in o .. Len(l)
<1> DEFINE owners == {k \in DOMAIN l : \E q \in Parts(l[k], "compaction") : i \in q.of}
<1>1. owners \in SUBSET (1 .. Len(l)) /\ Len(l) \in Nat /\ o \in owners
  BY DEF Compactions
<1>2. Owner(l, i) = IF owners = {} THEN 0 ELSE Max(owners)
  BY DEF Owner
<1> HIDE DEF owners
<1>3. Max(owners) \in owners /\ \A j \in owners : j <= Max(owners)
  BY <1>1, LastPlace
<1>4. Owner(l, i) = Max(owners)
  BY <1>1, <1>2
<1>5. Max(owners) \in 1 .. Len(l) /\ o <= Max(owners)
  BY <1>1, <1>3
<1>6. Max(owners) \in o .. Len(l)
  BY <1>1, <1>5
<1> QED BY <1>4, <1>6

\* Whatever a summary stands for, the last one does.
LEMMA OneOwner ==
    ASSUME NEW l \in Seq(MessageSet), Faithfully(l), NEW i, NEW j, Owner(l, i) # 0, Owner(l, j) # 0
    PROVE  Owner(l, i) = Owner(l, j)
<1> DEFINE a == Owner(l, i)
           b == Owner(l, j)
<1>1. a \in 1 .. Len(l) /\ b \in 1 .. Len(l) /\ Len(l) \in Nat
  BY OwnerPlace
<1>2. PICK p \in Compactions(l, a) : i \in p.of
  BY OwnerPlace DEF Compactions
<1>3. PICK q \in Compactions(l, b) : j \in q.of
  BY OwnerPlace DEF Compactions
<1> HIDE DEF a, b
<1>4. a <= b => Owner(l, i) \in b .. Len(l)
  <2> SUFFICES ASSUME a <= b PROVE Owner(l, i) \in b .. Len(l)
    OBVIOUS
  <2>1. b \in a .. Len(l)
    BY <1>1
  <2>2. i \in q.of
    BY <1>1, <1>2, <2>1 DEF Faithfully
  <2> QED BY <1>1, <2>2, OwnerLast
<1>5. b <= a => Owner(l, j) \in a .. Len(l)
  <2> SUFFICES ASSUME b <= a PROVE Owner(l, j) \in a .. Len(l)
    OBVIOUS
  <2>1. a \in b .. Len(l)
    BY <1>1
  <2>2. j \in p.of
    BY <1>1, <1>3, <2>1 DEF Faithfully
  <2> QED BY <1>1, <2>2, OwnerLast
<1>6. (a <= b => a \in b .. Len(l)) /\ (b <= a => b \in a .. Len(l))
  BY <1>4, <1>5 DEF a, b
<1>7. a = b
  BY ONLY <1>1, <1>6
<1> QED BY <1>7 DEF a, b

\* The parts of a message in a sound transcript.
LEMMA PartsFit ==
    ASSUME NEW l \in Seq(MessageSet), Sound(l), NEW i \in 1 .. Len(l), NEW p \in Range(l[i].parts)
    PROVE  /\ p \in PartSet /\ Suits(l, i, p)
           /\ l[i].role = "user" => p.kind \in {"text", "reminder", "request"}
           /\ l[i].role = "assistant" => p.kind \in {"text", "call", "compaction"}
           /\ l[i].role = "tool" => p.kind = "result"
<1>1. l[i] \in MessageSet /\ i \in DOMAIN l
  OBVIOUS
<1>2. Range(l[i].parts) \subseteq PartSet
  BY <1>1, MessageParts
<1>3. Suits(l, i, p)
  BY <1>1 DEF Sound
<1>4. FitsRole(l[i].role, p.kind)
  BY <1>3 DEF Suits
<1> QED BY <1>2, <1>3, <1>4 DEF FitsRole

\* The line that message i becomes.
Became(l, i, line) ==
    /\ Owner(l, i) # 0 =>
          line.role = IF \E j \in 1 .. i - 1 : Owner(l, j) = Owner(l, i) THEN "none" ELSE "system"
    /\ Owner(l, i) = 0 =>
          /\ line.role \in {"none", l[i].role}
          /\ Says(l[i]) \/ CallIds(l[i]) # {} => line.role = l[i].role
          /\ Compactions(l, i) # {} /\ CallIds(l[i]) = {} => line.role = "none"
          /\ ResultIds(l[i]) # {} => line.role = "tool" /\ line.results = ResultIds(l[i])
          /\ line.role = "tool" => ResultIds(l[i]) # {}

\* project_for_llm: the role of each line.
LEMMA RolesProjected ==
    ASSUME NEW l \in Seq(MessageSet), Sound(l), NEW asking \in BOOLEAN, NEW i \in 1 .. Len(l)
    PROVE  /\ Became(l, i, Project(l, asking)[i])
           /\ ~asking /\ Asking(l[i]) => Project(l, asking)[i].role \in {"none", "system"}
<1> DEFINE line == Project(l, asking)[i]
           m == l[i]
<1>1. i \in DOMAIN l /\ m.role \in {"user", "assistant", "tool"} /\ m \in MessageSet /\ i \in Nat
  BY MessageParts
<1>2. Nothing.role = "none" /\ Line("system").role = "system"
  BY DEF Nothing, Line
<1>3. CASE Owner(l, i) # 0
  <2>1. \A j \in 1 .. i - 1 : j \in DOMAIN l
    BY <1>1
  <2>2. line = IF \E j \in 1 .. i - 1 : Owner(l, j) = Owner(l, i) THEN Nothing ELSE Line("system")
    BY <1>1, <1>3, <2>1 DEF Project
  <2> QED BY <1>2, <1>3, <2>2 DEF Became
<1>4. CASE Owner(l, i) = 0
  <2>1. \A p \in Range(m.parts) :
           /\ m.role = "user" => p.kind \in {"text", "reminder", "request"}
           /\ m.role = "assistant" => p.kind \in {"text", "call", "compaction"}
           /\ m.role = "tool" => p.kind = "result"
    BY PartsFit
  <2>2. CASE m.role = "user"
    <3> DEFINE notes == ShownReminders(l)[i]
    <3>1. line = ProjectUser(m, notes, asking)
      BY <1>1, <1>4, <2>2 DEF Project
    <3>2. notes = {r \in Parts(m, "reminder") :
                     r.of = "settled" \/ (r \in Active(l) /\ [of \in {"recovery", "outcome"} |-> Latest(l, of)][r.of] = i)}
      BY <1>1 DEF ShownReminders
    <3>3. notes \subseteq Parts(m, "reminder") /\ \A r \in Parts(m, "reminder") : r.of = "settled" => r \in notes
      BY <3>2
    <3> HIDE DEF notes
    <3>4. [Line("user") EXCEPT !.notes = notes].role = "user"
      BY DEF Nothing, Line
    <3>5. \/ line.role = "user"
          \/ line.role = "none" /\ ~HasText(m) /\ notes = {}
      BY <1>2, <3>1, <3>4 DEF ProjectUser
    <3>6. ~asking /\ ~HasText(m) /\ notes = {} => line.role = "none"
      BY <1>2, <3>1 DEF ProjectUser
    <3>7. CallIds(m) = {} /\ ResultIds(m) = {} /\ Parts(m, "compaction") = {}
      BY <2>1, <2>2 DEF CallIds, ResultIds, Parts
    <3>8. Says(m) => line.role = "user"
      BY <3>3, <3>5, <3>7 DEF Says
    <3>9. Asking(m) => ~HasText(m) /\ notes = {}
      BY <3>3 DEF Asking, HasText, Parts
    <3> QED BY <1>4, <2>2, <3>5, <3>6, <3>7, <3>8, <3>9 DEF Became, Compactions
  <2>3. CASE m.role = "assistant"
    <3> DEFINE calls == CallIds(m)
    <3>1. line = ProjectAssistant(m)
      BY <1>1, <1>4, <2>3 DEF Project
    <3> HIDE DEF calls
    <3>2. [Line("assistant") EXCEPT !.calls = calls].role = "assistant"
      BY DEF Nothing, Line
    <3>3. line.role = IF calls # {} \/ (HasText(m) /\ Parts(m, "compaction") = {}) THEN "assistant" ELSE "none"
      BY <1>2, <3>1, <3>2 DEF ProjectAssistant, calls
    <3>4. ResultIds(m) = {} /\ Parts(m, "reminder") = {}
      BY <2>1, <2>3 DEF ResultIds, Parts
    <3>5. Says(m) => line.role = "assistant"
      BY <3>3, <3>4 DEF Says, calls
    <3> QED BY <1>4, <2>3, <3>3, <3>4, <3>5 DEF Became, Compactions, Asking, calls
  <2>4. CASE m.role = "tool"
    <3> DEFINE results == ResultIds(m)
    <3>1. line = ProjectTool(m)
      BY <1>1, <1>4, <2>4 DEF Project
    <3> HIDE DEF results
    <3>2. LET said == [Line("tool") EXCEPT !.results = results]
          IN said.role = "tool" /\ said.results = results
      BY DEF Nothing, Line
    <3>3. /\ results # {} => line.role = "tool" /\ line.results = results
          /\ results = {} => line.role = "none"
      BY <1>2, <3>1, <3>2 DEF ProjectTool, results
    <3>4. CallIds(m) = {} /\ ~HasText(m) /\ Parts(m, "reminder") = {} /\ Parts(m, "compaction") = {}
      BY <2>1, <2>4 DEF CallIds, HasText, Parts
    <3>5. Says(m) => results # {}
      BY <3>4 DEF Says, results
    <3> QED BY <1>4, <2>4, <3>3, <3>4, <3>5 DEF Became, Compactions, Asking, results
  <2> QED BY <1>1, <2>2, <2>3, <2>4
<1> QED BY <1>3, <1>4

\* If a summary stands for anything, one line says so, for the last summary.
LEMMA SystemLine ==
    ASSUME NEW l \in Seq(MessageSet), Sound(l), Faithfully(l), NEW asking \in BOOLEAN
    PROVE  LET view    == Project(l, asking)
               systems == {i \in DOMAIN view : view[i].role = "system"}
           IN /\ DOMAIN view = 1 .. Len(l)
              /\ \A i, j \in systems : i = j
              /\ \A i \in systems : Owner(l, i) # 0
              /\ \A i \in 1 .. Len(l) : Owner(l, i) # 0 =>
                    /\ systems # {} /\ systems \subseteq Nat
                    /\ Min(systems) \in systems
                    /\ Owner(l, Min(systems)) = Owner(l, i)
<1> DEFINE view == Project(l, asking)
           systems == {i \in DOMAIN view : view[i].role = "system"}
<1>1. DOMAIN view = 1 .. Len(l) /\ Len(l) \in Nat
  BY DEF Project
<1>2. \A i \in 1 .. Len(l) : Became(l, i, view[i])
  BY RolesProjected
<1> HIDE DEF view
<1>3. ASSUME NEW i \in systems PROVE Owner(l, i) # 0
  <2>1. Became(l, i, view[i]) /\ view[i].role = "system" /\ l[i].role \in {"user", "assistant", "tool"}
    BY <1>1, <1>2, MessageParts
  <2> QED BY <2>1 DEF Became
<1>4. ASSUME NEW i \in systems, NEW j \in systems PROVE ~(i < j)
  <2> SUFFICES ASSUME i < j PROVE FALSE
    OBVIOUS
  <2>1. Owner(l, i) = Owner(l, j) /\ Owner(l, j) # 0
    BY <1>3, OneOwner
  <2>2. i \in 1 .. j - 1
    BY <1>1
  <2>3. Became(l, j, view[j]) /\ view[j].role = "system"
    BY <1>1, <1>2
  <2> QED BY <2>1, <2>2, <2>3 DEF Became
<1>5. \A i, j \in systems : i = j
  <2>1. \A i \in systems : i \in Nat
    BY <1>1
  <2> HIDE DEF systems
  <2> QED BY <1>4, <2>1
<1>6. ASSUME NEW i \in 1 .. Len(l), Owner(l, i) # 0
      PROVE  /\ systems # {} /\ systems \subseteq Nat /\ Min(systems) \in systems
             /\ Owner(l, Min(systems)) = Owner(l, i)
  <2> DEFINE owned == {k \in 1 .. Len(l) : Owner(l, k) # 0}
             first == Min(owned)
  <2>1. owned \in SUBSET Nat /\ owned # {}
    BY <1>6
  <2>2. first \in owned /\ \A k \in owned : first <= k
    <3> HIDE DEF owned
    <3> QED BY <2>1, FirstPlace
  <2>3. first \in 1 .. Len(l) /\ Owner(l, first) # 0
    BY <2>2
  <2>4. ~\E j \in 1 .. first - 1 : Owner(l, j) = Owner(l, first)
    <3> SUFFICES ASSUME NEW j \in 1 .. first - 1, Owner(l, j) = Owner(l, first) PROVE FALSE
      OBVIOUS
    <3> HIDE DEF first
    <3>1. j \in 1 .. Len(l) /\ j < first
      BY <1>1, <2>3
    <3>2. j \in owned
      BY <2>3, <3>1
    <3> QED BY <2>2, <3>1, <3>2
  <2> HIDE DEF first
  <2>5. Became(l, first, view[first])
    BY <1>2, <2>3
  <2>6. first \in systems
    BY <1>1, <2>3, <2>4, <2>5 DEF Became
  <2>7. systems \in SUBSET Nat
    BY <1>1
  <2> HIDE DEF systems
  <2>8. Min(systems) \in systems
    BY <2>6, <2>7, FirstPlace
  <2> QED BY <1>3, <1>6, <2>6, <2>7, <2>8, OneOwner
<1> QED BY <1>1, <1>3, <1>5, <1>6 DEF view

-------------------------------------------------------------------------------
(* Counting lines.                                                         *)

\* A result in a sound transcript follows its call, with settlements in between.
LEMMA CallBefore ==
    ASSUME NEW l \in Seq(MessageSet), Sound(l), NEW t \in 1 .. Len(l), ResultIds(l[t]) # {}
    PROVE  /\ l[t].role = "tool"
           /\ \E i \in 1 .. t - 1 :
                 /\ CallIds(l[i]) # {} /\ l[i].role = "assistant"
                 /\ \A k \in i + 1 .. t - 1 : Settled(l[k])
<1>1. PICK r \in Range(l[t].parts) : r.kind = "result"
  BY DEF ResultIds, Parts
<1>2. Suits(l, t, r) /\ l[t].role \in {"user", "assistant", "tool"}
  BY PartsFit, MessageParts
<1>3. l[t].role = "tool"
  BY <1>1, <1>2 DEF Suits, FitsRole
<1>4. /\ r.id[1] \in 1 .. t - 1 /\ r.id \in CallIds(l[r.id[1]])
      /\ \A k \in r.id[1] + 1 .. t - 1 : Settled(l[k])
  BY <1>1, <1>2 DEF Suits
<1>5. PICK i \in 1 .. t - 1 : i = r.id[1]
  BY <1>4
<1>6. i \in 1 .. Len(l) /\ CallIds(l[i]) # {}
  BY <1>4, <1>5
<1>7. PICK p \in Range(l[i].parts) : p.kind = "call"
  BY <1>6 DEF CallIds, Parts
<1>8. l[i].role \in {"user", "assistant", "tool"} /\ Suits(l, i, p)
  BY <1>6, PartsFit, MessageParts
<1>9. l[i].role = "assistant"
  BY <1>7, <1>8 DEF Suits, FitsRole
<1> QED BY <1>3, <1>4, <1>5, <1>6, <1>9

\* A request shows nothing, and is no settlement.
LEMMA AskingFacts ==
    ASSUME NEW m \in MessageSet, Asking(m)
    PROVE  /\ ~Settled(m) /\ ~Says(m) /\ ~HasText(m)
           /\ CallIds(m) = {} /\ ResultIds(m) = {} /\ Parts(m, "compaction") = {}
<1>1. ~HasText(m) /\ CallIds(m) = {} /\ ResultIds(m) = {} /\ Parts(m, "compaction") = {} /\ Parts(m, "reminder") = {}
  BY DEF Asking, HasText, CallIds, ResultIds, Parts
<1>2. ~Says(m)
  BY <1>1 DEF Says
<1>3. ~Settled(m)
  <2> SUFFICES ASSUME Settled(m) PROVE FALSE
    OBVIOUS
  <2>1. m.parts \in Seq(PartSet) /\ m.parts # <<>>
    BY MessageParts DEF Settled
  <2>2. 1 \in 1 .. Len(m.parts)
    BY <2>1
  <2>3. m.parts[1] \in Range(m.parts)
    BY <2>1, <2>2, InRange
  <2> QED BY <2>3 DEF Settled, Asking
<1> QED BY <1>1, <1>2, <1>3

\* The request of a compaction is for the summarizer only.
LEMMA RequestHidden ==
    ASSUME NEW l \in Seq(MessageSet), Sound(l), NEW i \in 1 .. Len(l), Asking(l[i])
    PROVE  Project(l, FALSE)[i].role \notin Body
<1>1. PICK no \in BOOLEAN : no = FALSE
  OBVIOUS
<1>2. Project(l, no)[i].role \in {"none", "system"}
  BY <1>1, RolesProjected
<1>3. Project(l, FALSE)[i].role \in {"none", "system"}
  BY <1>1, <1>2, Zenon
<1> QED BY <1>3 DEF Body

\* There is one summary line at most.
LEMMA OneSystem ==
    ASSUME NEW l \in Seq(MessageSet), Sound(l), Faithfully(l), NEW asking \in BOOLEAN,
           NEW i \in 1 .. Len(l), NEW j \in 1 .. Len(l),
           Project(l, asking)[i].role = "system", Project(l, asking)[j].role = "system"
    PROVE  i = j
<1> DEFINE view == Project(l, asking)
           systems == {k \in DOMAIN view : view[k].role = "system"}
<1>1. DOMAIN view = 1 .. Len(l) /\ \A x, y \in systems : x = y
  BY SystemLine
<1>2. i \in systems /\ j \in systems
  BY <1>1
<1> QED BY <1>1, <1>2, Zenon

\* However much a summary stands for, no more is kept afterwards than comes after it:
\* should_compact counts lines and superseded_messages messages.
LEMMA Room ==
    ASSUME NEW l \in Seq(MessageSet), Sound(l), Faithfully(l), NEW roles \in {Body, Body \cup {"system"}},
           NEW o \in 1 .. Len(l), NEW p \in Compactions(l, o),
           NEW a \in Nat, a > 0, p.of = 1 .. a
    PROVE  \/ a + PreserveRecent <= Len(l)
           \/ a + Lines(Project(l, FALSE), roles) <= Len(l)
<1> DEFINE view == Project(l, FALSE)
           n == Len(l)
<1>0. n \in Nat /\ PreserveRecent \in 1 .. 4
  BY ProjectionAssumption DEF ProjectionAssumption
<1>1. PICK mk \in 1 .. o - 1 : Asking(l[mk]) /\ CutAt(l, p.of, mk)
  BY DEF Faithfully, Faithful
<1>2. PICK b \in 0 .. mk - 1 :
         /\ 1 .. a = 1 .. b
         /\ (b > 0 /\ \E t \in b + 1 .. mk - 1 : ResultIds(l[t]) # {})
               => mk - 1 - b >= 2 \/ mk - 1 - b >= PreserveRecent
  BY <1>1 DEF CutAt
<1>3. a = b
  <2>1. a \in 1 .. a /\ a \in 1 .. b
    BY <1>2
  <2>2. b \in 1 .. b /\ b \in 1 .. a
    BY <1>2, <2>1
  <2> QED BY <2>1, <2>2
<1>4. a < mk /\ mk < o /\ o <= n /\ mk \in 1 .. n /\ o \in Nat /\ mk \in Nat
  BY <1>0, <1>1, <1>2, <1>3
<1>5. l[mk] \in MessageSet /\ l[o] \in MessageSet /\ CallIds(l[o]) = {}
  <2>1. l[mk] \in MessageSet /\ l[o] \in MessageSet
    BY <1>4
  <2>2. Faithful(l, o, p)
    BY DEF Faithfully
  <2> QED BY <2>1, <2>2 DEF Faithful
<1>6. ~Settled(l[mk]) /\ CallIds(l[mk]) = {} /\ ResultIds(l[mk]) = {}
  BY <1>1, <1>5, AskingFacts
<1>7. l[o].role = "assistant"
  <2>1. p \in Range(l[o].parts) /\ p.kind = "compaction"
    BY DEF Compactions, Parts
  <2> QED BY <2>1, PartsFit DEF Suits, FitsRole
<1>8. CASE \E t \in mk .. n : ResultIds(l[t]) # {}
  <2>1. PICK t \in mk .. n : ResultIds(l[t]) # {}
    BY <1>8
  <2>2. t \in 1 .. n /\ t # mk
    BY <1>0, <1>4, <1>6, <2>1
  <2>3. PICK i \in 1 .. t - 1 : /\ CallIds(l[i]) # {}
                               /\ \A k \in i + 1 .. t - 1 : Settled(l[k])
    BY <2>1, <2>2, CallBefore
  <2>4. l[t].role = "tool"
    BY <2>1, <2>2, CallBefore
  <2>5. ~(mk \in i + 1 .. t - 1)
    BY <1>6, <2>3
  <2>6. i # mk /\ i # o /\ t # o
    BY <1>5, <1>6, <1>7, <2>3, <2>4
  <2>7. t \in Nat /\ i \in Nat /\ mk < t /\ t <= n /\ i < t
    BY <1>0, <1>4, <2>1, <2>2
  <2>8. a + 4 <= n
    BY ONLY <1>0, <1>4, <2>5, <2>6, <2>7, a \in Nat
  <2>9. a + PreserveRecent <= n
    BY ONLY <1>0, <2>8, a \in Nat
  <2> QED BY <2>9
<1>9. CASE \E t \in a + 1 .. mk - 1 : ResultIds(l[t]) # {}
  <2>1. mk - 1 - a >= 2 \/ mk - 1 - a >= PreserveRecent
    BY <1>2, <1>3, <1>9
  <2>2. a + PreserveRecent <= n
    BY ONLY <1>0, <1>4, <2>1, a \in Nat
  <2> QED BY <2>2
<1>10. CASE \A t \in a + 1 .. n : ResultIds(l[t]) = {}
  <2>0. FALSE \in BOOLEAN /\ DOMAIN view = 1 .. n
    BY DEF Project
  <2>1. \A i \in 1 .. n : Became(l, i, view[i])
    BY <2>0, RolesProjected, Zenon
  <2>2. \A i, j \in 1 .. n : view[i].role = "system" /\ view[j].role = "system" => i = j
    BY <2>0, OneSystem, Zenon
  <2>3. IsFiniteSet(Places(view, roles))
    BY RowsFinite
  <2> HIDE DEF view
  <2>4. ASSUME NEW i \in 1 .. n, view[i].role \in roles
        PROVE  view[i].role = "system" \/ (i \in a + 1 .. n /\ i # mk /\ view[i].role # "tool")
    <3> SUFFICES ASSUME view[i].role # "system" PROVE i \in a + 1 .. n /\ i # mk /\ view[i].role # "tool"
      OBVIOUS
    <3>1. view[i].role \in {"user", "assistant", "tool"}
      BY <2>4 DEF Body
    <3>2. Became(l, i, view[i])
      BY <2>1
    <3>3. Owner(l, i) = 0
      BY <3>1, <3>2 DEF Became
    <3>4. i \notin 1 .. a
      <4> SUFFICES ASSUME i \in 1 .. a PROVE FALSE
        OBVIOUS
      <4>1. Owner(l, i) \in o .. Len(l)
        BY OwnerLast
      <4> QED BY <1>4, <3>3, <4>1
    <3>5. i \in a + 1 .. n
      BY <1>0, <3>4
    <3>6. i # mk
      <4>1. view[i].role \in Body
        BY <3>1 DEF Body
      <4>2. ~Asking(l[i])
        BY <4>1, RequestHidden DEF view
      <4> QED BY <1>1, <4>2
    <3>7. view[i].role # "tool"
      BY <1>10, <3>2, <3>3, <3>5 DEF Became
    <3> QED BY <3>5, <3>6, <3>7
  <2>5. \A r \in Places(view, roles) : \E i \in 1 .. n : view[i].role \in roles /\ r = <<i, <<>>>>
    <3> SUFFICES ASSUME NEW r \in Places(view, roles) PROVE \E i \in 1 .. n : view[i].role \in roles /\ r = <<i, <<>>>>
      OBVIOUS
    <3>1. PICK i \in 1 .. n : view[i].role \in roles /\ (view[i].role # "tool" => r = <<i, <<>>>>)
      BY <2>0, RowFacts
    <3>2. view[i].role # "tool"
      BY <2>4, <3>1
    <3> QED BY <3>1, <3>2
  <2> DEFINE R == Places(view, roles)
             at(i) == IF view[i].role = "system" THEN mk ELSE i
             f == [r \in R |-> at(r[1])]
  <2>6. \A i \in 1 .. n : view[i].role \in roles => at(i) \in a + 1 .. n
    BY <1>0, <1>4, <2>4
  <2>7. \A i, j \in 1 .. n :
           view[i].role \in roles /\ view[j].role \in roles /\ at(i) = at(j) => i = j
    BY <2>2, <2>4
  <2> HIDE DEF R, at
  <2>8. f \in [R -> a + 1 .. n]
    <3> SUFFICES ASSUME NEW r \in R PROVE at(r[1]) \in a + 1 .. n
      OBVIOUS
    <3>1. PICK i \in 1 .. n : view[i].role \in roles /\ r = <<i, <<>>>>
      BY <2>5 DEF R
    <3> QED BY <2>6, <3>1
  <2>9. \A r, s \in R : f[r] = f[s] => r = s
    <3> SUFFICES ASSUME NEW r \in R, NEW s \in R, at(r[1]) = at(s[1]) PROVE r = s
      OBVIOUS
    <3>1. PICK i \in 1 .. n : view[i].role \in roles /\ r = <<i, <<>>>>
      BY <2>5 DEF R
    <3>2. PICK j \in 1 .. n : view[j].role \in roles /\ s = <<j, <<>>>>
      BY <2>5 DEF R
    <3>3. i = j
      BY <2>7, <3>1, <3>2
    <3> QED BY <3>1, <3>2, <3>3
  <2> HIDE DEF f
  <2>10. f \in Injection(R, a + 1 .. n)
    BY <2>8, <2>9 DEF Injection, IsInjective
  <2>11. IsFiniteSet(a + 1 .. n) /\ Cardinality(a + 1 .. n) = n - a
    <3>1. a + 1 \in Int /\ n \in Int
      BY <1>0
    <3>2. IsFiniteSet(a + 1 .. n) /\ Cardinality(a + 1 .. n) = IF a + 1 > n THEN 0 ELSE n - (a + 1) + 1
      BY <3>1, FS_Interval
    <3> QED BY <1>0, <1>4, <3>2
  <2>12. Cardinality(R) <= Cardinality(a + 1 .. n)
    BY <2>10, <2>11, FS_Injection
  <2>13. Lines(view, roles) <= n - a
    BY <2>11, <2>12, RowFacts DEF R
  <2>14. Lines(view, roles) \in Nat
    BY RowsFinite DEF view
  <2>15. a + Lines(view, roles) <= n
    BY ONLY <1>0, <2>13, <2>14, a \in Nat
  <2> QED BY <2>15 DEF view
<1>11. \A t \in a + 1 .. n : t \in a + 1 .. mk - 1 \/ t \in mk .. n
  BY <1>0, <1>4
<1> QED BY <1>8, <1>9, <1>10, <1>11

\* A result that no summary stands for is not the only line.
LEMMA TwoLines ==
    ASSUME NEW l \in Seq(MessageSet), Sound(l), Faithfully(l), NEW t \in 1 .. Len(l),
           ResultIds(l[t]) # {}, Owner(l, t) = 0
    PROVE  Lines(Project(l, FALSE), Body \cup {"system"}) >= 2
<1> DEFINE view == Project(l, FALSE)
           roles == Body \cup {"system"}
           systems == {i \in DOMAIN view : view[i].role = "system"}
<1>0. FALSE \in BOOLEAN /\ DOMAIN view = 1 .. Len(l)
  BY DEF Project
<1>1. \A i \in 1 .. Len(l) : Became(l, i, view[i])
  BY <1>0, RolesProjected, Zenon
<1>2. \A i \in 1 .. Len(l) : Owner(l, i) # 0 => \E j \in 1 .. Len(l) : view[j].role = "system"
  <2> SUFFICES ASSUME NEW i \in 1 .. Len(l), Owner(l, i) # 0 PROVE \E j \in 1 .. Len(l) : view[j].role = "system"
    OBVIOUS
  <2>1. DOMAIN view = 1 .. Len(l) /\ systems # {}
    BY SystemLine
  <2> QED BY <2>1
<1>3. IsFiniteSet(Places(view, roles)) /\ Lines(view, roles) = Cardinality(Places(view, roles))
  BY RowsFinite, RowFacts
<1> HIDE DEF view
<1>4. PICK i \in 1 .. t - 1 :
         /\ CallIds(l[i]) # {} /\ l[i].role = "assistant"
         /\ \A k \in i + 1 .. t - 1 : Settled(l[k])
  BY CallBefore, Zenon
<1>5. i \in 1 .. Len(l) /\ i # t
  OBVIOUS
<1>6. \E j \in 1 .. Len(l) : j # t /\ view[j].role \in roles /\ view[j].role # "tool"
  <2>1. view[t].role = "tool"
    BY <1>1 DEF Became
  <2>2. CASE Owner(l, i) # 0
    <3>1. PICK j \in 1 .. Len(l) : view[j].role = "system"
      BY <1>2, <1>5, <2>2
    <3> QED BY <2>1, <3>1
  <2>3. CASE Owner(l, i) = 0
    <3>1. view[i].role = "assistant"
      BY <1>1, <1>4, <1>5, <2>3 DEF Became
    <3> QED BY <1>5, <3>1 DEF Body
  <2> QED BY <2>2, <2>3
<1>7. PICK j \in 1 .. Len(l) : j # t /\ view[j].role \in roles /\ view[j].role # "tool"
  BY <1>6
<1>8. <<j, <<>>>> \in Places(view, roles)
  BY <1>0, <1>7, RowFacts
<1>9. PICK id \in ResultIds(l[t]) : TRUE
  OBVIOUS
<1>10. <<t, id>> \in Places(view, roles)
  <2>1. view[t].role = "tool" /\ view[t].results = ResultIds(l[t])
    BY <1>1 DEF Became
  <2> QED BY <1>0, <1>9, <2>1, RowFacts DEF Body
<1> DEFINE x == <<j, <<>>>>
           y == <<t, id>>
           both == {x} \cup {y}
<1>11. x # y
  BY <1>7
<1> HIDE DEF x, y, roles
<1>12. IsFiniteSet({x}) /\ Cardinality({x}) = 1
  BY FS_Singleton
<1>13. Cardinality(both) = 2
  <2>1. y \notin {x}
    BY <1>11
  <2>2. Cardinality(both) = Cardinality({x}) + 1
    BY <1>12, <2>1, FS_AddElement, Zenon
  <2> HIDE DEF both
  <2> QED BY <1>12, <2>2
<1>14. both \in SUBSET Places(view, roles)
  BY <1>8, <1>10 DEF x, y
<1>15. Cardinality(both) <= Cardinality(Places(view, roles))
  BY <1>3, <1>14, FS_Subset
<1>16. Cardinality(Places(view, roles)) >= 2
  BY <1>13, <1>15
<1> QED BY <1>3, <1>16 DEF view, roles

-------------------------------------------------------------------------------
(* How the transcript changes.                                             *)

\* Up to message c nothing changes but the state of requests, and every summary is
\* there, before and after.
Alike(l, new, c) ==
    /\ c \in 1 .. Len(l) + 1 /\ c \in 1 .. Len(new) + 1
    /\ \A i \in 1 .. c - 1 : new[i] = l[i] \/ (Asking(l[i]) /\ Asking(new[i]))
    /\ \A o \in 1 .. Len(l) : Compactions(l, o) # {} => o < c
    /\ \A o \in 1 .. Len(new) : Compactions(new, o) # {} => o < c

\* What does not change.
LEMMA AlikeMessages ==
    ASSUME NEW l \in Seq(MessageSet), NEW new \in Seq(MessageSet), NEW c, Alike(l, new, c),
           NEW i \in 1 .. c - 1
    PROVE  /\ i \in 1 .. Len(l) /\ i \in 1 .. Len(new)
           /\ HasText(new[i]) <=> HasText(l[i])
           /\ Says(new[i]) <=> Says(l[i])
           /\ Asking(new[i]) <=> Asking(l[i])
           /\ CallIds(new[i]) = CallIds(l[i]) /\ ResultIds(new[i]) = ResultIds(l[i])
           /\ Compactions(new, i) = Compactions(l, i)
<1>1. /\ Len(l) \in Nat /\ Len(new) \in Nat /\ c \in 1 .. Len(l) + 1 /\ c \in 1 .. Len(new) + 1
      /\ new[i] = l[i] \/ (Asking(l[i]) /\ Asking(new[i]))
  BY DEF Alike
<1>2. i \in 1 .. Len(l) /\ i \in 1 .. Len(new)
  BY <1>1
<1>3. CASE new[i] = l[i]
  BY <1>2, <1>3 DEF Compactions
<1>4. CASE Asking(l[i]) /\ Asking(new[i])
  <2>1. l[i] \in MessageSet /\ new[i] \in MessageSet
    BY <1>2
  <2> QED BY <1>2, <1>4, <2>1, AskingFacts DEF Compactions
<1> QED BY <1>1, <1>3, <1>4

\* What a compaction supersedes.
LEMMA CutKept ==
    ASSUME NEW l \in Seq(MessageSet), NEW new \in Seq(MessageSet), NEW c, Alike(l, new, c),
           NEW mk \in 1 .. c, NEW S, CutAt(l, S, mk)
    PROVE  CutAt(new, S, mk) /\ S \subseteq 1 .. mk - 1
<1>1. PICK a \in 0 .. mk - 1 :
         /\ S = 1 .. a
         /\ (a > 0 /\ \E t \in a + 1 .. mk - 1 : ResultIds(l[t]) # {})
               => mk - 1 - a >= 2 \/ mk - 1 - a >= PreserveRecent
  BY DEF CutAt
<1>2. c \in Nat /\ mk \in Nat /\ mk <= c
  BY DEF Alike
<1>3. \A t \in a + 1 .. mk - 1 : t \in 1 .. c - 1
  BY <1>1, <1>2
<1>4. \A t \in a + 1 .. mk - 1 : ResultIds(new[t]) = ResultIds(l[t])
  BY <1>3, AlikeMessages
<1>5. (a > 0 /\ \E t \in a + 1 .. mk - 1 : ResultIds(new[t]) # {})
         => mk - 1 - a >= 2 \/ mk - 1 - a >= PreserveRecent
  BY <1>1, <1>4
<1>6. CutAt(new, S, mk)
  BY <1>1, <1>5 DEF CutAt
<1>7. S \subseteq 1 .. mk - 1
  BY <1>1, <1>2
<1> QED BY <1>6, <1>7

\* Where the summaries are.
LEMMA AlikeSummaries ==
    ASSUME NEW l \in Seq(MessageSet), NEW new \in Seq(MessageSet), NEW c, Alike(l, new, c),
           NEW o \in 1 .. Len(new), NEW p \in Compactions(new, o)
    PROVE  o \in 1 .. c - 1 /\ o \in 1 .. Len(l) /\ p \in Compactions(l, o)
<1>1. o < c /\ c \in 1 .. Len(l) + 1 /\ Len(l) \in Nat
  BY DEF Alike
<1>2. o \in 1 .. c - 1 /\ o \in 1 .. Len(l)
  BY <1>1
<1> QED BY <1>2, AlikeMessages

\* Summaries stay faithful.
LEMMA FaithfullyKept ==
    ASSUME NEW l \in Seq(MessageSet), NEW new \in Seq(MessageSet), NEW c, Alike(l, new, c),
           Faithfully(l)
    PROVE  Faithfully(new)
<1>1. c \in Nat /\ c \in 1 .. Len(l) + 1 /\ Len(l) \in Nat /\ Len(new) \in Nat
  BY DEF Alike
<1>2. ASSUME NEW o \in 1 .. Len(new), NEW p \in Compactions(new, o)
      PROVE  Faithful(new, o, p)
  <2>1. o \in 1 .. c - 1 /\ o \in 1 .. Len(l) /\ p \in Compactions(l, o)
    BY AlikeSummaries
  <2>2. Faithful(l, o, p)
    BY <2>1 DEF Faithfully
  <2>3. HasText(new[o]) /\ CallIds(new[o]) = {}
    BY <2>1, <2>2, AlikeMessages DEF Faithful
  <2>4. PICK mk \in 1 .. o - 1 : Asking(l[mk]) /\ CutAt(l, p.of, mk)
    BY <2>2 DEF Faithful
  <2>5. mk \in 1 .. c - 1 /\ mk \in 1 .. c
    BY <1>1, <2>1
  <2>6. CutAt(new, p.of, mk) /\ p.of \subseteq 1 .. mk - 1
    BY <2>4, <2>5, CutKept
  <2>7. Asking(new[mk])
    BY <2>4, <2>5, AlikeMessages
  <2>8. \A i \in p.of : i \in 1 .. c - 1
    BY <1>1, <2>5, <2>6
  <2>9. \A i \in p.of : Says(new[i]) => i \in p.covers
    BY <2>2, <2>8, AlikeMessages DEF Faithful
  <2> QED BY <2>3, <2>4, <2>6, <2>7, <2>9 DEF Faithful
<1>3. ASSUME NEW o \in 1 .. Len(new), NEW p \in Compactions(new, o),
             NEW o2 \in o .. Len(new), NEW p2 \in Compactions(new, o2)
      PROVE  p.of \subseteq p2.of
  <2>1. o \in 1 .. Len(l) /\ p \in Compactions(l, o)
    BY AlikeSummaries
  <2>2. o2 \in 1 .. Len(new)
    BY <1>1
  <2>3. o2 \in 1 .. Len(l) /\ p2 \in Compactions(l, o2)
    BY <2>2, AlikeSummaries
  <2>4. o2 \in o .. Len(l)
    BY <1>1, <2>1, <2>3
  <2> QED BY <2>1, <2>3, <2>4 DEF Faithfully
<1> QED BY <1>2, <1>3 DEF Faithfully

\* What may be superseded still may.
LEMMA MayCutKept ==
    ASSUME NEW l \in Seq(MessageSet), NEW new \in Seq(MessageSet), NEW c, Alike(l, new, c),
           NEW mk \in 1 .. c, NEW S, MayCut(l, S, mk)
    PROVE  MayCut(new, S, mk) /\ S \subseteq 1 .. mk - 1
<1>1. CutAt(new, S, mk) /\ S \subseteq 1 .. mk - 1
  BY CutKept DEF MayCut
<1>2. \A o \in 1 .. Len(new) : \A p \in Compactions(new, o) : p.of \subseteq S
  BY AlikeSummaries DEF MayCut
<1> QED BY <1>1, <1>2 DEF MayCut

\* A message is added, or none.
LEMMA GrownAlike ==
    ASSUME Stepped, log' = log \/ Grown
    PROVE  Alike(log, log', Len(log) + 1)
<1>1. /\ log \in Seq(MessageSet) /\ log' \in Seq(MessageSet) /\ Len(log) \in Nat /\ Len(log') \in Nat
  BY Fields
<1>2. \A o \in 1 .. Len(log) : o < Len(log) + 1
  BY <1>1
<1>3. CASE log' = log
  BY <1>1, <1>2, <1>3 DEF Alike
<1>4. CASE Grown
  <2>1. PICK m \in MessageSet : Plain(m) /\ log' = Append(log, m)
    BY <1>4 DEF Grown
  <2>2. /\ Len(log') = Len(log) + 1 /\ \A i \in 1 .. Len(log) : log'[i] = log[i]
        /\ log'[Len(log) + 1] = m
    BY <1>1, <2>1, AppendLog
  <2>3. Compactions(log', Len(log) + 1) = {}
    BY <2>1, <2>2 DEF Plain, Compactions, Parts
  <2>4. \A o \in 1 .. Len(log') : Compactions(log', o) # {} => o < Len(log) + 1
    BY <1>1, <2>2, <2>3
  <2> QED BY <1>1, <1>2, <2>2, <2>4 DEF Alike
<1> QED BY <1>3, <1>4

\* The state of the request changes.
LEMMA MarkAlike ==
    ASSUME Stepped, loop.marker # 0, Asking(log[loop.marker]),
           NEW state \in {"pending", "committed", "failed"}, Mark(state)
    PROVE  Alike(log, log', Len(log) + 1) /\ Asking(log'[loop.marker])
<1> DEFINE c == loop.marker
<1>0. PICK p \in PartSet : p = RequestPart(state) /\ p.kind = "request"
  BY MadeParts DEF RequestPart
<1>1. c \in 1 .. Len(log) /\ <<p>> \in Seq(PartSet) /\ log' = Rewrite(log, c, <<p>>)
  BY <1>0, MarkStep DEF Stepped, Inv, Local
<1>2. /\ log \in Seq(MessageSet) /\ log' \in Seq(MessageSet) /\ Len(log) \in Nat
      /\ log[c].role = "user"
  BY Fields DEF Stepped, Inv, Local, Located
<1> HIDE DEF c
<1>3. /\ Len(log') = Len(log)
      /\ \A i \in 1 .. Len(log) : i # c => log'[i] = log[i]
      /\ log'[c].role = log[c].role /\ log'[c].parts = <<p>>
  BY <1>1, <1>2, RewriteLog, ZenonT(60)
<1>4. Range(<<p>>) = {p}
  BY DEF Range
<1>5. Asking(log'[c])
  BY <1>0, <1>2, <1>3, <1>4 DEF Asking
<1>6. \A i \in 1 .. Len(log) + 1 - 1 : log'[i] = log[i] \/ (Asking(log[i]) /\ Asking(log'[i]))
  BY <1>2, <1>3, <1>5 DEF c
<1>7. \A o \in 1 .. Len(log) : o < Len(log) + 1
  BY <1>2
<1>8. Len(log) + 1 \in 1 .. Len(log) + 1
  BY <1>2
<1> QED BY <1>2, <1>3, <1>5, <1>6, <1>7, <1>8 DEF Alike, c

\* The message that is being written changes, which comes after every summary.
LEMMA RewriteAlike ==
    ASSUME Stepped, Ahead, loop.todo # <<>> \/ loop.pc \in {"stream", "tail"},
           NEW c \in 1 .. Len(log), c = loop.cur, NEW parts \in Seq(PartSet), log' = Rewrite(log, c, parts),
           \A p \in Range(parts) : p.kind # "compaction"
    PROVE  Alike(log, log', c)
<1>1. log \in Seq(MessageSet) /\ log' \in Seq(MessageSet) /\ Len(log) \in Nat
  BY Fields
<1>2. /\ Len(log') = Len(log)
      /\ \A i \in 1 .. Len(log) : i # c => log'[i] = log[i]
      /\ log'[c].parts = parts
  BY <1>1, RewriteLog, ZenonT(60)
<1>3. \A o \in 1 .. Len(log) : Compactions(log, o) # {} => o < c
  BY DEF Ahead
<1>4. Compactions(log', c) = {}
  BY <1>2 DEF Compactions, Parts
<1>5. \A o \in 1 .. Len(log') : Compactions(log', o) # {} => o < c
  BY <1>2, <1>3, <1>4 DEF Compactions
<1>6. \A i \in 1 .. c - 1 : i \in 1 .. Len(log) /\ i # c
  BY <1>1
<1> QED BY <1>1, <1>2, <1>3, <1>5, <1>6 DEF Alike

-------------------------------------------------------------------------------
(* How much may be kept.                                                   *)

\* A summary stands for the first messages.
LEMMA CompactionSize ==
    ASSUME NEW l \in Seq(MessageSet), Faithfully(l), NEW o \in 1 .. Len(l), NEW p \in Compactions(l, o)
    PROVE  \E a \in Nat : p.of = 1 .. a
<1>1. PICK mk \in 1 .. o - 1 : CutAt(l, p.of, mk)
  BY DEF Faithfully, Faithful
<1>2. PICK a \in 0 .. mk - 1 : p.of = 1 .. a
  BY <1>1 DEF CutAt
<1>3. a \in Nat
  BY <1>2
<1> QED BY <1>2, <1>3

\* A transcript up to some message is sound if all of it is.
LEMMA SoundPrefix ==
    ASSUME NEW l \in Seq(MessageSet), Sound(l), NEW n \in Nat, n <= Len(l)
    PROVE  Sound(SubSeq(l, 1, n))
<1> DEFINE L == SubSeq(l, 1, n)
<1>1. L \in Seq(MessageSet) /\ Len(L) = n /\ \A i \in 1 .. n : L[i] = l[i]
  BY ViewLog
<1>2. DOMAIN L = 1 .. n /\ DOMAIN l = 1 .. Len(l) /\ Len(l) \in Nat
  BY <1>1
<1> HIDE DEF L
<1>3. ASSUME NEW j \in 1 .. n PROVE TextFirst(L[j].parts) /\ \A p \in Range(L[j].parts) : Suits(L, j, p)
  <2>1. j \in DOMAIN l /\ L[j] = l[j] /\ j \in Nat
    BY <1>1, <1>2
  <2>2. TextFirst(l[j].parts) /\ \A p \in Range(l[j].parts) : Suits(l, j, p)
    BY <2>1 DEF Sound
  <2>3. \A k \in 1 .. j - 1 : L[k] = l[k]
    BY <1>1, <2>1
  <2>4. ASSUME NEW p \in Range(l[j].parts) PROVE Suits(L, j, p)
    <3>1. Suits(l, j, p)
      BY <2>2
    <3>2. ASSUME p.kind = "result"
          PROVE  /\ p.id[1] \in 1 .. j - 1 /\ p.id \in CallIds(L[p.id[1]])
                 /\ \A k \in p.id[1] + 1 .. j - 1 : Settled(L[k])
      <4>1. /\ p.id[1] \in 1 .. j - 1 /\ p.id \in CallIds(l[p.id[1]])
            /\ \A k \in p.id[1] + 1 .. j - 1 : Settled(l[k])
        BY <3>1, <3>2 DEF Suits
      <4>2. \A k \in p.id[1] + 1 .. j - 1 : k \in 1 .. j - 1
        BY <2>1, <4>1
      <4> QED BY <2>3, <4>1, <4>2
    <3> QED BY <2>1, <3>1, <3>2 DEF Suits
  <2> QED BY <2>1, <2>2, <2>4
<1>4. Sound(L)
  BY <1>2, <1>3 DEF Sound
<1> QED BY <1>4 DEF L

\* superseded_messages: what is not kept may be superseded.
LEMMA SupersededCut ==
    ASSUME NEW l \in Seq(MessageSet), Faithfully(l), NEW keep \in Nat, MayKeep(l, keep)
    PROVE  MayCut(l, Superseded(l, keep), Len(l) + 1)
<1> DEFINE n == Len(l)
           a == IF n <= keep THEN 0 ELSE n - keep
<1>0. n \in Nat
  OBVIOUS
<1>1. a \in 0 .. n
  BY <1>0
<1>2. Superseded(l, keep) = 1 .. a
  BY <1>0 DEF Superseded
<1>3. a > 0 => n - a = keep
  BY <1>0
<1>4. \A x \in Nat : x > 0 /\ x + keep <= n => x \in 1 .. a
  BY <1>0
<1>5. a > 0 => \A t \in a + 1 .. n : t \in 1 .. n /\ t + keep > n
  BY <1>0
<1> HIDE DEF a
<1>6. (a > 0 /\ \E t \in a + 1 .. n : ResultIds(l[t]) # {}) => n - a >= 2 \/ n - a >= PreserveRecent
  BY <1>3, <1>5 DEF MayKeep
<1>7. CutAt(l, 1 .. a, n + 1)
  <2>1. PICK mk : mk = n + 1 /\ mk - 1 = n
    BY <1>0
  <2>2. a \in 0 .. mk - 1
    BY <1>1, <2>1
  <2>3. (a > 0 /\ \E t \in a + 1 .. mk - 1 : ResultIds(l[t]) # {})
           => mk - 1 - a >= 2 \/ mk - 1 - a >= PreserveRecent
    BY <1>6, <2>1, Zenon
  <2>4. CutAt(l, 1 .. a, mk)
    BY <2>2, <2>3, Zenon DEF CutAt
  <2> QED BY <2>1, <2>4
<1>8. ASSUME NEW o \in 1 .. n, NEW p \in Compactions(l, o), NEW x \in p.of
      PROVE  x \in 1 .. a
  <2>1. x + keep <= n
    BY DEF MayKeep
  <2>2. x \in Nat /\ x > 0
    BY CompactionSize
  <2> QED BY <1>4, <2>1, <2>2
<1> QED BY <1>2, <1>7, <1>8 DEF MayCut

\* Neither the window nor the floor keeps anything that a summary stands for.
LEMMA KeepFits ==
    ASSUME NEW l \in Seq(MessageSet), Sound(l), Faithfully(l), NEW roles \in {Body, Body \cup {"system"}},
           NEW keep \in Nat, keep <= PreserveRecent, keep <= Lines(Project(l, FALSE), roles),
           NEW o \in 1 .. Len(l), NEW p \in Compactions(l, o), NEW x \in p.of
    PROVE  x + keep <= Len(l)
<1>1. PICK a \in Nat : p.of = 1 .. a
  BY CompactionSize
<1>2. x \in 1 .. a /\ a > 0
  BY <1>1
<1>3. \/ a + PreserveRecent <= Len(l)
      \/ a + Lines(Project(l, FALSE), roles) <= Len(l)
  BY <1>1, <1>2, Room
<1>4. PICK n \in Nat, lines \in Nat : n = Len(l) /\ lines = Lines(Project(l, FALSE), roles)
  <2>1. Lines(Project(l, FALSE), roles) \in Nat
    BY RowsFinite, Zenon
  <2>2. Len(l) \in Nat
    OBVIOUS
  <2> QED BY <2>1, <2>2, Zenon
<1>5. PreserveRecent \in Nat
  BY ProjectionAssumption DEF ProjectionAssumption
<1>6. keep <= lines /\ (a + PreserveRecent <= n \/ a + lines <= n)
  BY <1>3, <1>4
<1>7. x + keep <= n
  BY ONLY <1>2, <1>5, <1>6, keep \in Nat, keep <= PreserveRecent, a \in Nat, n \in Nat, lines \in Nat
<1> QED BY <1>4, <1>7

\* /compact keeps PRESERVE_RECENT messages if there are more lines than that.
LEMMA ManualKeeps ==
    ASSUME NEW l \in Seq(MessageSet), Sound(l), Faithfully(l),
           ~(Lines(Project(l, FALSE), Body) <= PreserveRecent)
    PROVE  MayKeep(l, PreserveRecent)
<1> DEFINE lines == Lines(Project(l, FALSE), Body)
<1>0. lines \in Nat
  BY RowsFinite, Zenon
<1> HIDE DEF lines
<1>1. PreserveRecent \in Nat
  BY ProjectionAssumption DEF ProjectionAssumption
<1>2. PreserveRecent <= PreserveRecent /\ PreserveRecent <= lines
  <2>1. ~(lines <= PreserveRecent)
    BY Zenon DEF lines
  <2> QED BY <1>0, <1>1, <2>1
<1>3. \A o \in 1 .. Len(l) : \A p \in Compactions(l, o) : \A x \in p.of : x + PreserveRecent <= Len(l)
  BY <1>1, <1>2, KeepFits DEF lines
<1>4. PreserveRecent >= PreserveRecent
  BY <1>1
<1> QED BY <1>3, <1>4 DEF MayKeep

\* So may should_compact's number of messages be kept.
LEMMA WindowKeeps ==
    ASSUME Inv, Faithfully(log), loop.pc = "check"
    PROVE  MayKeep(log, Keep(View)) /\ Keep(View) \in Nat
<1> DEFINE n == loop.seen
           L == SubSeq(log, 1, n)
           roles == Body \cup {"system"}
           keep == Keep(View)
           lines == Lines(Project(L, FALSE), roles)
<1>1. log \in Seq(MessageSet) /\ n \in Nat /\ Len(log) \in Nat /\ Sound(log)
  BY LoopFields DEF Inv, Typed
<1>2. n <= Len(log) /\ \A k \in n + 1 .. Len(log) : Settled(log[k])
  BY DEF Inv, Local, Following, Located
<1>3. L \in Seq(MessageSet) /\ Len(L) = n /\ \A i \in 1 .. n : L[i] = log[i]
  BY <1>1, <1>2, ViewLog
<1>4. Sound(L)
  BY <1>1, <1>2, SoundPrefix
<1>5. keep = Min({PreserveRecent, lines})
  BY DEF Keep, View
<1> HIDE DEF L, n, keep
<1>6. ASSUME NEW k \in 1 .. Len(log), k \notin 1 .. n
      PROVE  Compactions(log, k) = {} /\ ResultIds(log[k]) = {}
  <2>1. k \in n + 1 .. Len(log)
    BY <1>1, <1>2, <1>6
  <2>2. Settled(log[k])
    BY <1>2, <2>1
  <2> QED BY <2>2 DEF Settled, Compactions, ResultIds, Parts
<1>7. Alike(log, L, n + 1)
  <2>1. n + 1 \in 1 .. Len(log) + 1 /\ n + 1 \in 1 .. Len(L) + 1
    BY <1>1, <1>2, <1>3
  <2>2. \A i \in 1 .. n + 1 - 1 : L[i] = log[i]
    BY <1>1, <1>3
  <2>3. \A o \in 1 .. n : o < n + 1
    BY <1>1
  <2> QED BY <1>3, <1>6, <2>1, <2>2, <2>3 DEF Alike
<1>8. Faithfully(L)
  BY <1>1, <1>3, <1>7, FaithfullyKept
<1>9. PreserveRecent \in Nat /\ lines \in Nat
  <2>1. lines \in Nat
    BY <1>3, RowsFinite, Zenon
  <2> HIDE DEF lines
  <2> QED BY <2>1, ProjectionAssumption DEF ProjectionAssumption
<1>10. keep \in {PreserveRecent, lines} /\ keep <= PreserveRecent /\ keep <= lines /\ keep \in Nat
  <2> HIDE DEF lines
  <2>1. {PreserveRecent, lines} \in SUBSET Nat
    BY <1>9
  <2> QED BY <1>5, <1>9, <2>1, FirstPlace
<1>11. ASSUME NEW o \in 1 .. Len(log), NEW p \in Compactions(log, o), NEW x \in p.of
       PROVE  x + keep <= n
  <2>1. o \in 1 .. n
    BY <1>6
  <2>2. p \in Compactions(L, o) /\ o \in 1 .. Len(L)
    BY <1>3, <2>1 DEF Compactions
  <2> QED BY <1>3, <1>4, <1>8, <1>10, <2>2, KeepFits
<1>12. ASSUME NEW o \in 1 .. Len(log), NEW p \in Compactions(log, o), NEW x \in p.of
       PROVE  x + keep <= Len(log)
  <2>1. x + keep <= n /\ x \in Nat
    BY <1>1, <1>11, CompactionSize
  <2> QED BY <1>1, <1>2, <1>10, <2>1
<1>13. ASSUME NEW t \in 1 .. Len(log), t + keep > Len(log), ResultIds(log[t]) # {}
       PROVE  keep >= 2 \/ keep >= PreserveRecent
  <2>1. t \in 1 .. n /\ ResultIds(L[t]) # {}
    BY <1>3, <1>6, <1>13
  <2>2. Owner(L, t) = 0
    <3> SUFFICES ASSUME Owner(L, t) # 0 PROVE FALSE
      OBVIOUS
    <3>1. PICK o \in 1 .. n : \E p \in Compactions(L, o) : t \in p.of
      <4>1. Owner(L, t) \in 1 .. n /\ \E p \in Parts(L[Owner(L, t)], "compaction") : t \in p.of
        BY <1>3, OwnerPlace
      <4> QED BY <4>1 DEF Compactions
    <3>2. o \in 1 .. Len(log) /\ \E p \in Compactions(log, o) : t \in p.of
      BY <1>1, <1>2, <1>3, <3>1 DEF Compactions
    <3>3. t + keep <= Len(log)
      BY <1>12, <3>2
    <3> QED BY <1>1, <1>10, <1>13, <3>3
  <2>3. lines >= 2
    BY <1>3, <1>4, <1>8, <2>1, <2>2, TwoLines
  <2> HIDE DEF lines
  <2> QED BY <1>9, <1>10, <2>3
<1>14. MayKeep(log, keep)
  BY <1>12, <1>13 DEF MayKeep
<1> QED BY <1>10, <1>14 DEF keep

-------------------------------------------------------------------------------
(* The steps.                                                              *)

\* A step of which the transcript is known to be fine, and nothing is under way after it.
LEMMA RestKeeps ==
    ASSUME Faithfully(log'), loop'.pc \notin {"before", "stream", "tail"}, loop'.marker = 0, loop'.todo = <<>>
    PROVE  Lossless'
BY DEF Lossless, Ahead, Compacting

\* The transcript stays fine when it grows.
LEMMA GrownFaithfully ==
    ASSUME Stepped, Faithfully(log), log' = log \/ Grown
    PROVE  Faithfully(log') /\ Alike(log, log', Len(log) + 1)
BY GrownAlike, FaithfullyKept, Fields

\* The loop ends, or has nothing to write.
LEMMA ReturnLossless ==
    ASSUME Return, Faithfully(log')
    PROVE  Lossless'
<1>1. loop'.pc = "idle" /\ loop'.marker = 0 /\ loop'.todo = <<>>
  BY DEF Return, NoLoop
<1> QED BY <1>1, RestKeeps

\* A message is started, and its parts are to be written.
LEMMA BeginAhead ==
    ASSUME Stepped, Alike(log, log', Len(log) + 1), loop'.cur = Len(log) + 1
    PROVE  Ahead'
BY DEF Alike, Ahead

\* prompt_async.
LEMMA PromptLossless ==
    ASSUME Stepped, Lossless, Prompt
    PROVE  Lossless'
<1>1. log' = log \/ Grown
  BY EmptyMessage DEF Prompt, Grown
<1>2. Faithfully(log') /\ Alike(log, log', Len(log) + 1)
  BY <1>1, GrownFaithfully DEF Lossless
<1>3. loop'.pc = "top" /\ loop'.marker = 0 /\ loop'.cur = Len(log) + 1
  <2> DEFINE c == Len(log) + 1
             todo == <<TextPart(TRUE)>>
  <2>1. loop' = [NoLoop EXCEPT !.pc = "top", !.cur = c, !.todo = todo]
    BY DEF Prompt, Enter
  <2> HIDE DEF c, todo
  <2>2. loop'.pc = "top" /\ loop'.marker = 0 /\ loop'.cur = c
    BY <2>1 DEF NoLoop
  <2> QED BY <2>2 DEF c
<1>4. Ahead'
  BY <1>2, <1>3, BeginAhead
<1> QED BY <1>2, <1>3, <1>4 DEF Lossless, Compacting

\* A settlement starts the loop.
LEMMA WakeLossless ==
    ASSUME Stepped, Lossless, Wake
    PROVE  Lossless'
<1>1. loop' = [NoLoop EXCEPT !.pc = "top"] /\ log' = log
  BY DEF Wake, Enter
<1>2. loop'.pc = "top" /\ loop'.marker = 0 /\ loop'.todo = <<>>
  BY <1>1 DEF NoLoop
<1> QED BY <1>1, <1>2, RestKeeps DEF Lossless

\* /compact.
LEMMA CompactLossless ==
    ASSUME Stepped, Lossless, Compact
    PROVE  Lossless'
<1> DEFINE x == [NoLoop EXCEPT !.pc = "before", !.manual = TRUE, !.keep = PreserveRecent]
           short == Lines(Project(log', FALSE), Body) <= PreserveRecent
<1>1. log' = log \/ Grown
  BY RemindersStep DEF Compact, Stepped, Inv
<1>2. Faithfully(log')
  BY <1>1, GrownFaithfully DEF Lossless
<1>3. loop' = IF short THEN NoLoop ELSE x
  BY DEF Compact, Enter
<1>4. x.pc = "before" /\ x.marker = 0 /\ x.todo = <<>> /\ x.keep = PreserveRecent
  BY ONLY DEF NoLoop
<1> HIDE DEF x
<1>5. CASE short
  <2>1. loop' = NoLoop
    BY <1>3, <1>5
  <2>2. loop'.pc = "idle" /\ loop'.marker = 0 /\ loop'.todo = <<>>
    BY <2>1 DEF NoLoop
  <2> QED BY <1>2, <2>2, RestKeeps
<1>6. CASE ~short
  <2>1. MayKeep(log', PreserveRecent)
    BY <1>2, <1>6, ManualKeeps, Fields DEF Stepped
  <2> HIDE DEF short
  <2>2. loop' = x
    BY <1>3, <1>6
  <2> QED BY <1>2, <1>4, <2>1, <2>2 DEF Lossless, Ahead, Compacting
<1> QED BY <1>5, <1>6

\* The compaction goes on: nothing before its request changes.
LEMMA CompactionGoesOn ==
    ASSUME Stepped, Lossless, NEW c, Alike(log, log', c), loop.marker # 0, loop.marker <= c,
           loop'.marker = loop.marker, loop'.cut = loop.cut, loop'.covers = loop.covers,
           loop'.pc # "before", loop.pc = "mark" <=> loop'.pc = "mark",
           Asking(log'[loop.marker]),
           loop'.pc = "mark" =>
              loop'.cur = loop'.marker /\ \A p \in Range(loop'.todo) : p.kind = "request",
           loop'.pc = "commit" /\ loop'.todo # <<>> =>
              /\ loop'.todo = <<CompactionPart(loop'.cut, loop'.covers)>>
              /\ HasText(log'[loop'.cur]) /\ CallIds(log'[loop'.cur]) = {}
    PROVE  Compacting'
<1>1. loop.marker \in 1 .. c /\ c \in Nat
  <2>1. c \in Nat
    BY DEF Alike
  <2>2. loop.marker \in Nat
    BY Fields, LoopFields
  <2> QED BY <2>1, <2>2
<1>2. MayCut(log, loop.cut, loop.marker)
  BY DEF Lossless, Compacting
<1>3. MayCut(log', loop.cut, loop.marker) /\ loop.cut \subseteq 1 .. loop.marker - 1
  BY <1>1, <1>2, MayCutKept, Fields
<1>4. \A i \in loop.cut : i \in 1 .. c - 1
  BY <1>1, <1>3
<1>5. \A i \in loop.cut : Says(log'[i]) <=> Says(log[i])
  BY <1>4, AlikeMessages, Fields
<1>6. loop.pc # "mark" => \A i \in loop.cut : Says(log'[i]) => i \in loop.covers
  BY <1>5 DEF Lossless, Compacting
<1> QED BY <1>3, <1>6 DEF Compacting

\* Requests stay requests.
LEMMA AskingKept ==
    ASSUME Stepped, Lossless, NEW c, Alike(log, log', c), loop.marker # 0, loop.marker < c
    PROVE  Asking(log'[loop.marker])
<1>1. loop.marker \in 1 .. c - 1
  BY Fields, LoopFields DEF Alike
<1> QED BY <1>1, AlikeMessages, Fields DEF Lossless, Compacting

\* append_background_settlement, at any moment.
LEMMA SettleLossless ==
    ASSUME Stepped, Lossless, Settle
    PROVE  Lossless'
<1> DEFINE n == Len(log)
<1>0. PICK m \in MessageSet : Plain(m) /\ Settled(m) /\ log' = Append(log, m)
  <2>1. {budget.inputs} \in SUBSET Nat
    BY DEF Stepped, Inv, Typed
  <2> QED BY <2>1, SettledMessage DEF Settle
<1>1. log' = log \/ Grown
  BY <1>0 DEF Grown
<1>2. Faithfully(log') /\ Alike(log, log', n + 1)
  BY <1>1, GrownFaithfully DEF Lossless
<1>3. loop' = loop
  BY DEF Settle
<1>4. log \in Seq(MessageSet) /\ log' \in Seq(MessageSet) /\ n \in Nat /\ loop \in LoopSet
  BY Fields
<1>5. Len(log') = n + 1 /\ (\A i \in 1 .. n : log'[i] = log[i]) /\ log'[n + 1] = m
  BY <1>0, <1>4, AppendLog
<1>6. ResultIds(m) = {}
  BY <1>0 DEF Settled, ResultIds, Parts
<1> HIDE DEF n
<1>7. Ahead'
  <2> SUFFICES ASSUME loop.todo # <<>> \/ loop.pc \in {"stream", "tail"},
                      NEW o \in 1 .. Len(log'), Compactions(log', o) # {}
               PROVE  o < loop.cur
    BY <1>3 DEF Ahead
  <2>1. o \in 1 .. Len(log) /\ Compactions(log, o) # {}
    BY <1>2, <1>4, AlikeSummaries
  <2> QED BY <2>1 DEF Lossless, Ahead
<1>8. loop.pc = "before" => MayKeep(log', loop.keep)
  <2> SUFFICES ASSUME loop.pc = "before" PROVE MayKeep(log', loop.keep)
    OBVIOUS
  <2>1. MayKeep(log, loop.keep) /\ loop.keep \in Nat /\ Len(log) = n
    BY <1>4, LoopFields DEF Lossless, Compacting, n
  <2>2. ASSUME NEW t \in 1 .. n + 1, t + loop.keep > n + 1, ResultIds(log'[t]) # {}
        PROVE  t \in 1 .. n /\ t + loop.keep > n /\ ResultIds(log[t]) # {}
    BY <1>4, <1>5, <1>6, <2>1, <2>2
  <2>3. ASSUME NEW o \in 1 .. n + 1, NEW p \in Compactions(log', o), NEW x \in p.of
        PROVE  x + loop.keep <= n + 1
    <3>1. o \in 1 .. Len(log) /\ p \in Compactions(log, o)
      BY <1>2, <1>4, <1>5, AlikeSummaries
    <3>2. x + loop.keep <= n
      BY <2>1, <3>1 DEF MayKeep
    <3>3. x \in Nat
      BY <1>4, <3>1, CompactionSize DEF Lossless
    <3> QED BY <1>4, <2>1, <3>2, <3>3
  <2> QED BY <1>5, <2>1, <2>2, <2>3 DEF MayKeep
<1>9. CASE loop.marker = 0
  BY <1>2, <1>3, <1>7, <1>8, <1>9 DEF Lossless, Compacting
<1>10. CASE loop.marker # 0
  <2>1. loop.marker \in 1 .. n /\ loop.marker < n + 1
    BY <1>4, <1>10 DEF Stepped, Inv, Local, Located, Typed, n
  <2>2. Asking(log'[loop.marker])
    BY <1>2, <1>10, <2>1, AskingKept
  <2>3. loop.pc # "before"
    BY <1>10 DEF Stepped, Inv, Local, Located
  <2>4. loop.pc = "commit" /\ loop.todo # <<>> =>
           /\ loop.todo = <<CompactionPart(loop.cut, loop.covers)>>
           /\ HasText(log'[loop.cur]) /\ CallIds(log'[loop.cur]) = {}
    <3> SUFFICES ASSUME loop.pc = "commit", loop.todo # <<>>
                 PROVE  /\ loop.todo = <<CompactionPart(loop.cut, loop.covers)>>
                        /\ HasText(log'[loop.cur]) /\ CallIds(log'[loop.cur]) = {}
      OBVIOUS
    <3>1. loop.cur \in 1 .. n
      BY <1>4 DEF Stepped, Inv, Local, Located, Typed, n
    <3> QED BY <1>5, <1>10, <3>1 DEF Lossless, Compacting
  <2>5. loop.pc = "mark" =>
           loop.cur = loop.marker /\ \A p \in Range(loop.todo) : p.kind = "request"
    BY <1>10 DEF Lossless, Compacting
  <2>6. loop.marker <= n + 1
    BY <1>4, <2>1
  <2>7. Compacting'
    BY <1>2, <1>3, <1>10, <2>2, <2>3, <2>4, <2>5, <2>6, CompactionGoesOn
  <2> QED BY <1>2, <1>7, <2>7 DEF Lossless
<1> QED BY <1>9, <1>10

-------------------------------------------------------------------------------
(* The steps of a turn.                                                    *)

\* A loop that ends loses nothing.
LEMMA EndLossless ==
    ASSUME Stepped, Lossless, log' = log, Return
    PROVE  Lossless'
BY ReturnLossless DEF Lossless

\* The loop moves on, and the transcript stays as it is or grows.
LEMMA MoveLossless ==
    ASSUME Stepped, Lossless, log' = log \/ Grown,
           loop'.pc \notin {"before", "stream", "tail"}, loop'.marker = 0, loop'.todo = <<>>
    PROVE  Lossless'
BY GrownFaithfully, RestKeeps DEF Lossless

\* max_steps is reached.
LEMMA StepsUsedUpLossless ==
    ASSUME Stepped, Lossless, StepsUsedUp
    PROVE  Lossless'
BY EndLossless DEF StepsUsedUp

\* The store fails, or the process dies.
LEMMA FaultLossless ==
    ASSUME Stepped, Lossless, Fault
    PROVE  Lossless'
BY EndLossless DEF Fault, Abandon

\* prepare_session_messages at the top.
LEMMA PrepareLossless ==
    ASSUME Stepped, Lossless, Prepare
    PROVE  Lossless'
<1>1. /\ loop.pc = "top" /\ loop.todo = <<>> /\ log' = WithReminders(log)
      /\ loop' = [loop EXCEPT !.pc = "check", !.seen = Len(log')]
  BY DEF Prepare, At, Stored
<1>2. log' = log \/ Grown
  BY <1>1, RemindersStep DEF Stepped, Inv
<1>3. loop.marker = 0
  BY <1>1 DEF Stepped, Inv, Local, Located
<1>4. loop'.pc = "check" /\ loop'.marker = 0 /\ loop'.todo = <<>>
  BY <1>1, <1>3, Fields DEF LoopSet
<1> QED BY <1>2, <1>4, MoveLossless

\* should_compact says Run.
LEMMA WindowFullLossless ==
    ASSUME Stepped, Lossless, WindowFull
    PROVE  Lossless'
<1> DEFINE keep == Keep(View)
<1>1. /\ loop.pc = "check" /\ log' = log
      /\ loop' = [loop EXCEPT !.pc = "before", !.compacted = TRUE, !.keep = keep]
  BY DEF WindowFull, At
<1>2. MayKeep(log, keep)
  BY <1>1, WindowKeeps DEF Stepped, Lossless
<1>3. loop.marker = 0 /\ loop.todo = <<>>
  BY <1>1, StoredAt DEF Stepped, Inv, Local, Located
<1> HIDE DEF keep
<1>4. loop'.pc = "before" /\ loop'.keep = keep /\ loop'.marker = 0 /\ loop'.todo = <<>>
  BY <1>1, <1>3, Fields DEF LoopSet
<1> QED BY <1>1, <1>2, <1>4 DEF Lossless, Ahead, Compacting

\* should_compact says Skip.
LEMMA ProceedLossless ==
    ASSUME Stepped, Lossless, Proceed
    PROVE  Lossless'
<1>1. loop.pc = "check" /\ log' = log
  BY DEF Proceed, At
<1>2. loop.marker = 0 /\ loop.todo = <<>>
  BY <1>1, StoredAt DEF Stepped, Inv, Local, Located
<1>3. CASE Return
  BY <1>1, <1>3, EndLossless
<1>4. CASE GoTo("create")
  <2>1. loop'.pc = "create" /\ loop'.marker = 0 /\ loop'.todo = <<>>
    BY <1>2, <1>4, Fields DEF LoopSet, GoTo
  <2> QED BY <1>1, <2>1, MoveLossless
<1> QED BY <1>3, <1>4 DEF Proceed

\* create_assistant_message.
LEMMA CreateLossless ==
    ASSUME Stepped, Lossless, Create
    PROVE  Lossless'
<1> DEFINE c == Len(log) + 1
<1>1. /\ loop.pc = "create" /\ log' = Append(log, Message("assistant", <<>>))
      /\ loop' = [loop EXCEPT !.pc = "stream", !.cur = c]
  BY DEF Create, At
<1>2. Faithfully(log') /\ Alike(log, log', c)
  BY <1>1, EmptyMessage, GrownFaithfully DEF Grown, Lossless
<1>3. c \in Nat
  BY Fields
<1>4. /\ loop'.pc = "stream" /\ loop'.cur = c /\ loop'.marker = loop.marker
      /\ loop'.cut = loop.cut /\ loop'.covers = loop.covers
  BY <1>1, <1>3, Fields DEF LoopSet
<1>5. Ahead'
  BY <1>2, <1>4, BeginAhead
<1>6. CASE loop.marker = 0
  BY <1>2, <1>4, <1>5, <1>6 DEF Lossless, Compacting
<1>7. CASE loop.marker # 0
  <2>1. loop.marker < c /\ loop.marker <= c
    BY <1>7, Fields DEF Stepped, Inv, Local, Located
  <2>2. Asking(log'[loop.marker])
    BY <1>2, <1>7, <2>1, AskingKept
  <2>3. Compacting'
    BY <1>1, <1>2, <1>4, <1>7, <2>1, <2>2, CompactionGoesOn
  <2> QED BY <1>2, <1>5, <2>3 DEF Lossless
<1> QED BY <1>6, <1>7

\* The message that is being written follows the request of a compaction, if there is one.
LEMMA WritingAfter ==
    ASSUME Stepped, loop.marker # 0, loop.pc \in {"stream", "tail", "commit"}
    PROVE  loop.marker < loop.cur /\ loop.marker <= loop.cur /\ loop.cur \in 1 .. Len(log)
<1>1. loop.cur \in DOMAIN log /\ loop.marker < loop.cur
  BY DEF Stepped, Inv, Local, Located
<1> QED BY <1>1, Fields, LoopFields

\* The shell of the text.
LEMMA TextDeltaLossless ==
    ASSUME Stepped, Lossless, TextDelta
    PROVE  Lossless'
<1>0. PICK t \in PartSet : t = TextPart(FALSE) /\ t.kind = "text"
  BY MadeParts DEF TextPart
<1>1. loop.pc = "stream" /\ loop' = loop
  BY DEF TextDelta, Streaming
<1>2. loop.cur \in 1 .. Len(log) /\ <<t>> \in Seq(PartSet) /\ log' = Rewrite(log, loop.cur, <<t>>)
  <2>1. /\ loop.cur \in 1 .. Len(log) /\ <<TextPart(FALSE)>> \in Seq(PartSet)
        /\ log' = Rewrite(log, loop.cur, <<TextPart(FALSE)>>)
    BY ShellStep DEF Stepped, Inv, Local
  <2> QED BY <1>0, <2>1, Zenon
<1>3. PICK c \in 1 .. Len(log), parts \in Seq(PartSet) :
         c = loop.cur /\ parts = <<t>> /\ log' = Rewrite(log, c, parts)
  BY <1>2
<1>4. Range(parts) = {t}
  BY <1>3 DEF Range
<1>5. Alike(log, log', c)
  <2>1. \A p \in Range(parts) : p.kind # "compaction"
    BY <1>0, <1>4
  <2>2. Ahead /\ loop.pc \in {"stream", "tail"}
    BY <1>1 DEF Lossless
  <2> QED BY <1>3, <2>1, <2>2, RewriteAlike
<1>6. Faithfully(log')
  BY <1>5, Fields, FaithfullyKept DEF Lossless
<1>7. Ahead'
  BY <1>1, <1>3, <1>5 DEF Alike, Ahead
<1>8. CASE loop.marker = 0
  BY <1>1, <1>6, <1>7, <1>8 DEF Lossless, Compacting
<1>9. CASE loop.marker # 0
  <2>1. loop.marker < c /\ loop.marker <= c
    BY <1>1, <1>3, <1>9, WritingAfter
  <2>2. Asking(log'[loop.marker])
    BY <1>5, <1>9, <2>1, AskingKept
  <2>3. Compacting'
    BY <1>1, <1>5, <1>9, <2>1, <2>2, CompactionGoesOn
  <2> QED BY <1>6, <1>7, <2>3 DEF Lossless
<1> QED BY <1>8, <1>9

\* A compaction goes on, and the transcript is as it was.
LEMMA SameGoesOn ==
    ASSUME Stepped, Lossless, log' = log, loop.marker # 0,
           loop.pc \notin {"mark", "commit"}, loop'.pc \notin {"before", "mark"},
           loop'.marker = loop.marker, loop'.cut = loop.cut, loop'.covers = loop.covers,
           loop'.pc = "commit" /\ loop'.todo # <<>> =>
              /\ loop'.todo = <<CompactionPart(loop'.cut, loop'.covers)>>
              /\ HasText(log'[loop'.cur]) /\ CallIds(log'[loop'.cur]) = {}
    PROVE  Compacting'
BY DEF Lossless, Compacting

\* Finish: what is to be written.
LEMMA FinishLossless ==
    ASSUME Stepped, Lossless, Finish
    PROVE  Lossless'
<1>1. loop.pc = "stream" /\ log' = log
  BY SMTT(40) DEF Finish, Streaming
<1>2. PICK todo : loop' = [loop EXCEPT !.pc = "tail", !.todo = todo]
  BY DEF Finish
<1>3. /\ loop'.pc = "tail" /\ loop'.cur = loop.cur /\ loop'.marker = loop.marker
      /\ loop'.cut = loop.cut /\ loop'.covers = loop.covers
  BY <1>2, Fields DEF LoopSet
<1>4. Ahead'
  BY <1>1, <1>3 DEF Lossless, Ahead
<1>5. CASE loop.marker = 0
  BY <1>1, <1>3, <1>4, <1>5 DEF Lossless, Compacting
<1>6. CASE loop.marker # 0
  BY <1>1, <1>3, <1>4, <1>6, SameGoesOn DEF Lossless
<1> QED BY <1>5, <1>6

\* The turn fails: so does a compaction.
LEMMA TurnFailsLossless ==
    ASSUME Stepped, Lossless, TurnFails
    PROVE  Lossless'
<1>1. loop.pc \in {"stream", "tail"} /\ log' = log
  BY DEF TurnFails
<1>2. CASE loop.marker = 0
  BY <1>1, <1>2, EndLossless DEF TurnFails, Abandon
<1>3. CASE loop.marker # 0
  <2>1. loop' = [loop EXCEPT !.pc = "reject", !.todo = <<>>]
    BY <1>3 DEF TurnFails
  <2>2. /\ loop'.pc = "reject" /\ loop'.todo = <<>> /\ loop'.marker = loop.marker
        /\ loop'.cut = loop.cut /\ loop'.covers = loop.covers
    BY <2>1, Fields DEF LoopSet
  <2>3. Ahead'
    BY <2>2 DEF Ahead
  <2> QED BY <1>1, <1>3, <2>2, <2>3, SameGoesOn DEF Lossless
<1> QED BY <1>2, <1>3

\* A step is done, with calls or without.
LEMMA StepDoneLossless ==
    ASSUME Stepped, Lossless, StepDone
    PROVE  Lossless'
<1>1. loop.todo = <<>> /\ loop.marker = 0 /\ log' = log
  BY DEF StepDone, Streaming, Stored
<1>2. CASE Return
  BY <1>1, <1>2, EndLossless
<1>3. CASE loop' = [loop EXCEPT !.pc = "tools", !.steps = @ + 1, !.compacted = FALSE]
  <2>1. loop'.pc = "tools" /\ loop'.todo = <<>> /\ loop'.marker = 0
    BY <1>1, <1>3, Fields DEF LoopSet
  <2> QED BY <1>1, <2>1, MoveLossless
<1> QED BY <1>2, <1>3 DEF StepDone, Abandon

\* The tools have run, or the doom guard ends the loop.
LEMMA RunToolsLossless ==
    ASSUME Stepped, Lossless, RunTools
    PROVE  Lossless'
<1> DEFINE new == Len(log) + 1
<1>0. loop.pc = "tools" /\ loop.marker = 0
  BY DEF RunTools, At, Stepped, Inv, Local, Located
<1>1. PICK past, rs :
         \/ Abandon /\ log' = log
         \/ /\ log' = Append(log, Message("tool", <<>>))
            /\ loop' = [loop EXCEPT !.pc = "top", !.history = past, !.cur = new, !.todo = rs]
  BY DEF RunTools
<1>2. CASE Abandon /\ log' = log
  BY <1>2, EndLossless DEF Abandon
<1>3. CASE /\ log' = Append(log, Message("tool", <<>>))
           /\ loop' = [loop EXCEPT !.pc = "top", !.history = past, !.cur = new, !.todo = rs]
  <2>1. Faithfully(log') /\ Alike(log, log', new)
    BY <1>3, EmptyMessage, GrownFaithfully DEF Grown, Lossless
  <2>2. new \in Nat
    BY Fields
  <2>3. loop'.pc = "top" /\ loop'.cur = new /\ loop'.marker = 0
    BY <1>0, <1>3, <2>2, Fields DEF LoopSet
  <2>4. Ahead'
    BY <2>1, <2>3, BeginAhead
  <2> QED BY <2>1, <2>3, <2>4 DEF Lossless, Compacting
<1> QED BY <1>1, <1>2, <1>3

-------------------------------------------------------------------------------
(* The steps of a compaction.                                              *)

\* The Before hook stops it.
LEMMA BeforeHookStopsLossless ==
    ASSUME Stepped, Lossless, BeforeHookStops
    PROVE  Lossless'
<1>1. loop.pc = "before" /\ log' = log
  BY DEF BeforeHookStops, At
<1>2. loop.marker = 0 /\ loop.todo = <<>>
  BY <1>1, StoredAt DEF Stepped, Inv, Local, Located
<1>3. CASE Return
  BY <1>1, <1>3, EndLossless
<1>4. CASE GoTo("top")
  <2>1. loop'.pc = "top" /\ loop'.marker = 0 /\ loop'.todo = <<>>
    BY <1>2, <1>4, Fields DEF LoopSet, GoTo
  <2> QED BY <1>1, <2>1, MoveLossless
<1> QED BY <1>3, <1>4 DEF BeforeHookStops, GoOn

\* append_synthetic_request, with what is superseded.
LEMMA RequestLossless ==
    ASSUME Stepped, Lossless, Request
    PROVE  Lossless'
<1> DEFINE c == Len(log) + 1
           cut == Superseded(log, loop.keep)
<1>0. PICK p \in PartSet : p = RequestPart("pending") /\ p.kind = "request"
  BY MadeParts DEF RequestPart
<1>1. /\ loop.pc = "before" /\ log' = Append(log, Message("user", <<>>))
      /\ loop' = [loop EXCEPT !.pc = "mark", !.cut = cut, !.cur = c, !.marker = c, !.todo = <<p>>]
  BY <1>0 DEF Request, At
<1>2. Faithfully(log') /\ Alike(log, log', c)
  BY <1>1, EmptyMessage, GrownFaithfully DEF Grown, Lossless
<1>3. c \in Nat /\ c \in 1 .. c /\ log \in Seq(MessageSet) /\ log' \in Seq(MessageSet) /\ loop.keep \in Nat
  BY Fields, LoopFields
<1>4. MayCut(log, cut, c)
  BY <1>1, <1>3, SupersededCut DEF Lossless, Compacting
<1>5. MayCut(log', cut, c)
  <2> HIDE DEF c, cut
  <2> QED BY <1>2, <1>3, <1>4, MayCutKept
<1>6. Asking(log'[c])
  <2>1. log'[c] = Message("user", <<>>)
    BY <1>1, <1>3, EmptyMessage, AppendLog
  <2>2. Range(<<>>) = {}
    BY DEF Range
  <2> QED BY <2>1, <2>2 DEF Asking, Message
<1> HIDE DEF cut
<1>7. /\ loop'.pc = "mark" /\ loop'.todo = <<p>> /\ loop'.cur = c /\ loop'.marker = c
      /\ loop'.cut = cut
  BY <1>1, <1>3, Fields DEF LoopSet
<1>8. Range(<<p>>) = {p}
  BY DEF Range
<1>9. Ahead'
  BY <1>2, <1>7, BeginAhead
<1> HIDE DEF c
<1> QED BY <1>0, <1>2, <1>5, <1>6, <1>7, <1>8, <1>9 DEF Lossless, Compacting

\* build_compaction_projection: the summarizer is shown all that was said, or the summary
\* that stands for it.
LEMMA SummarizedAll ==
    ASSUME NEW l \in Seq(MessageSet), Sound(l), Faithfully(l), NEW i \in 1 .. Len(l), Says(l[i])
    PROVE  i \in Summarized(l)
<1> PICK yes \in BOOLEAN : yes = TRUE
  OBVIOUS
<1> DEFINE view    == Project(l, yes)
           systems == {k \in DOMAIN view : view[k].role = "system"}
           covered == {p.covers : p \in Parts(l[Owner(l, Min(systems))], "compaction")}
<1>1. Summarized(l) = {k \in DOMAIN view : view[k].role \in Body}
                        \cup (IF systems = {} THEN {} ELSE UNION covered)
  BY Zenon DEF Summarized
<1>2. DOMAIN view = 1 .. Len(l) /\ Became(l, i, view[i])
  BY RolesProjected, SystemLine
<1>3. CASE Owner(l, i) = 0
  <2> HIDE DEF view, covered
  <2>1. view[i].role = l[i].role /\ l[i].role \in {"user", "assistant", "tool"}
    BY <1>2, <1>3, MessageParts DEF Became
  <2> QED BY <1>1, <1>2, <2>1 DEF Body
<1>4. CASE Owner(l, i) # 0
  <2>0. \A k \in 1 .. Len(l) : Owner(l, k) # 0 =>
           /\ systems # {} /\ systems \subseteq Nat
           /\ Min(systems) \in systems
           /\ Owner(l, Min(systems)) = Owner(l, k)
    BY SystemLine
  <2>1. systems # {} /\ Owner(l, Min(systems)) = Owner(l, i)
    <3> HIDE DEF systems
    <3> QED BY <1>4, <2>0
  <2>2. Owner(l, i) \in 1 .. Len(l)
    BY <1>4, OwnerPlace
  <2>3. PICK p \in Compactions(l, Owner(l, i)) : i \in p.of
    BY <1>4, OwnerPlace DEF Compactions
  <2>4. i \in p.covers
    BY <2>2, <2>3 DEF Faithfully, Faithful
  <2>5. p \in Parts(l[Owner(l, Min(systems))], "compaction")
    BY <2>1, <2>3 DEF Compactions
  <2> HIDE DEF systems
  <2>6. i \in UNION covered
    BY <2>4, <2>5
  <2> HIDE DEF covered
  <2> QED BY <1>1, <2>1, <2>6
<1> QED BY <1>3, <1>4

\* The summarizer is asked.
LEMMA AskLossless ==
    ASSUME Stepped, Lossless, Ask
    PROVE  Lossless'
<1> DEFINE covers == Summarized(log')
           c == Len(log) + 1
<1>1. /\ loop.pc = "mark" /\ loop.todo = <<>> /\ log' = WithReminders(log)
      /\ loop' = [loop EXCEPT !.pc = "create", !.seen = Len(log'), !.covers = covers]
  BY DEF Ask, At, Stored
<1>2. Faithfully(log') /\ Alike(log, log', c)
  BY <1>1, RemindersStep, GrownFaithfully DEF Stepped, Inv, Lossless
<1>3. \A i \in 1 .. Len(log') : Says(log'[i]) => i \in covers
  BY <1>2, Fields, SummarizedAll DEF Stepped
<1> HIDE DEF covers
<1>4. /\ loop'.pc = "create" /\ loop'.todo = <<>> /\ loop'.marker = loop.marker
      /\ loop'.cut = loop.cut /\ loop'.covers = covers
  BY <1>1, Fields DEF LoopSet
<1>5. /\ loop.marker # 0 /\ loop.marker \in 1 .. Len(log) /\ loop.marker \in 1 .. c /\ loop.marker < c
      /\ c \in Nat /\ c \in 1 .. Len(log') + 1 /\ Len(log') \in Nat
  BY <1>1, <1>2, Fields DEF Stepped, Inv, Local, Located, Alike
<1>6. Asking(log'[loop.marker])
  BY <1>2, <1>5, AskingKept
<1> HIDE DEF c
<1>7. MayCut(log', loop.cut, loop.marker) /\ loop.cut \subseteq 1 .. loop.marker - 1
  BY <1>2, <1>5, Fields, MayCutKept DEF Lossless, Compacting
<1>8. \A i \in loop.cut : i \in 1 .. Len(log')
  BY <1>5, <1>7
<1>9. Ahead'
  BY <1>4 DEF Ahead
<1> QED BY <1>2, <1>3, <1>4, <1>5, <1>6, <1>7, <1>8, <1>9 DEF Lossless, Compacting

\* The summary is there, or is none.
LEMMA SummaryDoneLossless ==
    ASSUME Stepped, Lossless, SummaryDone
    PROVE  Lossless'
<1>1. loop.pc \in {"stream", "tail"} /\ loop.todo = <<>> /\ loop.marker # 0 /\ log' = log
  BY DEF SummaryDone, Streaming, Stored
<1>2. PICK p : p = CompactionPart(loop.cut, loop.covers)
  OBVIOUS
<1>3. \/ HasText(log[loop.cur]) /\ loop' = [loop EXCEPT !.pc = "commit", !.todo = <<p>>]
      \/ loop' = [loop EXCEPT !.pc = "reject"]
  BY <1>2 DEF SummaryDone
<1>4. /\ \/ HasText(log[loop.cur]) /\ loop'.pc = "commit" /\ loop'.todo = <<p>>
         \/ loop'.pc = "reject" /\ loop'.todo = <<>>
      /\ loop'.cur = loop.cur /\ loop'.marker = loop.marker
      /\ loop'.cut = loop.cut /\ loop'.covers = loop.covers
  BY <1>1, <1>3, Fields DEF LoopSet
<1>5. CallIds(log[loop.cur]) = {}
  BY <1>1 DEF Stepped, Inv, Local, Located
<1>6. Ahead'
  BY <1>1, <1>4 DEF Lossless, Ahead
<1>7. Compacting'
  BY <1>1, <1>2, <1>4, <1>5, SameGoesOn
<1> QED BY <1>1, <1>6, <1>7 DEF Lossless

\* The request is marked.
LEMMA CommitLossless ==
    ASSUME Stepped, Lossless, Commit
    PROVE  Lossless'
<1>1. /\ loop.pc = "commit" /\ loop.todo = <<>> /\ Mark("committed")
      /\ loop' = [loop EXCEPT !.pc = "after"]
  BY DEF Commit, At, Stored, GoTo
<1>2. loop.marker # 0 /\ Asking(log[loop.marker]) /\ loop.marker <= Len(log) + 1
  BY <1>1, Fields DEF Stepped, Inv, Local, Located, Lossless, Compacting
<1>3. Alike(log, log', Len(log) + 1) /\ Asking(log'[loop.marker])
  BY <1>1, <1>2, MarkAlike
<1>4. Faithfully(log')
  BY <1>3, Fields, FaithfullyKept DEF Lossless
<1>5. /\ loop'.pc = "after" /\ loop'.todo = <<>> /\ loop'.marker = loop.marker
      /\ loop'.cut = loop.cut /\ loop'.covers = loop.covers
  BY <1>1, Fields DEF LoopSet
<1>6. Ahead'
  BY <1>5 DEF Ahead
<1>7. Compacting'
  BY <1>1, <1>2, <1>3, <1>5, CompactionGoesOn
<1> QED BY <1>4, <1>6, <1>7 DEF Lossless

\* The compaction has failed.
LEMMA RejectLossless ==
    ASSUME Stepped, Lossless, Reject
    PROVE  Lossless'
<1>1. loop.pc = "reject" /\ Mark("failed") /\ Return
  BY DEF Reject, At
<1>2. loop.marker # 0 /\ Asking(log[loop.marker])
  BY <1>1 DEF Stepped, Inv, Local, Located, Lossless, Compacting
<1>3. Faithfully(log')
  BY <1>1, <1>2, MarkAlike, Fields, FaithfullyKept DEF Lossless
<1> QED BY <1>1, <1>3, ReturnLossless

\* The loop goes on after a compaction, or does not.
LEMMA AfterCompactionLossless ==
    ASSUME Stepped, Lossless, AfterCompaction
    PROVE  Lossless'
<1>1. log' = log \/ Grown
  BY RemindersStep DEF AfterCompaction, Stepped, Inv
<1>2. CASE Return
  BY <1>1, <1>2, GrownFaithfully, ReturnLossless DEF Lossless
<1>3. CASE loop' = [NoLoop EXCEPT !.pc = "top", !.steps = loop.steps,
                                  !.compacted = loop.compacted, !.history = loop.history]
  <2>1. loop'.pc = "top" /\ loop'.todo = <<>> /\ loop'.marker = 0
    BY <1>3 DEF NoLoop
  <2> QED BY <1>1, <2>1, MoveLossless
<1> QED BY <1>2, <1>3 DEF AfterCompaction

-------------------------------------------------------------------------------
(* The writes of parts.                                                    *)

\* One part is written.
LEMMA WriteStep ==
    ASSUME Stepped, Write
    PROVE  \E c \in 1 .. Len(log), p \in Range(loop.todo), parts \in Seq(PartSet) :
              /\ c = loop.cur /\ p = Head(loop.todo) /\ log' = Rewrite(log, c, parts)
              /\ Range(parts) \subseteq Range(log[c].parts) \cup {p}
              /\ p.kind # "text" => Range(parts) = Range(log[c].parts) \cup {p}
<1> DEFINE c == loop.cur
           m == log[c]
           p == Head(loop.todo)
           parts == Put(m.parts, p)
<1>1. loop.todo # <<>> /\ loop.todo \in Seq(PartSet)
  BY Fields, LoopFields DEF Write
<1>2. p \in PartSet /\ p \in Range(loop.todo)
  BY <1>1, TodoFacts
<1>3. c \in 1 .. Len(log) /\ m \in MessageSet /\ log' = Rewrite(log, c, parts) /\ parts \in Seq(PartSet)
  BY WriteFits DEF Stepped, Inv, Local
<1>4. p.kind = "text" => Blank(m)
  BY <1>1, <1>2 DEF Stepped, Inv, Local, Pending
<1>5. TextFirst(m.parts)
  BY <1>3, Fields DEF Stepped, Inv, Sound
<1> HIDE DEF p
<1>6. /\ Range(parts) \subseteq Range(m.parts) \cup {p}
      /\ p.kind # "text" => Range(parts) = Range(m.parts) \cup {p}
  BY <1>2, <1>3, <1>4, <1>5, PutFacts
<1> HIDE DEF parts
<1> QED BY <1>2, <1>3, <1>6 DEF p

\* Any part but a summary: the message stays after all summaries.
LEMMA PartLossless ==
    ASSUME Stepped, Lossless, Write, loop.pc # "commit"
    PROVE  Lossless'
<1>1. PICK c \in 1 .. Len(log), p \in Range(loop.todo), parts \in Seq(PartSet) :
         /\ c = loop.cur /\ p = Head(loop.todo) /\ log' = Rewrite(log, c, parts)
         /\ Range(parts) \subseteq Range(log[c].parts) \cup {p}
  BY WriteStep
<1>2. loop.todo # <<>> /\ loop' = [loop EXCEPT !.todo = Tail(loop.todo)]
  BY DEF Write
<1>3. /\ loop'.pc = loop.pc /\ loop'.cur = loop.cur /\ loop'.marker = loop.marker
      /\ loop'.cut = loop.cut /\ loop'.covers = loop.covers /\ loop'.todo = Tail(loop.todo)
  BY <1>2, Fields DEF LoopSet
<1>4. /\ loop.pc \in {"top", "tail", "mark"}
      /\ loop.pc \in {"top", "mark"} => log[c].role # "assistant"
      /\ FitsRole(log[c].role, p.kind)
      /\ loop.pc = "tail" => p.kind # "compaction"
  BY <1>1, <1>2 DEF Stepped, Inv, Local, Pending, Suits
<1>5. p.kind # "compaction"
  BY <1>4 DEF FitsRole
<1>6. Compactions(log, c) = {}
  <2>1. ~(c < c)
    OBVIOUS
  <2> QED BY <1>1, <1>2, <2>1 DEF Lossless, Ahead
<1>7. \A q \in Range(parts) : q.kind # "compaction"
  BY <1>1, <1>5, <1>6 DEF Compactions, Parts
<1>8. Alike(log, log', c)
  BY <1>1, <1>2, <1>7, RewriteAlike DEF Lossless
<1>9. Faithfully(log')
  BY <1>8, Fields, FaithfullyKept DEF Lossless
<1>10. Ahead'
  BY <1>1, <1>3, <1>8 DEF Alike, Ahead
<1>11. CASE loop.marker = 0
  <2>1. loop'.pc # "before"
    BY <1>3, <1>4
  <2> QED BY <1>3, <1>9, <1>10, <1>11, <2>1 DEF Lossless, Compacting
<1>12. CASE loop.marker # 0 /\ loop.pc = "tail"
  <2>1. loop.marker < c /\ loop.marker <= c
    BY <1>1, <1>12, WritingAfter
  <2>2. Asking(log'[loop.marker])
    BY <1>8, <1>12, <2>1, AskingKept
  <2>3. Compacting'
    BY <1>3, <1>8, <1>12, <2>1, <2>2, CompactionGoesOn
  <2> QED BY <1>9, <1>10, <2>3 DEF Lossless
<1>13. CASE loop.marker # 0 /\ loop.pc = "mark"
  <2>1. c = loop.marker /\ loop.marker <= c /\ Asking(log[c]) /\ \A q \in Range(loop.todo) : q.kind = "request"
    BY <1>1, <1>13 DEF Lossless, Compacting
  <2>2. log'[c].role = log[c].role /\ log'[c].parts = parts
    BY <1>1, Fields, RewriteLog, ZenonT(60)
  <2>3. Asking(log'[loop.marker])
    BY <1>1, <2>1, <2>2 DEF Asking
  <2>4. \A q \in Range(loop'.todo) : q.kind = "request"
    BY <1>2, <1>3, <2>1, Fields, LoopFields, TodoFacts
  <2>5. Compacting'
    BY <1>1, <1>3, <1>8, <1>13, <2>1, <2>3, <2>4, CompactionGoesOn
  <2> QED BY <1>9, <1>10, <2>5 DEF Lossless
<1>14. loop.marker # 0 => loop.pc # "top"
  BY DEF Stepped, Inv, Local, Located
<1> QED BY <1>4, <1>11, <1>12, <1>13, <1>14

\* What a compaction supersedes depends on the messages before its request alone.
LEMMA SameCut ==
    ASSUME NEW l, NEW new, NEW mk \in Nat, \A t \in 1 .. mk - 1 : new[t] = l[t], NEW S, CutAt(l, S, mk)
    PROVE  CutAt(new, S, mk) /\ S \subseteq 1 .. mk - 1
<1>1. PICK a \in 0 .. mk - 1 :
         /\ S = 1 .. a
         /\ (a > 0 /\ \E t \in a + 1 .. mk - 1 : ResultIds(l[t]) # {})
               => mk - 1 - a >= 2 \/ mk - 1 - a >= PreserveRecent
  BY DEF CutAt
<1>2. \A t \in a + 1 .. mk - 1 : new[t] = l[t]
  BY <1>1
<1>3. CutAt(new, S, mk)
  BY <1>1, <1>2 DEF CutAt
<1> QED BY <1>1, <1>3

\* append_compaction_part: the new summary has what it stands for, and all that the
\* summaries before it do.
LEMMA SummaryLossless ==
    ASSUME Stepped, Lossless, Write, loop.pc = "commit"
    PROVE  Lossless'
<1> DEFINE mk == loop.marker
           cut == loop.cut
<1>1. loop.todo # <<>> /\ loop' = [loop EXCEPT !.todo = Tail(loop.todo)]
  BY DEF Write
<1>2. mk # 0 /\ mk \in Nat
  BY Fields, LoopFields DEF Stepped, Inv, Local, Located
<1>3. PICK c \in 1 .. Len(log), p \in Range(loop.todo), parts \in Seq(PartSet) :
         /\ c = loop.cur /\ p = Head(loop.todo) /\ log' = Rewrite(log, c, parts)
         /\ p.kind # "text" => Range(parts) = Range(log[c].parts) \cup {p}
  BY WriteStep
<1>4. /\ Asking(log[mk]) /\ MayCut(log, cut, mk)
      /\ \A i \in cut : Says(log[i]) => i \in loop.covers
      /\ loop.todo = <<CompactionPart(cut, loop.covers)>>
      /\ HasText(log[c]) /\ CallIds(log[c]) = {}
  BY <1>1, <1>2, <1>3 DEF Lossless, Compacting
<1>5. /\ p = CompactionPart(cut, loop.covers) /\ Tail(loop.todo) = <<>>
      /\ p.kind = "compaction" /\ p.of = cut /\ p.covers = loop.covers
  <2>1. Head(loop.todo) = CompactionPart(cut, loop.covers) /\ Tail(loop.todo) = <<>>
    BY <1>4
  <2> QED BY <1>3, <2>1 DEF CompactionPart
<1>6. /\ loop'.pc = "commit" /\ loop'.marker = mk /\ loop'.cut = cut
      /\ loop'.covers = loop.covers /\ loop'.todo = <<>>
  BY <1>1, <1>5, Fields DEF LoopSet
<1>7. mk < c /\ c \in Nat /\ Len(log) \in Nat
  BY <1>2, <1>3, WritingAfter, Fields
<1>8. /\ Len(log') = Len(log)
      /\ \A i \in 1 .. Len(log) : i # c => log'[i] = log[i]
      /\ log'[c].parts = parts
  BY <1>3, Fields, RewriteLog, ZenonT(60)
<1>9. Range(parts) = Range(log[c].parts) \cup {p}
  BY <1>3, <1>5
<1> HIDE DEF mk, cut
<1>10. Compactions(log, c) = {} /\ \A o \in 1 .. Len(log) : Compactions(log, o) # {} => o < c
  <2>1. ~(c < c)
    BY <1>7
  <2> QED BY <1>1, <1>3, <2>1 DEF Lossless, Ahead
<1>11. Compactions(log', c) = {p}
  BY <1>5, <1>8, <1>9, <1>10 DEF Compactions, Parts
<1>12. HasText(log'[c]) /\ CallIds(log'[c]) = {}
  <2>1. Parts(log'[c], "text") = Parts(log[c], "text") /\ Parts(log'[c], "call") = Parts(log[c], "call")
    BY <1>5, <1>8, <1>9 DEF Parts
  <2> QED BY <1>4, <2>1 DEF HasText, CallIds
<1>13. \A i \in 1 .. c - 1 : log'[i] = log[i] /\ i \in 1 .. Len(log)
  BY <1>7, <1>8
<1>14. CutAt(log', cut, mk) /\ cut \subseteq 1 .. mk - 1
  <2>1. \A t \in 1 .. mk - 1 : log'[t] = log[t]
    BY <1>2, <1>7, <1>13
  <2> QED BY <1>2, <1>4, <2>1, SameCut DEF MayCut
<1>15. ASSUME NEW o \in 1 .. Len(log'), NEW q \in Compactions(log', o)
       PROVE  (o = c /\ q = p) \/ (o < c /\ o \in 1 .. Len(log) /\ q \in Compactions(log, o))
  <2>1. CASE o = c
    BY <1>11, <2>1
  <2>2. CASE o # c
    <3>1. o \in 1 .. Len(log) /\ log'[o] = log[o]
      BY <1>8, <2>2
    <3>2. q \in Compactions(log, o)
      BY <3>1 DEF Compactions
    <3> QED BY <1>10, <3>1, <3>2
  <2> QED BY <2>1, <2>2
<1>16. Faithful(log', c, p)
  <2>1. mk \in 1 .. c - 1
    BY <1>2, <1>7
  <2>2. \A i \in cut : i \in 1 .. c - 1
    BY <1>2, <1>7, <1>14
  <2>3. \A i \in cut : Says(log'[i]) => i \in p.covers
    BY <1>4, <1>5, <1>13, <2>2
  <2>4. Asking(log'[mk])
    BY <1>4, <1>13, <2>1
  <2> QED BY <1>5, <1>12, <1>14, <2>1, <2>3, <2>4 DEF Faithful
<1>17. ASSUME NEW o \in 1 .. Len(log), o < c, NEW q \in Compactions(log, o)
       PROVE  Faithful(log', o, q) /\ q.of \subseteq cut
  <2>1. Faithful(log, o, q)
    BY DEF Lossless, Faithfully
  <2>2. PICK k \in 1 .. o - 1 : Asking(log[k]) /\ CutAt(log, q.of, k)
    BY <2>1 DEF Faithful
  <2>3. k \in Nat /\ k \in 1 .. c - 1 /\ o \in 1 .. c - 1 /\ \A t \in 1 .. k - 1 : t \in 1 .. c - 1
    BY <1>7, <1>17
  <2>4. CutAt(log', q.of, k) /\ q.of \subseteq 1 .. k - 1
    BY <1>13, <2>2, <2>3, SameCut
  <2>5. \A i \in q.of : Says(log'[i]) => i \in q.covers
    BY <1>13, <2>1, <2>3, <2>4 DEF Faithful
  <2>6. HasText(log'[o]) /\ CallIds(log'[o]) = {} /\ Asking(log'[k])
    BY <1>13, <2>1, <2>2, <2>3 DEF Faithful
  <2>7. Faithful(log', o, q)
    BY <2>2, <2>4, <2>5, <2>6 DEF Faithful
  <2> QED BY <1>4, <2>7 DEF MayCut
<1>18. ASSUME NEW o \in 1 .. Len(log'), NEW q \in Compactions(log', o),
              NEW o2 \in o .. Len(log'), NEW q2 \in Compactions(log', o2)
       PROVE  q.of \subseteq q2.of
  <2>1. o2 \in 1 .. Len(log')
    BY <1>7, <1>8
  <2>2. CASE o2 = c /\ q2 = p
    BY <1>5, <1>15, <1>17, <2>2
  <2>3. CASE o2 < c /\ o2 \in 1 .. Len(log) /\ q2 \in Compactions(log, o2)
    <3>1. o # c /\ o2 \in o .. Len(log)
      BY <1>7, <1>8, <2>3
    <3>2. o \in 1 .. Len(log) /\ q \in Compactions(log, o)
      BY <1>15, <3>1
    <3> QED BY <2>3, <3>1, <3>2 DEF Lossless, Faithfully
  <2> QED BY <1>15, <2>1, <2>2, <2>3
<1>19. Faithfully(log')
  BY <1>15, <1>16, <1>17, <1>18 DEF Faithfully
<1>20. MayCut(log', cut, mk)
  BY <1>5, <1>14, <1>15, <1>17 DEF MayCut
<1>21. Asking(log'[mk]) /\ \A i \in cut : Says(log'[i]) => i \in loop.covers
  <2>1. mk \in 1 .. c - 1 /\ \A i \in cut : i \in 1 .. c - 1
    BY <1>2, <1>7, <1>14
  <2> QED BY <1>4, <1>13, <2>1
<1>22. Ahead'
  BY <1>6 DEF Ahead
<1> QED BY <1>6, <1>19, <1>20, <1>21, <1>22 DEF Lossless, Compacting

\* One part is written, whatever it is.
LEMMA WriteLossless ==
    ASSUME Stepped, Lossless, Write
    PROVE  Lossless'
BY PartLossless, SummaryLossless

-------------------------------------------------------------------------------
(* Nothing is lost.                                                        *)

\* At first there is nothing to lose.
LEMMA LosslessInit == Init => Lossless
<1> SUFFICES ASSUME Init PROVE Lossless
  OBVIOUS
<1>1. log = <<>> /\ loop.pc = "idle" /\ loop.marker = 0 /\ loop.todo = <<>>
  BY DEF Init, NoLoop
<1>2. Len(<<>>) = 0
  OBVIOUS
<1> QED BY <1>1, <1>2 DEF Lossless, Faithfully, Ahead, Compacting

\* Every step keeps what is said.
LEMMA LosslessNext ==
    ASSUME Inv, Lossless, Next
    PROVE  Lossless'
<1>1. Stepped
  BY NextLog, NextTyped DEF Stepped, Inv, Local
<1> QED BY <1>1, PromptLossless, WakeLossless, CompactLossless, SettleLossless, StepsUsedUpLossless,
     PrepareLossless, WindowFullLossless, ProceedLossless, CreateLossless, TextDeltaLossless,
     FinishLossless, WriteLossless, TurnFailsLossless, StepDoneLossless, RunToolsLossless,
     BeforeHookStopsLossless, RequestLossless, AskLossless, SummaryDoneLossless, CommitLossless,
     RejectLossless, AfterCompactionLossless, FaultLossless DEF Next

\* So does a step that changes nothing.
LEMMA LosslessStutter ==
    ASSUME Lossless, UNCHANGED vars
    PROVE  Lossless'
BY DEF Lossless, Ahead, Compacting, vars

\* The second invariant makes the history complete.
LEMMA KeptByLossless == Inv /\ Lossless => HistoryKept
<1> SUFFICES ASSUME Inv, Lossless PROVE HistoryKept
  OBVIOUS
<1> PICK no \in BOOLEAN : no = FALSE
  OBVIOUS
<1> DEFINE view    == Project(log, no)
           systems == {i \in DOMAIN view : view[i].role = "system"}
           first   == Owner(log, Min(systems))
<1>0. log \in Seq(MessageSet) /\ Sound(log) /\ Faithfully(log) /\ DOMAIN log = 1 .. Len(log)
  BY DEF Inv, Typed, Lossless
<1>1. /\ DOMAIN view = 1 .. Len(log)
      /\ \A i, j \in systems : i = j
      /\ \A i \in systems : Owner(log, i) # 0
      /\ \A i \in 1 .. Len(log) : Owner(log, i) # 0 =>
            /\ systems # {} /\ systems \subseteq Nat
            /\ Min(systems) \in systems
            /\ first = Owner(log, i)
  BY <1>0, SystemLine
<1>2. \A i \in 1 .. Len(log) : Became(log, i, view[i])
  BY <1>0, RolesProjected
<1>3. Cardinality(systems) <= 1
  <2> HIDE DEF systems
  <2>1. CASE systems = {}
    BY <2>1, FS_EmptySet
  <2>2. CASE systems # {}
    <3>1. PICK s \in systems : systems = {s}
      BY <1>1, <2>2
    <3>2. Cardinality({s}) = 1
      BY FS_Singleton
    <3> QED BY <3>1, <3>2
  <2> QED BY <2>1, <2>2
<1>4. systems # {} => HasText(log[first])
  <2> SUFFICES ASSUME NEW s \in systems PROVE HasText(log[first])
    OBVIOUS
  <2>1. s \in 1 .. Len(log) /\ Owner(log, s) # 0
    BY <1>1
  <2>2. first = Owner(log, s)
    BY <1>1, <2>1
  <2> HIDE DEF first, systems
  <2>3. first \in 1 .. Len(log) /\ \E p \in Compactions(log, first) : s \in p.of
    BY <1>0, <2>1, <2>2, OwnerPlace DEF Compactions
  <2> QED BY <1>0, <2>3 DEF Faithfully, Faithful
<1>5. ASSUME NEW i \in 1 .. Len(log), Says(log[i]), view[i].role \in {"none", "system"}
      PROVE  \E p \in Parts(log[first], "compaction") : i \in p.covers
  <2> HIDE DEF view
  <2>1. Owner(log, i) # 0
    <3>1. log[i].role \in {"user", "assistant", "tool"}
      BY <1>0, MessageParts
    <3> QED BY <1>2, <1>5, <3>1 DEF Became
  <2>2. first = Owner(log, i)
    BY <1>1, <2>1
  <2> HIDE DEF first, systems
  <2>3. first \in 1 .. Len(log)
    BY <1>0, <2>1, <2>2, OwnerPlace
  <2>4. PICK p \in Compactions(log, first) : i \in p.of
    BY <1>0, <2>1, <2>2, OwnerPlace DEF Compactions
  <2>5. i \in p.covers
    BY <1>0, <1>5, <2>3, <2>4 DEF Faithfully, Faithful
  <2> QED BY <2>4, <2>5 DEF Compactions
<1> QED BY <1>0, <1>3, <1>4, <1>5, Zenon DEF HistoryKept

\* A transcript stays lossless: every summary has text and no calls, was made with all
\* that it stands for in view, and stands for whatever an earlier one does; and what a
\* compaction under way is about to commit is of that kind (run_compaction,
\* superseded_messages and build_compaction_projection).
THEOREM TranscriptLossless == Spec => []Lossless
<1>1. Init => Lossless
  BY LosslessInit
<1>2. Inv /\ Lossless /\ [Next]_vars => Lossless'
  BY LosslessNext, LosslessStutter
<1> QED BY <1>1, <1>2, TurnLoopInv, PTL DEF Spec

\* Compaction loses nothing, and a fault at any moment of one neither (run_compaction,
\* append_compaction_part and project_for_llm).
THEOREM HistoryIsKept == Spec => []HistoryKept
<1>1. Inv /\ Lossless => HistoryKept
  BY KeptByLossless
<1> QED BY <1>1, TurnLoopInv, TranscriptLossless, PTL

=============================================================================

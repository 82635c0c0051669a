-------------------------- MODULE SubagentInboxProofs --------------------------
(***************************************************************************)
(* Theorems about SubagentInbox, for every finite set of tasks and         *)
(* messages, any depth of the inbox and any number of faults.              *)
(***************************************************************************)
EXTENDS SubagentInbox, FiniteSetTheorems, TLAPS

SenderRecord == [pc : SenderPc, to : Task \cup {NoTask}]

Typed ==
    /\ pc \in [Task -> DriverPc]
    /\ roster \in [Name -> Task \cup {NoTask}]
    /\ inbox \in [Task -> Seq(Msg)]
    /\ drained \in [Task -> Seq(Msg)]
    /\ stored \in [Msg -> RowState]
    /\ sender \in [Msg -> SenderRecord]
    /\ seeded \in [Task -> Seq(Msg)]

\* A message occurs at most once, or twice, in a sequence.
Once(s, m) == \A i, j \in 1 .. Len(s) : s[i] = m /\ s[j] = m => i = j
Twice(s, m) ==
    \A i, j, k \in 1 .. Len(s) : s[i] = m /\ s[j] = m /\ s[k] = m => i = j \/ j = k \/ i = k

\* The driver has not read the store yet; the row of the message is in the store.
Unread == {"none", "rostered"}
Kept   == {"stored", "accepted", "rejected"}

\* What a message's sender, its row and its recipient know of each other.
Message(m) ==
    /\ sender[m].pc \notin Kept => stored[m] = "none"
    /\ sender[m].pc # "idle" => sender[m].to \in Task
    /\ sender[m].pc \in Kept /\ pc[sender[m].to] \in Unread => m \in early
    /\ stored[m] = "delivered" => m \in Range(seeded[sender[m].to])

Waiting(t) == Range(inbox[t]) \cup Range(drained[t])

\* A message waits in one place and once.  Only an early one, which the store gave
\* the driver, can be read and wait, or be read before it is pushed.
Copies(m, t) ==
    /\ m \in Range(seeded[t]) => sender[m].to = t /\ sender[m].pc \in Kept
    /\ m \in Waiting(t) => sender[m].to = t /\ sender[m].pc = "accepted"
    /\ Once(inbox[t], m) /\ Once(drained[t], m)
    /\ m \notin Range(inbox[t]) \/ m \notin Range(drained[t])
    /\ Twice(seeded[t], m)
    /\ m \in Waiting(t) \/ sender[m].pc # "accepted" \/ m \notin early => Once(seeded[t], m)
    /\ m \notin early /\ m \in Range(seeded[t]) => sender[m].pc = "accepted" /\ m \notin Waiting(t)

Posted ==
    /\ Typed
    /\ \A t \in Task : pc[t] \in Unread => seeded[t] = <<>>
    /\ \A m \in Msg : Message(m)
    /\ \A m \in Msg, t \in Task : Copies(m, t)

-------------------------------------------------------------------------------
(* Sequences of messages.                                                  *)

\* What is in a sequence.
LEMMA InRange ==
    ASSUME NEW s \in Seq(Msg)
    PROVE  /\ Range(s) \subseteq Msg
           /\ \A k \in 1 .. Len(s) : s[k] \in Range(s)
           /\ \A x \in Range(s) : \E k \in 1 .. Len(s) : s[k] = x
BY DEF Range

\* What is not in a sequence occurs at most once, and what occurs once, twice.
LEMMA AtMost ==
    ASSUME NEW s \in Seq(Msg), NEW m
    PROVE  /\ m \notin Range(s) => Once(s, m)
           /\ Once(s, m) => Twice(s, m)
           /\ Once(<<>>, m) /\ Twice(<<>>, m) /\ Range(<<>>) = {}
<1>1. m \notin Range(s) => Once(s, m)
  BY InRange DEF Once
<1>2. Once(s, m) => Twice(s, m)
  BY DEF Once, Twice
<1>3. Once(<<>>, m) /\ Twice(<<>>, m) /\ Range(<<>>) = {}
  BY DEF Once, Twice, Range
<1>4. QED
  BY <1>1, <1>2, <1>3

\* The places of a concatenation.
LEMMA Places ==
    ASSUME NEW s \in Seq(Msg), NEW r \in Seq(Msg)
    PROVE  /\ s \o r \in Seq(Msg) /\ Len(s) \in Nat /\ Len(r) \in Nat
           /\ Len(s \o r) = Len(s) + Len(r)
           /\ \A k \in 1 .. Len(s) : k \in 1 .. Len(s \o r) /\ (s \o r)[k] = s[k]
           /\ \A k \in 1 .. Len(r) : k + Len(s) \in 1 .. Len(s \o r) /\ (s \o r)[k + Len(s)] = r[k]
           /\ \A k \in 1 .. Len(s \o r) :
                 \/ k \in 1 .. Len(s) /\ (s \o r)[k] = s[k]
                 \/ \E l \in 1 .. Len(r) : k = l + Len(s) /\ (s \o r)[k] = r[l]
<1>1. PICK n \in Nat, l \in Nat : n = Len(s) /\ l = Len(r)
  OBVIOUS
<1> DEFINE u == s \o r
<1>2. /\ u \in Seq(Msg) /\ Len(u) = n + l
      /\ \A k \in 1 .. n + l : u[k] = IF k <= n THEN s[k] ELSE r[k - n]
  BY <1>1
<1> HIDE DEF u
<1>3. ASSUME NEW k \in 1 .. n PROVE k \in 1 .. Len(u) /\ u[k] = s[k]
  BY <1>2
<1>4. ASSUME NEW k \in 1 .. l PROVE k + n \in 1 .. Len(u) /\ u[k + n] = r[k]
  <2>1. k + n \in 1 .. n + l /\ ~(k + n <= n) /\ (k + n) - n = k
    OBVIOUS
  <2>2. QED
    BY <1>2, <2>1
<1>5. ASSUME NEW k \in 1 .. Len(u)
      PROVE  \/ k \in 1 .. n /\ u[k] = s[k]
             \/ \E x \in 1 .. l : k = x + n /\ u[k] = r[x]
  <2>1. CASE k <= n
    BY <1>2, <2>1
  <2>2. CASE ~(k <= n)
    <3>1. k - n \in 1 .. l /\ k = (k - n) + n /\ u[k] = r[k - n]
      BY <1>2, <2>2
    <3>2. QED
      BY <3>1
  <2>3. QED
    BY <2>1, <2>2
<1>6. QED
  BY <1>1, <1>2, <1>3, <1>4, <1>5 DEF u

\* What a concatenation holds, and how often.
LEMMA Concat ==
    ASSUME NEW s \in Seq(Msg), NEW r \in Seq(Msg), NEW m
    PROVE  /\ s \o r \in Seq(Msg) /\ Range(s \o r) = Range(s) \cup Range(r)
           /\ Once(s, m) /\ m \notin Range(r) => Once(s \o r, m)
           /\ m \notin Range(s) /\ Once(r, m) => Once(s \o r, m)
           /\ Once(s, m) /\ Once(r, m) => Twice(s \o r, m)
           /\ Twice(s, m) /\ m \notin Range(r) => Twice(s \o r, m)
<1>1. PICK n \in Nat, u \in Seq(Msg) : n = Len(s) /\ u = s \o r
  BY Places
<1>2. /\ \A k \in 1 .. Len(s) : k \in 1 .. Len(u) /\ u[k] = s[k]
      /\ \A k \in 1 .. Len(r) : k + n \in 1 .. Len(u) /\ u[k + n] = r[k]
      /\ \A k \in 1 .. Len(u) :
            \/ k \in 1 .. Len(s) /\ u[k] = s[k]
            \/ \E l \in 1 .. Len(r) : k = l + n /\ u[k] = r[l]
  BY <1>1, Places, SMTT(40)
<1>3. Range(u) = Range(s) \cup Range(r)
  <2>0. /\ \A k \in 1 .. Len(s) : s[k] \in Range(s)
        /\ \A k \in 1 .. Len(r) : r[k] \in Range(r)
        /\ \A k \in 1 .. Len(u) : u[k] \in Range(u)
    BY InRange
  <2>1. ASSUME NEW x \in Range(u) PROVE x \in Range(s) \cup Range(r)
    <3>1. PICK k \in 1 .. Len(u) : u[k] = x
      BY InRange
    <3>2. QED
      BY <1>2, <2>0, <3>1
  <2>2. ASSUME NEW x \in Range(s) PROVE x \in Range(u)
    <3>1. PICK k \in 1 .. Len(s) : s[k] = x
      BY InRange
    <3>2. QED
      BY <1>2, <2>0, <3>1
  <2>3. ASSUME NEW x \in Range(r) PROVE x \in Range(u)
    <3>1. PICK k \in 1 .. Len(r) : r[k] = x
      BY InRange
    <3>2. QED
      BY <1>2, <2>0, <3>1
  <2>4. QED
    BY <2>1, <2>2, <2>3
<1>4. ASSUME Once(s, m), m \notin Range(r) PROVE Once(u, m)
  <2>1. \A k \in 1 .. Len(u) : u[k] = m => k \in 1 .. Len(s) /\ s[k] = m
    BY <1>2, <1>4, InRange
  <2>2. QED
    BY <1>4, <2>1 DEF Once
<1>5. ASSUME m \notin Range(s), Once(r, m) PROVE Once(u, m)
  <2>1. \A k \in 1 .. Len(u) : u[k] = m => \E l \in 1 .. Len(r) : k = l + n /\ r[l] = m
    <3>1. \A k \in 1 .. Len(s) : s[k] # m
      BY <1>5, InRange
    <3>2. QED
      BY <1>2, <3>1, ZenonT(60)
  <2>2. SUFFICES ASSUME NEW i \in 1 .. Len(u), NEW j \in 1 .. Len(u), u[i] = m, u[j] = m
                 PROVE  i = j
    BY DEF Once
  <2>3. \A x, y \in 1 .. Len(r) : r[x] = m /\ r[y] = m => x = y
    BY <1>5 DEF Once
  <2>4. PICK x \in 1 .. Len(r) : i = x + n /\ r[x] = m
    BY <2>1, <2>2
  <2>5. PICK y \in 1 .. Len(r) : j = y + n /\ r[y] = m
    BY <2>1, <2>2
  <2>6. QED
    BY <2>3, <2>4, <2>5
<1>6. ASSUME Once(s, m), Once(r, m) PROVE Twice(u, m)
  <2>1. \A k \in 1 .. Len(u) : u[k] = m =>
           \/ k \in 1 .. Len(s) /\ s[k] = m
           \/ \E l \in 1 .. Len(r) : k = l + n /\ r[l] = m
    BY <1>2
  <2>2. SUFFICES ASSUME NEW i \in 1 .. Len(u), NEW j \in 1 .. Len(u), NEW k \in 1 .. Len(u),
                        u[i] = m, u[j] = m, u[k] = m
                 PROVE  i = j \/ j = k \/ i = k
    BY DEF Twice
  <2>3. \A x, y \in 1 .. Len(s) : s[x] = m /\ s[y] = m => x = y
    BY <1>6 DEF Once
  <2>4. \A x, y \in 1 .. Len(r) : r[x] = m /\ r[y] = m => x = y
    BY <1>6 DEF Once
  <2>5. QED
    BY <2>1, <2>2, <2>3, <2>4
<1>7. ASSUME Twice(s, m), m \notin Range(r) PROVE Twice(u, m)
  <2>1. \A k \in 1 .. Len(u) : u[k] = m => k \in 1 .. Len(s) /\ s[k] = m
    BY <1>2, <1>7, InRange
  <2>2. QED
    BY <1>7, <2>1 DEF Twice
<1>8. QED
  BY <1>1, <1>3, <1>4, <1>5, <1>6, <1>7

\* A message is added to an inbox.
LEMMA Added ==
    ASSUME NEW s \in Seq(Msg), NEW m \in Msg, m \notin Range(s), NEW x
    PROVE  /\ Append(s, m) \in Seq(Msg) /\ Range(Append(s, m)) = Range(s) \cup {m}
           /\ Once(s, x) => Once(Append(s, m), x)
<1>1. Append(s, m) = s \o <<m>> /\ <<m>> \in Seq(Msg) /\ Range(<<m>>) = {m}
  <2>1. Append(s, m) = s \o <<m>> /\ <<m>> \in Seq(Msg)
    OBVIOUS
  <2>2. Range(<<m>>) = {m}
    BY DEF Range
  <2>3. QED
    BY <2>1, <2>2
<1>2. Once(<<m>>, x)
  BY DEF Once
<1>3. PICK r \in Seq(Msg) : r = <<m>>
  BY <1>1
<1>4. CASE x = m
  <2>1. Range(s \o r) = Range(s) \cup Range(r) /\ s \o r \in Seq(Msg)
    BY Concat
  <2>2. x \notin Range(s) /\ Once(r, x) => Once(s \o r, x)
    BY Concat
  <2>3. QED
    BY <1>1, <1>2, <1>3, <1>4, <2>1, <2>2
<1>5. CASE x # m
  <2>1. Range(s \o r) = Range(s) \cup Range(r) /\ s \o r \in Seq(Msg)
    BY Concat
  <2>2. Once(s, x) /\ x \notin Range(r) => Once(s \o r, x)
    BY Concat
  <2>3. QED
    BY <1>1, <1>3, <1>5, <2>1, <2>2
<1>6. QED
  BY <1>4, <1>5

\* The first k of a sequence.
LEMMA Prefix ==
    ASSUME NEW s \in Seq(Msg), NEW k \in 0 .. Len(s), NEW m
    PROVE  /\ SubSeq(s, 1, k) \in Seq(Msg) /\ Range(SubSeq(s, 1, k)) \subseteq Range(s)
           /\ Once(s, m) => Once(SubSeq(s, 1, k), m)
<1>1. PICK u : u = SubSeq(s, 1, k)
  OBVIOUS
<1>2. u \in Seq(Msg) /\ Len(u) = k /\ \A i \in 1 .. k : i \in 1 .. Len(s) /\ u[i] = s[i]
  BY <1>1
<1>3. Range(u) \subseteq Range(s)
  BY <1>2, InRange
<1>4. Once(s, m) => Once(u, m)
  BY <1>2 DEF Once
<1>5. QED
  BY <1>1, <1>2, <1>3, <1>4

\* A listing of a set names each of its messages once.
LEMMA Listed ==
    ASSUME NEW S \in SUBSET Msg, NEW s \in Listings(S), NEW m
    PROVE  s \in Seq(Msg) /\ Range(s) = S /\ Once(s, m)
<1>1. IsFiniteSet(S) /\ Cardinality(S) \in Nat
  BY InboxAssumption, FS_Subset, FS_CardinalityType DEF InboxAssumption
<1>2. PICK n \in Nat : n = Cardinality(S)
  BY <1>1
<1>3. s \in [1 .. n -> S] /\ Range(s) = S
  BY <1>2 DEF Listings
<1>4. s \in Seq(Msg) /\ Len(s) = n
  BY <1>3
<1>5. s \in Surjection(1 .. n, S)
  BY <1>3 DEF Surjection, Range
<1>6. IsFiniteSet(1 .. n) /\ Cardinality(1 .. n) = n
  <2>1. IsFiniteSet(1 .. n) /\ Cardinality(1 .. n) = IF 1 > n THEN 0 ELSE n - 1 + 1
    BY FS_Interval
  <2>2. QED
    BY <2>1
<1>7. s \in Injection(1 .. n, S)
  BY <1>2, <1>5, <1>6, FS_SurjSameCardinalityImpliesInj
<1>8. Once(s, m)
  BY <1>4, <1>7 DEF Injection, IsInjective, Once
<1>9. QED
  BY <1>3, <1>4, <1>8

\* How often a message is read, as the places it has in a transcript.
LEMMA Counted ==
    ASSUME NEW s \in Seq(Msg), NEW m
    PROVE  LET c == Cardinality({i \in 1 .. Len(s) : s[i] = m})
           IN  /\ c \in Nat
               /\ c > 0 <=> m \in Range(s)
               /\ Once(s, m) => c <= 1
               /\ Twice(s, m) => c <= 2
<1> DEFINE P == {i \in 1 .. Len(s) : s[i] = m}
<1>1. IsFiniteSet(P) /\ Cardinality(P) \in Nat
  <2>1. Len(s) \in Nat
    OBVIOUS
  <2>2. IsFiniteSet(1 .. Len(s))
    BY <2>1, FS_Interval
  <2>3. P \subseteq 1 .. Len(s)
    OBVIOUS
  <2>4. QED
    BY <2>2, <2>3, FS_Subset, FS_CardinalityType
<1>2. P = {} <=> m \notin Range(s)
  BY InRange
<1>a. \A i \in P : i \in 1 .. Len(s) /\ s[i] = m
  OBVIOUS
<1> HIDE DEF P
<1>3. Cardinality(P) = 0 <=> P = {}
  BY <1>1, FS_EmptySet
<1>4. ASSUME Once(s, m) PROVE Cardinality(P) <= 1
  <2>1. CASE P = {}
    BY <1>3, <2>1
  <2>2. CASE P # {}
    <3>1. PICK i \in P : TRUE
      BY <2>2
    <3>2. P = {i}
      BY <1>4, <1>a, <3>1 DEF Once
    <3>3. Cardinality({i}) = 1
      BY FS_Singleton
    <3>4. QED
      BY <3>2, <3>3
  <2>3. QED
    BY <2>1, <2>2
<1>5. ASSUME Twice(s, m) PROVE Cardinality(P) <= 2
  <2>1. CASE P = {}
    BY <1>3, <2>1
  <2>2. CASE P # {}
    <3>1. PICK i \in P : TRUE
      BY <2>2
    <3>2. CASE P = {i}
      <4>1. Cardinality({i}) = 1
        BY FS_Singleton
      <4>2. QED
        BY <3>2, <4>1
    <3>3. CASE P # {i}
      <4>1. PICK j \in P : j # i
        BY <3>1, <3>3
      <4>2. P = {i} \cup {j}
        BY <1>5, <1>a, <3>1, <4>1 DEF Twice
      <4>3. IsFiniteSet({i}) /\ Cardinality({i}) = 1
        BY FS_Singleton
      <4>4. Cardinality({i} \cup {j}) = Cardinality({i}) + 1
        BY <4>1, <4>3, FS_AddElement
      <4>5. QED
        BY <4>2, <4>3, <4>4
    <3>4. QED
      BY <3>2, <3>3
  <2>3. QED
    BY <2>1, <2>2
<1>6. /\ Cardinality(P) \in Nat
      /\ Cardinality(P) > 0 <=> m \in Range(s)
      /\ Once(s, m) => Cardinality(P) <= 1
      /\ Twice(s, m) => Cardinality(P) <= 2
  BY <1>1, <1>2, <1>3, <1>4, <1>5
<1>7. QED
  BY <1>6 DEF P

-------------------------------------------------------------------------------
(* The steps.                                                              *)

\* Nothing was sent and nothing read.
LEMMA PostedInit == Init => Posted
<1> SUFFICES ASSUME Init PROVE Posted
  OBVIOUS
<1>1. Typed
  BY DEF Init, Typed, DriverPc, SenderRecord, SenderPc, RowState
<1>2. \A t \in Task : seeded[t] = <<>> /\ inbox[t] = <<>> /\ drained[t] = <<>>
  BY DEF Init
<1>3. \A m \in Msg : sender[m].pc = "idle" /\ stored[m] = "none"
  BY DEF Init
<1>4. ASSUME NEW m \in Msg, NEW t \in Task PROVE Copies(m, t)
  <2>1. Once(<<>>, m) /\ Twice(<<>>, m) /\ Range(<<>>) = {}
    <3>1. <<>> \in Seq(Msg)
      OBVIOUS
    <3>2. QED
      BY <3>1, AtMost
  <2>2. QED
    BY <1>2, <1>3, <2>1 DEF Copies, Waiting
<1>5. QED
  BY <1>1, <1>2, <1>3, <1>4 DEF Posted, Message, Kept

\* Steps that leave messages, inboxes and transcripts alone.
LEMMA Quiet ==
    ASSUME Posted, UNCHANGED <<inbox, drained, stored, sender, seeded, early>>,
           pc' \in [Task -> DriverPc], roster' \in [Name -> Task \cup {NoTask}],
           \A t \in Task : pc'[t] \in Unread => pc[t] \in Unread
    PROVE  Posted'
<1>1. Typed'
  BY DEF Posted, Typed
<1>2. \A t \in Task : pc'[t] \in Unread => seeded'[t] = <<>>
  BY DEF Posted
<1>3. ASSUME NEW m \in Msg PROVE Message(m)'
  BY DEF Posted, Message, Kept
<1>4. ASSUME NEW m \in Msg, NEW t \in Task PROVE Copies(m, t)'
  BY DEF Posted, Copies, Waiting
<1>5. QED
  BY <1>1, <1>2, <1>3, <1>4 DEF Posted

\* The steps of a driver that only move it, its name or its cancellation.
LEMMA QuietSteps ==
    ASSUME Posted, NEW t \in Task,
           \/ RegisterName(t) \/ DriverPanics(t) \/ RemoveFromRoster(t) \/ Finalize(t)
           \/ Cancel(t)
    PROVE  Posted'
<1>1. UNCHANGED <<inbox, drained, stored, sender, seeded, early>>
  BY DEF RegisterName, DriverPanics, RemoveFromRoster, Finalize, Cancel
<1>2. /\ pc' \in [Task -> DriverPc]
      /\ \A u \in Task : pc'[u] \in Unread => pc[u] \in Unread
  BY DEF Posted, Typed, DriverPc, Unread, RegisterName, DriverPanics, RemoveFromRoster,
         Finalize, Cancel
<1>3. roster' \in [Name -> Task \cup {NoTask}]
  BY DEF Posted, Typed, RegisterName, DriverPanics, RemoveFromRoster, Finalize, Cancel
<1>4. QED
  BY <1>1, <1>2, <1>3, Quiet

\* A sender that finds its recipient has sent nothing yet.
LEMMA ResolvePosted ==
    ASSUME Posted, NEW m \in Msg, NEW n \in Name, ResolveName(m, n)
    PROVE  Posted'
<1>1. roster[n] \in Task /\ sender[m].pc = "idle"
  BY DEF Posted, Typed, ResolveName
<1>2. /\ sender'[m].pc = "resolved" /\ sender'[m].to = roster[n]
      /\ \A x \in Msg : x # m => sender'[x] = sender[x]
  BY DEF Posted, Typed, ResolveName
<1>3. sender' \in [Msg -> SenderRecord]
  BY <1>1 DEF Posted, Typed, ResolveName, SenderRecord, SenderPc
<1>4. UNCHANGED <<pc, roster, inbox, drained, stored, seeded, early>>
  BY DEF ResolveName
<1>5. Typed'
  BY <1>3, <1>4 DEF Posted, Typed
<1>6. ASSUME NEW x \in Msg PROVE Message(x)'
  <2>1. Message(x)
    BY DEF Posted
  <2>2. CASE x = m
    BY <1>1, <1>2, <1>4, <2>1, <2>2 DEF Message, Kept
  <2>3. CASE x # m
    BY <1>2, <1>4, <2>1, <2>3 DEF Message
  <2>4. QED
    BY <2>2, <2>3
<1>7. ASSUME NEW x \in Msg, NEW t \in Task PROVE Copies(x, t)'
  <2>1. Copies(x, t)
    BY DEF Posted
  <2>2. CASE x = m
    <3>1. m \notin Range(seeded[t]) /\ m \notin Waiting(t) /\ Once(seeded[t], m)
      BY <1>1, <2>1, <2>2 DEF Copies, Kept
    <3>2. QED
      BY <1>4, <2>1, <2>2, <3>1 DEF Copies, Waiting
  <2>3. CASE x # m
    BY <1>2, <1>4, <2>1, <2>3 DEF Copies, Waiting
  <2>4. QED
    BY <2>2, <2>3
<1>8. \A t \in Task : pc'[t] \in Unread => seeded'[t] = <<>>
  BY <1>4 DEF Posted
<1>9. QED
  BY <1>5, <1>6, <1>7, <1>8 DEF Posted

\* A message is stored before anybody read it.
LEMMA StorePosted ==
    ASSUME Posted, NEW m \in Msg, StoreMessage(m)
    PROVE  Posted'
<1>1. sender[m].pc = "resolved" /\ sender[m].to \in Task /\ sender[m] \in SenderRecord
  BY DEF Posted, Typed, StoreMessage, Message
<1>2. /\ sender'[m].pc = "stored" /\ sender'[m].to = sender[m].to
      /\ \A x \in Msg : x # m => sender'[x] = sender[x]
  BY <1>1 DEF Posted, Typed, StoreMessage, SenderRecord
<1>3. sender' \in [Msg -> SenderRecord]
  BY <1>1 DEF Posted, Typed, StoreMessage, SenderRecord, SenderPc
<1>4. UNCHANGED <<pc, roster, inbox, drained, seeded>>
  BY DEF StoreMessage
<1>5. /\ stored' \in [Msg -> RowState] /\ stored'[m] = "pending"
      /\ \A x \in Msg : x # m => stored'[x] = stored[x]
  BY DEF Posted, Typed, StoreMessage, RowState
<1>6. /\ \A x \in Msg : x # m => (x \in early' <=> x \in early)
      /\ pc[sender[m].to] \in Unread => m \in early'
  BY DEF StoreMessage, Unread
<1>7. Typed'
  BY <1>3, <1>4, <1>5 DEF Posted, Typed
<1>8. ASSUME NEW x \in Msg PROVE Message(x)'
  <2>1. Message(x)
    BY DEF Posted
  <2>2. CASE x = m
    BY <1>1, <1>2, <1>4, <1>5, <1>6, <2>2 DEF Message, Kept
  <2>3. CASE x # m
    BY <1>2, <1>4, <1>5, <1>6, <2>1, <2>3 DEF Message
  <2>4. QED
    BY <2>2, <2>3
<1>9. ASSUME NEW x \in Msg, NEW t \in Task PROVE Copies(x, t)'
  <2>1. Copies(x, t)
    BY DEF Posted
  <2>2. CASE x = m
    <3>1. m \notin Range(seeded[t]) /\ m \notin Waiting(t) /\ Once(seeded[t], m)
      BY <1>1, <2>1, <2>2 DEF Copies, Kept
    <3>2. QED
      BY <1>4, <2>1, <2>2, <3>1 DEF Copies, Waiting
  <2>3. CASE x # m
    BY <1>2, <1>4, <1>6, <2>1, <2>3 DEF Copies, Waiting
  <2>4. QED
    BY <2>2, <2>3
<1>10. \A t \in Task : pc'[t] \in Unread => seeded'[t] = <<>>
  BY <1>4 DEF Posted
<1>11. QED
  BY <1>7, <1>8, <1>9, <1>10 DEF Posted

\* A push adds the message to an inbox it is not in, or refuses it.
LEMMA PushPosted ==
    ASSUME Posted, NEW m \in Msg, PushMessage(m)
    PROVE  Posted'
<1>1. PICK t \in Task : t = sender[m].to /\ sender[m].pc = "stored"
  BY DEF Posted, PushMessage, Message
<1>2. sender[m] \in SenderRecord
  BY DEF Posted, Typed
<1>3. /\ sender'[m].pc \in {"accepted", "rejected"} /\ sender'[m].to = t
      /\ \A x \in Msg : x # m => sender'[x] = sender[x]
  <2>1. PICK v \in {"accepted", "rejected"} : sender' = [sender EXCEPT ![m].pc = v]
    BY DEF PushMessage
  <2>2. sender \in [Msg -> SenderRecord]
    BY DEF Posted, Typed
  <2>3. QED
    BY <1>1, <1>2, <2>1, <2>2 DEF SenderRecord
<1>4. sender' \in [Msg -> SenderRecord]
  <2>1. PICK v \in {"accepted", "rejected"} : sender' = [sender EXCEPT ![m].pc = v]
    BY DEF PushMessage
  <2>2. sender \in [Msg -> SenderRecord]
    BY DEF Posted, Typed
  <2>3. QED
    BY <1>1, <1>2, <2>1, <2>2 DEF SenderRecord, SenderPc
<1>5. UNCHANGED <<pc, roster, drained, stored, seeded, early>>
  BY DEF PushMessage
<1>6. \A u \in Task : m \notin Waiting(u) /\ Once(seeded[u], m)
  BY <1>1 DEF Posted, Copies
<1>7. m \notin early => \A u \in Task : m \notin Range(seeded[u])
  BY <1>1 DEF Posted, Copies
<1>8. ASSUME NEW x \in Msg PROVE Message(x)'
  <2>1. Message(x)
    BY DEF Posted
  <2>2. CASE x = m
    BY <1>1, <1>3, <1>5, <2>1, <2>2 DEF Message, Kept
  <2>3. CASE x # m
    BY <1>3, <1>5, <2>1, <2>3 DEF Message
  <2>4. QED
    BY <2>2, <2>3
<1>9. \A u \in Task : pc'[u] \in Unread => seeded'[u] = <<>>
  BY <1>5 DEF Posted
<1>10. CASE UNCHANGED inbox
  <2>1. Typed'
    BY <1>4, <1>5, <1>10 DEF Posted, Typed
  <2>2. ASSUME NEW x \in Msg, NEW u \in Task PROVE Copies(x, u)'
    <3>1. Copies(x, u)
      BY DEF Posted
    <3>2. CASE x = m
      BY <1>1, <1>3, <1>5, <1>6, <1>7, <1>10, <3>1, <3>2 DEF Copies, Waiting, Kept
    <3>3. CASE x # m
      BY <1>3, <1>5, <1>10, <3>1, <3>3 DEF Copies, Waiting
    <3>4. QED
      BY <3>2, <3>3
  <2>3. QED
    BY <1>8, <1>9, <2>1, <2>2 DEF Posted
<1>11. CASE /\ inbox' = [inbox EXCEPT ![t] = Append(@, m)]
            /\ sender' = [sender EXCEPT ![m].pc = "accepted"]
  <2>1. sender'[m].pc = "accepted"
    BY <1>2, <1>11 DEF Posted, Typed, SenderRecord
  <2>2. PICK s \in Seq(Msg) : s = inbox[t]
    BY DEF Posted, Typed
  <2>3. m \notin Range(s)
    BY <1>6, <2>2 DEF Waiting
  <2>4. Append(s, m) \in Seq(Msg) /\ Range(Append(s, m)) = Range(s) \cup {m}
    BY <2>3, Added
  <2>5. \A x \in Msg : Once(s, x) => Once(Append(s, m), x)
    BY <2>3, Added
  <2>6. /\ inbox' \in [Task -> Seq(Msg)] /\ inbox'[t] = Append(s, m)
        /\ \A u \in Task : u # t => inbox'[u] = inbox[u]
    BY <1>11, <2>2, <2>4 DEF Posted, Typed
  <2>7. Typed'
    BY <1>4, <1>5, <2>6 DEF Posted, Typed
  <2>8. ASSUME NEW x \in Msg, NEW u \in Task PROVE Copies(x, u)'
    <3>1. Copies(x, u)
      BY DEF Posted
    <3>2. CASE u # t
      <4>1. CASE x = m
        BY <1>1, <1>3, <1>5, <1>6, <1>7, <2>1, <2>6, <3>1, <3>2, <4>1
           DEF Copies, Waiting, Kept
      <4>2. CASE x # m
        BY <1>3, <1>5, <2>6, <3>1, <3>2, <4>2 DEF Copies, Waiting
      <4>3. QED
        BY <4>1, <4>2
    <3>3. CASE u = t
      <4>1. Once(inbox'[t], x)
        BY <2>2, <2>5, <2>6, <3>1, <3>3 DEF Copies
      <4>2. Range(inbox'[t]) = Range(inbox[t]) \cup {m}
        BY <2>2, <2>4, <2>6
      <4>3. CASE x = m
        BY <1>1, <1>3, <1>5, <1>6, <1>7, <2>1, <3>1, <3>3, <4>1, <4>2, <4>3
           DEF Copies, Waiting, Kept
      <4>4. CASE x # m
        BY <1>3, <1>5, <3>1, <3>3, <4>1, <4>2, <4>4 DEF Copies, Waiting
      <4>5. QED
        BY <4>3, <4>4
    <3>4. QED
      BY <3>2, <3>3
  <2>9. QED
    BY <1>8, <1>9, <2>7, <2>8 DEF Posted
<1>12. QED
  BY <1>1, <1>10, <1>11 DEF PushMessage

\* The driver takes the whole inbox.
LEMMA RearmPosted ==
    ASSUME Posted, NEW t \in Task, RearmDecision(t)
    PROVE  Posted'
<1>1. UNCHANGED <<roster, stored, sender, seeded, early>> /\ pc[t] = "running"
  BY DEF RearmDecision
<1>2. /\ pc' \in [Task -> DriverPc]
      /\ \A u \in Task : pc'[u] \in Unread => pc[u] \in Unread
  BY DEF Posted, Typed, RearmDecision, DriverPc, Unread
<1>3. CASE UNCHANGED <<inbox, drained>>
  <2>1. roster' \in [Name -> Task \cup {NoTask}]
    BY <1>1 DEF Posted, Typed
  <2>2. QED
    BY <1>1, <1>2, <1>3, <2>1, Quiet
<1>4. CASE /\ drained' = [drained EXCEPT ![t] = inbox[t]]
           /\ inbox' = [inbox EXCEPT ![t] = <<>>]
  <2>1. /\ inbox' \in [Task -> Seq(Msg)] /\ drained' \in [Task -> Seq(Msg)]
        /\ drained'[t] = inbox[t] /\ inbox'[t] = <<>>
        /\ \A u \in Task : u # t => inbox'[u] = inbox[u] /\ drained'[u] = drained[u]
    BY <1>4 DEF Posted, Typed
  <2>2. Typed'
    BY <1>1, <1>2, <2>1 DEF Posted, Typed
  <2>3. ASSUME NEW m \in Msg PROVE Message(m)'
    BY <1>1, <1>2 DEF Posted, Message, Kept
  <2>4. ASSUME NEW m \in Msg, NEW u \in Task PROVE Copies(m, u)'
    <3>1. Copies(m, u)
      BY DEF Posted
    <3>2. CASE u # t
      BY <1>1, <2>1, <3>1, <3>2 DEF Copies, Waiting
    <3>3. CASE u = t
      <4>1. Once(<<>>, m) /\ Range(<<>>) = {}
        <5>1. <<>> \in Seq(Msg)
          OBVIOUS
        <5>2. QED
          BY <5>1, AtMost
      <4>2. QED
        BY <1>1, <2>1, <3>1, <3>3, <4>1 DEF Copies, Waiting
    <3>4. QED
      BY <3>2, <3>3
  <2>5. \A u \in Task : pc'[u] \in Unread => seeded'[u] = <<>>
    BY <1>1, <1>2 DEF Posted
  <2>6. QED
    BY <2>2, <2>3, <2>4, <2>5 DEF Posted
<1>5. QED
  BY <1>3, <1>4 DEF RearmDecision

\* A driver leaves its state for one in which it has read the store.
LEMMA Moved ==
    ASSUME Posted, NEW t \in Task, NEW v \in DriverPc \ Unread, pc' = [pc EXCEPT ![t] = v]
    PROVE  /\ pc' \in [Task -> DriverPc] /\ pc'[t] \notin Unread
           /\ \A u \in Task : u # t => pc'[u] = pc[u]
BY DEF Posted, Typed

\* The rows of some messages are acknowledged, the others stay.
LEMMA Marked ==
    ASSUME Posted, NEW S \in SUBSET Msg, stored' = stored \/ stored' = Mark(S)
    PROVE  /\ stored' \in [Msg -> RowState]
           /\ \A x \in Msg : stored'[x] = stored[x]
                             \/ (x \in S /\ stored' = Mark(S) /\ stored'[x] = "delivered")
BY DEF Posted, Typed, Mark, RowState

\* The driver seeds, from the store, some of the messages waiting there for it, and
\* acknowledges all of them or none.
LEMMA RecoveredPosted ==
    ASSUME Posted, NEW t \in Task, pc[t] = "rostered",
           NEW v \in DriverPc \ Unread, pc' = [pc EXCEPT ![t] = v],
           NEW r \in Seq(Msg), Range(r) \subseteq Pending(t), \A x \in Msg : Once(r, x),
           seeded' = [seeded EXCEPT ![t] = @ \o r],
           \/ stored' = stored
           \/ stored' = Mark(Pending(t)) /\ Range(r) = Pending(t),
           UNCHANGED <<roster, inbox, drained, sender, early>>
    PROVE  Posted'
<1>1. /\ pc' \in [Task -> DriverPc] /\ pc'[t] \notin Unread
      /\ \A u \in Task : u # t => pc'[u] = pc[u]
  BY Moved
<1>2. seeded[t] = <<>> /\ pc[t] \in Unread
  BY DEF Posted, Unread
<1>3. /\ seeded' \in [Task -> Seq(Msg)] /\ seeded'[t] = r
      /\ \A u \in Task : u # t => seeded'[u] = seeded[u]
  <2>1. seeded[t] \o r = r
    BY <1>2
  <2>2. QED
    BY <2>1 DEF Posted, Typed
<1>4. Pending(t) \subseteq Msg
  BY DEF Pending
<1>5. /\ stored' \in [Msg -> RowState]
      /\ \A x \in Msg : \/ stored'[x] = stored[x]
                        \/ x \in Pending(t) /\ Range(r) = Pending(t)
  <2>1. stored' = stored \/ stored' = Mark(Pending(t))
    OBVIOUS
  <2>2. /\ stored' \in [Msg -> RowState]
        /\ \A x \in Msg : stored'[x] = stored[x] \/ x \in Pending(t)
    BY <1>4, <2>1, Marked
  <2>3. QED
    BY <2>2
<1>6. \A x \in Pending(t) : sender[x].to = t /\ stored[x] = "pending"
  BY DEF Pending
<1>7. \A x \in Pending(t) : sender[x].pc \in Kept /\ x \in early
  BY <1>2, <1>4, <1>6 DEF Posted, Message
<1>8. Typed'
  BY <1>1, <1>3, <1>5 DEF Posted, Typed
<1>9. ASSUME NEW u \in Task, pc'[u] \in Unread PROVE seeded'[u] = <<>>
  BY <1>1, <1>3, <1>9 DEF Posted
<1>10. ASSUME NEW x \in Msg PROVE Message(x)'
  <2>1. Message(x)
    BY DEF Posted
  <2>2. CASE x \in Pending(t) /\ Range(r) = Pending(t)
    <3>1. sender[x].to = t /\ sender[x].pc \in Kept /\ x \in Range(seeded'[t])
      BY <1>3, <1>6, <1>7, <2>2
    <3>2. QED
      BY <1>1, <3>1 DEF Message, Kept
  <2>3. CASE stored'[x] = stored[x]
    <3>1. stored[x] = "delivered" => sender[x].to # t
      BY <1>2, <2>1 DEF Message, Range
    <3>2. stored[x] = "delivered" => sender[x].to \in Task
      BY <2>1 DEF Message, Kept
    <3>3. stored'[x] = "delivered" => x \in Range(seeded'[sender[x].to])
      BY <1>3, <2>1, <2>3, <3>1, <3>2 DEF Message
    <3>4. sender[x].pc \in Kept => sender[x].to \in Task
      BY <2>1 DEF Message, Kept
    <3>5. sender[x].pc \in Kept /\ pc'[sender[x].to] \in Unread => x \in early
      BY <1>1, <2>1, <3>4 DEF Message
    <3>6. QED
      BY <2>1, <2>3, <3>3, <3>5 DEF Message
  <2>4. QED
    BY <1>5, <2>2, <2>3
<1>11. ASSUME NEW x \in Msg, NEW u \in Task PROVE Copies(x, u)'
  <2>1. Copies(x, u)
    BY DEF Posted
  <2>2. CASE u # t
    BY <1>3, <2>1, <2>2 DEF Copies, Waiting
  <2>3. CASE u = t
    <3>1. Once(r, x) /\ Twice(r, x)
      BY AtMost
    <3>2. x \in Range(r) => sender[x].to = t /\ sender[x].pc \in Kept /\ x \in early
      BY <1>6, <1>7
    <3>3. QED
      BY <1>3, <2>1, <2>3, <3>1, <3>2 DEF Copies, Waiting
  <2>4. QED
    BY <2>2, <2>3
<1>12. QED
  BY <1>8, <1>9, <1>10, <1>11 DEF Posted

\* The driver seeds, from the messages it took, the ones before an error and
\* acknowledges those, or none.
LEMMA SeededPosted ==
    ASSUME Posted, NEW t \in Task, pc[t] = "draining",
           NEW v \in DriverPc \ Unread, pc' = [pc EXCEPT ![t] = v],
           NEW r \in Seq(Msg), Range(r) \subseteq Range(drained[t]),
           \A x \in Msg : Once(r, x),
           seeded' = [seeded EXCEPT ![t] = @ \o r],
           stored' = stored \/ stored' = Mark(Range(r)),
           drained' = [drained EXCEPT ![t] = <<>>],
           UNCHANGED <<roster, inbox, sender, early>>
    PROVE  Posted'
<1>1. /\ pc' \in [Task -> DriverPc] /\ pc'[t] \notin Unread
      /\ \A u \in Task : u # t => pc'[u] = pc[u]
  BY Moved
<1>2. PICK s \in Seq(Msg), z \in Seq(Msg) : s = seeded[t] /\ z = s \o r
  <2>1. seeded[t] \in Seq(Msg)
    BY DEF Posted, Typed
  <2>2. seeded[t] \o r \in Seq(Msg)
    BY <2>1
  <2>3. QED
    BY <2>1, <2>2
<1>3. /\ seeded' \in [Task -> Seq(Msg)] /\ seeded'[t] = z
      /\ \A u \in Task : u # t => seeded'[u] = seeded[u]
  BY <1>2 DEF Posted, Typed
<1>4. /\ drained' \in [Task -> Seq(Msg)] /\ drained'[t] = <<>>
      /\ \A u \in Task : u # t => drained'[u] = drained[u]
  BY DEF Posted, Typed
<1>5. Range(r) \subseteq Msg /\ Range(z) = Range(s) \cup Range(r)
  BY <1>2, InRange, Concat
<1>6. /\ stored' \in [Msg -> RowState]
      /\ \A x \in Msg : stored'[x] = stored[x] \/ x \in Range(r)
  BY <1>5, Marked
<1>7. ASSUME NEW x \in Range(r)
      PROVE  /\ x \in Msg /\ sender[x].to = t /\ sender[x].pc = "accepted"
             /\ x \notin Range(inbox[t]) /\ Once(s, x)
             /\ x \notin early => x \notin Range(s)
  <2>1. x \in Msg /\ x \in Range(drained[t]) /\ x \in Waiting(t)
    BY <1>5 DEF Waiting
  <2>2. Copies(x, t)
    BY <2>1 DEF Posted
  <2>3. QED
    BY <1>2, <2>1, <2>2 DEF Copies
<1>8. Typed'
  BY <1>1, <1>3, <1>4, <1>6 DEF Posted, Typed
<1>9. ASSUME NEW u \in Task, pc'[u] \in Unread PROVE seeded'[u] = <<>>
  BY <1>1, <1>3, <1>9 DEF Posted
<1>10. ASSUME NEW x \in Msg PROVE Message(x)'
  <2>1. Message(x)
    BY DEF Posted
  <2>2. CASE x \in Range(r)
    <3>1. sender[x].to = t /\ sender[x].pc = "accepted" /\ x \in Range(seeded'[t])
      BY <1>3, <1>5, <1>7, <2>2
    <3>2. QED
      BY <1>1, <3>1 DEF Message, Kept
  <2>3. CASE stored'[x] = stored[x]
    <3>1. stored[x] = "delivered" => sender[x].to \in Task
      BY <2>1 DEF Message, Kept
    <3>2. stored'[x] = "delivered" => x \in Range(seeded'[sender[x].to])
      <4>1. CASE sender[x].to = t
        BY <1>2, <1>3, <1>5, <2>1, <2>3, <4>1 DEF Message
      <4>2. CASE sender[x].to # t
        BY <1>3, <2>1, <2>3, <3>1, <4>2 DEF Message
      <4>3. QED
        BY <4>1, <4>2
    <3>3. sender[x].pc \in Kept => sender[x].to \in Task
      BY <2>1 DEF Message, Kept
    <3>4. sender[x].pc \in Kept /\ pc'[sender[x].to] \in Unread => x \in early
      BY <1>1, <2>1, <3>3 DEF Message
    <3>5. QED
      BY <2>1, <2>3, <3>2, <3>4 DEF Message
  <2>4. QED
    BY <1>6, <2>2, <2>3
<1>11. ASSUME NEW x \in Msg, NEW u \in Task PROVE Copies(x, u)'
  <2>1. Copies(x, u)
    BY DEF Posted
  <2>2. CASE u # t
    BY <1>3, <1>4, <2>1, <2>2 DEF Copies, Waiting
  <2>3. CASE u = t
    <3>1. Once(<<>>, x) /\ Range(<<>>) = {}
      <4>1. <<>> \in Seq(Msg)
        OBVIOUS
      <4>2. QED
        BY <4>1, AtMost
    <3>2. CASE x \in Range(r)
      <4>1. Once(r, x) /\ Once(s, x) /\ (x \notin early => x \notin Range(s))
        BY <1>7, <3>2
      <4>2. Twice(z, x) /\ (x \notin early => Once(z, x))
        BY <1>2, <4>1, Concat
      <4>3. x \notin Range(inbox'[t]) /\ x \notin Waiting(t)'
        BY <1>4, <1>7, <3>1, <3>2 DEF Waiting
      <4>4. sender[x].to = t /\ sender[x].pc = "accepted"
        BY <1>7, <3>2
      <4>5. Once(inbox'[t], x) /\ Once(drained'[t], x)
        BY <1>4, <2>1, <2>3, <3>1 DEF Copies
      <4>6. QED
        BY <1>3, <2>3, <4>2, <4>3, <4>4, <4>5 DEF Copies, Kept
    <3>3. CASE x \notin Range(r)
      <4>1. /\ Once(s, x) => Once(z, x)
            /\ Twice(s, x) => Twice(z, x)
        BY <1>2, <3>3, Concat
      <4>2. x \in Range(z) <=> x \in Range(s)
        BY <1>5, <3>3
      <4>3. x \in Waiting(t)' => x \in Waiting(t)
        BY <1>4, <3>1 DEF Waiting
      <4>4. Once(inbox'[t], x) /\ Once(drained'[t], x) /\ x \notin Range(drained'[t])
        BY <1>4, <2>1, <2>3, <3>1 DEF Copies
      <4>5. QED
        BY <1>2, <1>3, <2>1, <2>3, <4>1, <4>2, <4>3, <4>4 DEF Copies
    <3>4. QED
      BY <3>2, <3>3
  <2>4. QED
    BY <2>2, <2>3
<1>12. QED
  BY <1>8, <1>9, <1>10, <1>11 DEF Posted

\* The steps that read the store or the messages taken out of the inbox.
LEMMA ReadPosted ==
    ASSUME Posted, NEW t \in Task,
           RecoverInbox(t) \/ RecoverFails(t) \/ SeedDrained(t) \/ SeedFails(t)
    PROVE  Posted'
<1>1. {"running", "ending", "done"} \subseteq DriverPc \ Unread
  BY DEF DriverPc, Unread
<1>2. Pending(t) \in SUBSET Msg
  BY DEF Pending
<1>3. \A s \in Listings(Pending(t)) :
         s \in Seq(Msg) /\ Range(s) = Pending(t) /\ \A x \in Msg : Once(s, x)
  BY <1>2, Listed
<1>4. CASE RecoverInbox(t)
  <2>1. PICK s \in Listings(Pending(t)) : seeded' = [seeded EXCEPT ![t] = @ \o s]
    BY <1>4 DEF RecoverInbox
  <2>2. s \in Seq(Msg) /\ Range(s) = Pending(t) /\ \A x \in Msg : Once(s, x)
    BY <1>3
  <2>3. /\ pc[t] = "rostered" /\ pc' = [pc EXCEPT ![t] = "running"]
        /\ stored' = Mark(Pending(t)) /\ UNCHANGED <<roster, inbox, drained, sender, early>>
    BY <1>4 DEF RecoverInbox
  <2>4. QED
    BY <1>1, <2>1, <2>2, <2>3, RecoveredPosted
<1>5. CASE RecoverFails(t)
  <2>1. /\ pc[t] = "rostered" /\ pc' = [pc EXCEPT ![t] = "done"]
        /\ UNCHANGED <<roster, inbox, drained, sender, early>>
    BY <1>5 DEF RecoverFails
  <2>2. PICK s \in Listings(Pending(t)) :
           \/ /\ \E k \in 0 .. Len(s) :
                    seeded' = [seeded EXCEPT ![t] = @ \o SubSeq(s, 1, k)]
              /\ stored' = stored
           \/ /\ seeded' = [seeded EXCEPT ![t] = @ \o s]
              /\ stored' = Mark(Pending(t))
    BY <1>5 DEF RecoverFails
  <2>3. s \in Seq(Msg) /\ Range(s) = Pending(t) /\ \A x \in Msg : Once(s, x)
    BY <1>3
  <2>4. CASE seeded' = [seeded EXCEPT ![t] = @ \o s] /\ stored' = Mark(Pending(t))
    BY <1>1, <2>1, <2>3, <2>4, RecoveredPosted
  <2>5. ASSUME NEW k \in 0 .. Len(s), seeded' = [seeded EXCEPT ![t] = @ \o SubSeq(s, 1, k)],
               stored' = stored
        PROVE  Posted'
    <3>1. PICK r \in Seq(Msg) : r = SubSeq(s, 1, k)
      BY <2>3, Prefix
    <3>2. Range(r) \subseteq Pending(t) /\ \A x \in Msg : Once(r, x)
      BY <2>3, <3>1, Prefix
    <3>3. seeded' = [seeded EXCEPT ![t] = @ \o r]
      BY <2>5, <3>1
    <3>4. QED
      BY <1>1, <2>1, <2>5, <3>2, <3>3, RecoveredPosted
  <2>6. QED
    BY <2>2, <2>4, <2>5
<1>6. PICK d \in Seq(Msg) : d = drained[t] /\ \A x \in Msg : Once(d, x)
  BY DEF Posted, Typed, Copies
<1>7. CASE SeedDrained(t)
  <2>1. /\ pc[t] = "draining" /\ pc' = [pc EXCEPT ![t] = "running"]
        /\ seeded' = [seeded EXCEPT ![t] = @ \o d] /\ stored' = Mark(Range(d))
        /\ drained' = [drained EXCEPT ![t] = <<>>]
        /\ UNCHANGED <<roster, inbox, sender, early>>
    BY <1>6, <1>7 DEF SeedDrained
  <2>2. QED
    BY <1>1, <1>6, <2>1, SeededPosted
<1>8. CASE SeedFails(t)
  <2>1. /\ pc[t] = "draining" /\ drained' = [drained EXCEPT ![t] = <<>>]
        /\ UNCHANGED <<roster, inbox, sender, early>>
    BY <1>8 DEF SeedFails
  <2>2. PICK k \in 0 .. Len(d) :
           /\ seeded' = [seeded EXCEPT ![t] = @ \o SubSeq(d, 1, k)]
           /\ \/ /\ stored' = Mark(Range(SubSeq(d, 1, k)))
                 /\ pc' = [pc EXCEPT ![t] = "running"]
              \/ /\ stored' = Mark(Range(SubSeq(d, 1, k))) \/ stored' = stored
                 /\ pc' = [pc EXCEPT ![t] = "ending"]
    BY <1>6, <1>8 DEF SeedFails
  <2>3. PICK r \in Seq(Msg) : r = SubSeq(d, 1, k)
    BY Prefix
  <2>4. Range(r) \subseteq Range(drained[t]) /\ \A x \in Msg : Once(r, x)
    BY <1>6, <2>3, Prefix
  <2>5. seeded' = [seeded EXCEPT ![t] = @ \o r]
    BY <2>2, <2>3
  <2>6. PICK v \in DriverPc \ Unread : pc' = [pc EXCEPT ![t] = v]
    BY <1>1, <2>2
  <2>7. stored' = stored \/ stored' = Mark(Range(r))
    BY <2>2, <2>3
  <2>8. QED
    BY <2>1, <2>4, <2>5, <2>6, <2>7, SeededPosted
<1>9. QED
  BY <1>4, <1>5, <1>7, <1>8

\* Every step keeps what is posted.
LEMMA NextPosted == Posted /\ [Next]_vars => Posted'
<1> SUFFICES ASSUME Posted, [Next]_vars PROVE Posted'
  OBVIOUS
<1>1. ASSUME NEW m \in Msg, NEW n \in Name, ResolveName(m, n) PROVE Posted'
  BY <1>1, ResolvePosted
<1>2. ASSUME NEW m \in Msg, SendStep(m) PROVE Posted'
  BY <1>2, StorePosted, PushPosted DEF SendStep
<1>3. ASSUME NEW t \in Task, RearmDecision(t) PROVE Posted'
  BY <1>3, RearmPosted
<1>4. ASSUME NEW t \in Task,
             RecoverInbox(t) \/ RecoverFails(t) \/ SeedDrained(t) \/ SeedFails(t)
      PROVE  Posted'
  BY <1>4, ReadPosted
<1>5. ASSUME NEW t \in Task,
             \/ RegisterName(t) \/ DriverPanics(t) \/ RemoveFromRoster(t) \/ Finalize(t)
             \/ Cancel(t)
      PROVE  Posted'
  BY <1>5, QuietSteps
<1>6. CASE UNCHANGED vars
  BY <1>6, Quiet DEF vars, Posted, Typed
<1>7. QED
  BY <1>1, <1>2, <1>3, <1>4, <1>5, <1>6 DEF Next, DriveStep

\* What the places of a message say of how often it was read.
LEMMA PostedRead == Posted => ReadExactly
<1> SUFFICES ASSUME Posted PROVE ReadExactly
  OBVIOUS
<1>1. ASSUME NEW m \in Msg, NEW t \in Task
      PROVE  /\ Times(m, t) \in Nat
             /\ Times(m, t) > 0 <=> m \in Range(seeded[t])
             /\ Once(seeded[t], m) => Times(m, t) <= 1
             /\ Twice(seeded[t], m) => Times(m, t) <= 2
  <2>1. PICK s \in Seq(Msg) : s = seeded[t]
    BY DEF Posted, Typed
  <2>2. QED
    BY <2>1, Counted DEF Times
<1>2. ASSUME NEW m \in Msg, stored[m] = "delivered" PROVE Times(m, sender[m].to) > 0
  <2>1. sender[m].to \in Task /\ m \in Range(seeded[sender[m].to])
    BY <1>2 DEF Posted, Message, Kept
  <2>2. QED
    BY <1>1, <2>1
<1>3. ASSUME NEW m \in Msg, NEW t \in Task
      PROVE  /\ Times(m, t) <= 2
             /\ Times(m, t) > 0 => sender[m].to = t
             /\ Times(m, t) = 2 => m \in early
  <2>1. Copies(m, t)
    BY DEF Posted
  <2>2. Twice(seeded[t], m) /\ (m \notin early => Once(seeded[t], m))
    BY <2>1 DEF Copies
  <2>3. m \in Range(seeded[t]) => sender[m].to = t
    BY <2>1 DEF Copies
  <2>4. QED
    BY <1>1, <2>2, <2>3
<1>4. QED
  BY <1>2, <1>3 DEF ReadExactly, AckedIsSeeded, ReadOnce

\* Whatever the number of tasks, messages, store errors and driver failures, and in
\* every order of a sender's store and push and the driver's recovery and drain: an
\* acknowledged message is in the transcript of the task its sender resolved, no
\* other task reads it, and only one stored before the driver's recovery can be read
\* twice, never more (drive_subagent, send_message).
THEOREM InboxReadExactly == Spec => []ReadExactly
<1>1. Init => Posted
  BY PostedInit
<1>2. Posted /\ [Next]_vars => Posted'
  BY NextPosted
<1>3. Posted => ReadExactly
  BY PostedRead
<1>4. QED
  BY <1>1, <1>2, <1>3, PTL DEF Spec

=============================================================================

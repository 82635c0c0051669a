-------------------------- MODULE ToolSchedulerProofs --------------------------
(***************************************************************************)
(* Theorems about ToolScheduler, for every set of turns, calls and keys,   *)
(* every nesting of turns and any size of the two semaphores.              *)
(***************************************************************************)
EXTENDS ToolScheduler, NaturalsInduction, WellFoundedInduction, TLAPS

Access == {"read", "write"}

\* What a call has is either nothing or claims and locks on keys.
Typed ==
    /\ pc \in [Call -> Pc]
    /\ DOMAIN need = Call /\ DOMAIN lockOf = Call
    /\ held \in [Call -> SUBSET Raw]
    /\ table \in [Raw -> Call \cup {NoCall}]
    /\ raced \subseteq Raw
    /\ \A c \in Call : DOMAIN need[c] \subseteq Raw /\ DOMAIN lockOf[c] \subseteq Raw
    /\ \A c \in Call : \A k \in DOMAIN lockOf[c] : lockOf[c][k] \in Call

-------------------------------------------------------------------------------
(* Facts about the operators.                                              *)

\* Claims and the order are about raw keys, and resolving is idempotent.
LEMMA KeyFacts ==
    /\ \A c \in Call : DOMAIN Claims[c] \subseteq Raw
    /\ Canon \in [Raw -> Raw]
    /\ Rank \in [Raw -> Nat]
    /\ \A k, l \in Raw : Rank[k] = Rank[l] => k = l
    /\ NoCall \notin Call
<1>1. ASSUME NEW c \in Call PROVE DOMAIN Claims[c] \subseteq Raw
  <2>1. PICK ks \in SUBSET Raw : Claims[c] \in [ks -> {"read", "write"}]
    BY SchedulerAssumption, Zenon DEF SchedulerAssumption
  <2>2. QED
    BY ONLY <2>1
<1>2. QED
  BY <1>1, SchedulerAssumption, Zenon DEF SchedulerAssumption

\* A batch is a sequence of calls, and no call is in two places.
LEMMA BatchFacts ==
    /\ Batch \in [Turn -> Seq(Call)]
    /\ \A t, u \in Turn : \A i \in DOMAIN Batch[t], j \in DOMAIN Batch[u] :
          Batch[t][i] = Batch[u][j] => t = u /\ i = j
BY SchedulerAssumption, Zenon DEF SchedulerAssumption

\* A set of keys has one that comes first.
LEMMA FirstKey ==
    ASSUME NEW S \in SUBSET Raw, S # {}
    PROVE  \E k \in S : \A l \in S : Rank[k] <= Rank[l]
<1> DEFINE T == {Rank[k] : k \in S}
<1>1. T \subseteq Nat /\ T # {}
  BY KeyFacts
<1>2. PICK x \in T : \A y \in T : ~ (<<y, x>> \in OpToRel(<, Nat))
  BY <1>1, NatLessThanWellFounded, WFMin, Zenon
<1>3. ASSUME NEW y \in T PROVE x <= y
  <2>1. y < x => <<y, x>> \in OpToRel(<, Nat)
    BY ONLY <1>1, x \in T, y \in T DEF OpToRel
  <2>2. ~(y < x)
    BY <1>2, <2>1
  <2>3. QED
    BY ONLY <1>1, <2>2, x \in T, y \in T
<1>4. PICK k \in S : x = Rank[k]
  OBVIOUS
<1>5. QED
  BY <1>3, <1>4

\* The key a call asks for next is the first that it needs and does not hold.
LEMMA NextKeyIsNeeded ==
    ASSUME Typed, NEW c \in Call, DOMAIN need[c] \ held[c] # {}
    PROVE  /\ NextKey(c) \in DOMAIN need[c] /\ NextKey(c) \notin held[c] /\ NextKey(c) \in Raw
           /\ \A l \in DOMAIN need[c] \ held[c] : Rank[NextKey(c)] <= Rank[l]
<1> DEFINE S == DOMAIN need[c] \ held[c]
<1>1. S \in SUBSET Raw /\ S # {}
  BY DEF Typed
<1>2. \E k \in S : \A l \in S : Rank[k] <= Rank[l]
  BY <1>1, FirstKey
<1>3. NextKey(c) \in S /\ \A l \in S : Rank[NextKey(c)] <= Rank[l]
  BY <1>2, Zenon DEF NextKey
<1>4. QED
  BY <1>1, <1>3

\* A nonempty set of numbers up to n has a largest one.
LEMMA LargestExists ==
    ASSUME NEW n \in Nat, NEW S \in SUBSET (1 .. n), S # {}
    PROVE  \E i \in S : \A j \in S : i >= j
<1> DEFINE T == {k \in Nat : n - k \in S}
<1>1. T \subseteq Nat /\ T # {}
  <2>1. PICK i \in S : TRUE
    OBVIOUS
  <2>2. i \in Int /\ n - i \in Nat /\ n - (n - i) = i
    BY ONLY <2>1, n \in Nat, S \in SUBSET (1 .. n)
  <2>3. n - i \in T
    BY ONLY <2>1, <2>2
  <2>4. QED
    BY <2>3
<1>2. PICK x \in T : \A y \in T : ~ (<<y, x>> \in OpToRel(<, Nat))
  BY <1>1, NatLessThanWellFounded, WFMin, Zenon
<1>3. ASSUME NEW y \in T PROVE x <= y
  <2>1. y < x => <<y, x>> \in OpToRel(<, Nat)
    BY ONLY <1>1, x \in T, y \in T DEF OpToRel
  <2>2. ~(y < x)
    BY <1>2, <2>1
  <2>3. QED
    BY ONLY <1>1, <2>2, x \in T, y \in T
<1>4. ASSUME NEW j \in S PROVE n - x >= j
  <2>1. j \in Int /\ n - j \in Nat /\ n - (n - j) = j /\ x \in Nat
    BY ONLY n \in Nat, S \in SUBSET (1 .. n), j \in S, x \in T
  <2>2. n - j \in T
    BY ONLY <2>1, j \in S
  <2>3. x <= n - j
    BY <1>3, <2>2
  <2>4. QED
    BY ONLY <2>1, <2>3, n \in Nat
<1>5. n - x \in S
  OBVIOUS
<1>6. QED
  BY <1>4, <1>5

\* The claims of a call survive their resolution: each key is claimed under its
\* own spelling or the canonical one, and a write stays a write.
LEMMA ResolvedKeeps ==
    ASSUME NEW c \in Call
    PROVE  /\ DOMAIN Resolved(c) \subseteq Raw
           /\ \A k \in DOMAIN Claims[c] : \E key \in DOMAIN Resolved(c) :
                 /\ key \in {k, Canon[k]}
                 /\ Claims[c][k] = "write" => Resolved(c)[key] = "write"
<1>1. DOMAIN Claims[c] \subseteq Raw
  BY KeyFacts
<1>2. \A k \in Raw : SchedulingKey(k) \in {k, Canon[k]} /\ SchedulingKey(k) \in Raw
  BY KeyFacts DEF SchedulingKey
<1>3. DOMAIN Resolved(c) = {SchedulingKey(k) : k \in DOMAIN Claims[c]}
  BY DEF Resolved
<1>4. ASSUME NEW k \in DOMAIN Claims[c]
      PROVE  /\ SchedulingKey(k) \in DOMAIN Resolved(c)
             /\ Claims[c][k] = "write" => Resolved(c)[SchedulingKey(k)] = "write"
  BY <1>3 DEF Resolved
<1>5. QED
  BY <1>1, <1>2, <1>3, <1>4

-------------------------------------------------------------------------------
(* Two calls that clash do not run at the same time.                       *)

\* Every claim of a call is among its resolved ones.
Claimed(c) ==
    \A k \in DOMAIN Claims[c] : \E key \in DOMAIN need[c] :
        /\ key \in {k, Canon[k]}
        /\ Claims[c][k] = "write" => need[c][key] = "write"

\* How far a call is tells what it holds; and the lock object it has for a key is
\* the one in the table, unless a live one was replaced there.
Locking(c) ==
    /\ held[c] \subseteq DOMAIN need[c] /\ held[c] \subseteq DOMAIN lockOf[c]
    /\ pc[c] \in {"idle", "turn", "ended"} => held[c] = {}
    /\ pc[c] \in {"locking", "absent", "lock"} => held[c] # DOMAIN need[c]
    /\ pc[c] = "lock" => NextKey(c) \in DOMAIN lockOf[c]
    /\ pc[c] \in {"global", "running"} => held[c] = DOMAIN need[c]
    /\ pc[c] \notin {"idle", "ended"} => Claimed(c)
    /\ \A k \in DOMAIN lockOf[c] \ raced : lockOf[c][k] = table[k]
    /\ \A k \in held[c], l \in DOMAIN need[c] \ held[c] : Rank[k] < Rank[l]

\* Two holders of one lock object are readers.
Readers(c, d) ==
    \A k \in held[c] \cap held[d] :
        lockOf[c][k] = lockOf[d][k] => need[c][k] # "write" /\ need[d][k] # "write"

Locked ==
    /\ Typed
    /\ \A c \in Call : Locking(c)
    /\ \A c, d \in Call : c # d => Readers(c, d)

\* What a call is after depends on its claims and on what it holds.
LEMMA SameNextKey ==
    ASSUME NEW c \in Call, need'[c] = need[c], held'[c] = held[c]
    PROVE  NextKey(c)' = NextKey(c)
BY Zenon DEF NextKey

\* A call keeps its locks in a step that leaves it, and the table entries of its
\* locks, as they are.
LEMMA LockingKept ==
    ASSUME NEW c \in Call, Locking(c), pc'[c] = pc[c], need'[c] = need[c],
           held'[c] = held[c], lockOf'[c] = lockOf[c], raced \subseteq raced',
           \A k \in DOMAIN lockOf[c] \ raced' : table'[k] = table[k]
    PROVE  Locking(c)'
<1>1. NextKey(c)' = NextKey(c)
  BY SameNextKey
<1>2. Claimed(c)' = Claimed(c)
  BY DEF Claimed
<1>3. QED
  BY <1>1, <1>2 DEF Locking

\* Two calls stay readers in a step that leaves both as they are.
LEMMA ReadersKept ==
    ASSUME NEW c \in Call, NEW d \in Call, Readers(c, d),
           need'[c] = need[c], held'[c] \subseteq held[c],
           \A k \in held'[c] : lockOf'[c][k] = lockOf[c][k],
           need'[d] = need[d], held'[d] \subseteq held[d],
           \A k \in held'[d] : lockOf'[d][k] = lockOf[d][k]
    PROVE  Readers(c, d)'
BY DEF Readers

\* Readers is symmetric.
LEMMA ReadersEither ==
    ASSUME NEW c \in Call, NEW d \in Call, Readers(c, d)
    PROVE  Readers(d, c)
BY DEF Readers

\* Locked is preserved by a step that is about one call c, if c's own part is.
LEMMA LockedFrame ==
    ASSUME Locked, Typed', NEW c \in Call, Locking(c)',
           \A d \in Call \ {c} : /\ pc'[d] = pc[d] /\ need'[d] = need[d]
                                 /\ held'[d] = held[d] /\ lockOf'[d] = lockOf[d],
           raced \subseteq raced',
           \A d \in Call \ {c} : \A k \in DOMAIN lockOf[d] \ raced' : table'[k] = table[k],
           \A d \in Call \ {c} : Readers(c, d)'
    PROVE  Locked'
<1>1. ASSUME NEW d \in Call PROVE Locking(d)'
  <2>1. CASE d = c
    BY <2>1
  <2>2. CASE d # c
    BY <2>2, LockingKept DEF Locked
  <2>3. QED
    BY <2>1, <2>2
<1>2. ASSUME NEW d \in Call, NEW e \in Call, d # e PROVE Readers(d, e)'
  <2>1. CASE d = c
    BY <1>2, <2>1
  <2>2. CASE e = c
    <3>1. Readers(c, d)'
      BY <1>2, <2>2
    <3>2. QED
      BY <2>2, <3>1 DEF Readers
  <2>3. CASE d # c /\ e # c
    BY <1>2, <2>3, ReadersKept DEF Locked
  <2>4. QED
    BY <2>1, <2>2, <2>3
<1>3. QED
  BY <1>1, <1>2 DEF Locked

\* At first no call has anything.
LEMMA InitLocked == Init => Locked
<1> SUFFICES ASSUME Init PROVE Locked
  OBVIOUS
<1>1. \A c \in Call : need[c] = <<>> /\ lockOf[c] = <<>> /\ held[c] = {} /\ pc[c] = "idle"
  BY DEF Init
<1>2. DOMAIN <<>> = {}
  OBVIOUS
<1>3. Typed
  BY <1>1, <1>2 DEF Init, Typed, Pc
<1>4. ASSUME NEW c \in Call PROVE Locking(c)
  BY <1>1, <1>2 DEF Locking
<1>5. \A c, d \in Call : Readers(c, d)
  BY <1>1 DEF Readers
<1>6. QED
  BY <1>3, <1>4, <1>5 DEF Locked

\* Locked does not mention the turns, the waits and the files.
LEMMA LockedUnchanged ==
    ASSUME Locked, UNCHANGED <<pc, need, lockOf, held, table, raced>>
    PROVE  Locked'
<1>1. Typed'
  BY DEF Locked, Typed
<1>2. \A c \in Call : Locking(c)'
  BY LockingKept DEF Locked
<1>3. \A c, d \in Call : c # d => Readers(c, d)'
  BY ReadersKept DEF Locked
<1>4. QED
  BY <1>1, <1>2, <1>3 DEF Locked

\* A call that begins has nothing yet; its claims are resolved.
LEMMA BeginLocked ==
    ASSUME Locked, NEW t \in Turn, NEW i \in DOMAIN Batch[t], Begin(t, i)
    PROVE  Locked'
<1> DEFINE c == Batch[t][i]
<1>1. c \in Call
  BY BatchFacts
<1>2. UNCHANGED <<lockOf, held, table, raced>> /\ pc[c] = "idle"
  BY DEF Begin
<1>3. \/ pc' = [pc EXCEPT ![c] = "ended"] /\ need' = need
      \/ pc' = [pc EXCEPT ![c] = "turn"] /\ need' = [need EXCEPT ![c] = Resolved(c)]
  BY DEF Begin, Move, Arrive
<1> HIDE DEF c
<1>4. pc \in [Call -> Pc] /\ DOMAIN need = Call /\ held[c] = {} /\ Locking(c)
  BY <1>1, <1>2 DEF Locked, Typed, Locking
<1>5. /\ pc' \in [Call -> Pc] /\ pc'[c] \in {"ended", "turn"}
      /\ DOMAIN need' = Call
      /\ \A d \in Call \ {c} : pc'[d] = pc[d] /\ need'[d] = need[d]
      /\ pc'[c] = "turn" => need'[c] = Resolved(c)
      /\ need'[c] \in {need[c], Resolved(c)}
  BY <1>1, <1>3, <1>4 DEF Pc
<1>6. DOMAIN Resolved(c) \subseteq Raw /\ (pc'[c] = "turn" => Claimed(c)')
  BY <1>1, <1>5, ResolvedKeeps DEF Claimed
<1>7. ASSUME NEW d \in Call PROVE DOMAIN need'[d] \subseteq Raw
  BY <1>5, <1>6 DEF Locked, Typed
<1>8. Typed'
  BY <1>2, <1>5, <1>7 DEF Locked, Typed
<1>9. Locking(c)'
  BY <1>2, <1>4, <1>5, <1>6 DEF Locking
<1>10. \A d \in Call \ {c} : Readers(c, d)'
  BY <1>2, <1>4 DEF Readers
<1>11. QED
  BY <1>1, <1>2, <1>5, <1>8, <1>9, <1>10, LockedFrame

\* A call that asks for a lock needs one.
LEMMA AskedKey ==
    ASSUME Locked, NEW c \in Call, pc[c] \in {"locking", "absent", "lock"}
    PROVE  /\ NextKey(c) \in DOMAIN need[c] /\ NextKey(c) \notin held[c] /\ NextKey(c) \in Raw
           /\ \A l \in DOMAIN need[c] \ held[c] : Rank[NextKey(c)] <= Rank[l]
<1>1. held[c] \subseteq DOMAIN need[c] /\ held[c] # DOMAIN need[c]
  BY DEF Locked, Locking
<1>2. QED
  BY <1>1, NextKeyIsNeeded DEF Locked

\* A call that has found or made a lock is still a reader of what it holds.
LEMMA AskedLocked ==
    ASSUME Locked, NEW c \in Call, pc[c] \in {"locking", "absent"}, NEW v \in Call,
           NEW k, k = NextKey(c),
           pc' = [pc EXCEPT ![c] = "lock"], need' = need, held' = held,
           lockOf' = [lockOf EXCEPT ![c] = Having(@, k, v)],
           table' = [table EXCEPT ![k] = v],
           raced' \in SUBSET Raw, raced \subseteq raced',
           k \in raced' \/ table[k] \in {v, NoCall}
    PROVE  Locked'
<1>1. k \in DOMAIN need[c] /\ k \notin held[c] /\ k \in Raw
  BY AskedKey
<1>2. pc \in [Call -> Pc] /\ DOMAIN lockOf = Call /\ table \in [Raw -> Call \cup {NoCall}]
  BY DEF Locked, Typed
<1>3. lockOf'[c] = Having(lockOf[c], k, v)
  BY <1>2
<1>4. /\ DOMAIN lockOf'[c] = {k} \cup DOMAIN lockOf[c]
      /\ lockOf'[c][k] = v
      /\ \A l \in DOMAIN lockOf[c] : l # k => lockOf'[c][l] = lockOf[c][l]
  BY <1>3 DEF Having
<1>5. /\ pc' \in [Call -> Pc] /\ pc'[c] = "lock" /\ DOMAIN lockOf' = Call
      /\ \A d \in Call \ {c} : pc'[d] = pc[d] /\ lockOf'[d] = lockOf[d]
  BY <1>2 DEF Pc
<1>6. table' \in [Raw -> Call \cup {NoCall}] /\ table'[k] = v
      /\ \A l \in Raw : l # k => table'[l] = table[l]
  BY <1>1, <1>2
<1>7. ASSUME NEW d \in Call, NEW l \in DOMAIN lockOf'[d] PROVE lockOf'[d][l] \in Call
  <2>1. \A m \in DOMAIN lockOf[d] : lockOf[d][m] \in Call
    BY DEF Locked, Typed
  <2>2. QED
    BY <2>1, <1>4, <1>5, <1>7
<1>8. Typed'
  <2>1. \A d \in Call : DOMAIN lockOf'[d] \subseteq Raw
    BY <1>1, <1>4, <1>5 DEF Locked, Typed
  <2>2. QED
    BY <1>5, <1>6, <1>7, <2>1 DEF Locked, Typed
<1>9. ASSUME NEW d \in Call, NEW l \in DOMAIN lockOf[d] \ raced' PROVE table'[l] = table[l]
  <2>1. lockOf[d][l] = table[l] /\ lockOf[d][l] \in Call
    BY <1>9 DEF Locked, Locking, Typed
  <2>2. table[l] # NoCall
    BY <2>1, KeyFacts
  <2>3. CASE l = k
    BY <1>6, <1>9, <2>2, <2>3
  <2>4. CASE l # k
    BY <1>2, <2>4
  <2>5. QED
    BY <2>3, <2>4
<1>10. Locking(c)'
  <2>1. NextKey(c)' = k
    BY SameNextKey
  <2>2. Claimed(c)'
    BY DEF Claimed, Locked, Locking
  <2>3. ASSUME NEW l \in DOMAIN lockOf'[c] \ raced' PROVE lockOf'[c][l] = table'[l]
    <3>1. CASE l = k
      BY <1>4, <1>6, <3>1
    <3>2. CASE l # k
      BY <1>4, <1>9, <2>3, <3>2 DEF Locked, Locking
    <3>3. QED
      BY <3>1, <3>2
  <2>4. QED
    BY <1>4, <1>5, <2>1, <2>2, <2>3 DEF Locked, Locking
<1>11. ASSUME NEW d \in Call \ {c} PROVE Readers(c, d)'
  <2>1. \A l \in held[c] : l \in DOMAIN lockOf[c] /\ l # k
    BY <1>1 DEF Locked, Locking
  <2>2. \A l \in held[c] : lockOf'[c][l] = lockOf[c][l]
    BY <2>1, <1>4
  <2>3. QED
    BY <2>2, <1>5, ReadersKept DEF Locked
<1>12. QED
  BY <1>5, <1>8, <1>9, <1>10, <1>11, LockedFrame

\* A lock that is found in the table is the one in the table.
LEMMA LookupLocked ==
    ASSUME Locked, NEW c \in Call, Lookup(c)
    PROVE  Locked'
<1> DEFINE k == NextKey(c)
<1>1. UNCHANGED <<need, held, table, raced>> /\ pc[c] = "locking"
  BY DEF Lookup
<1>2. k \in DOMAIN need[c] /\ k \notin held[c] /\ k \in Raw
  BY <1>1, AskedKey
<1>3. table \in [Raw -> Call \cup {NoCall}] /\ raced \subseteq Raw /\ pc \in [Call -> Pc]
  BY DEF Locked, Typed
<1>4. CASE /\ table[k] # NoCall
           /\ lockOf' = [lockOf EXCEPT ![c] = Having(@, k, table[k])]
           /\ pc' = [pc EXCEPT ![c] = "lock"]
  <2>1. table[k] \in Call /\ table' = [table EXCEPT ![k] = table[k]]
    BY <1>1, <1>2, <1>3, <1>4
  <2>2. QED
    BY <1>1, <1>3, <1>4, <2>1, AskedLocked
<1>5. CASE UNCHANGED lockOf /\ pc' = [pc EXCEPT ![c] = "absent"]
  <2>1. pc' \in [Call -> Pc] /\ pc'[c] = "absent" /\ \A d \in Call \ {c} : pc'[d] = pc[d]
    BY <1>3, <1>5 DEF Pc
  <2>2. Typed'
    BY <1>1, <1>5, <2>1 DEF Locked, Typed
  <2>3. Locking(c)'
    BY <1>1, <1>5, <2>1 DEF Locked, Locking, Claimed
  <2>4. \A d \in Call \ {c} : Readers(c, d)'
    BY <1>1, <1>5, ReadersKept DEF Locked
  <2>5. QED
    BY <1>1, <1>5, <2>1, <2>2, <2>3, <2>4, LockedFrame
<1>6. QED
  BY <1>4, <1>5 DEF Lookup, Arrive, Move

\* A lock that is put into the table is the one in the table; those who have
\* another lock for the key are on record.
LEMMA InsertLocked ==
    ASSUME Locked, NEW c \in Call, Insert(c)
    PROVE  Locked'
<1> DEFINE k == NextKey(c)
<1>1. /\ need' = need /\ held' = held /\ pc[c] = "absent"
      /\ table' = [table EXCEPT ![k] = c]
      /\ lockOf' = [lockOf EXCEPT ![c] = Having(@, k, c)]
      /\ pc' = [pc EXCEPT ![c] = "lock"]
      /\ raced' = IF table[k] # NoCall THEN raced \cup {k} ELSE raced
  BY DEF Insert, Arrive, Move
<1>2. k \in Raw
  BY <1>1, AskedKey
<1>3. raced \subseteq Raw
  BY DEF Locked, Typed
<1>4. raced' \in SUBSET Raw /\ raced \subseteq raced' /\ (k \in raced' \/ table[k] \in {c, NoCall})
  BY <1>1, <1>2, <1>3
<1>5. QED
  BY <1>1, <1>4, AskedLocked

\* A permit changes nothing of what a call holds.
LEMMA PermitLocked ==
    ASSUME Locked, NEW c \in Call, NEW to \in {"locking", "global", "running"},
           pc[c] \in {"turn", "global"}, pc' = [pc EXCEPT ![c] = to],
           UNCHANGED <<need, lockOf, held, table, raced>>,
           to = "locking" <=> held[c] # DOMAIN need[c]
    PROVE  Locked'
<1>1. pc \in [Call -> Pc]
  BY DEF Locked, Typed
<1>2. pc' \in [Call -> Pc] /\ pc'[c] = to /\ \A d \in Call \ {c} : pc'[d] = pc[d]
  BY <1>1 DEF Pc
<1>3. Typed'
  BY <1>2 DEF Locked, Typed
<1>4. Locking(c)'
  BY <1>2 DEF Locked, Locking, Claimed
<1>5. \A d \in Call \ {c} : Readers(c, d)'
  BY ReadersKept DEF Locked
<1>6. QED
  BY <1>2, <1>3, <1>4, <1>5, LockedFrame

\* A call with a turn permit holds nothing yet.
LEMMA GrantTurnLocked ==
    ASSUME Locked, NEW c \in Call, GrantTurn(c)
    PROVE  Locked'
<1>1. UNCHANGED <<need, lockOf, held, table, raced>> /\ pc[c] = "turn"
  BY DEF GrantTurn
<1>2. held[c] = {}
  BY <1>1 DEF Locked, Locking
<1>3. \/ DOMAIN need[c] = {} /\ pc' = [pc EXCEPT ![c] = "global"]
      \/ DOMAIN need[c] # {} /\ pc' = [pc EXCEPT ![c] = "locking"]
  BY DEF GrantTurn, GoOn, Arrive, Move
<1>4. QED
  BY <1>1, <1>2, <1>3, PermitLocked

\* A call with a global permit holds all it needs.
LEMMA GrantGlobalLocked ==
    ASSUME Locked, NEW c \in Call, GrantGlobal(c)
    PROVE  Locked'
<1>1. /\ UNCHANGED <<need, lockOf, held, table, raced>> /\ pc[c] = "global"
      /\ pc' = [pc EXCEPT ![c] = "running"]
  BY DEF GrantGlobal, Move
<1>2. held[c] = DOMAIN need[c]
  BY <1>1 DEF Locked, Locking
<1>3. QED
  BY <1>1, <1>2, PermitLocked

\* A lock is granted when every other holder of it is a reader and so is the call.
LEMMA GrantLockLocked ==
    ASSUME Locked, NEW c \in Call, GrantLock(c)
    PROVE  Locked'
<1> DEFINE k == NextKey(c)
<1>1. /\ UNCHANGED <<need, lockOf, table, raced>> /\ pc[c] = "lock"
      /\ held' = [held EXCEPT ![c] = @ \cup {k}]
  BY DEF GrantLock
<1>2. \/ DOMAIN need[c] = held[c] \cup {k} /\ pc' = [pc EXCEPT ![c] = "global"]
      \/ DOMAIN need[c] # held[c] \cup {k} /\ pc' = [pc EXCEPT ![c] = "locking"]
  BY DEF GrantLock, GoOn, Arrive, Move
<1>3. \A d \in Call : ~Blocks(d, c)
  <2>1. Free(c)
    BY DEF GrantLock, Grantable
  <2>2. QED
    BY <1>1, <2>1 DEF Free
<1>4. k \in DOMAIN need[c] /\ k \notin held[c] /\ k \in Raw
  BY <1>1, AskedKey
<1>5. k \in DOMAIN lockOf[c]
  BY <1>1 DEF Locked, Locking
<1>6. pc \in [Call -> Pc] /\ held \in [Call -> SUBSET Raw]
  BY DEF Locked, Typed
<1>7. /\ held' \in [Call -> SUBSET Raw] /\ held'[c] = held[c] \cup {k}
      /\ \A d \in Call \ {c} : held'[d] = held[d]
  BY <1>1, <1>4, <1>6
<1>8. /\ pc' \in [Call -> Pc] /\ pc'[c] \in {"global", "locking"}
      /\ pc'[c] = "global" <=> DOMAIN need[c] = held'[c]
      /\ \A d \in Call \ {c} : pc'[d] = pc[d]
  BY <1>2, <1>6, <1>7 DEF Pc
<1>9. Typed'
  BY <1>1, <1>7, <1>8 DEF Locked, Typed
<1>10. Locking(c)'
  <2>1. Claimed(c)'
    BY <1>1 DEF Locked, Locking, Claimed
  <2>2. ASSUME NEW l \in held'[c], NEW m \in DOMAIN need'[c] \ held'[c]
        PROVE  Rank[l] < Rank[m]
    <3>1. m \in DOMAIN need[c] \ held[c] /\ m # k /\ m \in Raw
      BY <1>1, <1>7, <2>2 DEF Locked, Typed
    <3>2. CASE l = k
      <4>1. Rank[k] <= Rank[m]
        BY <1>1, <3>1, AskedKey
      <4>2. QED
        BY <1>4, <3>1, <3>2, <4>1, KeyFacts
    <3>3. CASE l # k
      BY <1>7, <2>2, <3>1, <3>3 DEF Locked, Locking
    <3>4. QED
      BY <3>2, <3>3
  <2>3. QED
    BY <1>1, <1>4, <1>5, <1>7, <1>8, <2>1, <2>2 DEF Locked, Locking
<1>11. ASSUME NEW d \in Call \ {c} PROVE Readers(c, d)'
  <2>1. Readers(c, d)
    BY DEF Locked
  <2>2. ASSUME NEW l \in held'[c] \cap held'[d], lockOf[c][l] = lockOf[d][l]
        PROVE  need[c][l] # "write" /\ need[d][l] # "write"
    <3>1. CASE l = k
      BY <1>3, <1>7, <2>2, <3>1 DEF Blocks
    <3>2. CASE l # k
      BY <1>7, <2>1, <2>2, <3>2 DEF Readers
    <3>3. QED
      BY <3>1, <3>2
  <2>3. QED
    BY <1>1, <2>2 DEF Readers
<1>12. QED
  BY <1>1, <1>7, <1>8, <1>9, <1>10, <1>11, LockedFrame

\* A call that leaves takes no lock object of another call with it.
LEMMA ReleaseLocked ==
    ASSUME Locked, NEW c \in Call, Release(c), raced' = raced
    PROVE  Locked'
<1>1. /\ pc' = [pc EXCEPT ![c] = "ended"]
      /\ need' = [need EXCEPT ![c] = <<>>]
      /\ held' = [held EXCEPT ![c] = {}]
      /\ lockOf' = [lockOf EXCEPT ![c] = <<>>]
  BY DEF Release, Move
<1>2. table' = [k \in Raw |->
                   IF \E d \in Call \ {c} : k \in DOMAIN lockOf[d] /\ lockOf[d][k] = table[k]
                   THEN table[k] ELSE NoCall]
  BY DEF Release
<1>3. /\ pc \in [Call -> Pc] /\ held \in [Call -> SUBSET Raw]
      /\ DOMAIN need = Call /\ DOMAIN lockOf = Call
      /\ table \in [Raw -> Call \cup {NoCall}]
  BY DEF Locked, Typed
<1>4. /\ pc' \in [Call -> Pc] /\ pc'[c] = "ended"
      /\ held' \in [Call -> SUBSET Raw] /\ held'[c] = {}
      /\ DOMAIN need' = Call /\ DOMAIN lockOf' = Call
      /\ need'[c] = <<>> /\ lockOf'[c] = <<>>
      /\ \A d \in Call \ {c} : /\ pc'[d] = pc[d] /\ need'[d] = need[d]
                               /\ held'[d] = held[d] /\ lockOf'[d] = lockOf[d]
  BY <1>1, <1>3 DEF Pc
<1>5. table' \in [Raw -> Call \cup {NoCall}]
  BY <1>2, <1>3
<1>6. DOMAIN <<>> = {}
  OBVIOUS
<1>7. Typed'
  <2>1. \A d \in Call : DOMAIN need'[d] \subseteq Raw /\ DOMAIN lockOf'[d] \subseteq Raw
    BY <1>4, <1>6 DEF Locked, Typed
  <2>2. \A d \in Call : \A k \in DOMAIN lockOf'[d] : lockOf'[d][k] \in Call
    BY <1>4, <1>6 DEF Locked, Typed
  <2>3. QED
    BY <1>4, <1>5, <2>1, <2>2 DEF Locked, Typed
<1>8. Locking(c)'
  BY <1>4, <1>6 DEF Locking
<1>9. ASSUME NEW d \in Call \ {c}, NEW k \in DOMAIN lockOf[d] \ raced' PROVE table'[k] = table[k]
  <2>1. lockOf[d][k] = table[k] /\ lockOf[d][k] \in Call
    BY <1>9 DEF Locked, Locking, Typed
  <2>2. k \in Raw
    BY <1>9 DEF Locked, Typed
  <2>3. QED
    BY <1>2, <1>9, <2>1, <2>2
<1>10. \A d \in Call \ {c} : Readers(c, d)'
  BY <1>4 DEF Readers
<1>11. QED
  BY <1>4, <1>7, <1>8, <1>9, <1>10, LockedFrame

\* Every step keeps the locks in order.
LEMMA NextLocked == Locked /\ [Next]_vars => Locked'
<1> SUFFICES ASSUME Locked, [Next]_vars PROVE Locked'
  OBVIOUS
<1>1. ASSUME NEW t \in Turn, Start(t) PROVE Locked'
  BY <1>1, LockedUnchanged DEF Start
<1>2. ASSUME NEW t \in Turn, NextWave(t) PROVE Locked'
  BY <1>2, LockedUnchanged DEF NextWave
<1>3. ASSUME NEW t \in Turn, NEW i \in DOMAIN Batch[t], Begin(t, i) PROVE Locked'
  BY <1>3, BeginLocked
<1>4. ASSUME NEW c \in Call, CallStep(c) PROVE Locked'
  <2>1. CASE Lookup(c)
    BY <2>1, LookupLocked
  <2>2. CASE Insert(c)
    BY <2>2, InsertLocked
  <2>3. CASE GrantTurn(c)
    BY <2>3, GrantTurnLocked
  <2>4. CASE GrantLock(c)
    BY <2>4, GrantLockLocked
  <2>5. CASE GrantGlobal(c)
    BY <2>5, GrantGlobalLocked
  <2>6. CASE GiveUp(c)
    BY <2>6, ReleaseLocked DEF GiveUp
  <2>7. CASE End(c)
    BY <2>7, ReleaseLocked DEF End
  <2>8. QED
    BY <1>4, <2>1, <2>2, <2>3, <2>4, <2>5, <2>6, <2>7 DEF CallStep
<1>5. ASSUME NEW c \in Call, WriteFile(c) PROVE Locked'
  BY <1>5, LockedUnchanged DEF WriteFile
<1>6. ASSUME NEW t \in Cancellable, Cancel(t) PROVE Locked'
  BY <1>6, LockedUnchanged DEF Cancel
<1>7. CASE UNCHANGED vars
  BY <1>7, LockedUnchanged DEF vars
<1>8. QED
  BY <1>1, <1>2, <1>3, <1>4, <1>5, <1>6, <1>7 DEF Next, TurnStep

\* Two running calls that clash on a file both hold its canonical key when neither
\* is misspelt, and then they have the same lock object, one of them as a writer.
LEMMA LockedExcludes == Locked => Exclusion
<1> SUFFICES ASSUME Locked, NEW c \in Call, NEW d \in Call,
                    c # d, pc[c] = "running", pc[d] = "running", Conflict(c, d),
                    ~Misspelt(c), ~Misspelt(d),
                    raced \cap DOMAIN need[c] \cap DOMAIN need[d] = {}
             PROVE  FALSE
  BY DEF Exclusion
<1>1. PICK k \in DOMAIN Claims[c], l \in DOMAIN Claims[d] :
        Canon[k] = Canon[l] /\ "write" \in {Claims[c][k], Claims[d][l]}
  BY DEF Conflict
<1>2. Locking(c) /\ Locking(d) /\ Readers(c, d)
  BY DEF Locked
<1>3. Claimed(c) /\ Claimed(d) /\ held[c] = DOMAIN need[c] /\ held[d] = DOMAIN need[d]
  BY <1>2 DEF Locking
<1>4. PICK key \in DOMAIN need[c] :
        key \in {k, Canon[k]} /\ (Claims[c][k] = "write" => need[c][key] = "write")
  BY <1>3 DEF Claimed
<1>5. PICK yek \in DOMAIN need[d] :
        yek \in {l, Canon[l]} /\ (Claims[d][l] = "write" => need[d][yek] = "write")
  BY <1>3 DEF Claimed
<1>6. key = Canon[k] /\ yek = key
  BY <1>1, <1>4, <1>5 DEF Misspelt
<1>7. key \in held[c] \cap held[d] /\ key \notin raced
  BY <1>3, <1>4, <1>5, <1>6
<1>8. lockOf[c][key] = table[key] /\ lockOf[d][key] = table[key]
  BY <1>2, <1>7 DEF Locking
<1>9. need[c][key] # "write" /\ need[d][key] # "write"
  BY <1>2, <1>7, <1>8 DEF Readers
<1>10. QED
  BY <1>1, <1>4, <1>5, <1>6, <1>9

\* The keyed locks exclude: calls whose claims clash on what they really mean do
\* not run at the same time, except through a misspelt path or a lock object that
\* another call replaced while it was in use.
THEOREM SchedulerExcludes == Spec => []Exclusion
<1>1. Init => Locked
  BY InitLocked
<1>2. Locked /\ [Next]_vars => Locked'
  BY NextLocked
<1>3. Locked => Exclusion
  BY LockedExcludes
<1>4. QED
  BY <1>1, <1>2, <1>3, PTL DEF Spec

\* A call that asks for a lock holds only locks of a lower rank.
Ascending ==
    \A c \in Call : pc[c] \in {"locking", "absent", "lock"} =>
        \A k \in held[c] : Rank[k] < Rank[NextKey(c)]

\* Calls take their locks in one order, whatever order they name them in: no two
\* calls ever hold what the other asks for.  This is what keeps the waits for
\* locks free of cycles.
THEOREM SchedulerLocksAscend == Spec => []Ascending
<1>1. Init => Locked
  BY InitLocked
<1>2. Locked /\ [Next]_vars => Locked'
  BY NextLocked
<1>3. Locked => Ascending
  <2>1. ASSUME Locked, NEW c \in Call, pc[c] \in {"locking", "absent", "lock"},
               NEW k \in held[c]
        PROVE  Rank[k] < Rank[NextKey(c)]
    <3>1. NextKey(c) \in DOMAIN need[c] \ held[c]
      BY <2>1, AskedKey
    <3>2. QED
      BY <2>1, <3>1 DEF Locked, Locking
  <2>2. QED
    BY <2>1 DEF Ascending
<1>4. QED
  BY <1>1, <1>2, <1>3, PTL DEF Spec

-------------------------------------------------------------------------------
(* The order of a batch is kept.                                           *)

\* The calls before the current wave have ended, and those after it are idle.
Waved(t) ==
    \A i \in DOMAIN Batch[t] :
        /\ i < cursor[t] => pc[Batch[t][i]] = "ended"
        /\ pc[Batch[t][i]] # "idle" => turn[t] # "off" /\ (i < cursor[t] \/ i \in Wave(t))

InWaves ==
    /\ pc \in [Call -> Pc]
    /\ cursor \in [Turn -> Nat \ {0}]
    /\ DOMAIN turn = Turn
    /\ \A t \in Turn : Waved(t)

\* The conditions under which a later call joins a wave.
Joins(t, n) ==
    /\ n \in cursor[t] .. Len(Batch[t])
    /\ \A i \in cursor[t] .. n : ~Alone(Batch[t][i])
    /\ \A i, j \in cursor[t] .. n : i # j => ~Clash(Batch[t][i], Batch[t][j])

\* A wave is its first call and those that join it.
LEMMA WaveIs ==
    ASSUME NEW t \in Turn, NEW n
    PROVE  n \in Wave(t) <=> n = cursor[t] \/ Joins(t, n)
BY DEF Wave, Joins

\* The indices of a batch.
LEMMA BatchIndex ==
    ASSUME NEW t \in Turn
    PROVE  /\ Len(Batch[t]) \in Nat /\ DOMAIN Batch[t] = 1 .. Len(Batch[t])
           /\ \A i \in DOMAIN Batch[t] : Batch[t][i] \in Call
BY BatchFacts

\* A wave has no holes.
LEMMA WaveDown ==
    ASSUME NEW t \in Turn, cursor[t] \in Nat, NEW n \in Wave(t),
           NEW i \in Nat, cursor[t] <= i, i <= n
    PROVE  i \in Wave(t)
<1>1. CASE n = cursor[t]
  <2>1. i = n
    BY <1>1
  <2>2. QED
    BY <2>1
<1>2. CASE Joins(t, n)
  <2>1. Len(Batch[t]) \in Nat
    BY BatchIndex
  <2>2. n \in cursor[t] .. Len(Batch[t])
    BY <1>2 DEF Joins
  <2>3. i \in cursor[t] .. Len(Batch[t]) /\ \A j \in cursor[t] .. i : j \in cursor[t] .. n
    BY <2>1, <2>2
  <2>4. Joins(t, i)
    BY <1>2, <2>3, Zenon DEF Joins
  <2>5. QED
    BY <2>4, WaveIs
<1>3. QED
  BY <1>1, <1>2, WaveIs

\* A wave has a last call, and the next wave starts behind it.
LEMMA WaveMax ==
    ASSUME NEW t \in Turn, cursor[t] \in Nat \ {0}
    PROVE  /\ Max(Wave(t)) \in Wave(t) /\ Max(Wave(t)) \in Nat
           /\ cursor[t] <= Max(Wave(t))
           /\ \A n \in Wave(t) : n \in Nat /\ n <= Max(Wave(t))
<1> DEFINE top == cursor[t] + Len(Batch[t])
<1>1. Len(Batch[t]) \in Nat /\ top \in Nat
  BY BatchIndex
<1>2. ASSUME NEW n \in Wave(t) PROVE n \in 1 .. top
  <2>1. n = cursor[t] \/ n \in cursor[t] .. Len(Batch[t])
    BY WaveIs DEF Joins
  <2>2. QED
    BY <1>1, <2>1
<1>3. Wave(t) \in SUBSET (1 .. top) /\ cursor[t] \in Wave(t)
  BY <1>2, WaveIs
<1> HIDE DEF top
<1>4. \E i \in Wave(t) : \A j \in Wave(t) : i >= j
  BY <1>1, <1>3, LargestExists
<1>5. Max(Wave(t)) \in Wave(t) /\ \A j \in Wave(t) : Max(Wave(t)) >= j
  BY <1>4, Zenon DEF Max
<1>6. QED
  BY <1>1, <1>3, <1>5

\* A wave depends on where it starts and on which of its calls are refused.
LEMMA SameWave ==
    ASSUME NEW t \in Turn, cursor[t] \in Nat \ {0}, cursor'[t] = cursor[t],
           \A i \in DOMAIN Batch[t] : Batch[t][i] \in refused' <=> Batch[t][i] \in refused,
           NEW n \in Wave(t)
    PROVE  n \in Wave(t)'
<1>1. CASE n = cursor[t]
  BY <1>1 DEF Wave
<1>2. CASE Joins(t, n)
  <2>1. /\ n \in cursor[t] .. Len(Batch[t])
        /\ \A i \in cursor[t] .. n : ~Alone(Batch[t][i])
        /\ \A i, j \in cursor[t] .. n : i # j => ~Clash(Batch[t][i], Batch[t][j])
    BY <1>2 DEF Joins
  <2>2. \A i \in cursor[t] .. n : i \in DOMAIN Batch[t]
    BY <2>1, BatchIndex
  <2>3. \A i \in cursor[t] .. n : ~Alone(Batch[t][i])'
    BY <2>1, <2>2 DEF Alone
  <2>4. QED
    BY <2>1, <2>3 DEF Wave
<1>3. QED
  BY <1>1, <1>2, WaveIs

\* A turn keeps its waves in a step that leaves its cursor and its refused calls,
\* ends no wait of its calls before they begin, and undoes no end.
LEMMA WavedKept ==
    ASSUME InWaves, NEW t \in Turn, cursor'[t] = cursor[t],
           turn[t] # "off" => turn'[t] # "off",
           \A i \in DOMAIN Batch[t] : Batch[t][i] \in refused' <=> Batch[t][i] \in refused,
           \A i \in DOMAIN Batch[t] :
              /\ pc[Batch[t][i]] = "ended" => pc'[Batch[t][i]] = "ended"
              /\ pc[Batch[t][i]] = "idle" /\ pc'[Batch[t][i]] # "idle"
                    => turn'[t] # "off" /\ i \in Wave(t)
    PROVE  Waved(t)'
<1>1. Waved(t) /\ cursor[t] \in Nat \ {0}
  BY DEF InWaves
<1>2. \A n \in Wave(t) : n \in Wave(t)'
  BY <1>1, SameWave
<1>3. ASSUME NEW i \in DOMAIN Batch[t]
      PROVE  /\ i < cursor'[t] => pc'[Batch[t][i]] = "ended"
             /\ pc'[Batch[t][i]] # "idle"
                   => turn'[t] # "off" /\ (i < cursor'[t] \/ i \in Wave(t)')
  BY <1>1, <1>2 DEF Waved
<1>4. QED
  BY <1>3 DEF Waved

\* A step of a call that has begun and not ended: it does not become idle again.
LEMMA CallMoves ==
    ASSUME NEW c \in Call, CallStep(c)
    PROVE  /\ pc[c] \notin {"idle", "ended"}
           /\ \E to \in Pc \ {"idle"} : pc' = [pc EXCEPT ![c] = to]
           /\ UNCHANGED <<turn, cursor, refused>>
<1>1. CASE Lookup(c)
  BY <1>1 DEF Lookup, Arrive, Move, Pc
<1>2. CASE Insert(c)
  BY <1>2 DEF Insert, Arrive, Move, Pc
<1>3. CASE GrantTurn(c)
  BY <1>3 DEF GrantTurn, GoOn, Arrive, Move, Pc
<1>4. CASE GrantLock(c)
  BY <1>4 DEF GrantLock, GoOn, Arrive, Move, Pc
<1>5. CASE GrantGlobal(c)
  BY <1>5 DEF GrantGlobal, Move, Pc
<1>6. CASE GiveUp(c)
  BY <1>6 DEF GiveUp, Release, Move, Pc, Waits
<1>7. CASE End(c)
  BY <1>7 DEF End, Release, Move, Pc
<1>8. QED
  BY <1>1, <1>2, <1>3, <1>4, <1>5, <1>6, <1>7 DEF CallStep

\* At first every turn is off and every call idle.
LEMMA InitInWaves == Init => InWaves
<1> SUFFICES ASSUME Init PROVE InWaves
  OBVIOUS
<1>1. pc \in [Call -> Pc] /\ cursor \in [Turn -> Nat \ {0}] /\ DOMAIN turn = Turn
  BY DEF Init, Pc
<1>2. ASSUME NEW t \in Turn PROVE Waved(t)
  <2>1. DOMAIN Batch[t] = 1 .. Len(Batch[t]) /\ Len(Batch[t]) \in Nat
        /\ \A i \in DOMAIN Batch[t] : pc[Batch[t][i]] = "idle"
    BY BatchIndex DEF Init
  <2>2. cursor[t] = 1
    BY DEF Init
  <2>3. QED
    BY <2>1, <2>2 DEF Waved
<1>3. QED
  BY <1>1, <1>2 DEF InWaves

\* Hooks and the registry refuse calls of a turn before any of its calls begins.
LEMMA StartInWaves ==
    ASSUME InWaves, NEW t \in Turn, Start(t)
    PROVE  InWaves'
<1>1. /\ turn[t] = "off" /\ turn' = [turn EXCEPT ![t] = "open"]
      /\ UNCHANGED <<cursor, pc>>
  BY DEF Start
<1>2. PICK no \in SUBSET (CallsOf(t) \cap Refusable) : refused' = refused \cup no
  BY DEF Start
<1>3. DOMAIN turn = Turn /\ turn'[t] = "open" /\ DOMAIN turn' = Turn
      /\ \A u \in Turn : u # t => turn'[u] = turn[u]
  BY <1>1 DEF InWaves
<1>4. ASSUME NEW u \in Turn PROVE Waved(u)'
  <2>1. CASE u = t
    <3>1. \A i \in DOMAIN Batch[t] : pc[Batch[t][i]] = "idle" /\ ~(i < cursor[t])
      BY <1>1 DEF InWaves, Waved
    <3>2. QED
      BY <1>1, <2>1, <3>1 DEF Waved
  <2>2. CASE u # t
    <3>1. ASSUME NEW i \in DOMAIN Batch[u] PROVE Batch[u][i] \notin no
      <4>1. Batch[u][i] \notin CallsOf(t)
        BY <2>2, BatchFacts DEF CallsOf, Range
      <4>2. QED
        BY <4>1
    <3>2. \A i \in DOMAIN Batch[u] : Batch[u][i] \in refused' <=> Batch[u][i] \in refused
      BY <1>2, <3>1
    <3>3. QED
      BY <1>1, <1>3, <2>2, <3>2, WavedKept
  <2>3. QED
    BY <2>1, <2>2
<1>5. QED
  BY <1>1, <1>3, <1>4 DEF InWaves

\* The wave that is over ends where the next one starts.
LEMMA NextWaveInWaves ==
    ASSUME InWaves, NEW t \in Turn, NextWave(t)
    PROVE  InWaves'
<1> DEFINE last == Max(Wave(t))
           to == last + 1
<1>1. /\ turn[t] = "open" /\ \A i \in Wave(t) : pc[Batch[t][i]] = "ended"
      /\ cursor' = [cursor EXCEPT ![t] = to]
      /\ turn' = IF to > Len(Batch[t]) THEN [turn EXCEPT ![t] = "done"] ELSE turn
      /\ UNCHANGED <<refused, pc>>
  BY DEF NextWave
<1>2. cursor \in [Turn -> Nat \ {0}] /\ DOMAIN turn = Turn /\ Waved(t)
  BY DEF InWaves
<1>3. /\ last \in Wave(t) /\ last \in Nat /\ cursor[t] <= last
      /\ \A n \in Wave(t) : n \in Nat /\ n <= last
  BY <1>2, WaveMax
<1> HIDE DEF last
<1>4. /\ cursor' \in [Turn -> Nat \ {0}] /\ cursor'[t] = last + 1
      /\ \A u \in Turn : u # t => cursor'[u] = cursor[u]
  BY <1>1, <1>2, <1>3
<1>5. /\ DOMAIN turn' = Turn /\ turn'[t] # "off"
      /\ \A u \in Turn : u # t => turn'[u] = turn[u]
  BY <1>1, <1>2
<1>6. ASSUME NEW i \in DOMAIN Batch[t]
      PROVE  /\ i < cursor'[t] => pc[Batch[t][i]] = "ended"
             /\ pc[Batch[t][i]] # "idle" => i < cursor'[t]
  <2>1. i \in Nat /\ cursor[t] \in Nat
    BY <1>2, BatchIndex
  <2>2. CASE i < cursor[t]
    BY <1>2, <1>3, <1>4, <2>1, <2>2 DEF Waved
  <2>3. CASE cursor[t] <= i /\ i <= last
    <3>1. i \in Wave(t)
      BY <1>3, <2>1, <2>3, WaveDown
    <3>2. QED
      BY <1>1, <1>3, <1>4, <2>1, <2>3, <3>1
  <2>4. CASE last < i
    <3>1. i \notin Wave(t) /\ ~(i < cursor[t]) /\ ~(i < cursor'[t])
      BY <1>2, <1>3, <1>4, <2>1, <2>4
    <3>2. QED
      BY <1>2, <3>1 DEF Waved
  <2>5. QED
    BY <1>3, <2>1, <2>2, <2>3, <2>4
<1>7. ASSUME NEW u \in Turn PROVE Waved(u)'
  <2>1. CASE u = t
    BY <1>1, <1>5, <1>6, <2>1 DEF Waved
  <2>2. CASE u # t
    BY <1>1, <1>4, <1>5, <2>2, WavedKept
  <2>3. QED
    BY <2>1, <2>2
<1>8. QED
  BY <1>1, <1>4, <1>5, <1>7 DEF InWaves

\* A call begins in the wave of its own turn.
LEMMA BeginInWaves ==
    ASSUME InWaves, NEW t \in Turn, NEW i \in DOMAIN Batch[t], Begin(t, i)
    PROVE  InWaves'
<1> DEFINE c == Batch[t][i]
<1>1. c \in Call
  BY BatchIndex
<1>2. /\ turn[t] = "open" /\ i \in Wave(t) /\ pc[c] = "idle"
      /\ UNCHANGED <<turn, cursor, refused>>
  BY DEF Begin
<1>3. PICK to \in {"ended", "turn"} : pc' = [pc EXCEPT ![c] = to]
  BY DEF Begin, Move, Arrive
<1>4. pc' \in [Call -> Pc] /\ \A d \in Call : d # c => pc'[d] = pc[d]
  BY <1>1, <1>3 DEF InWaves, Pc
<1>5. ASSUME NEW u \in Turn PROVE Waved(u)'
  <2>1. ASSUME NEW j \in DOMAIN Batch[u]
        PROVE  /\ pc[Batch[u][j]] = "ended" => pc'[Batch[u][j]] = "ended"
               /\ pc[Batch[u][j]] = "idle" /\ pc'[Batch[u][j]] # "idle"
                     => turn'[u] # "off" /\ j \in Wave(u)
    <3>1. Batch[u][j] \in Call
      BY BatchIndex
    <3>2. Batch[u][j] = c => u = t /\ j = i
      BY BatchFacts
    <3>3. QED
      BY <1>2, <1>4, <3>1, <3>2
  <2>2. QED
    BY <1>2, <2>1, WavedKept
<1>6. QED
  BY <1>2, <1>4, <1>5 DEF InWaves

\* A call that goes on or ends has begun.
LEMMA CallInWaves ==
    ASSUME InWaves, NEW c \in Call, CallStep(c)
    PROVE  InWaves'
<1>1. pc[c] \notin {"idle", "ended"} /\ UNCHANGED <<turn, cursor, refused>>
  BY CallMoves
<1>2. PICK to \in Pc \ {"idle"} : pc' = [pc EXCEPT ![c] = to]
  BY CallMoves
<1>3. pc' \in [Call -> Pc] /\ pc'[c] # "idle" /\ \A d \in Call : d # c => pc'[d] = pc[d]
  BY <1>2 DEF InWaves
<1>4. ASSUME NEW u \in Turn PROVE Waved(u)'
  <2>1. ASSUME NEW j \in DOMAIN Batch[u]
        PROVE  /\ pc[Batch[u][j]] = "ended" => pc'[Batch[u][j]] = "ended"
               /\ pc[Batch[u][j]] = "idle" => pc'[Batch[u][j]] = "idle"
    <3>1. Batch[u][j] \in Call
      BY BatchIndex
    <3>2. QED
      BY <1>1, <1>3, <3>1
  <2>2. QED
    BY <1>1, <2>1, WavedKept
<1>5. QED
  BY <1>1, <1>3, <1>4 DEF InWaves

\* Every step keeps the waves in order.
LEMMA NextInWaves == InWaves /\ [Next]_vars => InWaves'
<1> SUFFICES ASSUME InWaves, [Next]_vars PROVE InWaves'
  OBVIOUS
<1>1. ASSUME UNCHANGED <<turn, cursor, refused, pc>> PROVE InWaves'
  <2>1. \A t \in Turn : Waved(t)'
    BY <1>1, WavedKept
  <2>2. QED
    BY <1>1, <2>1 DEF InWaves
<1>2. ASSUME NEW t \in Turn, Start(t) PROVE InWaves'
  BY <1>2, StartInWaves
<1>3. ASSUME NEW t \in Turn, NextWave(t) PROVE InWaves'
  BY <1>3, NextWaveInWaves
<1>4. ASSUME NEW t \in Turn, NEW i \in DOMAIN Batch[t], Begin(t, i) PROVE InWaves'
  BY <1>4, BeginInWaves
<1>5. ASSUME NEW c \in Call, CallStep(c) PROVE InWaves'
  BY <1>5, CallInWaves
<1>6. ASSUME NEW c \in Call, WriteFile(c) PROVE InWaves'
  BY <1>1, <1>6 DEF WriteFile
<1>7. ASSUME NEW t \in Cancellable, Cancel(t) PROVE InWaves'
  BY <1>1, <1>7 DEF Cancel
<1>8. CASE UNCHANGED vars
  BY <1>1, <1>8 DEF vars
<1>9. QED
  BY <1>2, <1>3, <1>4, <1>5, <1>6, <1>7, <1>8 DEF Next, TurnStep

\* Two calls of one wave do not depend on each other.
LEMMA WavesOrder == InWaves => OrderKept
<1> SUFFICES ASSUME InWaves, NEW t \in Turn,
                    NEW i \in DOMAIN Batch[t], NEW j \in DOMAIN Batch[t],
                    i < j, Ordered(Batch[t][i], Batch[t][j]), pc[Batch[t][j]] # "idle"
             PROVE  pc[Batch[t][i]] = "ended"
  BY Zenon DEF OrderKept
<1>1. Waved(t) /\ cursor[t] \in Nat \ {0}
  BY DEF InWaves
<1>2. i \in Nat /\ j \in Nat
  BY BatchIndex
<1>3. j < cursor[t] \/ j \in Wave(t)
  BY <1>1 DEF Waved
<1>4. CASE i < cursor[t]
  BY <1>1, <1>4 DEF Waved
<1>5. CASE cursor[t] <= i
  <2>1. j # cursor[t] /\ ~(j < cursor[t])
    BY <1>1, <1>2, <1>5
  <2>2. Joins(t, j)
    BY <1>3, <2>1, WaveIs
  <2>3. i \in cursor[t] .. j /\ j \in cursor[t] .. j /\ i # j
    BY <1>1, <1>2, <1>5
  <2>4. ~Alone(Batch[t][i]) /\ ~Alone(Batch[t][j]) /\ ~Clash(Batch[t][i], Batch[t][j])
    BY <2>2, <2>3 DEF Joins
  <2>5. QED
    BY <2>4 DEF Ordered, Alone, Clash
<1>6. QED
  BY <1>1, <1>2, <1>4, <1>5

\* The waves keep the order of the assistant message around mutations: a call that
\* writes what an earlier one names, or the other way round, and a barrier, begin
\* after the earlier call has its result.
THEOREM SchedulerKeepsOrder == Spec => []OrderKept
<1>1. Init => InWaves
  BY InitInWaves
<1>2. InWaves /\ [Next]_vars => InWaves'
  BY NextInWaves
<1>3. InWaves => OrderKept
  BY WavesOrder
<1>4. QED
  BY <1>1, <1>2, <1>3, PTL DEF Spec

=============================================================================

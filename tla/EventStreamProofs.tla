--------------------------- MODULE EventStreamProofs ---------------------------
(***************************************************************************)
(* Theorems about EventStream, for every finite set of publishers, every   *)
(* set of clients and sessions, any capacity, window and page size, and    *)
(* any number of events and faults.                                        *)
(***************************************************************************)
EXTENDS EventStream, FiniteSetTheorems, TLAPS

Cursor == Nat \cup {NoCursor}

\* A publisher that is idle has a session of no meaning.
PubRecord == [pc : PubPc, session : Session \cup {CHOOSE s \in Session : TRUE}, id : Nat]

ClientRecord == [pc : ClientPc, cursor : Cursor, after : Cursor, tip : Nat,
                 replay : Seq(Nat), high : Cursor]

PubTyped ==
    /\ counter \in Nat \cup {Unseeded}
    /\ lock \in Publisher \cup {NoPublisher}
    /\ pub \in [Publisher -> PubRecord]
    /\ drops \in Nat /\ collisions \in Nat

ClientTyped ==
    /\ chan \in [Client -> Seq(Nat)]
    /\ lagged \subseteq Client
    /\ client \in [Client -> ClientRecord]
    /\ seen \in [Client -> Seq(Nat)]
    /\ before \in [Client -> Nat]

-------------------------------------------------------------------------------
(* Numbers.                                                                *)

\* The rows that are stored and not yet broadcast.
Pending == {pub[p].id : p \in {q \in Publisher : pub[q].pc = "stored"}}

Detached == {p \in Publisher : pub[p].pc = "detached"}

\* Ids are dense.  One publisher is inside the lock, its id is the next one or, if
\* the counter is behind the table, taken; and so is that of a detached insertion.
Numbered ==
    /\ Tip \in Nat /\ DOMAIN log = 1 .. Tip
    /\ counter <= Tip
    /\ \A p \in Publisher : pub[p].pc \in {"locked", "seeded", "stored"} => lock = p
    /\ \A p \in Publisher : pub[p].pc \in {"seeded", "detached"} => pub[p].id \in 1 .. Tip + 1
    /\ \A p \in Publisher : pub[p].pc = "stored" =>
          /\ pub[p].id = Tip /\ Tip > 0
          /\ \A q \in Detached : pub[q].id <= Tip

\* The next publish will run into an id that is taken.
Stale ==
    \/ counter # Unseeded /\ counter < Tip /\ Pending = {}
    \/ \E p \in Publisher : pub[p].pc = "seeded" /\ pub[p].id <= Tip

\* Every collision, and every one that may come, is paid for by a drop.
Paid == collisions + Cardinality(Detached) + (IF Stale THEN 1 ELSE 0) <= drops

-------------------------------------------------------------------------------
(* Clients.                                                                *)

\* Frames come in the order of their ids, after every one that is in the table
\* when the client subscribes and before the one that is to be broadcast.
Channel(c) ==
    /\ \A k \in 1 .. Len(chan[c]) : chan[c][k] <= Tip
    /\ \A k \in 1 .. Len(chan[c]) : chan[c][k] # Transient =>
          /\ client[c].after <= chan[c][k]
          /\ \A j \in Pending : chan[c][k] < j
    /\ \A k, l \in 1 .. Len(chan[c]) :
          k < l /\ chan[c][k] # Transient /\ chan[c][l] # Transient => chan[c][k] < chan[c][l]

\* The cursor is the last id seen; the replay goes on from there.
Reading(c) ==
    LET cl == client[c] IN
    /\ cl.cursor = IF seen[c] = <<>> THEN NoCursor ELSE seen[c][Len(seen[c])]
    /\ cl.cursor <= Tip /\ cl.after <= cl.cursor /\ cl.tip <= Tip
    /\ IF seen[c] = <<>> THEN cl.tip = 0 /\ cl.replay = <<>> ELSE cl.cursor > 0
    /\ before[c] <= Len(seen[c])
    /\ cl.pc \in {"subscribed", "checked", "reading"} =>
          cl.after = cl.cursor /\ seen[c] # <<>> /\ Len(seen[c]) = before[c]
    /\ cl.pc \in {"off", "subscribed", "checked"} => cl.replay = <<>>
    /\ cl.pc = "streaming" /\ Len(seen[c]) = before[c] => cl.cursor = cl.after
    /\ \A k \in 1 .. Len(cl.replay) : cl.cursor < cl.replay[k] /\ cl.replay[k] <= cl.tip
    /\ \A k, l \in 1 .. Len(cl.replay) : k < l => cl.replay[k] < cl.replay[l]
    /\ IF cl.replay = <<>> THEN cl.high <= cl.cursor ELSE cl.high = cl.replay[Len(cl.replay)]

\* What the client has seen on this connection does not come again.
Once(c) ==
    LET cl == client[c] IN
    cl.pc = "streaming" /\ cl.replay = <<>> /\ Len(seen[c]) > before[c] =>
        /\ cl.cursor <= cl.high \/ \A j \in Pending : cl.cursor < j
        /\ \A k \in 1 .. Len(chan[c]) :
              chan[c][k] # Transient /\ chan[c][k] > cl.high => chan[c][k] > cl.cursor

Sorted(c) ==
    \A i, j \in 1 .. Len(seen[c]) :
        i < j => /\ seen[c][i] <= seen[c][j]
                 /\ i > before[c] => seen[c][i] < seen[c][j]

\* The replay leaves nothing out up to where it has got.
Replayed(c) ==
    LET cl == client[c] IN
    \A i \in DOMAIN log : Wanted(c, i) /\ cl.cursor < i =>
        /\ cl.pc = "reading" /\ cl.replay # <<>> /\ i <= cl.replay[Len(cl.replay)]
              => i \in Range(cl.replay)
        /\ cl.pc = "streaming" /\ seen[c] # <<>> /\ i <= cl.tip => i \in Range(cl.replay)

\* What is to come and will not be replayed is in the channel, or about to be.
Followed(c) ==
    LET cl == client[c] IN
    c \notin lagged /\ cl.pc # "off" =>
        \A i \in DOMAIN log \ orphan :
            \/ i \in Range(chan[c]) \cup Pending
            \/ /\ \A k \in 1 .. Len(chan[c]) : chan[c][k] # Transient => i <= chan[c][k]
               /\ (cl.pc \in {"reading", "streaming"} /\ seen[c] # <<>> /\ Wanted(c, i))
                     => i <= cl.tip \/ i <= cl.cursor

Gapless(c) ==
    \A i \in DOMAIN log :
        /\ seen[c] # <<>>
        /\ seen[c][1] < i /\ i <= client[c].cursor
        /\ Wanted(c, i)
        => i \in Range(seen[c]) \cup orphan

Serves(c) ==
    /\ Channel(c) /\ Reading(c) /\ Once(c) /\ Sorted(c)
    /\ Replayed(c) /\ Followed(c) /\ Gapless(c)

-------------------------------------------------------------------------------
(* The table.                                                              *)

\* The largest of the numbers up to n is n.
LEMMA LargestIs ==
    ASSUME NEW n \in Nat, NEW S, S = 1 .. n
    PROVE  (IF S = {} THEN 0 ELSE CHOOSE i \in S : \A j \in S : j <= i) = n
<1>1. CASE n = 0
  <2>1. S = {}
    BY <1>1
  <2>2. QED
    BY <1>1, <2>1
<1>2. CASE n # 0
  <2>1. n \in S /\ \A j \in S : j <= n
    BY <1>2
  <2>2. S # {} /\ \E i \in S : \A j \in S : j <= i
    BY <2>1
  <2>3. PICK t : t = CHOOSE i \in S : \A j \in S : j <= i
    OBVIOUS
  <2>4. t \in S /\ \A j \in S : j <= t
    BY <2>2, <2>3, Zenon
  <2>5. t \in Nat /\ t <= n /\ n <= t
    BY <2>1, <2>4
  <2>6. t = n
    BY <2>5
  <2>7. QED
    BY <2>2, <2>3, <2>6
<1>3. QED
  BY <1>1, <1>2

\* A row goes to the end of the table.
LEMMA InsertAtEnd ==
    ASSUME Tip \in Nat, DOMAIN log = 1 .. Tip,
           NEW i \in 1 .. Tip + 1, i \notin DOMAIN log, NEW s, Insert(i, s)
    PROVE  /\ i = Tip + 1 /\ Tip' = Tip + 1 /\ DOMAIN log' = 1 .. Tip + 1
           /\ \A j \in DOMAIN log : log'[j] = log[j]
<1>1. i = Tip + 1
  OBVIOUS
<1>2. DOMAIN log' = 1 .. Tip + 1 /\ \A j \in DOMAIN log : log'[j] = log[j]
  <2>1. DOMAIN log' = DOMAIN log \cup {i} /\ \A j \in DOMAIN log : log'[j] = log[j]
    BY DEF Insert
  <2>2. QED
    BY <1>1, <2>1
<1>3. Tip' = Tip + 1
  <2>1. PICK n \in Nat : n = Tip + 1
    OBVIOUS
  <2>2. DOMAIN log' = 1 .. n
    BY <1>2, <2>1, SMTT(40)
  <2>3. Tip' = n
    BY <2>2, LargestIs DEF Tip
  <2>4. QED
    BY <2>1, <2>3
<1>4. QED
  BY <1>1, <1>2, <1>3

\* The tip depends on the table alone.
LEMMA SameTip == ASSUME log' = log PROVE Tip' = Tip
BY DEF Tip

-------------------------------------------------------------------------------
(* Types.                                                                  *)

\* What a client and a publisher are when they do nothing.
LEMMA RestTyped == Idle \in PubRecord /\ Offline \in ClientRecord /\ Idle.pc = "idle"
BY DEF Idle, PubRecord, PubPc, Offline, ClientRecord, ClientPc, Cursor, NoCursor

\* A publisher changes and the others do not.
LEMMA PubSet ==
    ASSUME pub \in [Publisher -> PubRecord], NEW p \in Publisher, NEW r \in PubRecord,
           pub' = [pub EXCEPT ![p] = r]
    PROVE  /\ pub' \in [Publisher -> PubRecord] /\ pub'[p] = r
           /\ \A q \in Publisher : q # p => pub'[q] = pub[q]
OBVIOUS

\* The fields of a publisher's record.
LEMMA PubFields ==
    ASSUME NEW r \in PubRecord
    PROVE  r.pc \in PubPc /\ r.id \in Nat
BY DEF PubRecord

\* Every publisher step moves one publisher.
LEMMA PubMoves ==
    ASSUME PubTyped, Tip \in Nat, NEW p \in Publisher
    PROVE  /\ \A s \in Session : Lock(p, s) =>
                 /\ pub' \in [Publisher -> PubRecord] /\ pub'[p].pc = "locked"
                 /\ \A q \in Publisher : q # p => pub'[q] = pub[q]
           /\ Seed(p) =>
                 /\ pub' \in [Publisher -> PubRecord] /\ pub'[p].pc = "seeded"
                 /\ pub'[p].id = (IF counter = Unseeded THEN Tip ELSE counter) + 1
                 /\ \A q \in Publisher : q # p => pub'[q] = pub[q]
           /\ pub' = [pub EXCEPT ![p].pc = "stored"] =>
                 /\ pub' \in [Publisher -> PubRecord] /\ pub'[p].pc = "stored"
                 /\ pub'[p].id = pub[p].id
                 /\ \A q \in Publisher : q # p => pub'[q] = pub[q]
           /\ pub' = [pub EXCEPT ![p] = Idle] =>
                 /\ pub' \in [Publisher -> PubRecord] /\ pub'[p].pc = "idle"
                 /\ \A q \in Publisher : q # p => pub'[q] = pub[q]
           /\ pub' = [pub EXCEPT ![p] = [@ EXCEPT !.pc = "detached"]] =>
                 /\ pub' \in [Publisher -> PubRecord] /\ pub'[p].pc = "detached"
                 /\ pub'[p].id = pub[p].id
                 /\ \A q \in Publisher : q # p => pub'[q] = pub[q]
<1>1. pub \in [Publisher -> PubRecord] /\ counter \in Nat \cup {Unseeded}
  BY DEF PubTyped
<1>2. ASSUME NEW s \in Session, Lock(p, s)
      PROVE  /\ pub' \in [Publisher -> PubRecord] /\ pub'[p].pc = "locked"
             /\ \A q \in Publisher : q # p => pub'[q] = pub[q]
  <2>1. PICK r : r = [pc |-> "locked", session |-> s, id |-> 0]
    OBVIOUS
  <2>2. pub' = [pub EXCEPT ![p] = r]
    BY <1>2, <2>1 DEF Lock
  <2>3. r \in PubRecord /\ r.pc = "locked"
    BY <2>1 DEF PubRecord, PubPc
  <2>4. QED
    BY <1>1, <2>2, <2>3, PubSet
<1>3. ASSUME Seed(p)
      PROVE  /\ pub' \in [Publisher -> PubRecord] /\ pub'[p].pc = "seeded"
             /\ pub'[p].id = (IF counter = Unseeded THEN Tip ELSE counter) + 1
             /\ \A q \in Publisher : q # p => pub'[q] = pub[q]
  <2>1. PICK n : n = (IF counter = Unseeded THEN Tip ELSE counter) + 1
    OBVIOUS
  <2>2. n \in Nat
    BY <1>1, <2>1
  <2>3. pub' = [pub EXCEPT ![p].pc = "seeded", ![p].id = n]
    BY <1>3, <2>1, Zenon DEF Seed
  <2>4. QED
    BY ONLY <1>1, <2>1, <2>2, <2>3, p \in Publisher, ZenonT(60) DEF PubRecord, PubPc
<1>4. ASSUME pub' = [pub EXCEPT ![p].pc = "stored"]
      PROVE  /\ pub' \in [Publisher -> PubRecord] /\ pub'[p].pc = "stored"
             /\ pub'[p].id = pub[p].id
             /\ \A q \in Publisher : q # p => pub'[q] = pub[q]
  BY ONLY <1>1, <1>4, p \in Publisher DEF PubRecord, PubPc
<1>5. ASSUME pub' = [pub EXCEPT ![p] = Idle]
      PROVE  /\ pub' \in [Publisher -> PubRecord] /\ pub'[p].pc = "idle"
             /\ \A q \in Publisher : q # p => pub'[q] = pub[q]
  BY <1>1, <1>5, RestTyped
<1>6. ASSUME pub' = [pub EXCEPT ![p] = [@ EXCEPT !.pc = "detached"]]
      PROVE  /\ pub' \in [Publisher -> PubRecord] /\ pub'[p].pc = "detached"
             /\ pub'[p].id = pub[p].id
             /\ \A q \in Publisher : q # p => pub'[q] = pub[q]
  BY ONLY <1>1, <1>6, p \in Publisher DEF PubRecord, PubPc
<1>7. QED
  BY <1>2, <1>3, <1>4, <1>5, <1>6

-------------------------------------------------------------------------------
(* Publishing.                                                             *)

\* Where only one publisher can be in the lock, it decides what is pending and
\* whether an id is stale.
LEMMA OneHolder ==
    ASSUME NEW p \in Publisher,
           \A q \in Publisher : q # p => pub[q].pc \notin {"seeded", "stored"}
    PROVE  /\ Pending = IF pub[p].pc = "stored" THEN {pub[p].id} ELSE {}
           /\ Stale <=> \/ counter # Unseeded /\ counter < Tip /\ pub[p].pc # "stored"
                        \/ pub[p].pc = "seeded" /\ pub[p].id <= Tip
<1>1. Pending = IF pub[p].pc = "stored" THEN {pub[p].id} ELSE {}
  BY DEF Pending
<1>2. QED
  BY <1>1 DEF Stale

\* The same after a step.
LEMMA OneHolderNext ==
    ASSUME NEW p \in Publisher,
           \A q \in Publisher : q # p => pub'[q].pc \notin {"seeded", "stored"}
    PROVE  /\ Pending' = IF pub'[p].pc = "stored" THEN {pub'[p].id} ELSE {}
           /\ Stale' <=> \/ counter' # Unseeded /\ counter' < Tip' /\ pub'[p].pc # "stored"
                         \/ pub'[p].pc = "seeded" /\ pub'[p].id <= Tip'
<1>1. Pending' = IF pub'[p].pc = "stored" THEN {pub'[p].id} ELSE {}
  BY DEF Pending
<1>2. QED
  BY <1>1 DEF Stale

\* The detached insertions are finitely many.
LEMMA DetachedFinite == IsFiniteSet(Detached) /\ Cardinality(Detached) \in Nat
<1>1. Detached \subseteq Publisher /\ IsFiniteSet(Publisher)
  BY EventAssumption DEF EventAssumption, Detached
<1>2. IsFiniteSet(Detached)
  BY <1>1, FS_Subset
<1>3. QED
  BY <1>2, FS_CardinalityType

\* A step of one publisher adds at most one of them.
LEMMA DetachedStep ==
    ASSUME NEW p \in Publisher, \A q \in Publisher : q # p => pub'[q] = pub[q]
    PROVE  /\ Cardinality(Detached') \in Nat
           /\ (pub[p].pc = "detached" <=> pub'[p].pc = "detached")
                 => Cardinality(Detached') = Cardinality(Detached)
           /\ pub[p].pc # "detached" /\ pub'[p].pc = "detached"
                 => Cardinality(Detached') = Cardinality(Detached) + 1
           /\ pub[p].pc = "detached" /\ pub'[p].pc # "detached"
                 => Cardinality(Detached') = Cardinality(Detached) - 1
<1>1. IsFiniteSet(Detached) /\ Cardinality(Detached) \in Nat
  BY DetachedFinite
<1>2. CASE pub[p].pc = "detached" <=> pub'[p].pc = "detached"
  <2>1. Detached' = Detached
    BY <1>2 DEF Detached
  <2>2. QED
    BY <1>1, <1>2, <2>1
<1>3. CASE pub[p].pc # "detached" /\ pub'[p].pc = "detached"
  <2>1. Detached' = Detached \cup {p} /\ p \notin Detached
    BY <1>3 DEF Detached
  <2>2. Cardinality(Detached') = Cardinality(Detached) + 1
    BY <1>1, <2>1, FS_AddElement
  <2>3. QED
    BY <1>1, <1>3, <2>2
<1>4. CASE pub[p].pc = "detached" /\ pub'[p].pc # "detached"
  <2>1. Detached' = Detached \ {p} /\ p \in Detached
    BY <1>4 DEF Detached
  <2>2. /\ Cardinality(Detached') = Cardinality(Detached) - 1
        /\ IsFiniteSet(Detached')
    BY <1>1, <2>1, FS_RemoveElement
  <2>3. Cardinality(Detached') \in Nat
    BY <2>2, FS_CardinalityType
  <2>4. QED
    BY <1>1, <1>4, <2>2, <2>3
<1>5. QED
  BY <1>2, <1>3, <1>4

\* While one publisher is in the lock, or none, the others are idle or detached.
LEMMA Holding ==
    ASSUME PubTyped, Numbered, NEW p \in Publisher,
           lock = NoPublisher \/ pub[p].pc \in {"locked", "seeded", "stored"}
    PROVE  \A q \in Publisher : q # p => pub[q].pc \in {"idle", "detached"}
<1>1. lock \in {p, NoPublisher} /\ NoPublisher \notin Publisher
  BY EventAssumption DEF EventAssumption, Numbered
<1>2. ASSUME NEW q \in Publisher, q # p PROVE pub[q].pc \in {"idle", "detached"}
  <2>1. pub[q].pc \in PubPc
    BY PubFields DEF PubTyped
  <2>2. pub[q].pc \notin {"locked", "seeded", "stored"}
    BY <1>1, <1>2 DEF Numbered
  <2>3. QED
    BY <2>1, <2>2 DEF PubPc
<1>3. QED
  BY <1>2

\* Nothing is stored or sent.  A row that was to be broadcast no longer is only
\* when it is on record.
Quiet ==
    /\ log' = log /\ UNCHANGED <<chan, lagged, client, seen, before>>
    /\ orphan \subseteq orphan'
    /\ Pending' \subseteq Pending /\ Pending \subseteq Pending' \cup orphan'

\* A row is stored, to be broadcast or on record.
Grows ==
    /\ Tip' = Tip + 1 /\ DOMAIN log' = 1 .. Tip + 1
    /\ \A j \in DOMAIN log : log'[j] = log[j]
    /\ UNCHANGED <<chan, lagged, client, seen, before>>
    /\ orphan \subseteq orphan'
    /\ Pending = {} /\ Pending' \subseteq {Tip + 1} /\ Tip + 1 \in Pending' \cup orphan'

\* A frame is sent: a transient one, or the one that was to be broadcast.
Sends(f) ==
    /\ log' = log /\ Send(f) /\ UNCHANGED <<client, seen, before, orphan>>
    /\ \/ f = Transient /\ Pending' = Pending
       \/ f = Tip /\ Tip > 0 /\ Pending = {Tip} /\ Pending' = {}

Publishing == PubTyped /\ Numbered /\ Paid

\* A publisher gets the lock.
LEMMA LockPublishes ==
    ASSUME Publishing, NEW p \in Publisher, NEW s \in Session, Lock(p, s)
    PROVE  Publishing' /\ Quiet
<1>0. PubTyped /\ Numbered /\ Paid /\ Tip \in Nat
  BY DEF Publishing, Numbered
<1>1. /\ pub[p].pc = "idle" /\ lock = NoPublisher /\ lock' = p
      /\ UNCHANGED <<log, counter, chan, lagged, client, seen, before, orphan, drops, collisions>>
  BY DEF Lock, hist
<1>2. /\ pub' \in [Publisher -> PubRecord] /\ pub'[p].pc = "locked"
      /\ \A q \in Publisher : q # p => pub'[q] = pub[q]
  BY <1>0, PubMoves
<1>3. \A q \in Publisher : q # p => pub[q].pc \in {"idle", "detached"}
  BY <1>0, <1>1, Holding
<1>4. Tip' = Tip
  BY <1>1, SameTip
<1>5. Pending = {} /\ Pending' = {} /\ (Stale' <=> Stale)
  BY <1>1, <1>2, <1>3, <1>4, OneHolder, OneHolderNext
<1>6. Cardinality(Detached') = Cardinality(Detached)
  BY <1>1, <1>2, DetachedStep
<1>7. PubTyped'
  BY <1>0, <1>1, <1>2 DEF PubTyped
<1>8. Numbered'
  BY <1>0, <1>1, <1>2, <1>3, <1>4 DEF Numbered, Detached
<1>9. Paid'
  BY <1>0, <1>1, <1>5, <1>6 DEF Paid
<1>10. Quiet
  BY <1>1, <1>5 DEF Quiet
<1>11. QED
  BY <1>7, <1>8, <1>9, <1>10 DEF Publishing

\* It takes the next id, which is taken only if the counter is behind the table.
LEMMA SeedPublishes ==
    ASSUME Publishing, NEW p \in Publisher, Seed(p)
    PROVE  Publishing' /\ Quiet
<1>0. PubTyped /\ Numbered /\ Paid /\ Tip \in Nat /\ counter \in Nat \cup {Unseeded}
  BY DEF Publishing, PubTyped, Numbered
<1>1. /\ pub[p].pc = "locked"
      /\ UNCHANGED <<log, counter, lock, chan, lagged, client, seen, before, orphan, drops, collisions>>
  BY DEF Seed, hist
<1>2. /\ pub' \in [Publisher -> PubRecord] /\ pub'[p].pc = "seeded"
      /\ pub'[p].id = (IF counter = Unseeded THEN Tip ELSE counter) + 1
      /\ \A q \in Publisher : q # p => pub'[q] = pub[q]
  BY <1>0, PubMoves
<1>3. \A q \in Publisher : q # p => pub[q].pc \in {"idle", "detached"}
  BY <1>0, <1>1, Holding
<1>4. Tip' = Tip
  BY <1>1, SameTip
<1>5. counter <= Tip
  BY <1>0 DEF Numbered
<1>6. pub'[p].id \in 1 .. Tip + 1 /\ (pub'[p].id <= Tip => counter # Unseeded /\ counter < Tip)
  BY <1>0, <1>2, <1>5 DEF Unseeded
<1>7. Pending = {} /\ Pending' = {} /\ (Stale' => Stale)
  BY <1>1, <1>2, <1>3, <1>4, <1>6, OneHolder, OneHolderNext
<1>8. Cardinality(Detached') = Cardinality(Detached)
  BY <1>1, <1>2, DetachedStep
<1>9. PubTyped'
  BY <1>0, <1>1, <1>2 DEF PubTyped
<1>10. Numbered'
  BY <1>0, <1>1, <1>2, <1>3, <1>4, <1>6 DEF Numbered, Detached
<1>11. Paid'
  BY <1>0, <1>1, <1>7, <1>8, DetachedFinite DEF Paid, PubTyped
<1>12. Quiet
  BY <1>1, <1>7 DEF Quiet
<1>13. QED
  BY <1>9, <1>10, <1>11, <1>12 DEF Publishing

\* It gives the lock back with the counter emptied; a collision was paid for.
LEMMA GivesUpPublishes ==
    ASSUME Publishing, NEW p \in Publisher, pub[p].pc \in {"locked", "seeded"},
           pub' = [pub EXCEPT ![p] = Idle], lock' = NoPublisher, counter' = Unseeded,
           UNCHANGED <<log, chan, lagged, client, seen, before, orphan, drops>>,
           \/ collisions' = collisions
           \/ collisions' = collisions + 1 /\ pub[p].pc = "seeded" /\ pub[p].id \in DOMAIN log
    PROVE  Publishing' /\ Quiet
<1>0. /\ PubTyped /\ Numbered /\ Paid /\ Tip \in Nat /\ DOMAIN log = 1 .. Tip
      /\ drops \in Nat /\ collisions \in Nat
  BY DEF Publishing, PubTyped, Numbered
<1>2. /\ pub' \in [Publisher -> PubRecord] /\ pub'[p].pc = "idle"
      /\ \A q \in Publisher : q # p => pub'[q] = pub[q]
  BY <1>0, PubMoves
<1>3. \A q \in Publisher : q # p => pub[q].pc \in {"idle", "detached"}
  BY <1>0, Holding
<1>4. Tip' = Tip
  BY SameTip
<1>5. Pending = {} /\ Pending' = {} /\ ~Stale' /\ (collisions' = collisions + 1 => Stale)
  BY <1>0, <1>2, <1>3, <1>4, OneHolder, OneHolderNext
<1>6. Cardinality(Detached') = Cardinality(Detached)
  BY <1>2, DetachedStep
<1>7. PubTyped'
  BY <1>0, <1>2 DEF PubTyped
<1>8. Numbered'
  BY <1>0, <1>2, <1>3, <1>4 DEF Numbered, Detached, Unseeded
<1>9. Paid'
  BY <1>0, <1>5, <1>6, DetachedFinite DEF Paid
<1>10. Quiet
  BY <1>5 DEF Quiet
<1>11. QED
  BY <1>7, <1>8, <1>9, <1>10 DEF Publishing

\* A row is stored under an id that was free: the next one.
LEMMA StorePublishes ==
    ASSUME Publishing, NEW p \in Publisher, pub[p].pc = "seeded", pub[p].id \notin DOMAIN log,
           Insert(pub[p].id, pub[p].session),
           \/ pub' = [pub EXCEPT ![p].pc = "stored"] /\ UNCHANGED <<counter, lock, orphan>>
           \/ /\ pub' = [pub EXCEPT ![p] = Idle] /\ counter' = Unseeded /\ lock' = NoPublisher
              /\ orphan' = orphan \cup {pub[p].id},
           UNCHANGED <<chan, lagged, client, seen, before, drops, collisions>>
    PROVE  Publishing' /\ Grows
<1>0. /\ PubTyped /\ Numbered /\ Paid /\ Tip \in Nat /\ DOMAIN log = 1 .. Tip
      /\ drops \in Nat /\ collisions \in Nat
  BY DEF Publishing, PubTyped, Numbered
<1>1. /\ pub' \in [Publisher -> PubRecord] /\ pub'[p].pc \in {"idle", "stored"}
      /\ pub'[p].pc = "stored" => pub'[p].id = pub[p].id /\ orphan' = orphan
      /\ pub'[p].pc = "idle" => counter' = Unseeded /\ lock' = NoPublisher
                                /\ orphan' = orphan \cup {pub[p].id}
      /\ pub'[p].pc = "stored" => counter' = counter /\ lock' = lock
      /\ \A q \in Publisher : q # p => pub'[q] = pub[q]
  BY <1>0, PubMoves
<1>2. \A q \in Publisher : q # p => pub[q].pc \in {"idle", "detached"}
  BY <1>0, Holding
<1>3. pub[p].id \in 1 .. Tip + 1
  BY <1>0 DEF Numbered
<1>4. /\ pub[p].id = Tip + 1 /\ Tip' = Tip + 1 /\ DOMAIN log' = 1 .. Tip + 1
      /\ \A j \in DOMAIN log : log'[j] = log[j]
  BY <1>0, <1>3, InsertAtEnd
<1>5. /\ Pending = {} /\ ~Stale'
      /\ Pending' = IF pub'[p].pc = "stored" THEN {Tip + 1} ELSE {}
  BY <1>0, <1>1, <1>2, <1>4, OneHolder, OneHolderNext
<1>6. Cardinality(Detached') = Cardinality(Detached)
  BY <1>1, DetachedStep
<1>7. PubTyped'
  BY <1>0, <1>1 DEF PubTyped
<1>8. Numbered'
  <2>1. \A q \in Publisher : pub'[q].pc \in {"seeded", "detached"} => pub'[q].id \in 1 .. Tip + 1
    BY <1>0, <1>1, <1>2 DEF Numbered
  <2>2. \A q \in Publisher : pub'[q].pc \in {"seeded", "detached"} => pub'[q].id \in 1 .. Tip' + 1
    BY <1>0, <1>4, <2>1
  <2>3. counter' <= Tip'
    BY <1>0, <1>1, <1>4 DEF Numbered, Unseeded, PubTyped
  <2>4. \A q \in Publisher : pub'[q].pc \in {"locked", "seeded", "stored"} => lock' = q
    BY <1>0, <1>1, <1>2 DEF Numbered
  <2>5. ASSUME NEW q \in Publisher, pub'[q].pc = "stored"
        PROVE  pub'[q].id = Tip' /\ Tip' > 0 /\ \A r \in Detached' : pub'[r].id <= Tip'
    <3>1. q = p
      BY <1>1, <1>2, <2>5
    <3>2. pub'[q].id = Tip' /\ Tip' > 0
      BY <1>0, <1>1, <1>4, <2>5, <3>1
    <3>3. \A r \in Detached' : pub'[r].id <= Tip'
      BY <1>0, <1>4, <2>1 DEF Detached
    <3>4. QED
      BY <3>2, <3>3
  <2>6. QED
    BY <1>0, <1>4, <2>2, <2>3, <2>4, <2>5 DEF Numbered
<1>9. Paid'
  BY <1>0, <1>5, <1>6, DetachedFinite DEF Paid
<1>10. Grows
  BY <1>1, <1>4, <1>5 DEF Grows
<1>11. QED
  BY <1>7, <1>8, <1>9, <1>10 DEF Publishing

\* The counter is at the tip again when the frame is sent.
LEMMA BroadcastPublishes ==
    ASSUME Publishing, NEW p \in Publisher, Broadcast(p)
    PROVE  Publishing' /\ Sends(pub[p].id)
<1>0. /\ PubTyped /\ Numbered /\ Paid /\ Tip \in Nat /\ DOMAIN log = 1 .. Tip
      /\ drops \in Nat /\ collisions \in Nat
  BY DEF Publishing, PubTyped, Numbered
<1>1. /\ pub[p].pc = "stored" /\ counter' = pub[p].id /\ lock' = NoPublisher
      /\ pub' = [pub EXCEPT ![p] = Idle] /\ Send(pub[p].id)
      /\ UNCHANGED <<log, client, seen, before, orphan, drops, collisions>>
  BY DEF Broadcast, hist
<1>2. /\ pub' \in [Publisher -> PubRecord] /\ pub'[p].pc = "idle"
      /\ \A q \in Publisher : q # p => pub'[q] = pub[q]
  BY <1>0, <1>1, PubMoves
<1>3. \A q \in Publisher : q # p => pub[q].pc \in {"idle", "detached"}
  BY <1>0, <1>1, Holding
<1>4. Tip' = Tip
  BY <1>1, SameTip
<1>5. pub[p].id = Tip /\ Tip > 0
  BY <1>0, <1>1 DEF Numbered
<1>6. Pending = {Tip} /\ Pending' = {} /\ ~Stale'
  BY <1>0, <1>1, <1>2, <1>3, <1>4, <1>5, OneHolder, OneHolderNext
<1>7. Cardinality(Detached') = Cardinality(Detached)
  BY <1>1, <1>2, DetachedStep
<1>8. PubTyped'
  BY <1>0, <1>1, <1>2, <1>5 DEF PubTyped
<1>9. Numbered'
  BY <1>0, <1>1, <1>2, <1>3, <1>4, <1>5 DEF Numbered, Detached
<1>10. Paid'
  BY <1>0, <1>1, <1>6, <1>7, DetachedFinite DEF Paid
<1>11. Sends(pub[p].id)
  BY <1>1, <1>5, <1>6 DEF Sends
<1>12. QED
  BY <1>8, <1>9, <1>10, <1>11 DEF Publishing

\* A drop pays for the id that it leaves behind.
LEMMA DropPublishes ==
    ASSUME Publishing, NEW p \in Publisher, PublishDropped(p)
    PROVE  Publishing' /\ Quiet
<1>0. /\ PubTyped /\ Numbered /\ Paid /\ Tip \in Nat /\ DOMAIN log = 1 .. Tip
      /\ drops \in Nat /\ collisions \in Nat
  BY DEF Publishing, PubTyped, Numbered
<1>1. /\ pub[p].pc \in {"locked", "seeded", "stored"} /\ lock' = NoPublisher
      /\ orphan' = IF pub[p].pc = "stored" THEN orphan \cup {pub[p].id} ELSE orphan
      /\ drops' = drops + 1
      /\ UNCHANGED <<log, counter, chan, lagged, client, seen, before, collisions>>
  BY DEF PublishDropped
<1>2. /\ pub' \in [Publisher -> PubRecord]
      /\ pub[p].pc = "seeded" => pub'[p].pc = "detached" /\ pub'[p].id = pub[p].id
      /\ pub[p].pc # "seeded" => pub'[p].pc = "idle"
      /\ \A q \in Publisher : q # p => pub'[q] = pub[q]
  <2>1. CASE pub[p].pc = "seeded"
    <3>1. pub' = [pub EXCEPT ![p] = [@ EXCEPT !.pc = "detached"]]
      BY <2>1 DEF PublishDropped
    <3>2. QED
      BY <1>0, <2>1, <3>1, PubMoves
  <2>2. CASE pub[p].pc # "seeded"
    <3>1. pub' = [pub EXCEPT ![p] = Idle]
      BY <2>2 DEF PublishDropped
    <3>2. QED
      BY <1>0, <2>2, <3>1, PubMoves
  <2>3. QED
    BY <2>1, <2>2
<1>3. \A q \in Publisher : q # p => pub[q].pc \in {"idle", "detached"}
  BY <1>0, <1>1, Holding
<1>4. Tip' = Tip
  BY <1>1, SameTip
<1>5. /\ Pending = IF pub[p].pc = "stored" THEN {pub[p].id} ELSE {}
      /\ Pending' = {} /\ (Stale' => Stale \/ pub[p].pc = "stored")
  BY <1>0, <1>1, <1>2, <1>3, <1>4, OneHolder, OneHolderNext
<1>6. Cardinality(Detached') = IF pub[p].pc = "seeded" THEN Cardinality(Detached) + 1
                               ELSE Cardinality(Detached)
  BY <1>1, <1>2, DetachedStep
<1>7. PubTyped'
  BY <1>0, <1>1, <1>2 DEF PubTyped
<1>8. Numbered'
  BY <1>0, <1>1, <1>2, <1>3, <1>4 DEF Numbered, Detached
<1>9. Paid'
  BY <1>0, <1>1, <1>5, <1>6, DetachedFinite DEF Paid
<1>10. Quiet
  BY <1>1, <1>5 DEF Quiet
<1>11. QED
  BY <1>7, <1>8, <1>9, <1>10 DEF Publishing

\* A detached insertion makes the counter stale at most once.
LEMMA DetachedPublishes ==
    ASSUME Publishing, NEW p \in Publisher, DetachedInsert(p)
    PROVE  Publishing' /\ (Quiet \/ Grows)
<1>0. /\ PubTyped /\ Numbered /\ Paid /\ Tip \in Nat /\ DOMAIN log = 1 .. Tip
      /\ drops \in Nat /\ collisions \in Nat
  BY DEF Publishing, PubTyped, Numbered
<1>1. /\ pub[p].pc = "detached" /\ pub' = [pub EXCEPT ![p] = Idle]
      /\ UNCHANGED <<counter, lock, chan, lagged, client, seen, before, drops, collisions>>
  BY DEF DetachedInsert
<1>2. \/ /\ pub[p].id \notin DOMAIN log /\ Insert(pub[p].id, pub[p].session)
         /\ orphan' = orphan \cup {pub[p].id}
      \/ UNCHANGED <<log, orphan>>
  BY DEF DetachedInsert
<1>3. /\ pub' \in [Publisher -> PubRecord] /\ pub'[p].pc = "idle"
      /\ \A q \in Publisher : q # p => pub'[q] = pub[q]
  BY <1>0, <1>1, PubMoves
<1>4. Pending' = Pending
  <2>1. \A q \in Publisher : pub'[q].pc = "stored" <=> pub[q].pc = "stored"
    BY <1>1, <1>3
  <2>2. \A q \in Publisher : pub[q].pc = "stored" => pub'[q] = pub[q]
    BY <1>1, <1>3
  <2>3. QED
    BY <2>1, <2>2 DEF Pending
<1>5. Cardinality(Detached') = Cardinality(Detached) - 1 /\ Cardinality(Detached') \in Nat
  BY <1>1, <1>3, DetachedStep
<1>6. PubTyped'
  BY <1>0, <1>1, <1>3 DEF PubTyped
<1>7. Paid'
  BY <1>0, <1>1, <1>5, DetachedFinite DEF Paid
<1>8. CASE UNCHANGED <<log, orphan>>
  <2>1. Tip' = Tip
    BY <1>8, SameTip
  <2>2. Numbered'
    BY <1>0, <1>1, <1>3, <1>8, <2>1 DEF Numbered, Detached
  <2>3. Quiet
    BY <1>1, <1>4, <1>8 DEF Quiet
  <2>4. QED
    BY <1>6, <1>7, <2>2, <2>3 DEF Publishing
<1>9. CASE /\ pub[p].id \notin DOMAIN log /\ Insert(pub[p].id, pub[p].session)
           /\ orphan' = orphan \cup {pub[p].id}
  <2>1. pub[p].id \in 1 .. Tip + 1
    BY <1>0, <1>1 DEF Numbered
  <2>2. /\ pub[p].id = Tip + 1 /\ Tip' = Tip + 1 /\ DOMAIN log' = 1 .. Tip + 1
        /\ \A j \in DOMAIN log : log'[j] = log[j]
    BY <1>0, <1>9, <2>1, InsertAtEnd
  <2>3. \A q \in Publisher : pub[q].pc # "stored"
    BY <1>0, <1>1, <2>2 DEF Numbered, Detached
  <2>4. Pending = {}
    BY <2>3 DEF Pending
  <2>5. Numbered'
    <3>1. \A q \in Publisher : pub'[q].pc \in {"seeded", "detached"} => pub'[q].id \in 1 .. Tip' + 1
      BY <1>0, <1>3, <2>2 DEF Numbered
    <3>2. counter' <= Tip'
      BY <1>0, <1>1, <2>2 DEF Numbered, Unseeded, PubTyped
    <3>3. \A q \in Publisher : pub'[q].pc \in {"locked", "seeded", "stored"} => lock' = q
      BY <1>0, <1>1, <1>3 DEF Numbered
    <3>4. \A q \in Publisher : pub'[q].pc # "stored"
      BY <1>3, <2>3
    <3>5. QED
      BY <1>0, <2>2, <3>1, <3>2, <3>3, <3>4 DEF Numbered
  <2>6. Grows
    BY <1>1, <1>4, <1>9, <2>2, <2>4 DEF Grows
  <2>7. QED
    BY <1>6, <1>7, <2>5, <2>6 DEF Publishing
<1>10. QED
  BY <1>2, <1>8, <1>9

\* A transient frame leaves the table and the publishers alone.
LEMMA TransientPublishes ==
    ASSUME Publishing, PublishTransient
    PROVE  Publishing' /\ Sends(Transient)
<1>1. UNCHANGED <<log, counter, lock, pub, client, seen, before, orphan, drops, collisions>>
      /\ Send(Transient)
  BY DEF PublishTransient, hist
<1>2. Tip' = Tip
  BY <1>1, SameTip
<1>3. Pending' = Pending /\ Detached' = Detached
  BY <1>1 DEF Pending, Detached
<1>4. Publishing'
  BY <1>1, <1>2, <1>3 DEF Publishing, PubTyped, Numbered, Paid, Stale
<1>5. QED
  BY <1>1, <1>3, <1>4 DEF Sends

\* Every step of a publisher keeps the numbers, and does one of three things.
LEMMA PublisherStep ==
    ASSUME Publishing, NEW p \in Publisher,
           \/ \E s \in Session : Lock(p, s)
           \/ PublishStep(p) \/ SeedFails(p) \/ AppendFails(p) \/ PublishDropped(p)
    PROVE  Publishing' /\ (Quiet \/ Grows \/ Sends(pub[p].id))
<1>1. CASE \E s \in Session : Lock(p, s)
  BY <1>1, LockPublishes
<1>2. CASE Seed(p)
  BY <1>2, SeedPublishes
<1>3. CASE AppendWithId(p)
  <2>1. pub[p].pc = "seeded" /\ UNCHANGED <<chan, lagged, client, seen, before, orphan, drops>>
    BY <1>3 DEF AppendWithId
  <2>2. CASE /\ pub[p].id \notin DOMAIN log /\ Insert(pub[p].id, pub[p].session)
             /\ pub' = [pub EXCEPT ![p].pc = "stored"] /\ UNCHANGED <<counter, lock, collisions>>
    BY <2>1, <2>2, StorePublishes
  <2>3. CASE /\ pub[p].id \in DOMAIN log /\ pub' = [pub EXCEPT ![p] = Idle]
             /\ counter' = Unseeded /\ lock' = NoPublisher
             /\ collisions' = collisions + 1 /\ UNCHANGED log
    BY <2>1, <2>3, GivesUpPublishes
  <2>4. QED
    BY <1>3, <2>2, <2>3 DEF AppendWithId
<1>4. CASE Broadcast(p)
  BY <1>4, BroadcastPublishes
<1>5. CASE DetachedInsert(p)
  BY <1>5, DetachedPublishes
<1>6. CASE SeedFails(p)
  <2>1. /\ pub[p].pc = "locked" /\ pub' = [pub EXCEPT ![p] = Idle] /\ lock' = NoPublisher
        /\ counter' = Unseeded
        /\ UNCHANGED <<log, chan, lagged, client, seen, before, orphan, drops, collisions>>
    BY <1>6 DEF SeedFails, hist
  <2>2. QED
    BY <2>1, GivesUpPublishes
<1>7. CASE AppendFails(p)
  <2>1. /\ pub[p].pc = "seeded" /\ pub' = [pub EXCEPT ![p] = Idle] /\ lock' = NoPublisher
        /\ counter' = Unseeded
        /\ UNCHANGED <<chan, lagged, client, seen, before, drops, collisions>>
    BY <1>7 DEF AppendFails
  <2>2. CASE /\ pub[p].id \notin DOMAIN log /\ Insert(pub[p].id, pub[p].session)
             /\ orphan' = orphan \cup {pub[p].id}
    BY <2>1, <2>2, StorePublishes
  <2>3. CASE UNCHANGED <<log, orphan>>
    BY <2>1, <2>3, GivesUpPublishes
  <2>4. QED
    BY <1>7, <2>2, <2>3 DEF AppendFails
<1>8. CASE PublishDropped(p)
  BY <1>8, DropPublishes
<1>9. QED
  BY <1>1, <1>2, <1>3, <1>4, <1>5, <1>6, <1>7, <1>8 DEF PublishStep

\* The numbers do not depend on the clients.
LEMMA PublishingUnchanged ==
    ASSUME Publishing, UNCHANGED <<log, counter, lock, pub, drops, collisions>>
    PROVE  Publishing' /\ Pending' = Pending /\ Tip' = Tip
<1>1. Tip' = Tip
  BY SameTip
<1>2. Pending' = Pending /\ Detached' = Detached
  BY DEF Pending, Detached
<1>3. Publishing'
  BY <1>1, <1>2 DEF Publishing, PubTyped, Numbered, Paid, Stale
<1>4. QED
  BY <1>1, <1>2, <1>3

\* A new process has no publisher and no counter; the drops stay paid.
LEMMA RestartPublishes ==
    ASSUME Publishing, Restart
    PROVE  Publishing' /\ Pending' = {} /\ Tip' = Tip
<1>0. /\ PubTyped /\ Numbered /\ Paid /\ Tip \in Nat /\ DOMAIN log = 1 .. Tip
      /\ drops \in Nat /\ collisions \in Nat
  BY DEF Publishing, PubTyped, Numbered
<1>1. /\ counter' = Unseeded /\ lock' = NoPublisher /\ pub' = [p \in Publisher |-> Idle]
      /\ UNCHANGED <<log, drops, collisions>>
  BY DEF Restart, hist
<1>2. pub' \in [Publisher -> PubRecord] /\ \A p \in Publisher : pub'[p].pc = "idle"
  BY <1>1, RestTyped
<1>3. Tip' = Tip
  BY <1>1, SameTip
<1>4. Pending' = {} /\ Detached' = {} /\ ~Stale'
  BY <1>1, <1>2 DEF Pending, Detached, Stale
<1>5. PubTyped'
  BY <1>0, <1>1, <1>2 DEF PubTyped
<1>6. Numbered'
  BY <1>0, <1>1, <1>2, <1>3 DEF Numbered, Unseeded
<1>7. Paid'
  BY <1>0, <1>1, <1>4, DetachedFinite, FS_EmptySet DEF Paid
<1>8. QED
  BY <1>3, <1>4, <1>5, <1>6, <1>7 DEF Publishing

\* At first the table is empty.
LEMMA InitPublishing == Init => Publishing /\ Pending = {} /\ Tip = 0
<1> SUFFICES ASSUME Init PROVE Publishing /\ Pending = {} /\ Tip = 0
  OBVIOUS
<1>1. DOMAIN log = {}
  BY DEF Init
<1>2. Tip = 0 /\ DOMAIN log = 1 .. 0
  BY <1>1 DEF Tip
<1>3. pub \in [Publisher -> PubRecord] /\ \A p \in Publisher : pub[p].pc = "idle"
  BY RestTyped DEF Init
<1>4. Pending = {} /\ Detached = {} /\ ~Stale
  BY <1>3 DEF Pending, Detached, Stale, Init
<1>5. PubTyped
  BY <1>3 DEF PubTyped, Init
<1>6. Numbered
  BY <1>2, <1>3 DEF Numbered, Init, Unseeded
<1>7. Paid
  BY <1>4, FS_EmptySet DEF Paid, Init
<1>8. QED
  BY <1>2, <1>4, <1>5, <1>6, <1>7 DEF Publishing

-------------------------------------------------------------------------------
(* Serving: what the publishers do to a client.                            *)

Dense == Tip \in Nat /\ DOMAIN log = 1 .. Tip

\* The types of what a client has.
LEMMA ClientFields ==
    ASSUME ClientTyped, NEW c \in Client
    PROVE  /\ client[c].pc \in ClientPc /\ client[c].tip \in Nat /\ client[c].replay \in Seq(Nat)
           /\ client[c].cursor \in Int /\ client[c].after \in Int /\ client[c].high \in Int
           /\ seen[c] \in Seq(Nat) /\ chan[c] \in Seq(Nat) /\ before[c] \in Nat
<1>1. client[c] \in ClientRecord
  BY DEF ClientTyped
<1>2. /\ client[c].pc \in ClientPc /\ client[c].tip \in Nat /\ client[c].replay \in Seq(Nat)
      /\ client[c].cursor \in Cursor /\ client[c].after \in Cursor /\ client[c].high \in Cursor
  BY <1>1 DEF ClientRecord
<1>3. QED
  BY <1>2 DEF Cursor, NoCursor, ClientTyped

\* The last of a sequence of numbers.
LEMMA LastOf ==
    ASSUME NEW s \in Seq(Nat), s # <<>>
    PROVE  Len(s) \in 1 .. Len(s) /\ s[Len(s)] \in Nat
OBVIOUS

\* A client that a step leaves alone, with the table and what is pending.
LEMMA ServesKept ==
    ASSUME NEW c \in Client, Serves(c), client'[c] = client[c], chan'[c] = chan[c],
           seen'[c] = seen[c], before'[c] = before[c], c \in lagged' <=> c \in lagged,
           log' = log, orphan' = orphan, Pending' = Pending, Tip' = Tip
    PROVE  Serves(c)'
<1>1. Channel(c)'
  BY DEF Serves, Channel
<1>2. Reading(c)'
  BY DEF Serves, Reading
<1>3. Once(c)'
  BY DEF Serves, Once
<1>4. Sorted(c)'
  BY DEF Serves, Sorted
<1>5. Replayed(c)'
  BY DEF Serves, Replayed, Wanted
<1>6. Followed(c)'
  BY DEF Serves, Followed, Wanted
<1>7. Gapless(c)'
  BY DEF Serves, Gapless, Wanted
<1>8. QED
  BY <1>1, <1>2, <1>3, <1>4, <1>5, <1>6, <1>7 DEF Serves

\* Nothing new is stored or sent.
LEMMA QuietServes ==
    ASSUME NEW c \in Client, Serves(c), Quiet
    PROVE  Serves(c)'
<1>0. /\ client' = client /\ chan' = chan /\ seen' = seen /\ before' = before
      /\ lagged' = lagged /\ log' = log /\ Tip' = Tip
      /\ orphan \subseteq orphan' /\ Pending' \subseteq Pending /\ Pending \subseteq Pending' \cup orphan'
  BY SameTip DEF Quiet
<1>1. Channel(c)'
  BY <1>0 DEF Serves, Channel
<1>2. Reading(c)'
  BY <1>0 DEF Serves, Reading
<1>3. Once(c)'
  BY <1>0 DEF Serves, Once
<1>4. Sorted(c)'
  BY <1>0 DEF Serves, Sorted
<1>5. Replayed(c)'
  BY <1>0 DEF Serves, Replayed, Wanted
<1>6. Followed(c)'
  BY <1>0 DEF Serves, Followed, Wanted
<1>7. Gapless(c)'
  BY <1>0 DEF Serves, Gapless, Wanted
<1>8. QED
  BY <1>1, <1>2, <1>3, <1>4, <1>5, <1>6, <1>7 DEF Serves

\* A new row is beyond every cursor, replay and frame.
LEMMA GrowsServes ==
    ASSUME ClientTyped, Dense, NEW c \in Client, Serves(c), Grows
    PROVE  Serves(c)'
<1>0. /\ client' = client /\ chan' = chan /\ seen' = seen /\ before' = before
      /\ lagged' = lagged /\ Tip' = Tip + 1 /\ DOMAIN log' = 1 .. Tip + 1
      /\ \A j \in DOMAIN log : log'[j] = log[j]
      /\ orphan \subseteq orphan'
      /\ Pending = {} /\ Pending' \subseteq {Tip + 1} /\ Tip + 1 \in Pending' \cup orphan'
      /\ Tip \in Nat /\ DOMAIN log = 1 .. Tip
  BY DEF Grows, Dense
<1>00. /\ client[c].pc \in ClientPc /\ client[c].tip \in Nat /\ client[c].replay \in Seq(Nat)
       /\ client[c].cursor \in Int /\ client[c].after \in Int /\ client[c].high \in Int
       /\ seen[c] \in Seq(Nat) /\ chan[c] \in Seq(Nat) /\ before[c] \in Nat
  BY ClientFields
<1>01. client[c].cursor <= Tip /\ client[c].tip <= Tip /\ client[c].after <= client[c].cursor
  BY DEF Serves, Reading
<1>02. \A i \in DOMAIN log' : i \in DOMAIN log \/ i = Tip + 1
  BY <1>0
<1>03. \A i \in DOMAIN log : Wanted(c, i)' <=> Wanted(c, i)
  BY <1>0 DEF Wanted
<1>1. Channel(c)'
  <2>1. \A k \in 1 .. Len(chan[c]) : chan[c][k] \in Nat /\ chan[c][k] <= Tip
    BY <1>00, SMTT(40) DEF Serves, Channel
  <2>2. \A k \in 1 .. Len(chan[c]) : chan[c][k] <= Tip + 1 /\ chan[c][k] < Tip + 1
    BY <1>0, <2>1
  <2>3. QED
    BY <1>0, <2>2 DEF Serves, Channel
<1>2. Reading(c)'
  <2>1. client[c].cursor <= Tip + 1 /\ client[c].tip <= Tip + 1
    BY <1>0, <1>00, <1>01
  <2>2. QED
    BY <1>0, <2>1 DEF Serves, Reading
<1>3. Once(c)'
  <2>1. client[c].cursor < Tip + 1
    BY <1>0, <1>00, <1>01
  <2>2. QED
    BY <1>0, <2>1 DEF Serves, Once
<1>4. Sorted(c)'
  BY <1>0 DEF Serves, Sorted
<1>5. Replayed(c)'
  <2>1. ~(Tip + 1 <= client[c].tip)
    BY <1>0, <1>00, <1>01
  <2>2. client[c].replay # <<>> => ~(Tip + 1 <= client[c].replay[Len(client[c].replay)])
    <3>1. SUFFICES ASSUME client[c].replay # <<>>
                   PROVE  ~(Tip + 1 <= client[c].replay[Len(client[c].replay)])
      OBVIOUS
    <3>2. PICK rp \in Seq(Nat) : rp = client[c].replay
      BY <1>00
    <3>3. \A k \in 1 .. Len(rp) : rp[k] <= client[c].tip
      BY <3>2 DEF Serves, Reading
    <3>4. PICK n : n = rp[Len(rp)]
      OBVIOUS
    <3>5. n \in Nat /\ n <= client[c].tip
      BY ONLY <3>1, <3>2, <3>3, <3>4, LastOf
    <3>6. ~(Tip + 1 <= n)
      BY <1>0, <1>00, <1>01, <3>5
    <3>7. QED
      BY <3>2, <3>4, <3>6
  <2>3. QED
    BY <1>0, <1>02, <1>03, <2>1, <2>2 DEF Serves, Replayed
<1>6. Followed(c)'
  BY <1>0, <1>02, <1>03 DEF Serves, Followed
<1>7. Gapless(c)'
  <2>1. ~(Tip + 1 <= client[c].cursor)
    BY <1>0, <1>00, <1>01
  <2>2. QED
    BY <1>0, <1>02, <1>03, <2>1 DEF Serves, Gapless
<1>8. QED
  BY <1>1, <1>2, <1>3, <1>4, <1>5, <1>6, <1>7 DEF Serves

\* A receiver u holds what s held, less the first o frames, and f.
Shift(u, s, f, o) ==
    /\ Len(u) + o = Len(s) + 1
    /\ o = 0 => u = Append(s, f)
    /\ u[Len(u)] = f
    /\ \A k \in 1 .. Len(u) - 1 : k + o \in 1 .. Len(s) /\ u[k] = s[k + o]

\* What a full or other receiver holds after a frame was sent.
LEMMA Received ==
    ASSUME NEW s \in Seq(Nat), NEW f \in Nat, NEW u,
           u = Append(s, f) \/ (s # <<>> /\ u = Append(Tail(s), f))
    PROVE  u \in Seq(Nat) /\ \E o \in {0, 1} : Shift(u, s, f, o)
<1>1. CASE u = Append(s, f)
  <2>1. /\ u \in Seq(Nat) /\ Len(u) = Len(s) + 1 /\ u[Len(s) + 1] = f /\ Len(s) \in Nat
        /\ \A k \in 1 .. Len(s) : u[k] = s[k]
    BY <1>1
  <2>2. Len(u) + 0 = Len(s) + 1 /\ u[Len(u)] = f
    BY <2>1
  <2>3. ASSUME NEW k \in 1 .. Len(u) - 1 PROVE k + 0 \in 1 .. Len(s) /\ u[k] = s[k + 0]
    <3>1. k + 0 = k /\ k \in 1 .. Len(s)
      BY <2>1
    <3>2. QED
      BY <2>1, <3>1
  <2>4. Shift(u, s, f, 0)
    BY <1>1, <2>2, <2>3 DEF Shift
  <2>5. QED
    BY <2>1, <2>4
<1>2. CASE s # <<>> /\ u = Append(Tail(s), f)
  <2>0. Tail(s) \in Seq(Nat)
    BY ONLY <1>2, s \in Seq(Nat)
  <2>1. PICK t \in Seq(Nat) : t = Tail(s)
    BY <2>0, Zenon
  <2>2. Len(t) + 1 = Len(s) /\ Len(t) \in Nat /\ \A k \in 1 .. Len(t) : t[k] = s[k + 1]
    BY <1>2, <2>1
  <2>3. u \in Seq(Nat) /\ Len(u) = Len(t) + 1 /\ u[Len(u)] = f
        /\ \A k \in 1 .. Len(t) : u[k] = t[k]
    BY <1>2, <2>1
  <2>4. Len(u) + 1 = Len(s) + 1
    BY <2>2, <2>3
  <2>5. \A k \in 1 .. Len(u) - 1 : k + 1 \in 1 .. Len(s) /\ u[k] = s[k + 1]
    BY <2>2, <2>3
  <2>6. Shift(u, s, f, 1)
    BY <2>3, <2>4, <2>5 DEF Shift
  <2>7. QED
    BY <2>3, <2>6
<1>3. QED
  BY <1>1, <1>2

\* The receivers after a frame was sent.
LEMMA SendMoves ==
    ASSUME ClientTyped, NEW f \in Nat, Send(f), NEW c \in Client
    PROVE  /\ chan' \in [Client -> Seq(Nat)] /\ lagged' \subseteq Client
           /\ client[c].pc = "off" => chan'[c] = <<>>
           /\ client[c].pc # "off" =>
                 \/ chan'[c] = Append(chan[c], f) /\ (c \in lagged' <=> c \in lagged)
                 \/ chan[c] # <<>> /\ chan'[c] = Append(Tail(chan[c]), f) /\ c \in lagged'
<1> DEFINE Full == {d \in Client : client[d].pc # "off" /\ Len(chan[d]) = Cap}
<1>1. chan \in [Client -> Seq(Nat)] /\ lagged \subseteq Client /\ Cap \in Nat \ {0}
  BY EventAssumption DEF ClientTyped, EventAssumption
<1>2. /\ chan' = [d \in Client |->
                    IF d \in Full THEN Append(Tail(chan[d]), f)
                    ELSE IF client[d].pc # "off" THEN Append(chan[d], f) ELSE <<>>]
      /\ lagged' = lagged \cup Full
  BY DEF Send
<1>3. ASSUME NEW d \in Client, d \in Full PROVE chan[d] # <<>> /\ Tail(chan[d]) \in Seq(Nat)
  <2>1. PICK s \in Seq(Nat) : s = chan[d]
    BY <1>1
  <2>2. Len(s) = Cap
    BY <1>3, <2>1
  <2>3. s # <<>> /\ Tail(s) \in Seq(Nat)
    BY ONLY <1>1, <2>2, s \in Seq(Nat)
  <2>4. QED
    BY <2>1, <2>3
<1> HIDE DEF Full
<1>4. ASSUME NEW d \in Client PROVE chan'[d] \in Seq(Nat)
  <2>1. PICK s \in Seq(Nat) : s = chan[d]
    BY <1>1
  <2>2. CASE d \in Full
    <3>1. PICK t \in Seq(Nat) : t = Tail(chan[d])
      BY <1>3, <2>2
    <3>2. chan'[d] = Append(t, f)
      BY <1>2, <2>2, <3>1
    <3>3. QED
      BY <3>2
  <2>3. CASE d \notin Full
    <3>1. chan'[d] = Append(s, f) \/ chan'[d] = <<>>
      BY <1>2, <2>1, <2>3
    <3>2. Append(s, f) \in Seq(Nat) /\ <<>> \in Seq(Nat)
      OBVIOUS
    <3>3. QED
      BY <3>1, <3>2
  <2>4. QED
    BY <2>2, <2>3
<1>5. chan' \in [Client -> Seq(Nat)] /\ lagged' \subseteq Client
  <2>1. Full \subseteq Client
    BY DEF Full
  <2>2. chan' \in [Client -> Seq(Nat)]
    BY ONLY <1>2, <1>4
  <2>3. QED
    BY <1>1, <1>2, <2>1, <2>2
<1>6. client[c].pc = "off" => c \notin Full
  BY DEF Full
<1>7. QED
  BY <1>2, <1>3, <1>5, <1>6

\* A frame that is sent comes after those in the channel, and is not below the
\* cursor; a receiver that is not lagged has it.
LEMMA SendServes ==
    ASSUME ClientTyped, Dense, NEW c \in Client, Serves(c), NEW f \in Nat, Sends(f)
    PROVE  Serves(c)'
<1>0. /\ client' = client /\ seen' = seen /\ before' = before /\ orphan' = orphan
      /\ log' = log /\ Tip' = Tip /\ Send(f) /\ Tip \in Nat /\ DOMAIN log = 1 .. Tip
  BY SameTip DEF Sends, Dense
<1>00. /\ client[c].pc \in ClientPc /\ client[c].tip \in Nat /\ client[c].replay \in Seq(Nat)
       /\ client[c].cursor \in Int /\ client[c].after \in Int /\ client[c].high \in Int
       /\ seen[c] \in Seq(Nat) /\ chan[c] \in Seq(Nat) /\ before[c] \in Nat
  BY ClientFields
<1>01. \/ f = Transient /\ Pending' = Pending
       \/ f = Tip /\ Tip > 0 /\ Pending = {Tip} /\ Pending' = {}
  BY DEF Sends
<1>02. client[c].cursor <= Tip /\ client[c].after <= Tip
  <2>1. client[c].cursor <= Tip /\ client[c].after <= client[c].cursor
    BY DEF Serves, Reading
  <2>2. QED
    BY <1>0, <1>00, <2>1
<1>1. Reading(c)'
  BY <1>0 DEF Serves, Reading
<1>2. Sorted(c)'
  BY <1>0 DEF Serves, Sorted
<1>3. Replayed(c)'
  BY <1>0 DEF Serves, Replayed, Wanted
<1>4. Gapless(c)'
  BY <1>0 DEF Serves, Gapless, Wanted
<1>5. CASE client[c].pc = "off"
  <2>1. chan'[c] = <<>>
    BY <1>0, <1>5, SendMoves
  <2>2. Channel(c)'
    BY <2>1 DEF Channel
  <2>3. Once(c)' /\ Followed(c)'
    BY <1>0, <1>5 DEF Once, Followed
  <2>4. QED
    BY <1>1, <1>2, <1>3, <1>4, <2>2, <2>3 DEF Serves
<1>6. CASE client[c].pc # "off"
  <2>1. PICK s \in Seq(Nat) : s = chan[c]
    BY <1>00
  <2>2. PICK u : u = chan'[c]
    OBVIOUS
  <2>3. \/ u = Append(s, f) /\ (c \in lagged' <=> c \in lagged)
        \/ s # <<>> /\ u = Append(Tail(s), f) /\ c \in lagged'
    BY <1>0, <1>6, <2>1, <2>2, SendMoves
  <2>03. u = Append(s, f) \/ (s # <<>> /\ u = Append(Tail(s), f))
    BY <2>3
  <2>4. u \in Seq(Nat)
    BY <2>03, Received
  <2>05. PICK o \in {0, 1} : Shift(u, s, f, o)
    BY <2>03, Received
  <2>5. /\ Len(u) + o = Len(s) + 1
        /\ o = 0 => u = Append(s, f)
        /\ u[Len(u)] = f
        /\ \A k \in 1 .. Len(u) - 1 : k + o \in 1 .. Len(s) /\ u[k] = s[k + o]
    BY <2>05 DEF Shift
  <2>6. Len(u) \in Nat /\ Len(s) \in Nat /\ \A k \in 1 .. Len(u) : k = Len(u) \/ k \in 1 .. Len(u) - 1
    BY <2>4
  <2>7. /\ \A k \in 1 .. Len(s) : s[k] \in Nat /\ s[k] <= Tip
        /\ \A k \in 1 .. Len(s) : s[k] # Transient =>
              client[c].after <= s[k] /\ \A j \in Pending : s[k] < j
        /\ \A k, l \in 1 .. Len(s) : k < l /\ s[k] # Transient /\ s[l] # Transient => s[k] < s[l]
    BY <2>1 DEF Serves, Channel
  <2>8. \A k \in 1 .. Len(u) : u[k] <= Tip
    <3>1. f <= Tip
      BY <1>0, <1>01 DEF Transient
    <3>2. QED
      BY <2>5, <2>6, <2>7, <3>1
  <2>9. ASSUME NEW k \in 1 .. Len(u), u[k] # Transient
        PROVE  client[c].after <= u[k] /\ \A j \in Pending' : u[k] < j
    <3>1. CASE k = Len(u)
      BY <1>0, <1>01, <1>02, <2>5, <2>9, <3>1
    <3>2. CASE k \in 1 .. Len(u) - 1
      BY <1>01, <2>5, <2>7, <2>9, <3>2
    <3>3. QED
      BY <2>6, <3>1, <3>2
  <2>10. ASSUME NEW k \in 1 .. Len(u), NEW l \in 1 .. Len(u), k < l,
                u[k] # Transient, u[l] # Transient
         PROVE  u[k] < u[l]
    <3>1. k \in 1 .. Len(u) - 1
      BY <2>6, <2>10
    <3>2. CASE l = Len(u)
      BY <1>01, <2>5, <2>7, <2>10, <3>1, <3>2
    <3>3. CASE l \in 1 .. Len(u) - 1
      <4>1. k + o \in 1 .. Len(s) /\ l + o \in 1 .. Len(s) /\ k + o < l + o
        BY <2>5, <2>6, <2>10, <3>1, <3>3
      <4>2. u[k] = s[k + o] /\ u[l] = s[l + o]
        BY <2>5, <3>1, <3>3
      <4>3. QED
        BY <2>7, <2>10, <4>1, <4>2
    <3>4. QED
      BY <2>6, <3>2, <3>3
  <2>11. Channel(c)'
    BY <1>0, <2>2, <2>8, <2>9, <2>10 DEF Channel
  <2>12. Once(c)'
    <3>1. SUFFICES ASSUME client[c].pc = "streaming", client[c].replay = <<>>,
                          Len(seen[c]) > before[c]
                   PROVE  /\ client[c].cursor <= client[c].high
                                \/ \A j \in Pending' : client[c].cursor < j
                          /\ \A k \in 1 .. Len(u) :
                                u[k] # Transient /\ u[k] > client[c].high => u[k] > client[c].cursor
      BY <1>0, <2>2 DEF Once
    <3>2. /\ client[c].cursor <= client[c].high \/ \A j \in Pending : client[c].cursor < j
          /\ \A k \in 1 .. Len(s) :
                s[k] # Transient /\ s[k] > client[c].high => s[k] > client[c].cursor
      BY <2>1, <3>1 DEF Serves, Once
    <3>3. client[c].cursor <= client[c].high \/ \A j \in Pending' : client[c].cursor < j
      BY <1>01, <3>2
    <3>4. f # Transient /\ f > client[c].high => f > client[c].cursor
      BY <1>0, <1>00, <1>01, <3>2
    <3>5. ASSUME NEW k \in 1 .. Len(u), u[k] # Transient, u[k] > client[c].high
          PROVE  u[k] > client[c].cursor
      <4>1. CASE k = Len(u)
        BY <2>5, <3>4, <3>5, <4>1
      <4>2. CASE k \in 1 .. Len(u) - 1
        BY <2>5, <3>2, <3>5, <4>2
      <4>3. QED
        BY <2>6, <4>1, <4>2
    <3>6. QED
      BY <3>3, <3>5
  <2>13. Followed(c)'
    <3>1. SUFFICES ASSUME c \notin lagged', NEW i \in DOMAIN log \ orphan,
                          i \notin Range(u) \cup Pending'
                   PROVE  /\ \A k \in 1 .. Len(u) : u[k] # Transient => i <= u[k]
                          /\ (client[c].pc \in {"reading", "streaming"} /\ seen[c] # <<>> /\ Wanted(c, i))
                                => i <= client[c].tip \/ i <= client[c].cursor
      BY <1>0, <2>2 DEF Followed, Wanted
    <3>2. u = Append(s, f) /\ c \notin lagged
      BY <2>3, <3>1
    <3>3. Len(u) = Len(s) + 1 /\ u[Len(u)] = f /\ \A k \in 1 .. Len(s) : u[k] = s[k]
      BY <3>2
    <3>4. \A k \in 1 .. Len(s) : s[k] # i
      BY <2>4, <2>6, <3>1, <3>3 DEF Range
    <3>5. f # i
      BY <2>4, <2>6, <3>1, <3>3 DEF Range
    <3>6. i \notin Range(s) \cup Pending
      <4>1. i \notin Range(s)
        BY <3>4 DEF Range
      <4>2. i \notin Pending
        BY <1>01, <3>1, <3>5
      <4>3. QED
        BY <4>1, <4>2
    <3>7. /\ \A k \in 1 .. Len(s) : s[k] # Transient => i <= s[k]
          /\ (client[c].pc \in {"reading", "streaming"} /\ seen[c] # <<>> /\ Wanted(c, i))
                => i <= client[c].tip \/ i <= client[c].cursor
      BY <1>6, <2>1, <3>1, <3>2, <3>6 DEF Serves, Followed
    <3>8. f # Transient => i <= f
      BY <1>0, <1>01, <3>1
    <3>9. \A k \in 1 .. Len(u) : u[k] # Transient => i <= u[k]
      BY <2>6, <3>3, <3>7, <3>8
    <3>10. QED
      BY <3>7, <3>9
  <2>14. QED
    BY <1>1, <1>2, <1>3, <1>4, <2>11, <2>12, <2>13 DEF Serves
<1>7. QED
  BY <1>5, <1>6

-------------------------------------------------------------------------------
(* Serving: what a client does.                                            *)

\* A request with nothing replayed yet.
Fresh(v, n, m) ==
    [pc |-> v, cursor |-> n, after |-> m, tip |-> 0, replay |-> <<>>, high |-> NoCursor]

\* Its fields.
LEMMA FreshFields ==
    ASSUME NEW v \in ClientPc, NEW n \in Cursor, NEW m \in Cursor
    PROVE  /\ Fresh(v, n, m) \in ClientRecord
           /\ Fresh(v, n, m).pc = v /\ Fresh(v, n, m).cursor = n /\ Fresh(v, n, m).after = m
           /\ Fresh(v, n, m).tip = 0 /\ Fresh(v, n, m).replay = <<>>
           /\ Fresh(v, n, m).high = NoCursor
<1>1. <<>> \in Seq(Nat) /\ NoCursor \in Cursor /\ 0 \in Nat
  BY DEF Cursor
<1>2. QED
  BY <1>1 DEF Fresh, ClientRecord

\* A connection that ends, and one that begins, leave such a request.
LEMMA FreshRequest ==
    ASSUME NEW v, NEW n
    PROVE  /\ [Offline EXCEPT !.cursor = n] = Fresh("off", n, NoCursor)
           /\ [Offline EXCEPT !.cursor = n, !.after = n, !.pc = v] = Fresh(v, n, n)
<1>1. [Offline EXCEPT !.cursor = n] = Fresh("off", n, NoCursor)
  BY DEF Offline, Fresh
<1>2. [Offline EXCEPT !.cursor = n, !.after = n, !.pc = v] = Fresh(v, n, n)
  <2>1. [Offline EXCEPT !.cursor = n, !.after = n, !.pc = v]
          = [[[Offline EXCEPT !.cursor = n] EXCEPT !.after = n] EXCEPT !.pc = v]
    BY Zenon
  <2>2. [Fresh("off", n, NoCursor) EXCEPT !.after = n] = Fresh("off", n, n)
    BY DEF Fresh
  <2>3. [Fresh("off", n, n) EXCEPT !.pc = v] = Fresh(v, n, n)
    BY DEF Fresh
  <2>4. QED
    BY <1>1, <2>1, <2>2, <2>3, Zenon
<1>3. QED
  BY <1>1, <1>2, Zenon

\* A client without a connection waits for nothing and misses nothing it has passed.
LEMMA OffServes ==
    ASSUME ClientTyped, Dense, NEW c \in Client, Serves(c),
           client'[c] = Disconnected(c), chan'[c] = <<>>, seen'[c] = seen[c],
           before'[c] = before[c], log' = log, orphan' = orphan, Tip' = Tip
    PROVE  Serves(c)' /\ client'[c] \in ClientRecord
<1>0. client[c].cursor \in Cursor /\ Tip \in Nat
  BY DEF ClientTyped, ClientRecord, Dense
<1>1. PICK r : r = client'[c]
  OBVIOUS
<1>2. /\ r \in ClientRecord /\ r.pc = "off" /\ r.cursor = client[c].cursor /\ r.after = NoCursor
      /\ r.tip = 0 /\ r.replay = <<>> /\ r.high = NoCursor
  <2>1. r = Fresh("off", client[c].cursor, NoCursor)
    BY <1>1, FreshRequest, Zenon DEF Disconnected
  <2>2. NoCursor \in Cursor /\ "off" \in ClientPc
    BY DEF Cursor, ClientPc
  <2>3. QED
    BY <1>0, <2>1, <2>2, FreshFields
<1>3. Len(<<>>) = 0 /\ 1 .. 0 = {}
  OBVIOUS
<1>4. /\ client[c].cursor = IF seen[c] = <<>> THEN NoCursor ELSE seen[c][Len(seen[c])]
      /\ client[c].cursor <= Tip /\ (seen[c] # <<>> => client[c].cursor > 0)
      /\ before[c] <= Len(seen[c])
  BY DEF Serves, Reading
<1>5. Channel(c)'
  BY <1>3 DEF Channel
<1>6. Reading(c)'
  <2>1. NoCursor <= client[c].cursor /\ 0 <= Tip
    BY <1>0 DEF Cursor, NoCursor
  <2>2. QED
    BY <1>1, <1>2, <1>3, <1>4, <2>1 DEF Reading
<1>7. Once(c)'
  BY <1>1, <1>2 DEF Once
<1>8. Sorted(c)'
  BY DEF Serves, Sorted
<1>9. Replayed(c)'
  BY <1>1, <1>2 DEF Replayed
<1>10. Followed(c)'
  BY <1>1, <1>2 DEF Followed
<1>11. Gapless(c)'
  BY <1>1, <1>2 DEF Serves, Gapless, Wanted
<1>12. QED
  BY <1>1, <1>2, <1>5, <1>6, <1>7, <1>8, <1>9, <1>10, <1>11 DEF Serves

\* Only client c takes part.
Others(c) ==
    /\ log' = log /\ orphan' = orphan
    /\ \A d \in Client : d # c =>
          /\ client'[d] = client[d] /\ chan'[d] = chan[d] /\ seen'[d] = seen[d]
          /\ before'[d] = before[d] /\ (d \in lagged' <=> d \in lagged)

\* The connection of a client ends.
LEMMA HangUpServes ==
    ASSUME ClientTyped, Dense, NEW c \in Client, Serves(c), Tip' = Tip,
           client' = [client EXCEPT ![c] = Disconnected(c)],
           chan' = [chan EXCEPT ![c] = <<>>], lagged' = lagged \ {c},
           UNCHANGED <<log, seen, before, orphan>>
    PROVE  ClientTyped' /\ Serves(c)' /\ Others(c)
<1>1. client \in [Client -> ClientRecord] /\ chan \in [Client -> Seq(Nat)]
      /\ seen \in [Client -> Seq(Nat)] /\ before \in [Client -> Nat] /\ lagged \subseteq Client
  BY DEF ClientTyped
<1>2. client'[c] = Disconnected(c) /\ chan'[c] = <<>>
  BY <1>1
<1>3. Serves(c)' /\ client'[c] \in ClientRecord
  BY <1>2, OffServes
<1>4. \A d \in Client : d # c => client'[d] = client[d] /\ chan'[d] = chan[d]
  BY <1>1
<1>5. client' \in [Client -> ClientRecord]
  <2>1. Disconnected(c) \in ClientRecord
    BY <1>2, <1>3
  <2>2. QED
    BY <1>1, <2>1
<1>6. chan' \in [Client -> Seq(Nat)]
  BY <1>1
<1>7. ClientTyped'
  BY <1>1, <1>5, <1>6 DEF ClientTyped
<1>8. QED
  BY <1>3, <1>4, <1>7 DEF Others

\* A client subscribes: its channel is empty, and its cursor is where it goes on.
LEMMA ConnectServes ==
    ASSUME ClientTyped, Dense, NEW c \in Client, Serves(c), Tip' = Tip, Connect(c)
    PROVE  ClientTyped' /\ Serves(c)' /\ Others(c)
<1>0. client[c].cursor \in Cursor /\ Tip \in Nat /\ seen[c] \in Seq(Nat)
  BY DEF ClientTyped, ClientRecord, Dense
<1>1. client \in [Client -> ClientRecord] /\ chan \in [Client -> Seq(Nat)]
      /\ seen \in [Client -> Seq(Nat)] /\ before \in [Client -> Nat] /\ lagged \subseteq Client
  BY DEF ClientTyped
<1>2. PICK r : r = [Offline EXCEPT !.cursor = client[c].cursor,
                                   !.after  = client[c].cursor,
                                   !.pc = IF client[c].cursor = NoCursor
                                            THEN "streaming" ELSE "subscribed"]
  OBVIOUS
<1>3. /\ client' = [client EXCEPT ![c] = r] /\ chan' = [chan EXCEPT ![c] = <<>>]
      /\ lagged' = lagged \ {c} /\ before' = [before EXCEPT ![c] = Len(seen[c])]
      /\ UNCHANGED <<log, seen, orphan>>
  BY <1>2, Zenon DEF Connect
<1>4. /\ r \in ClientRecord /\ r.cursor = client[c].cursor /\ r.after = client[c].cursor
      /\ r.tip = 0 /\ r.replay = <<>> /\ r.high = NoCursor
      /\ r.pc = IF client[c].cursor = NoCursor THEN "streaming" ELSE "subscribed"
  <2>1. PICK v \in {"streaming", "subscribed"} :
          v = IF client[c].cursor = NoCursor THEN "streaming" ELSE "subscribed"
    OBVIOUS
  <2>2. r = Fresh(v, client[c].cursor, client[c].cursor)
    BY <1>2, <2>1, FreshRequest, Zenon
  <2>3. v \in ClientPc
    BY DEF ClientPc
  <2>4. QED
    BY <1>0, <2>1, <2>2, <2>3, FreshFields
<1>5. client'[c] = r /\ chan'[c] = <<>> /\ before'[c] = Len(seen[c]) /\ Len(seen[c]) \in Nat
  BY <1>0, <1>1, <1>3
<1>6. Len(<<>>) = 0 /\ 1 .. 0 = {}
  OBVIOUS
<1>7. /\ client[c].cursor = IF seen[c] = <<>> THEN NoCursor ELSE seen[c][Len(seen[c])]
      /\ client[c].cursor <= Tip /\ (seen[c] # <<>> => client[c].cursor > 0)
  BY DEF Serves, Reading
<1>8. client[c].cursor = NoCursor <=> seen[c] = <<>>
  BY <1>0, <1>7 DEF NoCursor
<1>9. Channel(c)'
  BY <1>5, <1>6 DEF Channel
<1>10. Reading(c)'
  <2>1. NoCursor <= client[c].cursor /\ 0 <= Tip /\ client[c].cursor <= client[c].cursor
    BY <1>0 DEF Cursor, NoCursor
  <2>2. Len(seen[c]) <= Len(seen[c])
    BY <1>5
  <2>3. QED
    BY <1>3, <1>4, <1>5, <1>6, <1>7, <1>8, <2>1, <2>2 DEF Reading
<1>11. Once(c)'
  BY <1>3, <1>5 DEF Once
<1>12. Sorted(c)'
  <2>1. \A i, j \in 1 .. Len(seen[c]) : i < j => seen[c][i] <= seen[c][j]
    BY DEF Serves, Sorted
  <2>2. \A i \in 1 .. Len(seen[c]) : ~(i > Len(seen[c]))
    BY <1>5
  <2>3. QED
    BY <1>3, <1>5, <2>1, <2>2 DEF Sorted
<1>13. Replayed(c)'
  BY <1>3, <1>4, <1>5, <1>8 DEF Replayed
<1>14. Followed(c)'
  BY <1>3, <1>4, <1>5, <1>6, <1>8 DEF Followed
<1>15. Gapless(c)'
  BY <1>3, <1>4, <1>5 DEF Serves, Gapless, Wanted
<1>16. ClientTyped'
  BY <1>1, <1>3, <1>4, <1>5 DEF ClientTyped
<1>17. Others(c)
  BY <1>1, <1>3 DEF Others
<1>18. QED
  BY <1>9, <1>10, <1>11, <1>12, <1>13, <1>14, <1>15, <1>16, <1>17 DEF Serves

\* One client's request changes and the others do not.
LEMMA ClientMoves ==
    ASSUME ClientTyped, NEW c \in Client,
           NEW v \in ClientPc, NEW t \in Nat, NEW s \in Seq(Nat), NEW h \in Cursor
    PROVE  /\ client' = [client EXCEPT ![c].pc = v] =>
                 /\ client' \in [Client -> ClientRecord] /\ client'[c].pc = v
                 /\ client'[c].cursor = client[c].cursor /\ client'[c].after = client[c].after
                 /\ client'[c].tip = client[c].tip /\ client'[c].replay = client[c].replay
                 /\ client'[c].high = client[c].high
                 /\ \A d \in Client : d # c => client'[d] = client[d]
           /\ client' = [client EXCEPT ![c].pc = v, ![c].tip = t] =>
                 /\ client' \in [Client -> ClientRecord] /\ client'[c].pc = v
                 /\ client'[c].cursor = client[c].cursor /\ client'[c].after = client[c].after
                 /\ client'[c].tip = t /\ client'[c].replay = client[c].replay
                 /\ client'[c].high = client[c].high
                 /\ \A d \in Client : d # c => client'[d] = client[d]
           /\ client' = [client EXCEPT ![c].replay = s, ![c].pc = v, ![c].high = h] =>
                 /\ client' \in [Client -> ClientRecord] /\ client'[c].pc = v
                 /\ client'[c].cursor = client[c].cursor /\ client'[c].after = client[c].after
                 /\ client'[c].tip = client[c].tip /\ client'[c].replay = s
                 /\ client'[c].high = h
                 /\ \A d \in Client : d # c => client'[d] = client[d]
<1>1. client \in [Client -> ClientRecord]
  BY DEF ClientTyped
<1>2. ASSUME client' = [client EXCEPT ![c].pc = v]
      PROVE  /\ client' \in [Client -> ClientRecord] /\ client'[c].pc = v
             /\ client'[c].cursor = client[c].cursor /\ client'[c].after = client[c].after
             /\ client'[c].tip = client[c].tip /\ client'[c].replay = client[c].replay
             /\ client'[c].high = client[c].high
             /\ \A d \in Client : d # c => client'[d] = client[d]
  BY ONLY <1>1, <1>2, c \in Client, v \in ClientPc DEF ClientRecord
<1>3. ASSUME client' = [client EXCEPT ![c].pc = v, ![c].tip = t]
      PROVE  /\ client' \in [Client -> ClientRecord] /\ client'[c].pc = v
             /\ client'[c].cursor = client[c].cursor /\ client'[c].after = client[c].after
             /\ client'[c].tip = t /\ client'[c].replay = client[c].replay
             /\ client'[c].high = client[c].high
             /\ \A d \in Client : d # c => client'[d] = client[d]
  BY ONLY <1>1, <1>3, c \in Client, v \in ClientPc, t \in Nat DEF ClientRecord
<1>4. ASSUME client' = [client EXCEPT ![c].replay = s, ![c].pc = v, ![c].high = h]
      PROVE  /\ client' \in [Client -> ClientRecord] /\ client'[c].pc = v
             /\ client'[c].cursor = client[c].cursor /\ client'[c].after = client[c].after
             /\ client'[c].tip = client[c].tip /\ client'[c].replay = s
             /\ client'[c].high = h
             /\ \A d \in Client : d # c => client'[d] = client[d]
  BY ONLY <1>1, <1>4, c \in Client, v \in ClientPc, s \in Seq(Nat), h \in Cursor DEF ClientRecord
<1>5. QED
  BY <1>2, <1>3, <1>4

\* The request of client c has cursor n and replay s; all else is as it was.
CursorAt(c, n, s) ==
    /\ client' \in [Client -> ClientRecord] /\ client'[c].pc = client[c].pc
    /\ client'[c].cursor = n /\ client'[c].after = client[c].after
    /\ client'[c].tip = client[c].tip /\ client'[c].replay = s
    /\ client'[c].high = client[c].high
    /\ \A d \in Client : d # c => client'[d] = client[d]

\* One client's cursor goes on, in the replay or after it.
LEMMA CursorMoves ==
    ASSUME ClientTyped, NEW c \in Client, NEW s \in Seq(Nat), NEW n \in Nat,
           \/ client' = [client EXCEPT ![c].replay = s, ![c].cursor = n]
           \/ client' = [client EXCEPT ![c].cursor = n] /\ s = client[c].replay
    PROVE  CursorAt(c, n, s)
<1>1. client \in [Client -> ClientRecord] /\ n \in Cursor
  BY DEF ClientTyped, Cursor
<1>2. CASE client' = [client EXCEPT ![c].replay = s, ![c].cursor = n]
  BY ONLY <1>1, <1>2, c \in Client, s \in Seq(Nat) DEF ClientRecord, CursorAt
<1>3. CASE client' = [client EXCEPT ![c].cursor = n] /\ s = client[c].replay
  BY ONLY <1>1, <1>3, c \in Client DEF ClientRecord, CursorAt
<1>4. QED
  BY <1>2, <1>3

\* A cursor too far behind is refused; any other stays where it is.
LEMMA CheckServes ==
    ASSUME ClientTyped, Dense, NEW c \in Client, Serves(c), Tip' = Tip, Pending' = Pending,
           CheckCursorInWindow(c)
    PROVE  ClientTyped' /\ Serves(c)' /\ Others(c)
<1>1. client[c].pc = "subscribed" /\ UNCHANGED <<log, seen, before, orphan>>
  BY DEF CheckCursorInWindow
<1>2. CASE /\ client' = [client EXCEPT ![c] = Disconnected(c)]
           /\ chan' = [chan EXCEPT ![c] = <<>>] /\ lagged' = lagged \ {c}
  BY <1>1, <1>2, HangUpServes
<1>3. CASE client' = [client EXCEPT ![c].pc = "checked"] /\ UNCHANGED <<chan, lagged>>
  <2>1. /\ client' \in [Client -> ClientRecord] /\ client'[c].pc = "checked"
        /\ client'[c].cursor = client[c].cursor /\ client'[c].after = client[c].after
        /\ client'[c].tip = client[c].tip /\ client'[c].replay = client[c].replay
        /\ client'[c].high = client[c].high
        /\ \A d \in Client : d # c => client'[d] = client[d]
    <3>1. "checked" \in ClientPc /\ 0 \in Nat /\ <<>> \in Seq(Nat) /\ NoCursor \in Cursor
      BY DEF ClientPc, Cursor
    <3>2. QED
      BY <1>3, <3>1, ClientMoves
  <2>2. Channel(c)'
    BY <1>1, <1>3, <2>1 DEF Serves, Channel
  <2>3. Reading(c)'
    BY <1>1, <1>3, <2>1 DEF Serves, Reading
  <2>4. Once(c)' /\ Replayed(c)'
    BY <2>1 DEF Once, Replayed
  <2>5. Sorted(c)'
    BY <1>1 DEF Serves, Sorted
  <2>6. Followed(c)'
    BY <1>1, <1>3, <2>1 DEF Serves, Followed
  <2>7. Gapless(c)'
    BY <1>1, <2>1 DEF Serves, Gapless, Wanted
  <2>8. QED
    BY <1>1, <1>3, <2>1, <2>2, <2>3, <2>4, <2>5, <2>6, <2>7 DEF Serves, ClientTyped, Others
<1>4. QED
  BY <1>2, <1>3 DEF CheckCursorInWindow

\* The tip is read after the client has subscribed: what is beyond it will be sent.
LEMMA TipServes ==
    ASSUME ClientTyped, Dense, NEW c \in Client, Serves(c), Tip' = Tip, Pending' = Pending,
           ReadTip(c)
    PROVE  ClientTyped' /\ Serves(c)' /\ Others(c)
<1>0. Tip \in Nat /\ DOMAIN log = 1 .. Tip
  BY DEF Dense
<1>1. /\ client[c].pc = "checked" /\ UNCHANGED <<log, chan, lagged, seen, before, orphan>>
      /\ client' = [client EXCEPT ![c].pc = "reading", ![c].tip = Tip]
  BY DEF ReadTip, hist
<1>2. /\ client' \in [Client -> ClientRecord] /\ client'[c].pc = "reading"
      /\ client'[c].cursor = client[c].cursor /\ client'[c].after = client[c].after
      /\ client'[c].tip = Tip /\ client'[c].replay = client[c].replay
      /\ client'[c].high = client[c].high
      /\ \A d \in Client : d # c => client'[d] = client[d]
  <2>1. "reading" \in ClientPc /\ 0 \in Nat /\ <<>> \in Seq(Nat) /\ NoCursor \in Cursor
    BY DEF ClientPc, Cursor
  <2>2. QED
    BY <1>0, <1>1, <2>1, ClientMoves
<1>3. client[c].replay = <<>> /\ seen[c] # <<>> /\ Len(<<>>) = 0 /\ 1 .. 0 = {}
  BY <1>1 DEF Serves, Reading
<1>4. Channel(c)'
  BY <1>1, <1>2 DEF Serves, Channel
<1>5. Reading(c)'
  <2>1. Tip <= Tip
    BY <1>0
  <2>2. QED
    BY <1>1, <1>2, <1>3, <2>1 DEF Serves, Reading
<1>6. Once(c)' /\ Replayed(c)'
  BY <1>2, <1>3 DEF Once, Replayed
<1>7. Sorted(c)'
  BY <1>1 DEF Serves, Sorted
<1>8. Followed(c)'
  <2>1. \A i \in DOMAIN log : i <= Tip
    BY <1>0
  <2>2. QED
    BY <1>1, <1>2, <2>1 DEF Serves, Followed
<1>9. Gapless(c)'
  BY <1>1, <1>2 DEF Serves, Gapless, Wanted
<1>10. QED
  BY <1>1, <1>2, <1>4, <1>5, <1>6, <1>7, <1>8, <1>9 DEF Serves, ClientTyped, Others

\* What is in a sequence.
LEMMA InRange ==
    ASSUME NEW s \in Seq(Nat)
    PROVE  /\ \A k \in 1 .. Len(s) : s[k] \in Range(s)
           /\ \A i \in Range(s) : \E k \in 1 .. Len(s) : s[k] = i
BY DEF Range

\* A replay of W from a: in order, up to t, with nothing left out before its end.
Replays(s, a, t, W) ==
    /\ \A k \in 1 .. Len(s) : a < s[k] /\ s[k] <= t
    /\ \A k, l \in 1 .. Len(s) : k < l => s[k] < s[l]
    /\ s # <<>> => \A i \in W : a < i /\ i <= s[Len(s)] => i \in Range(s)

\* A page of at most L rows of R.
IsPage(page, R, L) ==
    /\ \A k \in 1 .. Len(page) : page[k] \in R
    /\ \A k, l \in 1 .. Len(page) : k < l => page[k] < page[l]
    /\ \A i \in R \ Range(page) : Len(page) = L /\ \A k \in 1 .. Len(page) : page[k] < i

\* What is wanted after a replay.
After(s, a, t, W) == {i \in W : (IF s = <<>> THEN a ELSE s[Len(s)]) < i /\ i <= t}

\* A page goes on where the replay ends, in order, and leaves nothing out.
LEMMA PageFollows ==
    ASSUME NEW s \in Seq(Nat), NEW a \in Int, NEW t \in Nat, NEW W, W \subseteq Nat,
           NEW L \in Nat \ {0}, NEW page \in Seq(Nat),
           Replays(s, a, t, W), IsPage(page, After(s, a, t, W), L)
    PROVE  /\ s \o page \in Seq(Nat) /\ Replays(s \o page, a, t, W)
           /\ Len(page) < L => \A i \in W : a < i /\ i <= t => i \in Range(s \o page)
<1>0. PICK f, R, u : /\ f = IF s = <<>> THEN a ELSE s[Len(s)]
                     /\ R = After(s, a, t, W) /\ u = s \o page
  OBVIOUS
<1>00. R = {i \in W : f < i /\ i <= t}
  BY <1>0 DEF After
<1>01. /\ \A k \in 1 .. Len(s) : a < s[k] /\ s[k] <= t
       /\ \A k, l \in 1 .. Len(s) : k < l => s[k] < s[l]
       /\ s # <<>> => \A i \in W : a < i /\ i <= s[Len(s)] => i \in Range(s)
  BY DEF Replays
<1>02. /\ \A k \in 1 .. Len(page) : page[k] \in R
       /\ \A k, l \in 1 .. Len(page) : k < l => page[k] < page[l]
       /\ \A i \in R \ Range(page) : Len(page) = L /\ \A k \in 1 .. Len(page) : page[k] < i
  BY <1>0 DEF IsPage
<1>2. Len(s) \in Nat /\ Len(page) \in Nat
  OBVIOUS
<1>3. /\ u \in Seq(Nat) /\ Len(u) = Len(s) + Len(page)
      /\ \A k \in 1 .. Len(s) : u[k] = s[k]
      /\ \A k \in 1 .. Len(u) : k \notin 1 .. Len(s) =>
            k - Len(s) \in 1 .. Len(page) /\ u[k] = page[k - Len(s)]
  <2>1. u = s \o page
    BY <1>0
  <2>2. QED
    BY ONLY s \in Seq(Nat), page \in Seq(Nat), <1>2, <2>1
<1>4. \A k \in 1 .. Len(page) : page[k] \in Nat /\ f < page[k] /\ page[k] <= t
  BY <1>00, <1>02
<1>5. f \in Int /\ a <= f /\ \A k \in 1 .. Len(s) : s[k] \in Nat /\ s[k] <= f
  <2>1. CASE s = <<>>
    BY <1>0, <2>1
  <2>2. CASE s # <<>>
    <3>1. PICK n \in Nat : n = Len(s)
      BY <1>2
    <3>2. n \in 1 .. n /\ s[n] \in Nat /\ f = s[n] /\ a < s[n]
      BY <1>0, <1>01, <2>2, <3>1, LastOf
    <3>3. ASSUME NEW k \in 1 .. n PROVE s[k] \in Nat /\ s[k] <= s[n]
      <4>1. s[k] \in Nat
        BY <3>1
      <4>2. k = n \/ k < n
        BY <3>1
      <4>3. k < n => s[k] < s[n]
        BY <1>01, <3>1, <3>2
      <4>4. QED
        BY <3>2, <4>1, <4>2, <4>3
    <3>4. QED
      BY <3>1, <3>2, <3>3
  <2>3. QED
    BY <2>1, <2>2
<1>6. ASSUME NEW k \in 1 .. Len(u) PROVE a < u[k] /\ u[k] <= t
  <2>1. CASE k \in 1 .. Len(s)
    BY <1>01, <1>3, <2>1
  <2>2. CASE k \notin 1 .. Len(s)
    <3>1. PICK x \in 1 .. Len(page) : u[k] = page[x]
      BY <1>3, <2>2
    <3>2. PICK y \in Nat : y = page[x] /\ f < y /\ y <= t
      BY <1>4
    <3>3. a < y
      BY <1>5, <3>2, SMTT(40)
    <3>4. QED
      BY <3>1, <3>2, <3>3
  <2>3. QED
    BY <2>1, <2>2
<1>7. ASSUME NEW k \in 1 .. Len(u), NEW l \in 1 .. Len(u), k < l PROVE u[k] < u[l]
  <2>1. CASE l \in 1 .. Len(s)
    <3>1. k \in 1 .. Len(s)
      BY <1>2, <1>7, <2>1
    <3>2. QED
      BY <1>01, <1>3, <1>7, <2>1, <3>1
  <2>2. CASE k \in 1 .. Len(s) /\ l \notin 1 .. Len(s)
    <3>1. u[k] = s[k] /\ s[k] \in Nat /\ s[k] <= f
      BY <1>3, <1>5, <2>2
    <3>2. u[l] \in Nat /\ f < u[l]
      BY <1>3, <1>4, <2>2
    <3>3. PICK x \in Nat, y \in Nat : x = u[k] /\ y = u[l]
      BY <3>1, <3>2
    <3>4. x <= f /\ f < y
      BY <3>1, <3>2, <3>3
    <3>5. x < y
      BY <1>5, <3>4
    <3>6. QED
      BY <3>3, <3>5
  <2>3. CASE k \notin 1 .. Len(s) /\ l \notin 1 .. Len(s)
    <3>1. PICK x \in 1 .. Len(page) : x = k - Len(s) /\ u[k] = page[x]
      BY <1>3, <2>3
    <3>2. PICK y \in 1 .. Len(page) : y = l - Len(s) /\ u[l] = page[y]
      BY <1>3, <2>3
    <3>3. x < y
      BY <1>2, <1>7, <3>1, <3>2
    <3>4. QED
      BY <1>02, <3>1, <3>2, <3>3
  <2>4. QED
    BY <2>1, <2>2, <2>3
<1>8. ASSUME NEW i, i \in Range(s) \/ i \in Range(page) PROVE i \in Range(u)
  <2>1. CASE i \in Range(s)
    <3>1. PICK k \in 1 .. Len(s) : s[k] = i
      BY <2>1, InRange
    <3>2. k \in 1 .. Len(u) /\ u[k] = i
      BY <1>2, <1>3, <3>1, SMTT(40)
    <3>3. QED
      BY <1>3, <3>2, InRange
  <2>2. CASE i \in Range(page)
    <3>1. PICK k \in 1 .. Len(page) : page[k] = i
      BY <2>2, InRange
    <3>2. PICK l : l = k + Len(s)
      OBVIOUS
    <3>3. l \in 1 .. Len(u) /\ l \notin 1 .. Len(s) /\ l - Len(s) = k
      <4>1. PICK n \in Nat, m \in Nat : n = Len(s) /\ m = Len(page)
        BY <1>2
      <4>2. Len(u) = n + m /\ k \in 1 .. m /\ l = k + n
        BY <1>3, <3>1, <3>2, <4>1
      <4>3. l \in 1 .. n + m /\ l \notin 1 .. n /\ l - n = k
        BY ONLY <4>1, <4>2
      <4>4. QED
        BY <4>1, <4>2, <4>3
    <3>4. u[l] = i
      BY <1>3, <3>1, <3>3
    <3>5. QED
      BY <1>3, <3>3, <3>4, InRange
  <2>3. QED
    BY <1>8, <2>1, <2>2
\* What is wanted and not in the replay is a row, and the page is full and before it.
<1>9. ASSUME NEW i \in W, a < i, i <= t, i \notin Range(u)
      PROVE  Len(page) = L /\ \A k \in 1 .. Len(page) : page[k] < i
  <2>1. i \notin Range(s) /\ i \notin Range(page) /\ i \in Nat
    BY <1>8, <1>9
  <2>2. f < i
    <3>1. CASE s = <<>>
      BY <1>0, <1>9, <3>1
    <3>2. CASE s # <<>>
      BY <1>0, <1>01, <1>5, <1>9, <2>1, <3>2
    <3>3. QED
      BY <3>1, <3>2
  <2>3. i \in R
    BY <1>00, <1>9, <2>2
  <2>4. QED
    BY <1>02, <2>1, <2>3
<1>10. ASSUME u # <<>>, NEW i \in W, a < i, i <= u[Len(u)] PROVE i \in Range(u)
  <2>1. PICK n \in Nat : n = Len(u)
    BY <1>3
  <2>2. n \in 1 .. n /\ u[n] \in Nat /\ u[n] <= t /\ i \in Nat
    BY <1>3, <1>6, <1>10, <2>1, LastOf
  <2>3. i <= t
    BY <1>10, <2>1, <2>2
  <2>4. SUFFICES ASSUME i \notin Range(u) PROVE FALSE
    OBVIOUS
  <2>5. Len(page) = L /\ \A k \in 1 .. Len(page) : page[k] < i
    BY <1>9, <1>10, <2>3, <2>4
  <2>6. n \notin 1 .. Len(s)
    BY <1>2, <1>3, <2>1, <2>5
  <2>7. PICK x \in 1 .. Len(page) : u[n] = page[x]
    BY <1>3, <2>1, <2>2, <2>6
  <2>8. QED
    BY <1>10, <2>1, <2>2, <2>5, <2>7
<1>11. ASSUME Len(page) < L, NEW i \in W, a < i, i <= t PROVE i \in Range(u)
  BY <1>2, <1>9, <1>11
<1>12. Replays(u, a, t, W)
  BY <1>6, <1>7, <1>10 DEF Replays
<1>13. QED
  BY <1>0, <1>3, <1>11, <1>12

\* A page is a sequence of rows.
LEMMA PageRows ==
    ASSUME Dense, NEW c \in Client, NEW page \in Pages(c)
    PROVE  /\ page \in Seq(Nat) /\ \A k \in 1 .. Len(page) : page[k] \in Rows(c)
           /\ \A k, l \in 1 .. Len(page) : k < l => page[k] < page[l]
           /\ \A i \in Rows(c) \ Range(page) :
                 Len(page) = PageLimit /\ \A k \in 1 .. Len(page) : page[k] < i
<1>1. PICK n \in 0 .. PageLimit : page \in [1 .. n -> Rows(c)]
  BY DEF Pages
<1>2. Rows(c) \subseteq Nat /\ n \in Nat
  BY EventAssumption DEF Rows, Dense, EventAssumption
<1>3. page \in [1 .. n -> Nat]
  BY <1>1, <1>2
<1>4. page \in Seq(Nat) /\ Len(page) = n
  BY <1>2, <1>3
<1>5. QED
  BY <1>1, <1>4 DEF Pages

\* A page of the replay; a short one is the last, and reaches the tip.
LEMMA PageServes ==
    ASSUME ClientTyped, Dense, NEW c \in Client, Serves(c), Tip' = Tip, Pending' = Pending,
           ReadPage(c)
    PROVE  ClientTyped' /\ Serves(c)' /\ Others(c)
<1>0. Tip \in Nat /\ DOMAIN log = 1 .. Tip /\ PageLimit \in Nat \ {0}
  BY EventAssumption DEF Dense, EventAssumption
<1>00. /\ client[c].pc \in ClientPc /\ client[c].tip \in Nat /\ client[c].replay \in Seq(Nat)
       /\ client[c].cursor \in Int /\ client[c].after \in Int /\ client[c].high \in Int
       /\ seen[c] \in Seq(Nat) /\ chan[c] \in Seq(Nat) /\ before[c] \in Nat
  BY ClientFields
<1>1. client[c].pc = "reading" /\ UNCHANGED <<log, chan, lagged, seen, before, orphan>>
  BY DEF ReadPage, hist
<1>2. PICK s \in Seq(Nat) : s = client[c].replay
  BY <1>00
<1>3. PICK page \in Pages(c) :
        client' = [client EXCEPT
                     ![c].replay = s \o page,
                     ![c].pc = IF Len(page) < PageLimit THEN "streaming" ELSE client[c].pc,
                     ![c].high = IF s \o page = <<>> THEN NoCursor ELSE (s \o page)[Len(s \o page)]]
  BY <1>2, Zenon DEF ReadPage
<1>4. /\ page \in Seq(Nat) /\ \A k \in 1 .. Len(page) : page[k] \in Rows(c)
      /\ \A k, l \in 1 .. Len(page) : k < l => page[k] < page[l]
      /\ \A i \in Rows(c) \ Range(page) :
            Len(page) = PageLimit /\ \A k \in 1 .. Len(page) : page[k] < i
  BY PageRows
<1>5. PICK u : u = s \o page
  OBVIOUS
<1>6. PICK W : W = {i \in DOMAIN log : Wanted(c, i)}
  OBVIOUS
<1>7. /\ client[c].after = client[c].cursor /\ seen[c] # <<>> /\ Len(seen[c]) = before[c]
      /\ client[c].cursor > 0 /\ client[c].cursor <= Tip /\ client[c].tip <= Tip
      /\ client[c].cursor = IF seen[c] = <<>> THEN NoCursor ELSE seen[c][Len(seen[c])]
      /\ \A k \in 1 .. Len(s) : client[c].cursor < s[k] /\ s[k] <= client[c].tip
      /\ \A k, l \in 1 .. Len(s) : k < l => s[k] < s[l]
  BY <1>1, <1>2 DEF Serves, Reading
<1>8. s # <<>> => \A i \in W : client[c].cursor < i /\ i <= s[Len(s)] => i \in Range(s)
  BY <1>1, <1>2, <1>6 DEF Serves, Replayed
<1>9. Rows(c) = {i \in W : From(c) < i /\ i <= client[c].tip}
  BY <1>6 DEF Rows
<1>10. From(c) = IF s = <<>> THEN client[c].cursor ELSE s[Len(s)]
  BY <1>2, <1>7 DEF From
<1>11. W \subseteq Nat
  BY <1>0, <1>6
<1>12. /\ u \in Seq(Nat)
       /\ \A k \in 1 .. Len(u) : client[c].cursor < u[k] /\ u[k] <= client[c].tip
       /\ \A k, l \in 1 .. Len(u) : k < l => u[k] < u[l]
       /\ u # <<>> => \A i \in W : client[c].cursor < i /\ i <= u[Len(u)] => i \in Range(u)
       /\ Len(page) < PageLimit =>
             \A i \in W : client[c].cursor < i /\ i <= client[c].tip => i \in Range(u)
  <2>1. PICK a \in Int, t \in Nat : a = client[c].cursor /\ t = client[c].tip
    BY <1>00
  <2>2. Replays(s, a, t, W)
    BY <1>7, <1>8, <2>1 DEF Replays
  <2>3. Rows(c) = After(s, a, t, W)
    BY <1>9, <1>10, <2>1 DEF After
  <2>4. IsPage(page, After(s, a, t, W), PageLimit)
    BY <1>4, <2>3 DEF IsPage
  <2>5. /\ u \in Seq(Nat) /\ Replays(u, a, t, W)
        /\ Len(page) < PageLimit => \A i \in W : a < i /\ i <= t => i \in Range(u)
    BY <1>0, <1>4, <1>5, <1>11, <2>2, <2>4, PageFollows
  <2>6. QED
    BY <2>1, <2>5 DEF Replays
<1>13. PICK v \in {"reading", "streaming"} :
         v = IF Len(page) < PageLimit THEN "streaming" ELSE client[c].pc
  BY <1>1
<1>14. PICK h \in Cursor : h = IF u = <<>> THEN NoCursor ELSE u[Len(u)]
  BY <1>12, LastOf DEF Cursor
<1>15. /\ client' \in [Client -> ClientRecord] /\ client'[c].pc = v
       /\ client'[c].cursor = client[c].cursor /\ client'[c].after = client[c].after
       /\ client'[c].tip = client[c].tip /\ client'[c].replay = u
       /\ client'[c].high = h
       /\ \A d \in Client : d # c => client'[d] = client[d]
  <2>1. v \in ClientPc /\ 0 \in Nat
    BY DEF ClientPc
  <2>2. client' = [client EXCEPT ![c].replay = u, ![c].pc = v, ![c].high = h]
    BY <1>3, <1>5, <1>13, <1>14, Zenon
  <2>3. QED
    BY <1>12, <2>1, <2>2, ClientMoves
<1>16. Channel(c)'
  BY <1>1, <1>15 DEF Serves, Channel
<1>17. Reading(c)'
  <2>1. IF u = <<>> THEN h <= client[c].cursor ELSE h = u[Len(u)]
    BY <1>00, <1>7, <1>14 DEF NoCursor
  <2>2. before[c] <= Len(seen[c]) /\ client[c].cursor <= client[c].cursor
    BY <1>00, <1>7
  <2>3. v \notin {"off", "subscribed", "checked"}
    BY <1>13
  <2>4. QED
    BY <1>1, <1>7, <1>12, <1>15, <2>1, <2>2, <2>3 DEF Reading
<1>18. Once(c)'
  BY <1>00, <1>1, <1>7, <1>15 DEF Once
<1>19. Sorted(c)'
  BY <1>1 DEF Serves, Sorted
<1>20. Replayed(c)'
  <2>1. ASSUME NEW i \in DOMAIN log, Wanted(c, i), client[c].cursor < i
        PROVE  /\ v = "reading" /\ u # <<>> /\ i <= u[Len(u)] => i \in Range(u)
               /\ v = "streaming" /\ i <= client[c].tip => i \in Range(u)
    <3>1. i \in W
      BY <1>6, <2>1
    <3>2. v = "streaming" => Len(page) < PageLimit
      BY <1>1, <1>13
    <3>3. QED
      BY <1>12, <2>1, <3>1, <3>2
  <2>2. QED
    BY <1>1, <1>15, <2>1 DEF Replayed, Wanted
<1>21. Followed(c)'
  BY <1>1, <1>13, <1>15 DEF Serves, Followed, Wanted
<1>22. Gapless(c)'
  BY <1>1, <1>15 DEF Serves, Gapless, Wanted
<1>23. QED
  BY <1>1, <1>15, <1>16, <1>17, <1>18, <1>19, <1>20, <1>21, <1>22 DEF Serves, ClientTyped, Others

\* The frames u are those of s and f.
Grown(u, s, f) ==
    /\ u \in Seq(Nat) /\ Len(s) \in Nat /\ Len(u) = Len(s) + 1 /\ u[Len(u)] = f /\ u # <<>>
    /\ s # <<>> => u[1] = s[1]
    /\ s = <<>> => u[1] = f
    /\ \A i : i \in Range(s) \/ i = f => i \in Range(u)

\* A client has seen one frame more.
LEMMA AppendSeen ==
    ASSUME NEW s \in Seq(Nat), NEW f \in Nat
    PROVE  Grown(Append(s, f), s, f)
<1>0. PICK u : u = Append(s, f)
  OBVIOUS
<1>1. /\ u \in Seq(Nat) /\ Len(s) \in Nat /\ Len(u) = Len(s) + 1 /\ u[Len(u)] = f /\ u # <<>>
      /\ \A k \in 1 .. Len(s) : u[k] = s[k]
  BY <1>0
<1>2. s # <<>> => u[1] = s[1]
  BY <1>0
<1>3. s = <<>> => u[1] = f
  BY <1>0
<1>4. ASSUME NEW i \in Range(s) PROVE i \in Range(u)
  <2>1. PICK k \in 1 .. Len(s) : s[k] = i
    BY <1>4, InRange
  <2>2. k \in 1 .. Len(u) /\ u[k] = i
    BY <1>1, <2>1
  <2>3. QED
    BY <1>1, <2>2, InRange
<1>5. f \in Range(u)
  <2>1. Len(u) \in 1 .. Len(u)
    BY <1>1
  <2>2. QED
    BY <1>1, <2>1, InRange
<1>6. Grown(u, s, f)
  BY <1>1, <1>2, <1>3, <1>4, <1>5 DEF Grown
<1>7. QED
  BY <1>0, <1>6

\* A sequence without its first.
LEMMA TailOf ==
    ASSUME NEW s \in Seq(Nat), s # <<>>, NEW u, u = Tail(s)
    PROVE  /\ u \in Seq(Nat) /\ Len(u) \in Nat /\ Len(s) = Len(u) + 1
           /\ \A k \in 1 .. Len(u) : k + 1 \in 1 .. Len(s) /\ u[k] = s[k + 1]
           /\ Head(s) = s[1] /\ 1 \in 1 .. Len(s) /\ s[1] \in Nat
           /\ u # <<>> => u[Len(u)] = s[Len(s)]
           /\ u = <<>> => s[1] = s[Len(s)]
           /\ \A i \in Range(s) : i = s[1] \/ i \in Range(u)
<1>1. u \in Seq(Nat)
  BY ONLY s \in Seq(Nat), s # <<>>, u = Tail(s)
<1>2. Len(u) \in Nat /\ Len(s) = Len(u) + 1
  BY <1>1
<1>3. \A k \in 1 .. Len(u) : k + 1 \in 1 .. Len(s) /\ u[k] = s[k + 1]
  BY <1>1, <1>2
<1>4. Head(s) = s[1] /\ 1 \in 1 .. Len(s) /\ s[1] \in Nat
  BY <1>2
<1>5. u # <<>> => u[Len(u)] = s[Len(s)]
  BY <1>1, <1>2, <1>3
<1>6. u = <<>> => s[1] = s[Len(s)]
  <2>1. u = <<>> => Len(u) = 0
    OBVIOUS
  <2>2. u = <<>> => Len(s) = 1
    BY <1>2, <2>1
  <2>3. QED
    BY <2>2
<1>7. ASSUME NEW i \in Range(s), i # s[1] PROVE i \in Range(u)
  <2>1. PICK k \in 1 .. Len(s) : s[k] = i
    BY <1>7, InRange
  <2>2. k # 1 /\ k \in Nat
    BY <1>2, <1>7, <2>1
  <2>3. PICK l : l = k - 1
    OBVIOUS
  <2>4. l \in 1 .. Len(u) /\ l + 1 = k
    BY <1>2, <2>1, <2>2, <2>3
  <2>5. u[l] = i
    BY <1>3, <2>1, <2>4
  <2>6. QED
    BY <1>1, <2>4, <2>5, InRange
<1>8. QED
  BY <1>1, <1>2, <1>3, <1>4, <1>5, <1>6, <1>7

\* A frame that is not below the last one seen keeps what is seen in order.
LEMMA SortedAppend ==
    ASSUME NEW s \in Seq(Nat), NEW f \in Nat, NEW b \in Nat, b <= Len(s),
           \A i, j \in 1 .. Len(s) : i < j => s[i] <= s[j] /\ (i > b => s[i] < s[j]),
           s # <<>> => s[Len(s)] <= f,
           Len(s) > b => s[Len(s)] < f,
           NEW u, u = Append(s, f)
    PROVE  \A i, j \in 1 .. Len(u) : i < j => u[i] <= u[j] /\ (i > b => u[i] < u[j])
<1>1. /\ Len(s) \in Nat /\ Len(u) = Len(s) + 1 /\ u[Len(u)] = f
      /\ \A k \in 1 .. Len(s) : u[k] = s[k] /\ s[k] \in Nat
  OBVIOUS
<1>2. SUFFICES ASSUME NEW i \in 1 .. Len(u), NEW j \in 1 .. Len(u), i < j
               PROVE  u[i] <= u[j] /\ (i > b => u[i] < u[j])
  OBVIOUS
<1>3. i \in 1 .. Len(s)
  BY <1>1, <1>2
<1>4. CASE j \in 1 .. Len(s)
  BY <1>1, <1>2, <1>3, <1>4
<1>5. CASE j = Len(u)
  <2>1. PICK n \in 1 .. Len(s) : n = Len(s)
    BY <1>1, <1>3
  <2>2. PICK x \in Nat, y \in Nat : x = s[i] /\ y = s[n]
    BY <1>1, <1>3
  <2>3. s # <<>>
    BY <1>1, <1>3
  <2>4. y <= f /\ (n > b => y < f)
    BY <2>1, <2>2, <2>3
  <2>5. i = n \/ i < n
    BY <1>3, <2>1
  <2>6. x <= y
    BY <1>3, <2>2, <2>5
  <2>7. i > b => n > b
    BY <1>3, <2>1, <2>5
  <2>8. x <= f /\ (i > b => x < f)
    BY <2>2, <2>4, <2>6, <2>7, SMTT(40)
  <2>9. QED
    BY <1>1, <1>3, <1>5, <2>2, <2>8
<1>6. QED
  BY <1>1, <1>4, <1>5

\* A frame of the replay is the next one wanted after the cursor.
LEMMA ReplayServes ==
    ASSUME ClientTyped, Dense, NEW c \in Client, Serves(c), Tip' = Tip, Pending' = Pending,
           DeliverReplay(c)
    PROVE  ClientTyped' /\ Serves(c)' /\ Others(c)
<1>0. Tip \in Nat /\ DOMAIN log = 1 .. Tip
  BY DEF Dense
<1>00. /\ client[c].pc \in ClientPc /\ client[c].tip \in Nat /\ client[c].replay \in Seq(Nat)
       /\ client[c].cursor \in Int /\ client[c].after \in Int /\ client[c].high \in Int
       /\ seen[c] \in Seq(Nat) /\ chan[c] \in Seq(Nat) /\ before[c] \in Nat
  BY ClientFields
<1>1. PICK s \in Seq(Nat), old \in Seq(Nat), b \in Nat :
        s = client[c].replay /\ old = seen[c] /\ b = before[c]
  BY <1>00
<1>2. PICK cur \in Int, aft \in Int, hi \in Int, tp \in Nat :
        /\ cur = client[c].cursor /\ aft = client[c].after
        /\ hi = client[c].high /\ tp = client[c].tip
  BY <1>00
<1>3. PICK h, t, new : h = Head(s) /\ t = Tail(s) /\ new = Append(old, h)
  OBVIOUS
<1>4. /\ client[c].pc = "streaming" /\ s # <<>> /\ seen' = [seen EXCEPT ![c] = new]
      /\ UNCHANGED <<log, chan, lagged, before, orphan>>
      /\ client' = [client EXCEPT ![c].replay = t, ![c].cursor = h]
  BY <1>1, <1>3, Zenon DEF DeliverReplay, Receive
<1>5. /\ t \in Seq(Nat) /\ Len(t) \in Nat /\ Len(s) = Len(t) + 1
      /\ \A k \in 1 .. Len(t) : k + 1 \in 1 .. Len(s) /\ t[k] = s[k + 1]
      /\ h = s[1] /\ 1 \in 1 .. Len(s) /\ h \in Nat
      /\ t # <<>> => t[Len(t)] = s[Len(s)]
      /\ t = <<>> => h = s[Len(s)]
      /\ \A i \in Range(s) : i = h \/ i \in Range(t)
  BY <1>3, <1>4, TailOf, ZenonT(60)
<1>6. h \in Nat /\ t \in Seq(Nat) /\ h = s[1]
  BY <1>5
<1>7. /\ client' \in [Client -> ClientRecord] /\ client'[c].pc = "streaming"
      /\ client'[c].cursor = h /\ client'[c].after = aft
      /\ client'[c].tip = tp /\ client'[c].replay = t /\ client'[c].high = hi
      /\ \A d \in Client : d # c => client'[d] = client[d]
  <2>1. CursorAt(c, h, t)
    BY <1>4, <1>6, CursorMoves
  <2>2. QED
    BY <1>2, <1>4, <2>1 DEF CursorAt
<1>8. /\ new \in Seq(Nat) /\ Len(old) \in Nat /\ Len(new) = Len(old) + 1
      /\ new[Len(new)] = h /\ new # <<>>
      /\ old # <<>> => new[1] = old[1]
      /\ \A i : i \in Range(old) \/ i = h => i \in Range(new)
  <2>1. Grown(new, old, h)
    BY <1>3, <1>6, AppendSeen
  <2>2. QED
    BY <2>1 DEF Grown
<1>9. /\ seen' \in [Client -> Seq(Nat)] /\ seen'[c] = new
      /\ \A d \in Client : d # c => seen'[d] = seen[d]
  <2>1. seen \in [Client -> Seq(Nat)] /\ new \in Seq(Nat)
    BY <1>8 DEF ClientTyped
  <2>2. QED
    BY <1>4, <2>1
<1>10. /\ old # <<>> /\ cur = old[Len(old)] /\ cur > 0 /\ aft <= cur /\ tp <= Tip /\ b <= Len(old)
       /\ hi = s[Len(s)]
  BY <1>1, <1>2, <1>4 DEF Serves, Reading
<1>11. /\ \A k \in 1 .. Len(s) : cur < s[k] /\ s[k] <= tp
       /\ \A k, l \in 1 .. Len(s) : k < l => s[k] < s[l]
  BY <1>1, <1>2, <1>4 DEF Serves, Reading
<1>12. cur < h /\ h <= tp
  BY <1>5, <1>11
<1>13. h <= Tip /\ h > 0 /\ aft <= h
  <2>1. cur > 0 /\ aft <= cur /\ tp <= Tip
    BY <1>10, Zenon
  <2>2. cur < h /\ h <= tp /\ h \in Nat /\ Tip \in Nat
    BY <1>0, <1>6, <1>12, Zenon
  <2>3. QED
    BY ONLY cur \in Int, aft \in Int, tp \in Nat, <2>1, <2>2
<1>14. ASSUME NEW k \in 1 .. Len(t) PROVE h < t[k] /\ t[k] <= tp
  <2>1. k + 1 \in 1 .. Len(s) /\ t[k] = s[k + 1] /\ 1 < k + 1
    BY <1>5
  <2>2. s[1] < s[k + 1] /\ s[k + 1] <= tp
    BY <1>5, <1>11, <2>1
  <2>3. QED
    BY <1>6, <2>1, <2>2
<1>15. ASSUME NEW k \in 1 .. Len(t), NEW l \in 1 .. Len(t), k < l PROVE t[k] < t[l]
  <2>1. k + 1 \in 1 .. Len(s) /\ l + 1 \in 1 .. Len(s) /\ k + 1 < l + 1
    BY <1>5, <1>15
  <2>2. t[k] = s[k + 1] /\ t[l] = s[l + 1]
    BY <1>5
  <2>3. QED
    BY <1>11, <2>1, <2>2
<1>16. Channel(c)'
  BY <1>2, <1>4, <1>7 DEF Serves, Channel
<1>17. Reading(c)'
  <2>1. b <= Len(new) /\ Len(new) # b
    BY <1>8, <1>10, SMTT(40)
  <2>2. IF t = <<>> THEN hi <= h ELSE hi = t[Len(t)]
    BY <1>5, <1>10
  <2>3. h = IF new = <<>> THEN NoCursor ELSE new[Len(new)]
    BY <1>8
  <2>4. new # <<>>
    BY <1>8
  <2>5. QED
    BY <1>1, <1>4, <1>7, <1>9, <1>10, <1>13, <1>14, <1>15, <2>1, <2>2, <2>3, <2>4, ZenonT(60) DEF Reading
<1>18. Once(c)'
  <2>1. t = <<>> => hi = h /\ h <= hi
    BY <1>5, <1>10
  <2>2. QED
    BY <1>4, <1>7, <1>9, <2>1 DEF Once
<1>19. Sorted(c)'
  <2>1. \A i, j \in 1 .. Len(old) : i < j => old[i] <= old[j] /\ (i > b => old[i] < old[j])
    BY <1>1 DEF Serves, Sorted
  <2>2. old[Len(old)] <= h /\ old[Len(old)] < h /\ b <= Len(old)
    BY <1>6, <1>10, <1>12, SMTT(40)
  <2>3. \A i, j \in 1 .. Len(new) : i < j => new[i] <= new[j] /\ (i > b => new[i] < new[j])
    BY <1>3, <1>6, <2>1, <2>2, SortedAppend
  <2>4. QED
    BY <1>1, <1>4, <1>9, <2>3 DEF Sorted
<1>20. \A i \in DOMAIN log : Wanted(c, i) /\ cur < i /\ i <= tp => i \in Range(s)
  BY <1>1, <1>2, <1>4, <1>10 DEF Serves, Replayed
<1>21. Replayed(c)'
  <2>1. ASSUME NEW i \in DOMAIN log, Wanted(c, i), h < i, i <= tp PROVE i \in Range(t)
    <3>1. i \in Nat
      BY <1>0
    <3>2. cur < i /\ i # h
      BY <1>6, <1>12, <2>1, <3>1
    <3>3. i \in Range(s)
      BY <1>20, <2>1, <3>2
    <3>4. QED
      BY <1>5, <3>2, <3>3
  <2>2. QED
    BY <1>4, <1>7, <2>1 DEF Replayed, Wanted
<1>22. Followed(c)'
  <2>1. ASSUME NEW i \in DOMAIN log, i <= cur PROVE i <= h
    <3>1. i \in Nat
      BY <1>0
    <3>2. QED
      BY <1>6, <1>12, <2>1, <3>1
  <2>2. seen[c] # <<>>
    BY <1>1, <1>10
  <2>3. QED
    BY <1>2, <1>4, <1>7, <1>9, <2>1, <2>2 DEF Serves, Followed, Wanted
<1>23. Gapless(c)'
  <2>1. ASSUME NEW i \in DOMAIN log, new[1] < i, i <= h, Wanted(c, i)
        PROVE  i \in Range(new) \cup orphan
    <3>0. i \in Nat /\ new[1] = old[1]
      BY <1>0, <1>8, <1>10
    <3>1. CASE i <= cur
      <4>1. i \in Range(old) \cup orphan
        BY <1>1, <1>2, <1>10, <2>1, <3>0, <3>1 DEF Serves, Gapless
      <4>2. QED
        BY <1>8, <4>1
    <3>2. CASE ~(i <= cur)
      <4>1. cur < i /\ i <= tp
        BY <1>6, <1>12, <2>1, <3>0, <3>2
      <4>2. i \in Range(s)
        BY <1>20, <2>1, <4>1
      <4>3. ASSUME i \in Range(t) PROVE FALSE
        <5>1. PICK k \in 1 .. Len(t) : t[k] = i
          BY <1>6, <4>3, InRange
        <5>2. h < i
          BY <1>14, <5>1
        <5>3. QED
          BY <1>6, <2>1, <3>0, <5>2
      <4>4. i = h
        BY <1>5, <4>2, <4>3
      <4>5. QED
        BY <1>8, <4>4
    <3>3. QED
      BY <3>1, <3>2
  <2>2. QED
    BY <1>4, <1>7, <1>9, <2>1 DEF Gapless, Wanted
<1>24. QED
  BY <1>4, <1>7, <1>9, <1>16, <1>17, <1>18, <1>19, <1>21, <1>22, <1>23
  DEF Serves, ClientTyped, Others

\* A channel keeps its order when its first frame is taken.
LEMMA TailChannel ==
    ASSUME NEW c \in Client, Serves(c), Tip' = Tip, Pending' = Pending,
           client'[c].after = client[c].after,
           NEW s \in Seq(Nat), s = chan[c], NEW t \in Seq(Nat), t = chan'[c],
           Len(t) \in Nat, Len(s) = Len(t) + 1,
           \A k \in 1 .. Len(t) : k + 1 \in 1 .. Len(s) /\ t[k] = s[k + 1]
    PROVE  Channel(c)'
<1>1. /\ \A k \in 1 .. Len(s) : s[k] <= Tip
      /\ \A k \in 1 .. Len(s) : s[k] # Transient =>
            client[c].after <= s[k] /\ \A j \in Pending : s[k] < j
      /\ \A k, l \in 1 .. Len(s) : k < l /\ s[k] # Transient /\ s[l] # Transient => s[k] < s[l]
  BY DEF Serves, Channel
<1>2. \A k \in 1 .. Len(t) : t[k] <= Tip
  BY <1>1
<1>3. \A k \in 1 .. Len(t) : t[k] # Transient =>
         client[c].after <= t[k] /\ \A j \in Pending : t[k] < j
  BY <1>1
<1>4. ASSUME NEW k \in 1 .. Len(t), NEW l \in 1 .. Len(t), k < l,
             t[k] # Transient, t[l] # Transient
      PROVE  t[k] < t[l]
  <2>1. k \in Nat /\ l \in Nat
    OBVIOUS
  <2>2. PICK x, y : x = k + 1 /\ y = l + 1
    OBVIOUS
  <2>3. x < y
    BY ONLY <1>4, <2>1, <2>2
  <2>4. x \in 1 .. Len(s) /\ y \in 1 .. Len(s) /\ t[k] = s[x] /\ t[l] = s[y]
    BY <2>2
  <2>5. QED
    BY <1>1, <1>4, <2>3, <2>4
<1>5. QED
  BY <1>2, <1>3, <1>4 DEF Channel

\* A live frame that is dropped was replayed, or belongs to another session.
LEMMA SkipServes ==
    ASSUME ClientTyped, Dense, NEW c \in Client, Serves(c), Tip' = Tip, Pending' = Pending,
           client[c].pc = "streaming", client[c].replay = <<>>, chan[c] # <<>>,
           chan' = [chan EXCEPT ![c] = Tail(@)],
           LET f == Head(chan[c]) IN f # Transient => (f <= client[c].high \/ ~Wanted(c, f)),
           UNCHANGED <<client, seen, log, lagged, before, orphan>>
    PROVE  ClientTyped' /\ Serves(c)' /\ Others(c)
<1>0. Tip \in Nat /\ DOMAIN log = 1 .. Tip
  BY DEF Dense
<1>00. /\ client[c].cursor \in Int /\ client[c].high \in Int
       /\ seen[c] \in Seq(Nat) /\ chan[c] \in Seq(Nat) /\ before[c] \in Nat
  BY ClientFields
<1>a. PICK s \in Seq(Nat) : s = chan[c]
  BY <1>00
<1>1. PICK f, t : s = chan[c] /\ f = Head(s) /\ t = Tail(s)
  BY <1>a
<1>2. PICK cur \in Int, hi \in Int : cur = client[c].cursor /\ hi = client[c].high
  BY <1>00
<1>3. /\ t \in Seq(Nat) /\ Len(t) \in Nat /\ Len(s) = Len(t) + 1
      /\ \A k \in 1 .. Len(t) : k + 1 \in 1 .. Len(s) /\ t[k] = s[k + 1]
      /\ f = s[1] /\ 1 \in 1 .. Len(s) /\ f \in Nat
      /\ \A i \in Range(s) : i = f \/ i \in Range(t)
  BY <1>1, TailOf, ZenonT(60)
<1>4. t \in Seq(Nat) /\ f \in Nat
  BY <1>3
<1>5. /\ chan' \in [Client -> Seq(Nat)] /\ chan'[c] = t
      /\ \A d \in Client : d # c => chan'[d] = chan[d]
  <2>1. chan \in [Client -> Seq(Nat)] /\ chan' = [chan EXCEPT ![c] = t]
    BY <1>1 DEF ClientTyped
  <2>2. QED
    BY <1>4, <2>1
<1>6. f # Transient => f <= hi \/ ~Wanted(c, f)
  BY <1>1, <1>2
<1>7. Channel(c)'
  BY <1>1, <1>3, <1>5, TailChannel
<1>8. Reading(c)' /\ Sorted(c)'
  BY DEF Serves, Reading, Sorted
<1>9. Once(c)'
  BY <1>1, <1>3, <1>5 DEF Serves, Once
<1>10. Replayed(c)' /\ Gapless(c)'
  BY DEF Serves, Replayed, Gapless, Wanted
<1>11. Followed(c)'
  <2>1. SUFFICES ASSUME c \notin lagged, NEW i \in DOMAIN log \ orphan,
                        i \notin Range(t) \cup Pending
                 PROVE  /\ \A k \in 1 .. Len(t) : t[k] # Transient => i <= t[k]
                        /\ seen[c] # <<>> /\ Wanted(c, i) => i <= client[c].tip \/ i <= cur
    BY <1>2, <1>5 DEF Followed, Wanted
  <2>2. CASE i = f
    <3>1. i # Transient /\ (f <= hi \/ ~Wanted(c, f))
      BY <1>0, <1>6, <2>2 DEF Transient
    <3>2. hi <= cur
      BY <1>2 DEF Serves, Reading
    <3>3. Wanted(c, i) => i <= cur
      BY <1>4, <2>2, <3>1, <3>2
    <3>4. ASSUME NEW k \in 1 .. Len(t), t[k] # Transient PROVE i <= t[k]
      <4>1. k + 1 \in 1 .. Len(s) /\ t[k] = s[k + 1] /\ 1 < k + 1 /\ t[k] \in Nat
        BY <1>3, SMTT(40)
      <4>2. s[1] # Transient
        BY <1>0, <1>3, <2>2 DEF Transient
      <4>3. s[1] < s[k + 1]
        BY <1>1, <1>3, <3>4, <4>1, <4>2 DEF Serves, Channel
      <4>4. QED
        BY <1>3, <2>2, <4>1, <4>3
    <3>5. QED
      BY <3>3, <3>4
  <2>3. CASE i # f
    <3>1. i \notin Range(s) \cup Pending
      BY <1>3, <2>1, <2>3
    <3>2. /\ \A k \in 1 .. Len(s) : s[k] # Transient => i <= s[k]
          /\ seen[c] # <<>> /\ Wanted(c, i) => i <= client[c].tip \/ i <= cur
      BY <1>1, <1>2, <2>1, <3>1 DEF Serves, Followed
    <3>3. QED
      BY <1>3, <3>2
  <2>4. QED
    BY <2>2, <2>3
<1>12. QED
  BY <1>5, <1>7, <1>8, <1>9, <1>10, <1>11 DEF Serves, ClientTyped, Others

\* A live frame that is delivered is the next one after the cursor.
LEMMA LiveServes ==
    ASSUME ClientTyped, Dense, NEW c \in Client, Serves(c), Tip' = Tip, Pending' = Pending,
           client[c].pc = "streaming", client[c].replay = <<>>, chan[c] # <<>>, c \notin lagged,
           chan' = [chan EXCEPT ![c] = Tail(@)],
           NEW f, f = Head(chan[c]), f # Transient, f > client[c].high, Wanted(c, f),
           seen' = [seen EXCEPT ![c] = Append(@, f)],
           client' = [client EXCEPT ![c].cursor = f],
           UNCHANGED <<log, lagged, before, orphan>>
    PROVE  ClientTyped' /\ Serves(c)' /\ Others(c)
<1>0. Tip \in Nat /\ DOMAIN log = 1 .. Tip
  BY DEF Dense
<1>00. /\ client[c].tip \in Nat /\ client[c].replay \in Seq(Nat)
       /\ client[c].cursor \in Int /\ client[c].after \in Int /\ client[c].high \in Int
       /\ seen[c] \in Seq(Nat) /\ chan[c] \in Seq(Nat) /\ before[c] \in Nat
  BY ClientFields
<1>a. PICK s \in Seq(Nat), old \in Seq(Nat), b \in Nat :
         s = chan[c] /\ old = seen[c] /\ b = before[c]
  BY <1>00
<1>1. PICK t, new :
         /\ s = chan[c] /\ old = seen[c] /\ b = before[c] /\ t = Tail(s)
         /\ new = Append(old, f)
  BY <1>a
<1>2. PICK cur \in Int, aft \in Int, hi \in Int, tp \in Nat :
        /\ cur = client[c].cursor /\ aft = client[c].after
        /\ hi = client[c].high /\ tp = client[c].tip
  BY <1>00
<1>3. /\ t \in Seq(Nat) /\ Len(t) \in Nat /\ Len(s) = Len(t) + 1
      /\ \A k \in 1 .. Len(t) : k + 1 \in 1 .. Len(s) /\ t[k] = s[k + 1]
      /\ f = s[1] /\ 1 \in 1 .. Len(s) /\ f \in Nat
      /\ \A i \in Range(s) : i = f \/ i \in Range(t)
  BY <1>1, TailOf, ZenonT(60)
<1>4. t \in Seq(Nat) /\ f \in Nat /\ f > hi
  BY <1>2, <1>3
<1>5. /\ chan' \in [Client -> Seq(Nat)] /\ chan'[c] = t
      /\ \A d \in Client : d # c => chan'[d] = chan[d]
  <2>1. chan \in [Client -> Seq(Nat)] /\ chan' = [chan EXCEPT ![c] = t]
    BY <1>1 DEF ClientTyped
  <2>2. QED
    BY <1>4, <2>1
<1>6. /\ client' \in [Client -> ClientRecord] /\ client'[c].pc = "streaming"
      /\ client'[c].cursor = f /\ client'[c].after = aft
      /\ client'[c].tip = tp /\ client'[c].replay = <<>> /\ client'[c].high = hi
      /\ \A d \in Client : d # c => client'[d] = client[d]
  <2>1. <<>> \in Seq(Nat)
    OBVIOUS
  <2>2. CursorAt(c, f, <<>>)
    BY <1>4, <2>1, CursorMoves
  <2>3. QED
    BY <1>2, <2>2 DEF CursorAt
<1>7. /\ new \in Seq(Nat) /\ Len(old) \in Nat /\ Len(new) = Len(old) + 1
      /\ new[Len(new)] = f /\ new # <<>>
      /\ old # <<>> => new[1] = old[1]
      /\ old = <<>> => new[1] = f
      /\ \A i : i \in Range(old) \/ i = f => i \in Range(new)
  <2>1. Grown(new, old, f)
    BY <1>1, <1>4, AppendSeen
  <2>2. QED
    BY <2>1 DEF Grown
<1>8. /\ seen' \in [Client -> Seq(Nat)] /\ seen'[c] = new
      /\ \A d \in Client : d # c => seen'[d] = seen[d]
  <2>1. seen \in [Client -> Seq(Nat)] /\ new \in Seq(Nat) /\ seen' = [seen EXCEPT ![c] = new]
    BY <1>1, <1>7 DEF ClientTyped
  <2>2. QED
    BY <2>1
<1>9. /\ cur = (IF old = <<>> THEN NoCursor ELSE old[Len(old)])
      /\ aft <= cur /\ tp <= Tip /\ b <= Len(old) /\ hi <= cur
      /\ old = <<>> => tp = 0
      /\ Len(old) = b => cur = aft
  BY <1>1, <1>2 DEF Serves, Reading
<1>10. /\ f <= Tip /\ aft <= f /\ \A j \in Pending : f < j
       /\ \A k \in 1 .. Len(t) : t[k] # Transient => t[k] \in Nat /\ f < t[k]
  <2>1. f <= Tip /\ aft <= f /\ \A j \in Pending : f < j
    BY <1>1, <1>2, <1>3 DEF Serves, Channel
  <2>2. ASSUME NEW k \in 1 .. Len(t), t[k] # Transient PROVE t[k] \in Nat /\ f < t[k]
    <3>1. k + 1 \in 1 .. Len(s) /\ t[k] = s[k + 1] /\ 1 < k + 1
      BY <1>3
    <3>2. s[1] < s[k + 1]
      BY <1>1, <1>3, <2>2, <3>1 DEF Serves, Channel
    <3>3. t[k] \in Nat
      BY <1>4, SMTT(40)
    <3>4. QED
      BY <1>3, <3>1, <3>2, <3>3
  <2>3. QED
    BY <2>1, <2>2
<1>11. Len(old) > b => cur < f
  BY <1>1, <1>2, <1>3, <1>4 DEF Serves, Once
<1>12. cur <= f /\ f > 0
  <2>1. f > 0
    BY <1>4 DEF Transient
  <2>2. Len(old) = b => cur <= f
    BY <1>9, <1>10
  <2>3. Len(old) = b \/ Len(old) > b
    BY <1>7, <1>9
  <2>4. QED
    BY <1>4, <1>11, <2>1, <2>2, <2>3
<1>13. Channel(c)'
  BY <1>1, <1>2, <1>3, <1>5, <1>6, TailChannel, ZenonT(60)
<1>14. Reading(c)'
  <2>1. b <= Len(new) /\ Len(new) # b
    BY <1>7, <1>9
  <2>2. f = IF new = <<>> THEN NoCursor ELSE new[Len(new)]
    BY <1>7
  <2>3. new # <<>> /\ hi <= f /\ Len(<<>>) = 0 /\ 1 .. 0 = {}
    BY <1>4, <1>7, SMTT(40)
  <2>4. QED
    <3>1. aft <= f /\ tp <= Tip /\ f <= Tip /\ f > 0
      BY <1>9, <1>10, <1>12
    <3>2. before'[c] = b
      BY <1>1
    <3>3. QED
      BY <1>6, <1>8, <2>1, <2>2, <2>3, <3>1, <3>2 DEF Reading
<1>15. Once(c)'
  <2>1. ASSUME NEW k \in 1 .. Len(t), t[k] # Transient PROVE t[k] > f
    <3>1. t[k] \in Nat /\ f < t[k]
      BY <1>10, <2>1
    <3>2. QED
      BY <1>4, <3>1
  <2>2. \A j \in Pending : f < j
    BY <1>10
  <2>3. client'[c].cursor = f /\ chan'[c] = t
    BY <1>5, <1>6
  <2>4. \A k \in 1 .. Len(t) : t[k] # Transient => t[k] > f
    BY <2>1
  <2>5. /\ \A j \in Pending' : client'[c].cursor < j
        /\ \A k \in 1 .. Len(chan'[c]) : chan'[c][k] # Transient => chan'[c][k] > client'[c].cursor
    BY <2>2, <2>3, <2>4, Zenon
  <2>6. QED
    BY <2>5, Zenon DEF Once
<1>16. Sorted(c)'
  <2>1. \A i, j \in 1 .. Len(old) : i < j => old[i] <= old[j] /\ (i > b => old[i] < old[j])
    BY <1>1 DEF Serves, Sorted
  <2>2. /\ old # <<>> => old[Len(old)] <= f
        /\ Len(old) > b => old[Len(old)] < f
    <3>1. Len(old) > b => old # <<>>
      BY <1>7
    <3>2. QED
      BY <1>9, <1>11, <1>12, <3>1
  <2>3. \A i, j \in 1 .. Len(new) : i < j => new[i] <= new[j] /\ (i > b => new[i] < new[j])
    <3>1. f \in Nat /\ b <= Len(old) /\ new = Append(old, f)
      BY <1>1, <1>4, <1>9
    <3>2. QED
      BY <2>1, <2>2, <3>1, SortedAppend, ZenonT(60)
  <2>4. QED
    BY <1>1, <1>8, <2>3 DEF Sorted
<1>17. \A i \in DOMAIN log : Wanted(c, i) /\ cur < i /\ i <= tp => FALSE
  <2>1. SUFFICES ASSUME NEW i \in DOMAIN log, Wanted(c, i), cur < i, i <= tp PROVE FALSE
    OBVIOUS
  <2>2. CASE old = <<>>
    BY <1>0, <1>9, <2>1, <2>2
  <2>3. CASE old # <<>>
    <3>1. i \in Range(<<>>)
      BY <1>1, <1>2, <2>1, <2>3 DEF Serves, Replayed
    <3>2. QED
      BY <3>1 DEF Range
  <2>4. QED
    BY <2>2, <2>3
<1>18. Replayed(c)'
  <2>1. ASSUME NEW i \in DOMAIN log, Wanted(c, i), f < i, i <= tp PROVE FALSE
    <3>1. i \in Nat
      BY <1>0
    <3>2. cur < i
      BY <1>4, <1>12, <2>1, <3>1
    <3>3. QED
      BY <1>17, <2>1, <3>2
  <2>2. QED
    BY <1>6, <2>1 DEF Replayed, Wanted
\* What the channel does not hold any more is not beyond the frame.
<1>19. ASSUME NEW i \in DOMAIN log \ orphan, i \notin Range(t) \cup Pending
       PROVE  /\ i <= f
              /\ \/ i = f
                 \/ old # <<>> /\ Wanted(c, i) => i <= tp \/ i <= cur
  <2>1. CASE i = f
    BY <1>4, <2>1
  <2>2. CASE i # f
    <3>1. i \notin Range(s) \cup Pending
      BY <1>3, <1>19, <2>2
    <3>2. /\ \A k \in 1 .. Len(s) : s[k] # Transient => i <= s[k]
          /\ old # <<>> /\ Wanted(c, i) => i <= tp \/ i <= cur
      BY <1>1, <1>2, <1>19, <3>1 DEF Serves, Followed
    <3>3. QED
      BY <1>3, <3>2
  <2>3. QED
    BY <2>1, <2>2
<1>20. Followed(c)'
  <2>1. ASSUME NEW i \in DOMAIN log \ orphan, i \notin Range(t) \cup Pending
        PROVE  /\ \A k \in 1 .. Len(t) : t[k] # Transient => i <= t[k]
               /\ i <= f
    <3>1. i \in Nat /\ i <= f
      BY <1>0, <1>19, <2>1
    <3>2. ASSUME NEW k \in 1 .. Len(t), t[k] # Transient PROVE i <= t[k]
      <4>1. t[k] \in Nat /\ f < t[k]
        BY <1>10, <3>2
      <4>2. QED
        BY <1>4, <3>1, <4>1, SMTT(40)
    <3>3. QED
      BY <3>1, <3>2
  <2>2. QED
    BY <1>5, <1>6, <2>1, ZenonT(60) DEF Followed
<1>21. Gapless(c)'
  <2>1. ASSUME NEW i \in DOMAIN log, new[1] < i, i <= f, Wanted(c, i)
        PROVE  i \in Range(new) \cup orphan
    <3>0. i \in Nat
      BY <1>0
    <3>1. old # <<>>
      <4>1. ~(f < i)
        BY <1>4, <2>1, <3>0
      <4>2. QED
        BY <1>7, <2>1, <4>1
    <3>2. CASE i <= cur
      <4>1. i \in Range(old) \cup orphan
        BY <1>1, <1>2, <1>7, <2>1, <3>1, <3>2 DEF Serves, Gapless
      <4>2. QED
        BY <1>7, <4>1
    <3>3. CASE ~(i <= cur) /\ i # f /\ i \notin orphan
      <4>1. cur < i /\ ~(i <= tp)
        BY <1>17, <2>1, <3>0, <3>3
      <4>2. i < f
        BY <1>4, <2>1, <3>0, <3>3
      <4>3. i \notin Pending
        BY <1>4, <1>10, <3>0, <4>2
      <4>4. ASSUME i \in Range(t) PROVE FALSE
        <5>1. PICK k \in 1 .. Len(t) : t[k] = i
          BY <1>4, <4>4, InRange
        <5>2. i # Transient
          BY <1>0, <2>1 DEF Transient
        <5>3. f < i
          BY <1>10, <5>1, <5>2
        <5>4. QED
          BY <1>4, <3>0, <4>2, <5>3, SMTT(40)
      <4>5. QED
        BY <1>19, <2>1, <3>1, <3>3, <4>1, <4>3, <4>4
    <3>4. QED
      BY <1>7, <3>2, <3>3
  <2>2. QED
    BY <1>6, <1>8, <2>1 DEF Gapless, Wanted
<1>22. QED
  BY <1>5, <1>6, <1>8, <1>13, <1>14, <1>15, <1>16, <1>18, <1>20, <1>21
  DEF Serves, ClientTyped, Others

\* The next frame of the channel is delivered or dropped.
LEMMA DeliverServes ==
    ASSUME ClientTyped, Dense, NEW c \in Client, Serves(c), Tip' = Tip, Pending' = Pending,
           DeliverLive(c)
    PROVE  ClientTyped' /\ Serves(c)' /\ Others(c)
<1>1. /\ client[c].pc = "streaming" /\ client[c].replay = <<>> /\ chan[c] # <<>> /\ c \notin lagged
      /\ chan' = [chan EXCEPT ![c] = Tail(@)] /\ UNCHANGED <<log, lagged, before, orphan>>
  BY DEF DeliverLive
<1>2. PICK f : f = Head(chan[c])
  OBVIOUS
<1>3. CASE /\ f # Transient /\ f > client[c].high /\ Wanted(c, f)
           /\ seen' = [seen EXCEPT ![c] = Append(@, f)]
           /\ client' = [client EXCEPT ![c].cursor = f]
  BY <1>1, <1>2, <1>3, LiveServes
<1>4. CASE /\ f # Transient => (f <= client[c].high \/ ~Wanted(c, f))
           /\ UNCHANGED <<client, seen>>
  BY <1>1, <1>2, <1>4, SkipServes
<1>5. QED
  BY <1>2, <1>3, <1>4, Zenon DEF DeliverLive, Receive

-------------------------------------------------------------------------------
(* Every step.                                                             *)

Streaming == Publishing /\ ClientTyped /\ \A c \in Client : Serves(c)

\* At first nobody is connected and nothing was seen.
LEMMA InitStreaming == Init => Streaming
<1> SUFFICES ASSUME Init PROVE Streaming
  OBVIOUS
<1>1. Publishing /\ Pending = {} /\ Tip = 0
  BY InitPublishing
<1>2. ClientTyped
  <2>1. <<>> \in Seq(Nat) /\ 0 \in Nat /\ Offline \in ClientRecord
    BY RestTyped
  <2>2. QED
    BY <2>1 DEF Init, ClientTyped
<1>3. ASSUME NEW c \in Client PROVE Serves(c)
  <2>1. /\ chan[c] = <<>> /\ seen[c] = <<>> /\ before[c] = 0 /\ client[c] = Offline
        /\ DOMAIN log = {}
    BY DEF Init
  <2>2. Len(<<>>) = 0 /\ 1 .. 0 = {}
    OBVIOUS
  <2>3. /\ client[c].pc = "off" /\ client[c].cursor = NoCursor /\ client[c].after = NoCursor
        /\ client[c].tip = 0 /\ client[c].replay = <<>> /\ client[c].high = NoCursor
    BY <2>1 DEF Offline
  <2>4. Channel(c)
    BY <2>1, <2>2 DEF Channel
  <2>5. Reading(c)
    <3>1. NoCursor <= 0 /\ NoCursor <= NoCursor
      BY DEF NoCursor
    <3>2. QED
      BY <1>1, <2>1, <2>2, <2>3, <3>1 DEF Reading
  <2>6. Once(c) /\ Followed(c)
    BY <2>3 DEF Once, Followed
  <2>7. Sorted(c)
    BY <2>1, <2>2 DEF Sorted
  <2>8. Replayed(c) /\ Gapless(c)
    BY <2>1 DEF Replayed, Gapless
  <2>9. QED
    BY <2>4, <2>5, <2>6, <2>7, <2>8 DEF Serves
<1>4. QED
  BY <1>1, <1>2, <1>3 DEF Streaming

\* A step of the publishers.
LEMMA PublishedStreaming ==
    ASSUME Streaming, Publishing', NEW f \in Nat, Quiet \/ Grows \/ Sends(f)
    PROVE  Streaming'
<1>1. ClientTyped /\ Dense
  BY DEF Streaming, Publishing, Numbered, Dense
<1>2. ASSUME NEW c \in Client PROVE Serves(c)'
  <2>1. Serves(c)
    BY DEF Streaming
  <2>2. QED
    BY <1>1, <2>1, QuietServes, GrowsServes, SendServes
<1>3. ClientTyped'
  <2>1. CASE Quiet \/ Grows
    BY <1>1, <2>1 DEF Quiet, Grows, ClientTyped
  <2>2. CASE Sends(f)
    <3>1. Send(f) /\ UNCHANGED <<client, seen, before>>
      BY <2>2 DEF Sends
    <3>2. CASE Client = {}
      <4>1. chan' \in [Client -> Seq(Nat)] /\ lagged' \subseteq Client
        BY <1>1, <3>1, <3>2 DEF Send, ClientTyped
      <4>2. QED
        BY <1>1, <3>1, <4>1 DEF ClientTyped
    <3>3. CASE Client # {}
      <4>1. PICK c \in Client : TRUE
        BY <3>3
      <4>2. chan' \in [Client -> Seq(Nat)] /\ lagged' \subseteq Client
        BY <1>1, <3>1, <4>1, SendMoves
      <4>3. QED
        BY <1>1, <3>1, <4>2 DEF ClientTyped
    <3>4. QED
      BY <3>2, <3>3
  <2>3. QED
    BY <2>1, <2>2
<1>4. QED
  BY <1>2, <1>3 DEF Streaming

\* A step of one client.
LEMMA ClientStreaming ==
    ASSUME Streaming, NEW c \in Client, ClientStep(c) \/ Disconnect(c)
    PROVE  Streaming'
<1>1. UNCHANGED <<log, counter, lock, pub, drops, collisions>>
  BY DEF ClientStep, Connect, CheckCursorInWindow, ReadTip, ReadPage, DeliverReplay,
         DeliverLive, DeliverLagged, Disconnect, hist
<1>2. Publishing /\ ClientTyped /\ Dense /\ Serves(c)
  BY DEF Streaming, Publishing, Numbered, Dense
<1>3. Publishing' /\ Pending' = Pending /\ Tip' = Tip
  BY <1>1, <1>2, PublishingUnchanged
<1>4. ClientTyped' /\ Serves(c)' /\ Others(c)
  <2>1. CASE Connect(c)
    BY <1>2, <1>3, <2>1, ConnectServes
  <2>2. CASE CheckCursorInWindow(c)
    BY <1>2, <1>3, <2>2, CheckServes
  <2>3. CASE ReadTip(c)
    BY <1>2, <1>3, <2>3, TipServes
  <2>4. CASE ReadPage(c)
    BY <1>2, <1>3, <2>4, PageServes
  <2>5. CASE DeliverReplay(c)
    BY <1>2, <1>3, <2>5, ReplayServes
  <2>6. CASE DeliverLive(c)
    BY <1>2, <1>3, <2>6, DeliverServes
  <2>7. CASE DeliverLagged(c) \/ Disconnect(c)
    <3>1. /\ client' = [client EXCEPT ![c] = Disconnected(c)]
          /\ chan' = [chan EXCEPT ![c] = <<>>] /\ lagged' = lagged \ {c}
          /\ UNCHANGED <<log, seen, before, orphan>>
      BY <2>7 DEF DeliverLagged, Disconnect, hist
    <3>2. QED
      BY <1>2, <1>3, <3>1, HangUpServes
  <2>8. QED
    BY <2>1, <2>2, <2>3, <2>4, <2>5, <2>6, <2>7 DEF ClientStep
<1>5. ASSUME NEW d \in Client, d # c PROVE Serves(d)'
  <2>1. Serves(d)
    BY DEF Streaming
  <2>2. /\ client'[d] = client[d] /\ chan'[d] = chan[d] /\ seen'[d] = seen[d]
        /\ before'[d] = before[d] /\ (d \in lagged' <=> d \in lagged)
        /\ log' = log /\ orphan' = orphan
    BY <1>4, <1>5 DEF Others
  <2>3. QED
    BY <1>3, <2>1, <2>2, ServesKept
<1>6. QED
  BY <1>3, <1>4, <1>5, SMTT(40) DEF Streaming

\* The process starts again: every client is off and keeps its cursor.
LEMMA RestartStreaming == ASSUME Streaming, Restart PROVE Streaming'
<1>1. Publishing /\ ClientTyped /\ Dense
  BY DEF Streaming, Publishing, Numbered, Dense
<1>2. Publishing' /\ Tip' = Tip
  BY <1>1, RestartPublishes
<1>3. /\ client' = [c \in Client |-> Disconnected(c)] /\ chan' = [c \in Client |-> <<>>]
      /\ lagged' = {} /\ UNCHANGED <<log, seen, before, orphan>>
  BY DEF Restart, hist
<1>4. ASSUME NEW c \in Client PROVE Serves(c)' /\ client'[c] \in ClientRecord
  <2>1. Serves(c)
    BY DEF Streaming
  <2>2. client'[c] = Disconnected(c) /\ chan'[c] = <<>>
    BY <1>3
  <2>3. QED
    BY <1>1, <1>2, <1>3, <2>1, <2>2, OffServes
<1>5. ClientTyped'
  <2>1. client' \in [Client -> ClientRecord]
    <3>1. \A c \in Client : Disconnected(c) \in ClientRecord
      BY <1>3, <1>4
    <3>2. QED
      BY <1>3, <3>1
  <2>2. chan' \in [Client -> Seq(Nat)]
    BY <1>3
  <2>3. QED
    BY <1>1, <1>3, <2>1, <2>2 DEF ClientTyped
<1>6. QED
  BY <1>2, <1>4, <1>5 DEF Streaming

\* Every step.
LEMMA NextStreaming == Streaming /\ [Next]_vars => Streaming'
<1> SUFFICES ASSUME Streaming, [Next]_vars PROVE Streaming'
  OBVIOUS
<1>0. Publishing
  BY DEF Streaming
<1>1. CASE \E p \in Publisher :
              \/ \E s \in Session : Lock(p, s)
              \/ PublishStep(p) \/ SeedFails(p) \/ AppendFails(p) \/ PublishDropped(p)
  <2>1. PICK p \in Publisher :
              \/ \E s \in Session : Lock(p, s)
              \/ PublishStep(p) \/ SeedFails(p) \/ AppendFails(p) \/ PublishDropped(p)
    BY <1>1
  <2>2. Publishing' /\ (Quiet \/ Grows \/ Sends(pub[p].id))
    BY <1>0, <2>1, PublisherStep
  <2>3. pub[p].id \in Nat
    BY <1>0, PubFields DEF Publishing, PubTyped
  <2>4. QED
    BY <2>2, <2>3, PublishedStreaming
<1>2. CASE PublishTransient
  <2>1. Publishing' /\ Sends(Transient) /\ Transient \in Nat
    BY <1>0, <1>2, TransientPublishes DEF Transient
  <2>2. QED
    BY <2>1, PublishedStreaming
<1>3. CASE \E c \in Client : ClientStep(c) \/ Disconnect(c)
  BY <1>3, ClientStreaming
<1>4. CASE Restart
  BY <1>4, RestartStreaming
<1>5. CASE UNCHANGED vars
  <2>1. UNCHANGED <<log, counter, lock, pub, chan, lagged, client, seen, before, orphan,
                    drops, collisions>>
    BY <1>5 DEF vars
  <2>2. Publishing' /\ Pending' = Pending /\ Tip' = Tip
    BY <1>0, <2>1, PublishingUnchanged
  <2>3. ASSUME NEW c \in Client PROVE Serves(c)'
    <3>1. Serves(c)
      BY DEF Streaming
    <3>2. QED
      BY <2>1, <2>2, <3>1, ServesKept
  <2>4. ClientTyped'
    BY <2>1 DEF Streaming, ClientTyped
  <2>5. QED
    BY <2>2, <2>3, <2>4 DEF Streaming
<1>6. QED
  BY <1>1, <1>2, <1>3, <1>4, <1>5 DEF Next

\* What the theorems say, in every state with the invariant.
LEMMA StreamingShows == Streaming => IdsInOrder /\ NoGap
<1> SUFFICES ASSUME Streaming PROVE IdsInOrder /\ NoGap
  OBVIOUS
<1>1. Tip \in Nat /\ DOMAIN log = 1 .. Tip /\ collisions \in Nat /\ drops \in Nat /\ Paid
  BY DEF Streaming, Publishing, Numbered, PubTyped
<1>2. Cardinality(DOMAIN log) = Tip
  <2>1. Cardinality(1 .. Tip) = IF 1 > Tip THEN 0 ELSE Tip - 1 + 1
    BY <1>1, FS_Interval
  <2>2. QED
    BY <1>1, <2>1
<1>3. collisions <= drops
  BY <1>1, DetachedFinite DEF Paid
<1>4. InOrder
  BY DEF Streaming, Serves, Sorted, InOrder
<1>5. NoGap
  BY DEF Streaming, Serves, Gapless, NoGap
<1>6. QED
  BY <1>1, <1>2, <1>3, <1>4, <1>5 DEF IdsInOrder, IdsDense

\* The invariant holds from the first state on.
LEMMA StreamingAlways == Spec => []Streaming
<1>1. Init => Streaming
  BY InitStreaming
<1>2. Streaming /\ [Next]_vars => Streaming'
  BY NextStreaming
<1>3. QED
  BY <1>1, <1>2, PTL DEF Spec

\* Whatever fails, is dropped or restarts inside publish, no id is burnt and a drop
\* costs at most one event; and a client sees ids in their order, none twice on one
\* connection, over any replays, overflows and reconnections (bus/mod.rs publish,
\* routes/event.rs).
THEOREM StreamIdsInOrder == Spec => []IdsInOrder
<1>1. Streaming => IdsInOrder
  BY StreamingShows
<1>2. QED
  BY <1>1, StreamingAlways, PTL

\* A client's cursor passes no event of its sessions that it has not seen, unless
\* the event's publisher never broadcast it: subscribing before the replay is read,
\* a full channel closing the connection, and the cursor the client comes back with
\* leave no gap (routes/event.rs, event_repo.rs list_since).
THEOREM StreamNoGap == Spec => []NoGap
<1>1. Streaming => NoGap
  BY StreamingShows
<1>2. QED
  BY <1>1, StreamingAlways, PTL

=============================================================================

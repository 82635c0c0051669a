------------------------------ MODULE EventStream ------------------------------
(***************************************************************************)
(* The event bus and the SSE channel: durable publishes numbered, stored   *)
(* and broadcast under one lock, transient publishes, the bounded          *)
(* broadcast channel of each subscriber, the GET /v1/event handler         *)
(* (subscribe, replay the log, then follow the channel) and the client,    *)
(* which keeps the last id it saw and reconnects with it.                  *)
(*                                                                         *)
(* A durable frame is its event id; a transient frame, which has none, is  *)
(* Transient.  The payload of an event is the session it belongs to.       *)
(***************************************************************************)
EXTENDS Naturals, Sequences, FiniteSets, Functions

CONSTANTS
    Publisher,    \* concurrent publish() calls
    NoPublisher,  \* the lock is free
    Session,
    Client,
    Filter,       \* Filter[c]: the sessions client c asked for
    MaxId,        \* bound on the ids handed out
    Cap,          \* BROADCAST_CAPACITY
    Window,       \* REPLAY_WINDOW
    PageLimit,    \* REPLAY_PAGE_LIMIT
    MaxFaults     \* bound on store errors, dropped futures and calls, restarts

ASSUME EventAssumption ==
    /\ NoPublisher \notin Publisher /\ IsFiniteSet(Publisher)
    /\ Filter \in [Client -> SUBSET Session]
    /\ MaxId \in Nat /\ Window \in Nat /\ MaxFaults \in Nat
    /\ Cap \in Nat \ {0} /\ PageLimit \in Nat \ {0}

VARIABLES
    log,          \* the events table: id -> session
    counter,      \* next_event_id (Unseeded: None)
    lock,         \* the publisher inside the lock
    pub,          \* publish() calls
    chan,         \* the broadcast receiver of each client
    lagged,       \* clients whose receiver lost frames to the capacity
    client,       \* the request of each client, and its last event id
    faults,
    \* Observation only.
    seen,         \* durable frames each client received, in order
    before,       \* how many of them came before its present connection
    orphan,       \* rows stored by a publish that failed or was dropped
    refused,      \* clients answered 409: too far behind the tip
    drops,        \* publish() futures dropped inside the lock
    collisions    \* publishes lost to a duplicate id

vars == <<log, counter, lock, pub, chan, lagged, client, faults,
          seen, before, orphan, refused, drops, collisions>>
hist == <<seen, before, orphan, refused, drops, collisions>>

Unseeded  == 0 - 1
NoCursor  == 0 - 1
Transient == 0

PubPc    == {"idle", "locked", "seeded", "stored", "detached"}
ClientPc == {"off", "subscribed", "checked", "reading", "streaming"}

\* SELECT MAX(id), 0 for an empty table.
Tip == IF DOMAIN log = {} THEN 0
       ELSE CHOOSE i \in DOMAIN log : \A j \in DOMAIN log : j <= i

Idle    == [pc |-> "idle", session |-> CHOOSE s \in Session : TRUE, id |-> 0]
Offline == [pc |-> "off", cursor |-> NoCursor, after |-> NoCursor, tip |-> 0,
            replay |-> <<>>, high |-> NoCursor]

Init ==
    /\ log = <<>>
    /\ counter = Unseeded
    /\ lock = NoPublisher
    /\ pub = [p \in Publisher |-> Idle]
    /\ chan = [c \in Client |-> <<>>]
    /\ lagged = {}
    /\ client = [c \in Client |-> Offline]
    /\ faults = 0
    /\ seen = [c \in Client |-> <<>>]
    /\ before = [c \in Client |-> 0]
    /\ orphan = {}
    /\ refused = {}
    /\ drops = 0
    /\ collisions = 0

Fault == faults < MaxFaults /\ faults' = faults + 1

-------------------------------------------------------------------------------
(* BroadcastBus::publish.                                                  *)

\* tx.send: every receiver gets the frame; one that is full loses its oldest.
Send(f) ==
    LET Subscribed == {c \in Client : client[c].pc # "off"}
        Full       == {c \in Subscribed : Len(chan[c]) = Cap}
    IN /\ chan' = [c \in Client |->
                     IF c \in Full THEN Append(Tail(chan[c]), f)
                     ELSE IF c \in Subscribed THEN Append(chan[c], f) ELSE <<>>]
       /\ lagged' = lagged \cup Full

Insert(i, s) == log' = [j \in DOMAIN log \cup {i} |-> IF j = i THEN s ELSE log[j]]

Lock(p, s) ==
    /\ pub[p].pc = "idle"
    /\ lock = NoPublisher
    /\ Tip < MaxId
    /\ lock' = p
    /\ pub' = [pub EXCEPT ![p] = [pc |-> "locked", session |-> s, id |-> 0]]
    /\ UNCHANGED <<log, counter, chan, lagged, client, faults, hist>>

\* The next id: from the counter, or from the table when there is none.
Seed(p) ==
    LET seed == IF counter = Unseeded THEN Tip ELSE counter IN
    /\ pub[p].pc = "locked"
    /\ pub' = [pub EXCEPT ![p].pc = "seeded", ![p].id = seed + 1]
    /\ UNCHANGED <<log, counter, lock, chan, lagged, client, faults, hist>>

\* max_event_id fails: the error leaves the lock, the counter is still empty.
SeedFails(p) ==
    /\ pub[p].pc = "locked"
    /\ counter = Unseeded
    /\ Fault
    /\ pub' = [pub EXCEPT ![p] = Idle]
    /\ lock' = NoPublisher
    /\ UNCHANGED <<log, counter, chan, lagged, client, hist>>

\* Wrong on purpose: a duplicate id does not empty the counter.
AppendKeepsCounter(p) ==
    LET i == pub[p].id IN
    /\ pub[p].pc = "seeded"
    /\ \/ /\ i \notin DOMAIN log
          /\ Insert(i, pub[p].session)
          /\ pub' = [pub EXCEPT ![p].pc = "stored"]
          /\ UNCHANGED <<lock, collisions>>
       \/ /\ i \in DOMAIN log
          /\ pub' = [pub EXCEPT ![p] = Idle]
          /\ lock' = NoPublisher
          /\ collisions' = collisions + 1
          /\ UNCHANGED log
    /\ UNCHANGED <<counter, chan, lagged, client, faults, seen, before, orphan,
                   refused, drops>>

\* append_with_id.  A duplicate id is an error, and every error empties the
\* counter.
AppendWithId(p) ==
    LET i == pub[p].id IN
    /\ pub[p].pc = "seeded"
    /\ \/ /\ i \notin DOMAIN log
          /\ Insert(i, pub[p].session)
          /\ pub' = [pub EXCEPT ![p].pc = "stored"]
          /\ UNCHANGED <<counter, lock, collisions>>
       \/ /\ i \in DOMAIN log
          /\ pub' = [pub EXCEPT ![p] = Idle]
          /\ counter' = Unseeded
          /\ lock' = NoPublisher
          /\ collisions' = collisions + 1
          /\ UNCHANGED log
    /\ UNCHANGED <<chan, lagged, client, faults, seen, before, orphan, refused, drops>>

\* A store error, with the row stored all the same or not.
AppendFails(p) ==
    LET i == pub[p].id IN
    /\ pub[p].pc = "seeded"
    /\ Fault
    /\ \/ /\ i \notin DOMAIN log
          /\ Insert(i, pub[p].session)
          /\ orphan' = orphan \cup {i}
       \/ UNCHANGED <<log, orphan>>
    /\ pub' = [pub EXCEPT ![p] = Idle]
    /\ counter' = Unseeded
    /\ lock' = NoPublisher
    /\ UNCHANGED <<chan, lagged, client, seen, before, refused, drops, collisions>>

\* The counter advances and the frame is sent before the lock is released.
Broadcast(p) ==
    /\ pub[p].pc = "stored"
    /\ counter' = pub[p].id
    /\ Send(pub[p].id)
    /\ pub' = [pub EXCEPT ![p] = Idle]
    /\ lock' = NoPublisher
    /\ UNCHANGED <<log, client, faults, hist>>

PublishTransient ==
    /\ Send(Transient)
    /\ UNCHANGED <<log, counter, lock, pub, client, faults, hist>>

\* The caller's future is dropped at an await inside the lock: the counter is
\* not reset, and a statement already handed to SQLite still runs.
PublishDropped(p) ==
    /\ pub[p].pc \in {"locked", "seeded", "stored"}
    /\ Fault
    /\ lock' = NoPublisher
    /\ pub' = [pub EXCEPT ![p] =
                 IF pub[p].pc = "seeded" THEN [@ EXCEPT !.pc = "detached"] ELSE Idle]
    /\ orphan' = IF pub[p].pc = "stored" THEN orphan \cup {pub[p].id} ELSE orphan
    /\ drops' = drops + 1
    /\ UNCHANGED <<log, counter, chan, lagged, client, seen, before, refused,
                   collisions>>

DetachedInsert(p) ==
    LET i == pub[p].id IN
    /\ pub[p].pc = "detached"
    /\ pub' = [pub EXCEPT ![p] = Idle]
    /\ \/ /\ i \notin DOMAIN log
          /\ Insert(i, pub[p].session)
          /\ orphan' = orphan \cup {i}
       \/ UNCHANGED <<log, orphan>>
    /\ UNCHANGED <<counter, lock, chan, lagged, client, faults,
                   seen, before, refused, drops, collisions>>

-------------------------------------------------------------------------------
(* GET /v1/event.                                                          *)

\* Wrong on purpose: a client that has a cursor does not come back.
ConnectOnce(c) ==
    /\ client[c].pc = "off"
    /\ client[c].cursor = NoCursor
    /\ client' = [client EXCEPT ![c].pc = "streaming"]
    /\ chan' = [chan EXCEPT ![c] = <<>>]
    /\ lagged' = lagged \ {c}
    /\ UNCHANGED <<log, counter, lock, pub, faults, hist>>

\* subscribe() comes first; without a Last-Event-ID nothing is replayed.
Connect(c) ==
    /\ client[c].pc = "off"
    /\ client' = [client EXCEPT ![c] =
                    [Offline EXCEPT !.cursor = client[c].cursor,
                                    !.after  = client[c].cursor,
                                    !.pc = IF client[c].cursor = NoCursor
                                             THEN "streaming" ELSE "subscribed"]]
    /\ chan' = [chan EXCEPT ![c] = <<>>]
    /\ lagged' = lagged \ {c}
    /\ before' = [before EXCEPT ![c] = Len(seen[c])]
    /\ UNCHANGED <<log, counter, lock, pub, faults, seen, orphan, refused, drops,
                   collisions>>

Disconnected(c) == [Offline EXCEPT !.cursor = client[c].cursor]

\* check_cursor_in_window (saturating subtraction; the cursor is no less than 0).
CheckCursorInWindow(c) ==
    LET tooFar == client[c].after + Window < Tip IN
    /\ client[c].pc = "subscribed"
    /\ \/ /\ tooFar
          /\ client' = [client EXCEPT ![c] = Disconnected(c)]
          /\ chan' = [chan EXCEPT ![c] = <<>>]
          /\ lagged' = lagged \ {c}
          /\ refused' = refused \cup {c}
       \/ /\ ~tooFar
          /\ client' = [client EXCEPT ![c].pc = "checked"]
          /\ UNCHANGED <<chan, lagged, refused>>
    /\ UNCHANGED <<log, counter, lock, pub, faults, seen, before, orphan, drops,
                   collisions>>

\* list_since fixes the tip it reads up to.
ReadTip(c) ==
    /\ client[c].pc = "checked"
    /\ client' = [client EXCEPT ![c].pc = "reading", ![c].tip = Tip]
    /\ UNCHANGED <<log, counter, lock, pub, chan, lagged, faults, hist>>

Wanted(c, i) == log[i] \in Filter[c]

\* What the replay has got to.
From(c) == IF client[c].replay = <<>> THEN client[c].after
           ELSE client[c].replay[Len(client[c].replay)]

Rows(c) == {i \in DOMAIN log : From(c) < i /\ i <= client[c].tip /\ Wanted(c, i)}

\* The next page: the first rows in the order of their ids, PageLimit of them or
\* all there are.  There is exactly one.
Pages(c) ==
    {s \in UNION {[1 .. n -> Rows(c)] : n \in 0 .. PageLimit} :
        /\ \A k, l \in 1 .. Len(s) : k < l => s[k] < s[l]
        /\ \A i \in Rows(c) \ Range(s) : Len(s) = PageLimit /\ \A k \in 1 .. Len(s) : s[k] < i}

\* A short page is the last one; the high-water mark is the last id replayed.
ReadPage(c) ==
    /\ client[c].pc = "reading"
    /\ \E page \in Pages(c) :
          LET replay == client[c].replay \o page IN
          client' = [client EXCEPT
                       ![c].replay = replay,
                       ![c].pc = IF Len(page) < PageLimit THEN "streaming" ELSE @,
                       ![c].high = IF replay = <<>> THEN NoCursor ELSE replay[Len(replay)]]
    /\ UNCHANGED <<log, counter, lock, pub, chan, lagged, faults, hist>>

\* The client handles a frame with an id (its cursor is set by the caller).
Receive(c, i) == seen' = [seen EXCEPT ![c] = Append(@, i)]

DeliverReplay(c) ==
    /\ client[c].pc = "streaming"
    /\ client[c].replay # <<>>
    /\ Receive(c, Head(client[c].replay))
    /\ client' = [client EXCEPT ![c].replay = Tail(@),
                                ![c].cursor = Head(client[c].replay)]
    /\ UNCHANGED <<log, counter, lock, pub, chan, lagged, faults,
                   before, orphan, refused, drops, collisions>>

\* A live frame that the replay covered, or of another session, is dropped.
DeliverLive(c) ==
    LET f == Head(chan[c]) IN
    /\ client[c].pc = "streaming"
    /\ client[c].replay = <<>>
    /\ c \notin lagged
    /\ chan[c] # <<>>
    /\ chan' = [chan EXCEPT ![c] = Tail(@)]
    /\ \/ /\ f # Transient /\ f > client[c].high /\ Wanted(c, f)
          /\ Receive(c, f)
          /\ client' = [client EXCEPT ![c].cursor = f]
       \/ /\ f # Transient => (f <= client[c].high \/ ~Wanted(c, f))
          /\ UNCHANGED <<client, seen>>
    /\ UNCHANGED <<log, counter, lock, pub, lagged, faults,
                   before, orphan, refused, drops, collisions>>

\* Wrong on purpose: the client stays connected.
DeliverLaggedStays(c) ==
    /\ client[c].pc = "streaming"
    /\ client[c].replay = <<>>
    /\ c \in lagged
    /\ lagged' = lagged \ {c}
    /\ UNCHANGED <<log, counter, lock, pub, chan, client, faults, hist>>

\* The receiver reports Lagged first; the client closes and reconnects.
DeliverLagged(c) ==
    /\ client[c].pc = "streaming"
    /\ client[c].replay = <<>>
    /\ c \in lagged
    /\ client' = [client EXCEPT ![c] = Disconnected(c)]
    /\ chan' = [chan EXCEPT ![c] = <<>>]
    /\ lagged' = lagged \ {c}
    /\ UNCHANGED <<log, counter, lock, pub, faults, hist>>

\* The connection breaks, or a query of the handler fails: frames on the way
\* are lost.
Disconnect(c) ==
    /\ client[c].pc # "off"
    /\ Fault
    /\ client' = [client EXCEPT ![c] = Disconnected(c)]
    /\ chan' = [chan EXCEPT ![c] = <<>>]
    /\ lagged' = lagged \ {c}
    /\ UNCHANGED <<log, counter, lock, pub, hist>>

\* Process death: the table and what the clients know remain.
Restart ==
    /\ Fault
    /\ counter' = Unseeded
    /\ lock' = NoPublisher
    /\ pub' = [p \in Publisher |-> Idle]
    /\ chan' = [c \in Client |-> <<>>]
    /\ lagged' = {}
    /\ client' = [c \in Client |-> Disconnected(c)]
    /\ UNCHANGED <<log, hist>>

-------------------------------------------------------------------------------
PublishStep(p) == Seed(p) \/ AppendWithId(p) \/ Broadcast(p) \/ DetachedInsert(p)

ClientStep(c) ==
    \/ Connect(c) \/ CheckCursorInWindow(c) \/ ReadTip(c) \/ ReadPage(c)
    \/ DeliverReplay(c) \/ DeliverLive(c) \/ DeliverLagged(c)

Next ==
    \/ \E p \in Publisher :
          \/ \E s \in Session : Lock(p, s)
          \/ PublishStep(p) \/ SeedFails(p) \/ AppendFails(p) \/ PublishDropped(p)
    \/ PublishTransient
    \/ \E c \in Client : ClientStep(c) \/ Disconnect(c)
    \/ Restart

\* A publish that holds the lock is polled to its end; the handler serves the
\* connection, and the client reconnects after its backoff.
Fairness ==
    /\ \A p \in Publisher : WF_vars(PublishStep(p))
    /\ \A c \in Client : WF_vars(ClientStep(c))

Spec == Init /\ [][Next]_vars /\ Fairness

-------------------------------------------------------------------------------
(* Properties.                                                             *)

TypeOK ==
    /\ DOMAIN log \subseteq 1 .. MaxId + 1
    /\ \A i \in DOMAIN log : log[i] \in Session
    /\ counter \in Nat \cup {Unseeded}
    /\ lock \in Publisher \cup {NoPublisher}
    /\ pub \in [Publisher -> [pc : PubPc, session : Session, id : Nat]]
    /\ chan \in [Client -> Seq(Nat)]
    /\ \A c \in Client : Len(chan[c]) <= Cap
    /\ lagged \in SUBSET Client
    /\ \A c \in Client :
          /\ client[c].pc \in ClientPc
          /\ {client[c].cursor, client[c].after, client[c].high}
                \subseteq Nat \cup {NoCursor}
          /\ client[c].tip \in Nat /\ client[c].replay \in Seq(Nat)
    /\ faults \in 0 .. MaxFaults
    /\ seen \in [Client -> Seq(Nat)]
    /\ before \in [Client -> Nat]
    /\ orphan \in SUBSET Nat /\ refused \in SUBSET Client
    /\ drops \in Nat /\ collisions \in Nat

\* Ids have no holes: an append that failed, or whose future was dropped, burns
\* no id (the gap would read as an event lost for ever).  And the counter heals: a
\* dropped publish costs at most one later event, lost to an id that is taken.
IdsDense ==
    /\ DOMAIN log = 1 .. Cardinality(DOMAIN log)
    /\ collisions <= drops

\* A client sees durable frames in id order, over any number of reconnects, and
\* no frame twice on one connection: what the replay and the live channel both
\* hold is emitted once.  (A client that reconnects with the id of a row whose
\* broadcast is still to come gets an empty replay, hence no high-water mark, and
\* that frame once more.)
InOrder ==
    \A c \in Client : \A i, j \in 1 .. Len(seen[c]) :
        i < j => /\ seen[c][i] <= seen[c][j]
                 /\ i > before[c] => seen[c][i] < seen[c][j]

\* The order of the ids is the order a client sees: no id is burnt, none is
\* seen out of turn, and none twice on one connection (bus/mod.rs, routes/event.rs).
IdsInOrder == IdsDense /\ InOrder

\* A client's cursor passes no durable event of its sessions that it has not
\* seen, across the seam of replay and live frames, overflow of its channel,
\* broken connections and restarts.  The exception is a row whose publish
\* reported an error or was dropped: nobody broadcasts it.
NoGap ==
    \A c \in Client : \A i \in DOMAIN log :
        /\ seen[c] # <<>>
        /\ seen[c][1] < i /\ i <= client[c].cursor
        /\ Wanted(c, i)
        => i \in Range(seen[c]) \cup orphan

\* A client that has seen a first event sees every later one, unless it fell
\* out of the replay window or nobody broadcast it.
CatchesUp ==
    \A c \in Client, i \in 1 .. MaxId :
        (i \in DOMAIN log /\ Wanted(c, i) /\ seen[c] # <<>> /\ seen[c][1] < i)
            ~> (i \in Range(seen[c]) \cup orphan \/ c \in refused)

=============================================================================

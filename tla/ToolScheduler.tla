----------------------------- MODULE ToolScheduler -----------------------------
(***************************************************************************)
(* Admission of tool calls: the ordered waves of dispatch_batch, the two   *)
(* semaphores and the keyed locks of ToolScheduler, the calls that run a   *)
(* whole child turn (subagent_task), and cancellation.                     *)
(*                                                                         *)
(* A raw key is what a call names: the workspace, a path as it is spelled, *)
(* a session resource.  A lock object is named by the call that made it.   *)
(* The semaphores and locks are fair: a call knows who came before it.     *)
(***************************************************************************)
EXTENDS Naturals, Sequences, FiniteSets, FiniteSetsExt, SequencesExt, Functions

CONSTANTS
    Turn,
    NoTurn,
    Call,
    NoCall,
    Batch,        \* the calls of a turn, in the order of the assistant message
    Exclusive,    \* calls with SchedulingMode::Exclusive
    Claims,       \* of a call: raw key |-> "read" or "write"
    Raw,          \* raw keys
    Canon,        \* the canonical spelling of a raw key
    Boot,         \* canonical keys that exist from the start
    Rank,         \* the order of the lock keys
    Refusable,    \* calls that a hook or the registry may refuse
    Child,        \* the turn a call runs and waits for, or NoTurn
    Above,        \* of a turn: the turns it is nested in
    Cancellable,  \* turns that are cancelled some day, perhaps
    MaxPerTurn,
    MaxGlobal

CallsOf(t) == Range(Batch[t])
TurnOf(c)  == CHOOSE t \in Turn : c \in CallsOf(t)
Roots      == {t \in Turn : \A c \in Call : Child[c] # t}

ASSUME SchedulerAssumption ==
    /\ NoTurn \notin Turn /\ NoCall \notin Call
    /\ Batch \in [Turn -> Seq(Call)]
    /\ \A c \in Call : \E t \in Turn : \E i \in DOMAIN Batch[t] : Batch[t][i] = c
    \* A call is one tool call of one message.
    /\ \A t, u \in Turn : \A i \in DOMAIN Batch[t], j \in DOMAIN Batch[u] :
          Batch[t][i] = Batch[u][j] => t = u /\ i = j
    /\ Exclusive \subseteq Call /\ Refusable \subseteq Call
    /\ DOMAIN Claims = Call
    /\ \A c \in Call : \E ks \in SUBSET Raw : Claims[c] \in [ks -> {"read", "write"}]
    /\ Canon \in [Raw -> Raw] /\ \A k \in Raw : Canon[Canon[k]] = Canon[k]
    /\ Boot \subseteq Raw
    /\ Rank \in [Raw -> Nat] /\ \A k, l \in Raw : Rank[k] = Rank[l] => k = l
    /\ Child \in [Call -> Turn \cup {NoTurn}]
    /\ Above \in [Turn -> SUBSET Turn]
    /\ \A t \in Roots : Above[t] = {}
    /\ \A c \in Call : Child[c] # NoTurn => Above[Child[c]] = {TurnOf(c)} \cup Above[TurnOf(c)]
    /\ Cancellable \subseteq Roots
    /\ MaxPerTurn \in Nat \ {0} /\ MaxGlobal \in Nat \ {0}
    /\ MaxPerTurn <= MaxGlobal

VARIABLES
    turn,       \* off, open, done
    cursor,     \* the index at which the current wave of a turn starts
    refused,    \* calls with a pre_error: hook denied, unknown tool, bad arguments
    pc,         \* how far each call is
    need,       \* its claims with resolved keys, the stronger access of each
    lockOf,     \* the lock objects it has looked up
    held,       \* the keys it holds
    table,      \* ToolScheduler.locks; NoCall for an entry that is gone or dead
    ahead,      \* of a waiting call: those that came earlier for the same thing
    exists,     \* canonical keys of the files that exist
    cancelled,
    \* Observation only.
    raced       \* keys whose live lock was replaced in the table

vars == <<turn, cursor, refused, pc, need, lockOf, held, table, ahead, exists, cancelled, raced>>

Pc == {"idle", "turn", "locking", "absent", "lock", "global", "running", "ended"}

Init ==
    /\ turn = [t \in Turn |-> "off"]
    /\ cursor = [t \in Turn |-> 1]
    /\ refused = {} /\ cancelled = {} /\ raced = {}
    /\ pc = [c \in Call |-> "idle"]
    /\ need = [c \in Call |-> <<>>]
    /\ lockOf = [c \in Call |-> <<>>]
    /\ held = [c \in Call |-> {}]
    /\ table = [k \in Raw |-> NoCall]
    /\ ahead = [c \in Call |-> {}]
    /\ exists = Boot

-------------------------------------------------------------------------------
(* Waves.                                                                  *)

\* Wrong on purpose: a read after a write does not clash.
ClashWrites(c, d) ==
    \E k \in DOMAIN Claims[c] \cap DOMAIN Claims[d] :
        {"write"} = {Claims[c][k], Claims[d][k]}

\* claims_conflict: on the keys as they are spelled.
Clash(c, d) ==
    \E k \in DOMAIN Claims[c] \cap DOMAIN Claims[d] :
        "write" \in {Claims[c][k], Claims[d][k]}

Alone(c) == c \in Exclusive \cup refused

\* The indices of the current wave: calls that are not alone and do not clash,
\* up to the first that is or does.
Wave(t) ==
    LET from == cursor[t]
        call(i) == Batch[t][i]
    IN {from} \cup
       {n \in from .. Len(Batch[t]) :
          /\ \A i \in from .. n : ~Alone(call(i))
          /\ \A i, j \in from .. n : i # j => ~Clash(call(i), call(j))}

\* dispatch_batch: the hooks and the registry refuse some of the calls.  A child
\* turn starts when its call runs.
Start(t) ==
    /\ turn[t] = "off"
    /\ \A c \in Call : Child[c] = t => pc[c] = "running"
    /\ turn' = [turn EXCEPT ![t] = "open"]
    /\ \E no \in SUBSET (CallsOf(t) \cap Refusable) : refused' = refused \cup no
    /\ UNCHANGED <<cursor, pc, need, lockOf, held, table, ahead, exists, cancelled, raced>>

\* The last future of the wave has come back.
NextWave(t) ==
    LET to == Max(Wave(t)) + 1 IN
    /\ turn[t] = "open"
    /\ \A i \in Wave(t) : pc[Batch[t][i]] = "ended"
    /\ cursor' = [cursor EXCEPT ![t] = to]
    /\ turn' = IF to > Len(Batch[t]) THEN [turn EXCEPT ![t] = "done"] ELSE turn
    /\ UNCHANGED <<refused, pc, need, lockOf, held, table, ahead, exists, cancelled, raced>>

-------------------------------------------------------------------------------
(* acquire.                                                                *)

\* Filesystem::scheduling_key: canonical when the file exists.
SchedulingKey(k) == IF Canon[k] \in exists THEN Canon[k] ELSE k

\* resolve_claims and normalize_claims: one lock per key, the stronger access.
Resolved(c) ==
    LET named(key) == {k \in DOMAIN Claims[c] : SchedulingKey(k) = key}
    IN [key \in {SchedulingKey(k) : k \in DOMAIN Claims[c]} |->
          IF \E k \in named(key) : Claims[c][k] = "write" THEN "write" ELSE "read"]

Move(c, to) == pc' = [pc EXCEPT ![c] = to]

\* The call stops waiting, if it did, and waits behind those already there, if any.
Behind(c, those)  == ahead' = [d \in Call |-> IF d = c THEN those ELSE ahead[d] \ {c}]
Leave(c)          == Behind(c, {})
Arrive(c, to, at) == Move(c, to) /\ Behind(c, at)

NextKey(c) ==
    CHOOSE k \in DOMAIN need[c] \ held[c] :
        \A l \in DOMAIN need[c] \ held[c] : Rank[k] <= Rank[l]

\* run_prepared begins; a refused call has its result at once.
Begin(t, i) ==
    LET c == Batch[t][i] IN
    /\ turn[t] = "open"
    /\ i \in Wave(t)
    /\ pc[c] = "idle"
    /\ \/ c \in refused /\ Move(c, "ended") /\ UNCHANGED <<need, ahead>>
       \/ /\ c \notin refused
          /\ Arrive(c, "turn", {d \in CallsOf(t) : pc[d] = "turn"})
          /\ need' = [need EXCEPT ![c] = Resolved(c)]
    /\ UNCHANGED <<turn, cursor, refused, lockOf, held, table, exists, cancelled, raced>>

\* The locks a call has looked up, with one more.
Having(locks, k, lock) == [l \in DOMAIN locks \cup {k} |-> IF l = k THEN lock ELSE locks[l]]

\* The calls that wait for a lock object.
AtLock(k, lock) == {d \in Call : pc[d] = "lock" /\ NextKey(d) = k /\ lockOf[d][k] = lock}
AtGlobal        == {d \in Call : pc[d] = "global"}

\* The first half of lock().  The calls of one turn are polled by one task, so
\* two of them are never both between the two halves.
Lookup(c) ==
    LET k == NextKey(c) IN
    /\ pc[c] = "locking"
    /\ \A d \in CallsOf(TurnOf(c)) : pc[d] # "absent"
    /\ \/ /\ table[k] # NoCall
          /\ lockOf' = [lockOf EXCEPT ![c] = Having(@, k, table[k])]
          /\ Arrive(c, "lock", AtLock(k, table[k]))
       \/ /\ table[k] = NoCall
          /\ Move(c, "absent")
          /\ UNCHANGED <<lockOf, ahead>>
    /\ UNCHANGED <<turn, cursor, refused, need, held, table, exists, cancelled, raced>>

\* The second half: a new lock takes the place of whatever is in the table.
Insert(c) ==
    LET k == NextKey(c) IN
    /\ pc[c] = "absent"
    /\ table' = [table EXCEPT ![k] = c]
    /\ lockOf' = [lockOf EXCEPT ![c] = Having(@, k, c)]
    /\ Arrive(c, "lock", {})
    /\ raced' = IF table[k] # NoCall THEN raced \cup {k} ELSE raced
    /\ UNCHANGED <<turn, cursor, refused, need, held, exists, cancelled>>

HasTurnPermit(c) == pc[c] \in {"locking", "absent", "lock", "global", "running"}

\* Wrong on purpose: a writer is let in beside readers.
BlocksWriter(d, c) ==
    LET k == NextKey(c) IN
    /\ k \in held[d]
    /\ lockOf[d][k] = lockOf[c][k]
    /\ "write" = need[d][k]

\* A holder of the same lock object, at least one of the two a writer.
Blocks(d, c) ==
    LET k == NextKey(c) IN
    /\ k \in held[d]
    /\ lockOf[d][k] = lockOf[c][k]
    /\ "write" \in {need[c][k], need[d][k]}

Free(c) ==
    CASE pc[c] = "turn"   -> Cardinality({d \in CallsOf(TurnOf(c)) : HasTurnPermit(d)}) < MaxPerTurn
      [] pc[c] = "lock"   -> \A d \in Call : ~Blocks(d, c)
      [] pc[c] = "global" -> Cardinality({d \in Call : pc[d] = "running"}) < MaxGlobal

Waits(c) == pc[c] \in {"turn", "lock", "global"}

\* It is free, and nobody who came earlier waits for it.
Grantable(c) == Waits(c) /\ ahead[c] = {} /\ Free(c)

\* On to the next lock, or to the global permit when there is none.
GoOn(c, has) ==
    IF DOMAIN need[c] = has
    THEN Arrive(c, "global", AtGlobal)
    ELSE Move(c, "locking") /\ Leave(c)

GrantTurn(c) ==
    /\ pc[c] = "turn" /\ Grantable(c)
    /\ GoOn(c, {})
    /\ UNCHANGED <<turn, cursor, refused, need, lockOf, held, table, exists, cancelled, raced>>

GrantLock(c) ==
    /\ pc[c] = "lock" /\ Grantable(c)
    /\ held' = [held EXCEPT ![c] = @ \cup {NextKey(c)}]
    /\ GoOn(c, held[c] \cup {NextKey(c)})
    /\ UNCHANGED <<turn, cursor, refused, need, lockOf, table, exists, cancelled, raced>>

GrantGlobal(c) ==
    /\ pc[c] = "global" /\ Grantable(c)
    /\ Move(c, "running")
    /\ Leave(c)
    /\ UNCHANGED <<turn, cursor, refused, need, lockOf, held, table, exists, cancelled, raced>>

\* Wrong on purpose: the guards outlive the call.
ReleaseNot(c) ==
    /\ Move(c, "ended")
    /\ UNCHANGED <<need, held, lockOf, table>>

\* Admission is dropped, with the permits and the locks.  The table has a Weak of
\* each lock object: it is dead once no call refers to the object.
Release(c) ==
    /\ Move(c, "ended")
    /\ need' = [need EXCEPT ![c] = <<>>]
    /\ held' = [held EXCEPT ![c] = {}]
    /\ lockOf' = [lockOf EXCEPT ![c] = <<>>]
    /\ table' = [k \in Raw |->
                   IF \E d \in Call \ {c} : k \in DOMAIN lockOf[d] /\ lockOf[d][k] = table[k]
                   THEN table[k] ELSE NoCall]

\* The select is biased: the token is looked at when the wait goes on.
GiveUp(c) ==
    /\ Waits(c)
    /\ ~Grantable(c)
    /\ TurnOf(c) \in cancelled
    /\ Release(c)
    /\ Leave(c)
    /\ UNCHANGED <<turn, cursor, refused, exists, cancelled, raced>>

-------------------------------------------------------------------------------
(* The tools, as far as they matter here.                                  *)

\* A tool that writes a path may create the file.
WriteFile(c) ==
    /\ pc[c] = "running"
    /\ \E k \in DOMAIN Claims[c] :
          /\ Claims[c][k] = "write"
          /\ Canon[k] \notin exists
          /\ exists' = exists \cup {Canon[k]}
    /\ UNCHANGED <<turn, cursor, refused, pc, need, lockOf, held, table, ahead, cancelled, raced>>

\* run_one comes back; a foreground subagent call when its child turn is over.
End(c) ==
    /\ pc[c] = "running"
    /\ Child[c] # NoTurn => turn[Child[c]] = "done"
    /\ Release(c)
    /\ UNCHANGED <<turn, cursor, refused, ahead, exists, cancelled, raced>>

\* The token of a child turn is a child token.
Cancel(t) ==
    /\ t \notin cancelled
    /\ cancelled' = cancelled \cup {u \in Turn : t \in {u} \cup Above[u]}
    /\ UNCHANGED <<turn, cursor, refused, pc, need, lockOf, held, table, ahead, exists, raced>>

-------------------------------------------------------------------------------
CallStep(c) ==
    \/ Lookup(c) \/ Insert(c)
    \/ GrantTurn(c) \/ GrantLock(c) \/ GrantGlobal(c)
    \/ GiveUp(c) \/ End(c)

TurnStep(t) == NextWave(t) \/ \E i \in DOMAIN Batch[t] : Begin(t, i)

Next ==
    \/ \E t \in Turn : Start(t) \/ TurnStep(t)
    \/ \E c \in Call : CallStep(c) \/ WriteFile(c)
    \/ \E t \in Cancellable : Cancel(t)

\* What goes on without new requests: tasks are polled, tools come back, and a
\* running subagent call starts its child.
Work ==
    \/ \E c \in Call : CallStep(c)
    \/ \E t \in Turn : TurnStep(t)
    \/ \E t \in Turn \ Roots : Start(t)

Spec == Init /\ [][Next]_vars

-------------------------------------------------------------------------------
(* Properties.                                                             *)

TypeOK ==
    /\ turn \in [Turn -> {"off", "open", "done"}]
    /\ \A t \in Turn : cursor[t] \in 1 .. Len(Batch[t]) + 1
    /\ pc \in [Call -> Pc]
    /\ refused \subseteq Call /\ cancelled \subseteq Turn
    /\ \A c \in Call : held[c] \subseteq DOMAIN need[c] /\ held[c] \subseteq DOMAIN lockOf[c]
    /\ table \in [Raw -> Call \cup {NoCall}]
    /\ \A c \in Call : ahead[c] # {} => Waits(c) /\ \A d \in ahead[c] : Waits(d)
    /\ exists \subseteq Raw /\ raced \subseteq Raw

\* The claims of two calls clash on the file or resource they really mean.
Conflict(c, d) ==
    \E k \in DOMAIN Claims[c], l \in DOMAIN Claims[d] :
        /\ Canon[k] = Canon[l]
        /\ "write" \in {Claims[c][k], Claims[d][l]}

\* A path that was resolved before its file existed and is not spelled as the
\* canonical path is.
Misspelt(c) == \E k \in DOMAIN need[c] : Canon[k] # k

\* Two calls that clash, of any turns and however they spell their paths, do not
\* run at the same time.  lock() has a gap between the look-up and the insertion,
\* and scheduling_key depends on whether the file exists: these are the only ways
\* around it.
Exclusion ==
    \A c, d \in Call :
        (c # d /\ pc[c] = "running" /\ pc[d] = "running" /\ Conflict(c, d))
            => \/ Misspelt(c) \/ Misspelt(d)
               \/ raced \cap DOMAIN need[c] \cap DOMAIN need[d] # {}

\* One of the calls writes what the other names, or is a barrier by itself.
Ordered(c, d) ==
    \/ {c, d} \cap Exclusive # {}
    \/ \E k \in DOMAIN Claims[c] \cap DOMAIN Claims[d] :
          Claims[c][k] = "write" \/ Claims[d][k] = "write"

\* The order of the assistant message is kept around mutations: a call begins
\* after the result of every earlier one of its batch that it depends on.
OrderKept ==
    \A t \in Turn : \A i, j \in DOMAIN Batch[t] :
        LET c == Batch[t][i]
            d == Batch[t][j]
        IN (i < j /\ Ordered(c, d) /\ pc[d] # "idle")
               => pc[c] = "ended"

\* Every global permit belongs to a call that waits for a child turn.
Starved ==
    Cardinality({c \in Call : pc[c] = "running" /\ Child[c] # NoTurn
                                /\ turn[Child[c]] # "done"}) = MaxGlobal

\* Calls hold a permit and locks while they wait for more, and never for each
\* other: as long as a batch is open something can go on.  No step of a batch
\* repeats for ever, so every batch ends.  The exception are subagent calls that
\* use up the global permits their own children need; a cancel ends even those.
NoDeadlock ==
    ~ENABLED Work => \A t \in Turn : turn[t] = "open" => Starved /\ t \notin cancelled

=============================================================================

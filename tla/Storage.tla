------------------------------- MODULE Storage -------------------------------
(***************************************************************************)
(* The Storage trait over its two backends (crates/rollout-storage/src):   *)
(* transactions that put, delete and compare-and-swap rows, and the watch  *)
(* events that follow their commits.                                       *)
(*                                                                         *)
(* embedded (redb)  one write transaction at a time; its events are        *)
(*                  buffered and published one by one after the commit,    *)
(*                  when the writer lock is free again;                    *)
(* postgres         READ COMMITTED: a statement waits for the lock of a    *)
(*                  row that another transaction wrote, and an absent row  *)
(*                  has no lock to take; NOTIFY delivers at the commit.    *)
(*                                                                         *)
(* A subscriber that reads the row again at every event keeps a copy of    *)
(* the store.  Put and Delete events differ for nobody here, so an event   *)
(* is its key.                                                             *)
(***************************************************************************)
EXTENDS Integers, Sequences

CONSTANTS Txn,        \* transactions
          Key, Value,
          NoTxn,      \* an unlocked row
          Absent,     \* no row
          Unwritten,  \* a key the transaction has not written
          Backends,   \* the backends considered
          Capacity,   \* of a broadcast channel (256 in the code)
          MaxOps      \* bound: operations per transaction

Cell == Value \cup {Absent}

ASSUME StorageAssumption ==
  /\ NoTxn \notin Txn
  /\ Absent \notin Value
  /\ Unwritten \notin Cell
  /\ Backends \subseteq {"embedded", "postgres"}
  /\ Capacity \in Nat \ {0}
  /\ MaxOps \in Nat

VARIABLES backend,
          rows,    \* the committed rows
          lock,    \* the transaction that locked each row
          pc,      \* where each transaction is
          buf,     \* what each transaction has written
          cas,     \* the cas_bytes each transaction is in the middle of
          won,     \* the swaps it won against committed rows
          pending, \* the events it has buffered
          ops,     \* operations so far
          inbox,   \* the subscriber's channel
          lost,    \* the keys with an event that never came, and none since
          cache    \* the subscriber's copy of the store

txnVars == <<pc, buf, cas, won, pending, ops>>
watchVars == <<inbox, lost, cache>>
vars == <<backend, rows, lock, txnVars, watchVars>>

Swap == [key : Key, expected : Cell, new : Cell]
NoSwap == [key |-> Absent, expected |-> Absent, new |-> Absent]
NoWrites == [k \in Key |-> Unwritten]

\* The keys of a sequence of events.
Keys(s) == {s[i] : i \in DOMAIN s}

TypeOK ==
  /\ backend \in {"embedded", "postgres"}
  /\ rows \in [Key -> Cell]
  /\ lock \in [Key -> Txn \cup {NoTxn}]
  /\ pc \in [Txn -> {"idle", "open", "swap", "publish", "closed"}]
  /\ buf \in [Txn -> [Key -> Cell \cup {Unwritten}]]
  /\ cas \in [Txn -> Swap \cup {NoSwap}]
  /\ won \in [Txn -> SUBSET Swap]
  /\ pending \in [Txn -> Seq(Key)]
  /\ ops \in [Txn -> Nat]
  /\ inbox \in Seq(Key)
  /\ lost \in SUBSET Key
  /\ cache \in [Key -> Cell]

\* The subscriber read the store when it subscribed.
Init ==
  /\ backend \in Backends
  /\ rows \in [Key -> Cell]
  /\ lock = [k \in Key |-> NoTxn]
  /\ pc = [t \in Txn |-> "idle"]
  /\ buf = [t \in Txn |-> NoWrites]
  /\ cas = [t \in Txn |-> NoSwap]
  /\ won = [t \in Txn |-> {}]
  /\ pending = [t \in Txn |-> <<>>]
  /\ ops = [t \in Txn |-> 0]
  /\ inbox = <<>>
  /\ lost = {}
  /\ cache = rows

-----------------------------------------------------------------------------
(* Rows and locks.                                                         *)

\* What a statement of the transaction sees: its own write, or the last
\* committed row.
Current(t, k) == IF buf[t][k] = Unwritten THEN rows[k] ELSE buf[t][k]

\* A row is free for the transaction when no other one has locked it.
Free(t, k) == lock[k] \in {NoTxn, t}

Lock(t, k) == lock' = [lock EXCEPT ![k] = t]

Unlocked(t) == [k \in Key |-> IF lock[k] = t THEN NoTxn ELSE lock[k]]

\* Write the key and buffer its event.
Write(t, k, cell) ==
  /\ Free(t, k)
  /\ Lock(t, k)
  /\ buf' = [buf EXCEPT ![t][k] = cell]
  /\ pending' = [pending EXCEPT ![t] = Append(@, k)]

MayOperate(t) == pc[t] = "open" /\ ops[t] < MaxOps
CountOp(t) == ops' = [ops EXCEPT ![t] = @ + 1]

-----------------------------------------------------------------------------
(* Transactions.                                                           *)

\* redb hands out one write transaction at a time, for all of the rows.
Begin(t) ==
  /\ pc[t] = "idle"
  /\ \/ /\ backend = "embedded"
        /\ \A k \in Key : lock[k] = NoTxn
        /\ lock' = [k \in Key |-> t]
     \/ /\ backend = "postgres"
        /\ UNCHANGED lock
  /\ pc' = [pc EXCEPT ![t] = "open"]
  /\ UNCHANGED <<backend, rows, buf, cas, won, pending, ops, watchVars>>

PutBytes(t, k, v) ==
  /\ MayOperate(t)
  /\ Write(t, k, v)
  /\ CountOp(t)
  /\ UNCHANGED <<backend, rows, pc, cas, won, watchVars>>

\* A delete of an absent row does nothing and announces nothing.
Delete(t, k) ==
  /\ MayOperate(t)
  /\ IF Current(t, k) = Absent
     THEN UNCHANGED <<lock, buf, pending>>
     ELSE Write(t, k, Absent)
  /\ CountOp(t)
  /\ UNCHANGED <<backend, rows, pc, cas, won, watchVars>>

\* Slip: a plain SELECT, without FOR UPDATE.
SelectPlain(t, k) == UNCHANGED lock

\* SELECT ... FOR UPDATE waits for the row and locks it, if there is one.
\* (The redb transaction has all the locks.)
SelectForUpdate(t, k) ==
  IF Current(t, k) = Absent THEN UNCHANGED lock ELSE Free(t, k) /\ Lock(t, k)

\* cas_bytes reads the row.  On a mismatch it returns false; a swap of
\* nothing for nothing is over too.
CasRead(t, k, expected, new) ==
  /\ MayOperate(t)
  /\ SelectForUpdate(t, k)
  /\ IF Current(t, k) = expected /\ ~(expected = Absent /\ new = Absent)
     THEN /\ pc' = [pc EXCEPT ![t] = "swap"]
          /\ cas' = [cas EXCEPT ![t] = [key |-> k, expected |-> expected, new |-> new]]
     ELSE UNCHANGED <<pc, cas>>
  /\ CountOp(t)
  /\ UNCHANGED <<backend, rows, buf, won, pending, watchVars>>

\* Slip: a swap buffers no event.
CasWriteSilent(t) ==
  /\ pc[t] = "swap"
  /\ Free(t, cas[t].key)
  /\ Lock(t, cas[t].key)
  /\ buf' = [buf EXCEPT ![t][cas[t].key] = cas[t].new]
  /\ won' = IF buf[t][cas[t].key] = Unwritten
            THEN [won EXCEPT ![t] = @ \cup {cas[t]}] ELSE won
  /\ pc' = [pc EXCEPT ![t] = "open"]
  /\ cas' = [cas EXCEPT ![t] = NoSwap]
  /\ UNCHANGED <<backend, rows, pending, ops, watchVars>>

\* ... and writes the new value, INSERT ... ON CONFLICT DO UPDATE or DELETE,
\* and returns true.
CasWrite(t) ==
  /\ pc[t] = "swap"
  /\ Write(t, cas[t].key, cas[t].new)
  /\ won' = IF buf[t][cas[t].key] = Unwritten
            THEN [won EXCEPT ![t] = @ \cup {cas[t]}] ELSE won
  /\ pc' = [pc EXCEPT ![t] = "open"]
  /\ cas' = [cas EXCEPT ![t] = NoSwap]
  /\ UNCHANGED <<backend, rows, ops, watchVars>>

\* The rows after the commit.
Committed(t) == [k \in Key |-> Current(t, k)]

\* The locks go, the transaction is over.
Close(t, next) ==
  /\ lock' = Unlocked(t)
  /\ pc' = [pc EXCEPT ![t] = next]
  /\ buf' = [buf EXCEPT ![t] = NoWrites]
  /\ cas' = [cas EXCEPT ![t] = NoSwap]
  /\ won' = [won EXCEPT ![t] = {}]
  /\ UNCHANGED <<backend, ops>>

\* commit of the embedded backend: the events are still to be published.
CommitEmbedded(t) ==
  /\ backend = "embedded"
  /\ pc[t] = "open"
  /\ rows' = Committed(t)
  /\ Close(t, "publish")
  /\ UNCHANGED <<pending, watchVars>>

\* The caller of an embedded commit is dropped while it awaits the blocking
\* task: redb commits all the same, and nobody is left to publish the events.
CommitDropped(t) ==
  /\ backend = "embedded"
  /\ pc[t] = "open"
  /\ rows' = Committed(t)
  /\ Close(t, "closed")
  /\ lost' = lost \cup Keys(pending[t])
  /\ pending' = [pending EXCEPT ![t] = <<>>]
  /\ UNCHANGED <<inbox, cache>>

\* commit of the Postgres backend, also one whose answer is lost: the NOTIFYs
\* of its triggers are delivered with it (one that is repeated once only, which
\* a subscriber that reads again cannot tell).
CommitPostgres(t) ==
  /\ backend = "postgres"
  /\ pc[t] = "open"
  /\ rows' = Committed(t)
  /\ Close(t, "closed")
  /\ inbox' = inbox \o pending[t]
  /\ pending' = [pending EXCEPT ![t] = <<>>]
  /\ UNCHANGED <<lost, cache>>

\* abort, drop, a statement or a commit that failed: the writes and their
\* events are dropped.  Postgres resolves a cycle of waiting transactions
\* this way.
Abort(t) ==
  /\ pc[t] \in {"open", "swap"}
  /\ Close(t, "closed")
  /\ pending' = [pending EXCEPT ![t] = <<>>]
  /\ UNCHANGED <<rows, watchVars>>

-----------------------------------------------------------------------------
(* Events.                                                                 *)

\* A full broadcast channel drops its oldest event.
Send(k) ==
  IF Len(inbox) < Capacity
  THEN inbox' = Append(inbox, k) /\ UNCHANGED lost
  ELSE inbox' = Append(Tail(inbox), k) /\ lost' = lost \cup {Head(inbox)}

\* One round of the loop after commit, or its end.
Publish(t) ==
  /\ pc[t] = "publish"
  /\ IF pending[t] = <<>>
     THEN pc' = [pc EXCEPT ![t] = "closed"] /\ UNCHANGED <<pending, inbox, lost>>
     ELSE /\ Send(Head(pending[t]))
          /\ pending' = [pending EXCEPT ![t] = Tail(@)]
          /\ UNCHANGED pc
  /\ UNCHANGED <<backend, rows, lock, buf, cas, won, ops, cache>>

\* The subscriber takes an event and reads the row with get_bytes.
Receive ==
  /\ inbox # <<>>
  /\ cache' = [cache EXCEPT ![Head(inbox)] = rows[Head(inbox)]]
  /\ lost' = lost \ {Head(inbox)}
  /\ inbox' = Tail(inbox)
  /\ UNCHANGED <<backend, rows, lock, txnVars>>

\* The connection of the Postgres listener breaks: recv reconnects, and what
\* was announced meanwhile is lost.
ListenerLost ==
  /\ backend = "postgres"
  /\ inbox # <<>>
  /\ inbox' = <<>>
  /\ lost' = lost \cup Keys(inbox)
  /\ UNCHANGED <<backend, rows, lock, txnVars, cache>>

-----------------------------------------------------------------------------
Operate(t) ==
  \/ \E k \in Key, v \in Value : PutBytes(t, k, v)
  \/ \E k \in Key : Delete(t, k)
  \/ \E k \in Key, expected, new \in Cell : CasRead(t, k, expected, new)
  \/ CasWrite(t)

Commit(t) == CommitEmbedded(t) \/ CommitDropped(t) \/ CommitPostgres(t)

Next ==
  \/ \E t \in Txn : Begin(t) \/ Operate(t) \/ Commit(t) \/ Abort(t) \/ Publish(t)
  \/ Receive
  \/ ListenerLost

Spec == Init /\ [][Next]_vars

-----------------------------------------------------------------------------
(* Properties.                                                             *)

\* The swaps the transaction is about to commit find what they expected.
Replaces(c) == rows[c.key] = c.expected

\* A swap that is bound to replace what it compared with: any swap on the
\* embedded backend, a swap of an existing row on Postgres.
Bound(c) == backend = "embedded" \/ c.expected # Absent

\* traits/storage.rs:132 "succeeds only if the current value matches
\* `expected`": when a transaction commits, every swap it won still replaces
\* the value it compared with, whoever wrote in between.  On Postgres this is
\* so for a swap of a row that exists.
CasReplacesExpected ==
  [][\A t \in Txn :
       Commit(t) =>
         \A c \in won[t] :
           Bound(c) => Replaces(c)]_vars

\* The same with no exception, as the trait has it; tests/postgres_lease.rs:109
\* expects of two swaps of a fresh row "exactly one wins, one loses. The
\* dual-backed CAS gives single-winner on PG".
CasSingleWinner ==
  [][\A t \in Txn : Commit(t) => \A c \in won[t] : Replaces(c)]_vars

\* storage.md:40: events follow the commit, and rolled-back writes are never
\* announced: a subscriber that reads each announced row again has every row of
\* the store when all is quiet, although the commits of two transactions may be
\* announced in the other order.  It is behind on a key only if an event of
\* that key never came (the channel was full, the listener's connection broke,
\* or the caller of commit was dropped before it published), and only until the
\* next event of that key.
QuietCacheIsCurrent ==
  /\ inbox = <<>>
  /\ \A t \in Txn : pc[t] # "publish"
  => \A k \in Key \ lost : cache[k] = rows[k]

-----------------------------------------------------------------------------
(* The inductive invariant behind CasReplacesExpected.                     *)

\* The row of the swap is locked and holds what was expected.
Guarded(t, c) == lock[c.key] = t /\ rows[c.key] = c.expected

\* A transaction writes only what it has locked.
WritesAreLocked ==
  \A t \in Txn, k \in Key : buf[t][k] # Unwritten => lock[k] = t

\* The open transaction of the embedded backend has every lock.
EmbeddedIsExclusive ==
  backend = "embedded" =>
    \A t \in Txn : pc[t] \in {"open", "swap"} => \A k \in Key : lock[k] = t

\* Between its read and its write a swap of a committed row is guarded.
SwapIsGuarded ==
  \A t \in Txn :
    pc[t] = "swap" =>
      /\ cas[t] \in Swap
      /\ Bound(cas[t]) /\ buf[t][cas[t].key] = Unwritten => Guarded(t, cas[t])

\* ... and it stays guarded until the commit.
WonIsGuarded ==
  \A t \in Txn : \A c \in won[t] : Bound(c) => Guarded(t, c)

\* The conjunction that every step of the system preserves.
Inv ==
  /\ TypeOK
  /\ WritesAreLocked
  /\ EmbeddedIsExclusive
  /\ SwapIsGuarded
  /\ WonIsGuarded
=============================================================================

---------------------------- MODULE StorageProofs ----------------------------
(***************************************************************************)
(* Proofs about the key-value store and about the coordinator lease that   *)
(* is kept in it.                                                          *)
(*                                                                         *)
(* Storage: for any number of transactions, keys and values, a             *)
(* compare-and-swap of the embedded backend, and one of an existing row on *)
(* Postgres, replaces exactly the value it was compared with.  The         *)
(* property speaks of the commit, the comparison happened some steps       *)
(* before.  What carries over is the lock: a transaction commits only rows *)
(* it has locked (WritesAreLocked), so a guarded row keeps its value until *)
(* its own transaction commits (WonIsGuarded).                             *)
(*                                                                         *)
(* StorageLease: for any set of coordinator processes, any TTL, any clock  *)
(* skew and any bound on the clock, LeaseInv is inductive: it is preserved *)
(* by every action, one lemma per group of actions.                        *)
(***************************************************************************)
EXTENDS Storage, StorageLease, TLAPS

-----------------------------------------------------------------------------
(* The key-value store.                                                    *)

\* The initial states satisfy the invariant.
LEMMA InitInv == Init => Inv
<1> SUFFICES ASSUME Init PROVE Inv
  OBVIOUS
<1> USE StorageAssumption DEF Init
<1>1. TypeOK
  BY DEF TypeOK, Cell, Swap, NoSwap, NoWrites
<1>2. WritesAreLocked
  BY DEF WritesAreLocked, NoWrites
<1>3. EmbeddedIsExclusive
  BY DEF EmbeddedIsExclusive
<1>4. SwapIsGuarded
  BY DEF SwapIsGuarded
<1>5. WonIsGuarded
  BY DEF WonIsGuarded
<1>6. QED
  BY <1>1, <1>2, <1>3, <1>4, <1>5 DEF Inv

\* The keys of a sequence of events are keys.
LEMMA KeysType == ASSUME NEW s \in Seq(Key) PROVE Keys(s) \in SUBSET Key
  BY DEF Keys

\* A broadcast channel stays a sequence of events, full or not.
LEMMA SendType ==
  ASSUME NEW k \in Key, inbox \in Seq(Key), lost \in SUBSET Key, Send(k)
  PROVE  inbox' \in Seq(Key) /\ lost' \in SUBSET Key
<1>1. CASE Len(inbox) < Capacity
  <2>1. inbox' = Append(inbox, k) /\ lost' = lost
    BY <1>1 DEF Send
  <2>2. QED
    BY <2>1
<1>2. CASE ~(Len(inbox) < Capacity)
  <2>1. inbox' = Append(Tail(inbox), k) /\ lost' = lost \cup {Head(inbox)}
    BY <1>2 DEF Send
  <2>2. inbox # <<>>
    BY <1>2, StorageAssumption
  <2>3. QED
    BY <2>1, <2>2
<1>3. QED
  BY <1>1, <1>2

\* Every step keeps the types.
LEMMA TypeStep == TypeOK /\ SwapIsGuarded /\ [Next]_vars => TypeOK'
<1> SUFFICES ASSUME TypeOK, SwapIsGuarded, [Next]_vars PROVE TypeOK'
  OBVIOUS
<1> USE StorageAssumption DEF TypeOK, Cell
<1>1. ASSUME NEW t \in Txn, Begin(t) PROVE TypeOK'
  BY <1>1 DEF Begin, watchVars
<1>2. ASSUME NEW t \in Txn, NEW k \in Key, NEW v \in Value, PutBytes(t, k, v)
      PROVE TypeOK'
  BY <1>2 DEF PutBytes, Write, Lock, CountOp, watchVars
<1>3. ASSUME NEW t \in Txn, NEW k \in Key, Delete(t, k) PROVE TypeOK'
  <2>1. CASE Current(t, k) = Absent
    BY <1>3, <2>1 DEF Delete, CountOp, watchVars
  <2>2. CASE Current(t, k) # Absent
    <3>1. Write(t, k, Absent)
      BY <1>3, <2>2 DEF Delete
    <3>2. buf' \in [Txn -> [Key -> Cell \cup {Unwritten}]]
      BY <3>1 DEF Write
    <3>3. QED
      BY <1>3, <3>1, <3>2 DEF Delete, Write, Lock, CountOp, watchVars
  <2>3. QED
    BY <2>1, <2>2
<1>4. ASSUME NEW t \in Txn, NEW k \in Key, NEW expected \in Cell, NEW new \in Cell,
             CasRead(t, k, expected, new)
      PROVE TypeOK'
  <2>1. lock' \in [Key -> Txn \cup {NoTxn}]
    BY <1>4 DEF CasRead, SelectForUpdate, Lock
  <2>2. /\ pc' \in [Txn -> {"idle", "open", "swap", "publish", "closed"}]
        /\ cas' \in [Txn -> Swap \cup {NoSwap}]
    <3> DEFINE c == [key |-> k, expected |-> expected, new |-> new]
    <3>1. c \in Swap
      BY DEF Swap
    <3>2. CASE Current(t, k) = expected /\ ~(expected = Absent /\ new = Absent)
      <4>1. /\ pc' = [pc EXCEPT ![t] = "swap"]
            /\ cas' = [cas EXCEPT ![t] = c]
        BY <1>4, <3>2 DEF CasRead
      <4> HIDE DEF c
      <4>2. QED
        BY <3>1, <4>1
    <3>3. CASE ~(Current(t, k) = expected /\ ~(expected = Absent /\ new = Absent))
      BY <1>4, <3>3 DEF CasRead
    <3>4. QED
      BY <3>2, <3>3
  <2>3. ops' \in [Txn -> Nat]
    BY <1>4 DEF CasRead, CountOp
  <2>4. QED
    BY <1>4, <2>1, <2>2, <2>3 DEF CasRead, watchVars
<1>5. ASSUME NEW t \in Txn, CasWrite(t) PROVE TypeOK'
  BY <1>5 DEF CasWrite, Write, Lock, Swap, NoSwap, SwapIsGuarded, watchVars
<1>6. ASSUME NEW t \in Txn, Commit(t) PROVE TypeOK'
  <2>1. rows' \in [Key -> Cell]
    <3>1. rows' = Committed(t)
      BY <1>6 DEF Commit, CommitEmbedded, CommitDropped, CommitPostgres
    <3>2. QED
      BY <3>1 DEF Committed, Current
  <2>2. CASE CommitEmbedded(t)
    BY <2>1, <2>2 DEF CommitEmbedded, Close, Unlocked, NoWrites, watchVars
  <2>3. CASE CommitPostgres(t)
    <3>1. inbox' \in Seq(Key)
      BY <2>3 DEF CommitPostgres
    <3>2. QED
      BY <2>1, <2>3, <3>1 DEF CommitPostgres, Close, Unlocked, NoWrites
  <2>4. CASE CommitDropped(t)
    <3>1. lost' \in SUBSET Key
      BY <2>4, KeysType DEF CommitDropped
    <3>2. QED
      BY <2>1, <2>4, <3>1 DEF CommitDropped, Close, Unlocked, NoWrites
  <2>5. QED
    BY <1>6, <2>2, <2>3, <2>4 DEF Commit
<1>7. ASSUME NEW t \in Txn, Abort(t) PROVE TypeOK'
  BY <1>7 DEF Abort, Close, Unlocked, NoWrites, watchVars
<1>8. ASSUME NEW t \in Txn, Publish(t) PROVE TypeOK'
  <2>1. CASE pending[t] = <<>>
    BY <1>8, <2>1 DEF Publish
  <2>2. CASE pending[t] # <<>>
    <3>1. /\ Head(pending[t]) \in Key /\ Tail(pending[t]) \in Seq(Key)
          /\ Send(Head(pending[t]))
      BY <1>8, <2>2 DEF Publish
    <3>2. inbox' \in Seq(Key) /\ lost' \in SUBSET Key
      BY <3>1, SendType
    <3>3. /\ pending' = [pending EXCEPT ![t] = Tail(pending[t])]
          /\ UNCHANGED <<backend, rows, lock, pc, buf, cas, won, ops, cache>>
      BY <1>8, <2>2 DEF Publish
    <3>4. pending' \in [Txn -> Seq(Key)]
      BY <3>1, <3>3
    <3>5. QED
      BY <3>2, <3>3, <3>4
  <2>3. QED
    BY <2>1, <2>2
<1>9. CASE Receive
  BY <1>9 DEF Receive, txnVars
<1>10. CASE ListenerLost
  <2>1. lost' \in SUBSET Key
    BY <1>10, KeysType DEF ListenerLost
  <2>2. QED
    BY <1>10, <2>1 DEF ListenerLost, txnVars
<1>11. CASE UNCHANGED vars
  BY <1>11 DEF vars, txnVars, watchVars
<1>12. QED
  BY <1>1, <1>2, <1>3, <1>4, <1>5, <1>6, <1>7, <1>8, <1>9, <1>10, <1>11
  DEF Next, Operate

\* The invariant's parts other than the types.
Guards == WritesAreLocked /\ EmbeddedIsExclusive /\ SwapIsGuarded /\ WonIsGuarded

\* A write locks its row, which no guarded row of another transaction is.
LEMMA WriteGuards ==
  ASSUME TypeOK, Guards, NEW t \in Txn, NEW k \in Key, NEW cell \in Cell,
         pc[t] = "open", Write(t, k, cell), UNCHANGED <<backend, rows, pc, cas, won>>
  PROVE  Guards'
<1>1. /\ lock' = [lock EXCEPT ![k] = t]
      /\ buf' = [buf EXCEPT ![t][k] = cell]
      /\ lock[k] \in {NoTxn, t}
  BY DEF Write, Lock, Free
<1>2. \A u \in Txn, q \in Key : lock[q] = u => lock'[q] = u
  BY <1>1, StorageAssumption DEF TypeOK
<1>3. \A u \in Txn, q \in Key :
        buf'[u][q] = IF u = t /\ q = k THEN cell ELSE buf[u][q]
  BY <1>1 DEF TypeOK
<1>4. lock'[k] = t
  BY <1>1 DEF TypeOK
<1>5. WritesAreLocked'
  BY <1>2, <1>3, <1>4 DEF Guards, WritesAreLocked
<1>6. EmbeddedIsExclusive'
  BY <1>2 DEF Guards, EmbeddedIsExclusive
<1>7. SwapIsGuarded'
  <2> SUFFICES ASSUME NEW u \in Txn, pc[u] = "swap"
               PROVE  /\ cas[u] \in Swap
                      /\ Bound(cas[u]) /\ buf'[u][cas[u].key] = Unwritten
                           => Guarded(u, cas[u])'
    BY DEF SwapIsGuarded, Bound
  <2>1. cas[u] \in Swap /\ cas[u].key \in Key
    BY DEF Guards, SwapIsGuarded, Swap
  <2>2. buf'[u][cas[u].key] = buf[u][cas[u].key]
    BY <1>3, <2>1
  <2>3. QED
    BY <1>2, <2>1, <2>2 DEF Guards, SwapIsGuarded, Guarded
<1>8. WonIsGuarded'
  <2> SUFFICES ASSUME NEW u \in Txn, NEW c \in won[u], Bound(c)
               PROVE  Guarded(u, c)'
    BY DEF WonIsGuarded, Bound
  <2>1. c.key \in Key
    BY DEF TypeOK, Swap
  <2>2. QED
    BY <1>2, <2>1 DEF Guards, WonIsGuarded, Guarded
<1>9. QED
  BY <1>5, <1>6, <1>7, <1>8 DEF Guards

\* The read of a swap locks the row it matched, if there is one.
LEMMA CasReadGuards ==
  ASSUME TypeOK, Guards, NEW t \in Txn, NEW k \in Key, NEW expected \in Cell,
         NEW new \in Cell, CasRead(t, k, expected, new)
  PROVE  Guards'
<1> DEFINE c == [key |-> k, expected |-> expected, new |-> new]
           Matches == Current(t, k) = expected /\ ~(expected = Absent /\ new = Absent)
<1>1. /\ pc[t] = "open"
      /\ UNCHANGED <<backend, rows, buf, won>>
      /\ SelectForUpdate(t, k)
  BY DEF CasRead, MayOperate
<1>2. IF Matches THEN /\ pc' = [pc EXCEPT ![t] = "swap"]
                      /\ cas' = [cas EXCEPT ![t] = c]
                 ELSE UNCHANGED <<pc, cas>>
  BY DEF CasRead
<1>3. /\ \A u \in Txn, q \in Key : lock[q] = u => lock'[q] = u
      /\ Current(t, k) # Absent => lock'[k] = t
  BY <1>1, StorageAssumption DEF SelectForUpdate, Free, Lock, TypeOK
<1>4. WritesAreLocked'
  BY <1>1, <1>3 DEF Guards, WritesAreLocked
<1>5. EmbeddedIsExclusive'
  <2> SUFFICES ASSUME NEW u \in Txn, backend = "embedded",
                      pc'[u] \in {"open", "swap"}, NEW q \in Key
               PROVE  lock'[q] = u
    BY <1>1 DEF EmbeddedIsExclusive
  <2>1. pc[u] \in {"open", "swap"}
    BY <1>1, <1>2 DEF TypeOK
  <2>2. QED
    BY <1>3, <2>1 DEF Guards, EmbeddedIsExclusive
<1>6. WonIsGuarded'
  <2> SUFFICES ASSUME NEW u \in Txn, NEW d \in won[u], Bound(d)
               PROVE  Guarded(u, d)'
    BY <1>1 DEF WonIsGuarded, Bound
  <2>1. d.key \in Key
    BY DEF TypeOK, Swap
  <2>2. QED
    BY <1>1, <1>3, <2>1 DEF Guards, WonIsGuarded, Guarded
<1>7. SwapIsGuarded'
  <2> SUFFICES ASSUME NEW u \in Txn, pc'[u] = "swap"
               PROVE  /\ cas'[u] \in Swap
                      /\ Bound(cas'[u]) /\ buf[u][cas'[u].key] = Unwritten
                           => lock'[cas'[u].key] = u /\ rows[cas'[u].key] = cas'[u].expected
    BY <1>1 DEF SwapIsGuarded, Bound, Guarded
  <2>1. CASE Matches /\ u = t
    <3>1. cas'[u] = c /\ c \in Swap
      BY <1>2, <2>1 DEF TypeOK, Swap
    <3>2. backend = "embedded" => lock'[k] = t
      BY <1>1, <1>3 DEF Guards, EmbeddedIsExclusive
    <3>3. buf[t][k] = Unwritten => rows[k] = expected
      BY <2>1 DEF Current
    <3>4. QED
      BY <1>3, <2>1, <3>1, <3>2, <3>3 DEF Bound
  <2>2. CASE ~(Matches /\ u = t)
    <3>1. pc[u] = "swap" /\ cas'[u] = cas[u]
      BY <1>1, <1>2, <2>2 DEF TypeOK
    <3>2. cas[u] \in Swap /\ cas[u].key \in Key
      BY <3>1 DEF Guards, SwapIsGuarded, Swap
    <3>3. QED
      BY <1>3, <3>1, <3>2 DEF Guards, SwapIsGuarded, Guarded
  <2>3. QED
    BY <2>1, <2>2
<1>8. QED
  BY <1>4, <1>5, <1>6, <1>7 DEF Guards

\* The write of a swap adds it, guarded, to the swaps the transaction won.
LEMMA CasWriteGuards ==
  ASSUME TypeOK, Guards, NEW t \in Txn, CasWrite(t)
  PROVE  Guards'
<1> DEFINE k == cas[t].key
<1>1. /\ pc[t] = "swap" /\ Write(t, k, cas[t].new)
      /\ pc' = [pc EXCEPT ![t] = "open"]
      /\ cas' = [cas EXCEPT ![t] = NoSwap]
      /\ UNCHANGED <<backend, rows>>
      /\ won' = IF buf[t][k] = Unwritten
                THEN [won EXCEPT ![t] = won[t] \cup {cas[t]}] ELSE won
  BY DEF CasWrite
<1>2. cas[t] \in Swap /\ k \in Key /\ cas[t].new \in Cell
  BY <1>1 DEF Guards, SwapIsGuarded, Swap
<1>3. /\ lock' = [lock EXCEPT ![k] = t]
      /\ buf' = [buf EXCEPT ![t][k] = cas[t].new]
      /\ lock[k] \in {NoTxn, t}
  BY <1>1 DEF Write, Lock, Free
<1> HIDE DEF k
<1>4. \A u \in Txn, q \in Key : lock[q] = u => lock'[q] = u
  BY <1>2, <1>3, StorageAssumption DEF TypeOK
<1>5. /\ \A u \in Txn, q \in Key : u # t \/ q # k => buf'[u][q] = buf[u][q]
      /\ lock'[k] = t
  BY <1>2, <1>3 DEF TypeOK
<1>6. WritesAreLocked'
  BY <1>4, <1>5 DEF Guards, WritesAreLocked
<1>7. EmbeddedIsExclusive'
  <2> SUFFICES ASSUME NEW u \in Txn, backend = "embedded",
                      pc'[u] \in {"open", "swap"}, NEW q \in Key
               PROVE  lock'[q] = u
    BY <1>1 DEF EmbeddedIsExclusive
  <2>1. pc[u] \in {"open", "swap"}
    BY <1>1 DEF TypeOK
  <2>2. QED
    BY <1>4, <2>1 DEF Guards, EmbeddedIsExclusive
<1>8. WonIsGuarded'
  <2> SUFFICES ASSUME NEW u \in Txn, NEW d \in won'[u], Bound(d)
               PROVE  lock'[d.key] = u /\ rows[d.key] = d.expected
    BY <1>1 DEF WonIsGuarded, Bound, Guarded
  <2>1. CASE d \in won[u]
    <3>1. d.key \in Key
      BY <2>1 DEF TypeOK, Swap
    <3>2. QED
      BY <1>4, <2>1, <3>1 DEF Guards, WonIsGuarded, Guarded
  <2>2. CASE d \notin won[u]
    <3>1. u = t /\ d = cas[t] /\ buf[t][k] = Unwritten
      BY <1>1, <2>2 DEF TypeOK
    <3>2. rows[k] = cas[t].expected
      BY <1>1, <3>1 DEF Guards, SwapIsGuarded, Guarded, k
    <3>3. QED
      BY <1>5, <3>1, <3>2 DEF k
  <2>3. QED
    BY <2>1, <2>2
<1>9. SwapIsGuarded'
  <2> SUFFICES ASSUME NEW u \in Txn, pc'[u] = "swap"
               PROVE  /\ cas'[u] \in Swap
                      /\ Bound(cas'[u]) /\ buf'[u][cas'[u].key] = Unwritten
                           => lock'[cas'[u].key] = u /\ rows[cas'[u].key] = cas'[u].expected
    BY <1>1 DEF SwapIsGuarded, Bound, Guarded
  <2>1. u # t /\ pc[u] = "swap" /\ cas'[u] = cas[u]
    BY <1>1 DEF TypeOK
  <2>2. cas[u] \in Swap /\ cas[u].key \in Key
    BY <2>1 DEF Guards, SwapIsGuarded, Swap
  <2>3. buf'[u][cas[u].key] = buf[u][cas[u].key]
    BY <1>5, <2>1, <2>2
  <2>4. QED
    BY <1>4, <2>1, <2>2, <2>3 DEF Guards, SwapIsGuarded, Guarded
<1>10. QED
  BY <1>6, <1>7, <1>8, <1>9 DEF Guards

\* The end of a transaction frees its own locks; a commit changes only the
\* rows it has locked, none of which another transaction guards.
LEMMA CloseGuards ==
  ASSUME TypeOK, Guards, NEW t \in Txn, NEW next \in {"publish", "closed"},
         Close(t, next), \A k \in Key : lock[k] # t => rows'[k] = rows[k]
  PROVE  Guards'
<1>1. /\ lock' = [k \in Key |-> IF lock[k] = t THEN NoTxn ELSE lock[k]]
      /\ pc' = [pc EXCEPT ![t] = next]
      /\ buf' = [buf EXCEPT ![t] = NoWrites]
      /\ cas' = [cas EXCEPT ![t] = NoSwap]
      /\ won' = [won EXCEPT ![t] = {}]
      /\ UNCHANGED backend
  BY DEF Close, Unlocked
<1>2. \A u \in Txn \ {t}, q \in Key :
        lock[q] = u => lock'[q] = u /\ rows'[q] = rows[q]
  BY <1>1
<1>3. \A u \in Txn :
        IF u = t THEN /\ pc'[u] \notin {"open", "swap"}
                      /\ won'[u] = {}
                      /\ buf'[u] = NoWrites
        ELSE pc'[u] = pc[u] /\ won'[u] = won[u] /\ buf'[u] = buf[u] /\ cas'[u] = cas[u]
  BY <1>1 DEF TypeOK
<1>4. WritesAreLocked'
  BY <1>2, <1>3 DEF Guards, WritesAreLocked, NoWrites
<1>5. EmbeddedIsExclusive'
  BY <1>1, <1>2, <1>3 DEF Guards, EmbeddedIsExclusive
<1>6. WonIsGuarded'
  <2> SUFFICES ASSUME NEW u \in Txn, NEW d \in won'[u], Bound(d)
               PROVE  lock'[d.key] = u /\ rows'[d.key] = d.expected
    BY <1>1 DEF WonIsGuarded, Bound, Guarded
  <2>1. u # t /\ d \in won[u]
    BY <1>3
  <2>2. d.key \in Key
    BY <2>1 DEF TypeOK, Swap
  <2>3. QED
    BY <1>2, <2>1, <2>2 DEF Guards, WonIsGuarded, Guarded
<1>7. SwapIsGuarded'
  <2> SUFFICES ASSUME NEW u \in Txn, pc'[u] = "swap"
               PROVE  /\ cas'[u] \in Swap
                      /\ Bound(cas'[u]) /\ buf'[u][cas'[u].key] = Unwritten
                           => lock'[cas'[u].key] = u /\ rows'[cas'[u].key] = cas'[u].expected
    BY <1>1 DEF SwapIsGuarded, Bound, Guarded
  <2>1. u # t /\ pc[u] = "swap" /\ cas'[u] = cas[u] /\ buf'[u] = buf[u]
    BY <1>3
  <2>2. cas[u] \in Swap /\ cas[u].key \in Key
    BY <2>1 DEF Guards, SwapIsGuarded, Swap
  <2>3. QED
    BY <1>2, <2>1, <2>2 DEF Guards, SwapIsGuarded, Guarded
<1>8. QED
  BY <1>4, <1>5, <1>6, <1>7 DEF Guards

\* A step that leaves the transactions' rows and locks alone keeps the guards.
LEMMA IdleGuards ==
  ASSUME TypeOK, Guards, UNCHANGED <<backend, rows, lock, buf, cas, won>>,
         \A u \in Txn : pc'[u] \in {"open", "swap"} => pc'[u] = pc[u]
  PROVE  Guards'
<1>1. WritesAreLocked'
  BY DEF Guards, WritesAreLocked
<1>2. EmbeddedIsExclusive'
  BY DEF Guards, EmbeddedIsExclusive
<1>3. SwapIsGuarded'
  BY DEF Guards, SwapIsGuarded, Bound, Guarded
<1>4. WonIsGuarded'
  BY DEF Guards, WonIsGuarded, Bound, Guarded
<1>5. QED
  BY <1>1, <1>2, <1>3, <1>4 DEF Guards

\* Every step keeps the guards.
LEMMA GuardStep == Inv /\ [Next]_vars => Inv'
<1> SUFFICES ASSUME Inv, [Next]_vars PROVE Inv'
  OBVIOUS
<1>t. TypeOK /\ TypeOK'
  BY TypeStep DEF Inv
<1>g. Guards
  BY DEF Inv, Guards
<1>1. ASSUME NEW t \in Txn, Begin(t) PROVE Guards'
  <2>1. CASE backend = "postgres"
    BY <1>1, <1>g, <2>1
    DEF Begin, TypeOK, WritesAreLocked, EmbeddedIsExclusive, SwapIsGuarded,
        WonIsGuarded, Guarded, Bound, Guards
  <2>2. CASE backend = "embedded"
    <3>1. \A u \in Txn, k \in Key : lock[k] # u
      BY <1>1, <2>2, StorageAssumption DEF Begin
    <3>2. QED
      BY <1>1, <1>g, <1>t, <2>2, <3>1
      DEF Begin, TypeOK, Swap, WritesAreLocked, EmbeddedIsExclusive, SwapIsGuarded,
          WonIsGuarded, Guarded, Bound, Guards
  <2>3. QED
    BY <1>1, <2>1, <2>2 DEF Begin
<1>2. ASSUME NEW t \in Txn, NEW k \in Key, NEW cell \in Cell,
             pc[t] = "open", Write(t, k, cell), UNCHANGED <<backend, rows, pc, cas, won>>
      PROVE  Guards'
  BY <1>2, <1>g, <1>t, WriteGuards
<1>3. ASSUME NEW t \in Txn, NEW k \in Key, Delete(t, k) PROVE Guards'
  <2>1. CASE Current(t, k) = Absent
    BY <1>3, <1>g, <2>1
    DEF Delete, WritesAreLocked, EmbeddedIsExclusive, SwapIsGuarded,
        WonIsGuarded, Guarded, Bound, Guards
  <2>2. CASE Current(t, k) # Absent
    BY <1>2, <1>3, <2>2 DEF Delete, MayOperate, Cell
  <2>3. QED
    BY <2>1, <2>2
<1>4. ASSUME NEW t \in Txn, NEW k \in Key, NEW expected \in Cell, NEW new \in Cell,
             CasRead(t, k, expected, new)
      PROVE Guards'
  BY <1>4, <1>g, <1>t, CasReadGuards
<1>5. ASSUME NEW t \in Txn, CasWrite(t) PROVE Guards'
  BY <1>5, <1>g, <1>t, CasWriteGuards
<1>6. ASSUME NEW t \in Txn, Commit(t) PROVE Guards'
  <2>1. \A k \in Key : lock[k] # t => rows'[k] = rows[k]
    BY <1>6, <1>g, <1>t
    DEF Commit, CommitEmbedded, CommitDropped, CommitPostgres, Committed, Current, Guards,
        WritesAreLocked, TypeOK
  <2>2. Close(t, "publish") \/ Close(t, "closed")
    BY <1>6 DEF Commit, CommitEmbedded, CommitDropped, CommitPostgres
  <2>3. QED
    BY <1>g, <1>t, <2>1, <2>2, CloseGuards
<1>7. ASSUME NEW t \in Txn, Abort(t) PROVE Guards'
  <2>1. Close(t, "closed") /\ UNCHANGED rows
    BY <1>7 DEF Abort
  <2>2. QED
    BY <1>g, <1>t, <2>1, CloseGuards
<1>8. ASSUME NEW t \in Txn, Publish(t) PROVE Guards'
  <2>1. \A u \in Txn : pc'[u] \in {"open", "swap"} => pc'[u] = pc[u]
    BY <1>8, <1>t DEF Publish, TypeOK
  <2>2. QED
    BY <1>8, <1>g, <1>t, <2>1, IdleGuards DEF Publish
<1>9. ASSUME Receive \/ ListenerLost PROVE Guards'
  <2>1. UNCHANGED <<backend, rows, lock, buf, cas, won, pc>>
    BY <1>9 DEF Receive, ListenerLost, txnVars
  <2>2. QED
    BY <1>g, <1>t, <2>1, IdleGuards
<1>10. ASSUME UNCHANGED vars PROVE Guards'
  <2>1. UNCHANGED <<backend, rows, lock, buf, cas, won, pc>>
    BY <1>10 DEF vars, txnVars
  <2>2. QED
    BY <1>g, <1>t, <2>1, IdleGuards
<1>11. ASSUME NEW t \in Txn, NEW k \in Key, NEW v \in Value, PutBytes(t, k, v)
       PROVE  Guards'
  BY <1>2, <1>11 DEF PutBytes, MayOperate, Cell
<1>12. Guards'
  <2>1. ASSUME NEW t \in Txn, Operate(t) PROVE Guards'
    BY <2>1, <1>3, <1>4, <1>5, <1>11 DEF Operate
  <2>2. QED
    BY <1>1, <1>6, <1>7, <1>8, <1>9, <1>10, <2>1 DEF Next
<1>13. QED
  BY <1>t, <1>12 DEF Inv, Guards

\* The invariant holds in every state of every behaviour of the store.
THEOREM Invariance == Spec => []Inv
BY InitInv, GuardStep, PTL DEF Spec

\* cas_bytes: what a transaction commits under a won swap replaces the value
\* the swap was compared with.
THEOREM SwapIsAtomic == Spec => CasReplacesExpected
<1>1. Inv /\ [Next]_vars =>
        [\A t \in Txn :
           Commit(t) => \A c \in won[t] : Bound(c) => Replaces(c)]_vars
  BY DEF Inv, WonIsGuarded, Guarded, Replaces
<1>2. QED
  BY <1>1, Invariance, PTL DEF Spec, CasReplacesExpected

-----------------------------------------------------------------------------
(***************************************************************************)
(* What a subscriber knows.  The events of a commit come later, one by     *)
(* one, between those of other commits: that the copy is right when all is *)
(* quiet is not inductive.  Of every key whose copy is not right an event  *)
(* is still on its way, or one was lost (NewsIsComing), because until it   *)
(* commits a transaction has an event for every key it wrote               *)
(* (WritesAreAnnounced).                                                   *)
(***************************************************************************)
In(k, s) == \E j \in DOMAIN s : s[j] = k

WritesAreAnnounced ==
  \A t \in Txn :
    /\ \A k \in Key : buf[t][k] # Unwritten => In(k, pending[t])
    /\ pc[t] = "publish" => buf[t] = NoWrites

NewsIsComing ==
  \A k \in Key \ lost : \/ cache[k] = rows[k]
                        \/ In(k, inbox)
                        \/ \E t \in Txn : pc[t] = "publish" /\ In(k, pending[t])

News == WritesAreAnnounced /\ NewsIsComing

LEMMA InAppend ==
  ASSUME NEW s \in Seq(Key), NEW k \in Key, NEW q
  PROVE  In(q, Append(s, k)) <=> (In(q, s) \/ q = k)
<1>1. /\ DOMAIN Append(s, k) = 1 .. Len(s) + 1 /\ DOMAIN s = 1 .. Len(s)
      /\ \A j \in 1 .. Len(s) : Append(s, k)[j] = s[j]
      /\ Append(s, k)[Len(s) + 1] = k
      /\ Len(s) \in Nat
  OBVIOUS
<1>2. QED
  BY <1>1 DEF In

\* What was in the sequence is its head or in its tail.
LEMMA InTail ==
  ASSUME NEW s \in Seq(Key), s # <<>>, NEW q, In(q, s)
  PROVE  q = Head(s) \/ In(q, Tail(s))
<1>1. PICK j \in DOMAIN s : s[j] = q
  BY DEF In
<1>2. CASE j = 1
  BY <1>1, <1>2
<1>3. CASE j # 1
  <2>1. j - 1 \in DOMAIN Tail(s) /\ Tail(s)[j - 1] = s[j]
    BY <1>1, <1>3
  <2>2. QED
    BY <1>1, <2>1 DEF In
<1>4. QED
  BY <1>2, <1>3

LEMMA InConcat ==
  ASSUME NEW s \in Seq(Key), NEW r \in Seq(Key), NEW q, In(q, s) \/ In(q, r)
  PROVE  In(q, s \o r)
<1>1. CASE In(q, s)
  <2>1. PICK j \in DOMAIN s : s[j] = q
    BY <1>1 DEF In
  <2>2. j \in DOMAIN (s \o r) /\ (s \o r)[j] = q
    BY <2>1
  <2>3. QED
    BY <2>2 DEF In
<1>2. CASE In(q, r)
  <2>1. PICK j \in DOMAIN r : r[j] = q
    BY <1>2 DEF In
  <2>2. Len(s) + j \in DOMAIN (s \o r) /\ (s \o r)[Len(s) + j] = q
    BY <2>1
  <2>3. QED
    BY <2>2 DEF In
<1>3. QED
  BY <1>1, <1>2

\* A write goes with its event; nobody reads the store anew.
LEMMA WriteNews ==
  ASSUME TypeOK, News, NEW t \in Txn, NEW k \in Key, NEW cell \in Cell,
         Write(t, k, cell), pc[t] \in {"open", "swap"},
         pc' = pc \/ pc' = [pc EXCEPT ![t] = "open"],
         UNCHANGED <<rows, watchVars>>
  PROVE  News'
<1>1. /\ buf' = [buf EXCEPT ![t][k] = cell]
      /\ pending' = [pending EXCEPT ![t] = Append(pending[t], k)]
      /\ pending[t] \in Seq(Key)
  BY DEF Write, TypeOK
<1>2. /\ \A u \in Txn, q \in Key : u # t \/ q # k => buf'[u][q] = buf[u][q]
      /\ \A u \in Txn : u # t => buf'[u] = buf[u] /\ pending'[u] = pending[u]
      /\ pending'[t] = Append(pending[t], k)
      /\ \A u \in Txn : pc'[u] = "publish" <=> pc[u] = "publish"
      /\ pc'[t] # "publish"
  BY <1>1 DEF TypeOK
<1>3. \A q \in Key : In(q, pending[t]) \/ q = k => In(q, pending'[t])
  BY <1>1, <1>2, InAppend
<1>4. WritesAreAnnounced'
  <2> SUFFICES ASSUME NEW u \in Txn
               PROVE  /\ \A q \in Key : buf'[u][q] # Unwritten => In(q, pending'[u])
                      /\ pc'[u] = "publish" => buf'[u] = NoWrites
    BY DEF WritesAreAnnounced, In
  <2>1. CASE u = t
    BY <1>2, <1>3, <2>1 DEF News, WritesAreAnnounced
  <2>2. CASE u # t
    BY <1>2, <2>2 DEF News, WritesAreAnnounced
  <2>3. QED
    BY <2>1, <2>2
<1>5. NewsIsComing'
  BY <1>2 DEF News, NewsIsComing, watchVars, In
<1>6. QED
  BY <1>4, <1>5 DEF News

\* A step that writes nothing and announces nothing.
LEMMA IdleNews ==
  ASSUME TypeOK, News, UNCHANGED <<rows, buf, pending, watchVars>>,
         \A u \in Txn : pc'[u] = "publish" <=> pc[u] = "publish"
  PROVE  News'
BY DEF News, WritesAreAnnounced, NewsIsComing, watchVars, In

\* A commit changes what it wrote only, and its events are there.
LEMMA CommitNews ==
  ASSUME TypeOK, News, NEW t \in Txn, Commit(t)
  PROVE  News'
<1>1. /\ rows' = [k \in Key |-> Current(t, k)]
      /\ buf' = [buf EXCEPT ![t] = NoWrites]
      /\ UNCHANGED cache /\ pc[t] = "open"
      /\ pending[t] \in Seq(Key) /\ inbox \in Seq(Key)
  BY DEF Commit, CommitEmbedded, CommitDropped, CommitPostgres, Close, Committed, watchVars, TypeOK
<1>2. \A k \in Key : rows'[k] # rows[k] => In(k, pending[t])
  BY <1>1 DEF Current, News, WritesAreAnnounced
<1>3. \A u \in Txn : buf'[u] = IF u = t THEN NoWrites ELSE buf[u]
  BY <1>1 DEF TypeOK
<1>4. CASE CommitEmbedded(t)
  <2>1. pc' = [pc EXCEPT ![t] = "publish"] /\ UNCHANGED <<pending, inbox, lost>>
    BY <1>4 DEF CommitEmbedded, Close, watchVars
  <2>2. \A u \in Txn : pc'[u] = IF u = t THEN "publish" ELSE pc[u]
    BY <2>1 DEF TypeOK
  <2>3. WritesAreAnnounced'
    BY <1>3, <2>1, <2>2 DEF News, WritesAreAnnounced, NoWrites, In
  <2>4. NewsIsComing'
    BY <1>1, <1>2, <2>1, <2>2 DEF News, NewsIsComing, In
  <2>5. QED
    BY <2>3, <2>4 DEF News
<1>5. CASE CommitPostgres(t)
  <2>1. /\ pc' = [pc EXCEPT ![t] = "closed"] /\ inbox' = inbox \o pending[t]
        /\ pending' = [pending EXCEPT ![t] = <<>>] /\ UNCHANGED lost
    BY <1>5 DEF CommitPostgres, Close
  <2>2. /\ \A u \in Txn : pc'[u] = IF u = t THEN "closed" ELSE pc[u]
        /\ \A u \in Txn : u # t => pending'[u] = pending[u]
    BY <2>1 DEF TypeOK
  <2>3. WritesAreAnnounced'
    BY <1>3, <2>2 DEF News, WritesAreAnnounced, NoWrites, In
  <2>4. \A k \in Key : In(k, inbox) \/ In(k, pending[t]) => In(k, inbox')
    BY <1>1, <2>1, InConcat
  <2>5. NewsIsComing'
    <3> SUFFICES ASSUME NEW k \in Key \ lost, cache[k] # rows'[k], ~In(k, inbox')
                 PROVE  \E u \in Txn : pc'[u] = "publish" /\ In(k, pending'[u])
      BY <1>1, <2>1 DEF NewsIsComing, In
    <3>1. cache[k] # rows[k] /\ ~In(k, inbox)
      BY <1>2, <2>4
    <3>2. PICK u \in Txn : pc[u] = "publish" /\ In(k, pending[u])
      BY <3>1 DEF News, NewsIsComing
    <3>3. u # t
      BY <1>1, <3>2
    <3>4. QED
      BY <2>2, <3>2, <3>3
  <2>6. QED
    BY <2>3, <2>5 DEF News
<1>6. CASE CommitDropped(t)
  <2>1. /\ pc' = [pc EXCEPT ![t] = "closed"] /\ inbox' = inbox
        /\ pending' = [pending EXCEPT ![t] = <<>>]
        /\ lost' = lost \cup Keys(pending[t])
    BY <1>6 DEF CommitDropped, Close
  <2>2. /\ \A u \in Txn : pc'[u] = IF u = t THEN "closed" ELSE pc[u]
        /\ \A u \in Txn : u # t => pending'[u] = pending[u]
    BY <2>1 DEF TypeOK
  <2>3. WritesAreAnnounced'
    BY <1>3, <2>2 DEF News, WritesAreAnnounced, NoWrites, In
  <2>4. \A k \in Key : In(k, pending[t]) => k \in lost'
    BY <2>1 DEF In, Keys
  <2>5. NewsIsComing'
    <3> SUFFICES ASSUME NEW k \in Key \ lost', cache[k] # rows'[k], ~In(k, inbox)
                 PROVE  \E u \in Txn : pc'[u] = "publish" /\ In(k, pending'[u])
      BY <1>1, <2>1 DEF NewsIsComing, In
    <3>1. cache[k] # rows[k] /\ k \notin lost
      BY <1>2, <2>1, <2>4
    <3>2. PICK u \in Txn : pc[u] = "publish" /\ In(k, pending[u])
      BY <3>1 DEF News, NewsIsComing
    <3>3. u # t
      BY <1>1, <3>2
    <3>4. QED
      BY <2>2, <3>2, <3>3
  <2>6. QED
    BY <2>3, <2>5 DEF News
<1>7. QED
  BY <1>4, <1>5, <1>6 DEF Commit

\* What was in the channel, and what is sent, is in it or lost.
LEMMA SentStays ==
  ASSUME NEW h \in Key, inbox \in Seq(Key), Send(h), NEW k, In(k, inbox) \/ k = h
  PROVE  In(k, inbox') \/ k \in lost'
<1>1. CASE Len(inbox) < Capacity
  <2>1. inbox' = Append(inbox, h)
    BY <1>1 DEF Send
  <2>2. In(k, Append(inbox, h))
    BY InAppend
  <2>3. QED
    BY <2>1, <2>2 DEF In
<1>2. CASE ~(Len(inbox) < Capacity)
  <2>1. inbox' = Append(Tail(inbox), h) /\ lost' = lost \cup {Head(inbox)}
    BY <1>2 DEF Send
  <2>2. inbox # <<>> /\ Tail(inbox) \in Seq(Key)
    BY <1>2, StorageAssumption
  <2>3. k = h \/ k = Head(inbox) \/ In(k, Tail(inbox))
    BY <2>2, InTail
  <2>4. In(k, Tail(inbox)) \/ k = h => In(k, inbox')
    BY <2>1, <2>2, InAppend
  <2>5. QED
    BY <2>1, <2>3, <2>4
<1>3. QED
  BY <1>1, <1>2

\* An event goes from a transaction to the subscriber, or drops another one.
LEMMA PublishNews ==
  ASSUME TypeOK, News, NEW t \in Txn, Publish(t)
  PROVE  News'
<1>1. pc[t] = "publish" /\ UNCHANGED <<rows, buf, cache>> /\ pending[t] \in Seq(Key)
  BY DEF Publish, TypeOK
<1>2. CASE pending[t] = <<>>
  <2>1. pc' = [pc EXCEPT ![t] = "closed"] /\ UNCHANGED <<pending, inbox, lost>>
    BY <1>2 DEF Publish
  <2>2. \A u \in Txn : pc'[u] = IF u = t THEN "closed" ELSE pc[u]
    BY <2>1 DEF TypeOK
  <2>3. \A k \in Key : ~In(k, pending[t])
    BY <1>2 DEF In
  <2>4. WritesAreAnnounced'
    BY <1>1, <2>1, <2>2 DEF News, WritesAreAnnounced, In
  <2>5. NewsIsComing'
    BY <1>1, <2>1, <2>2, <2>3 DEF News, NewsIsComing, In
  <2>6. QED
    BY <2>4, <2>5 DEF News
<1>3. CASE pending[t] # <<>>
  <2> DEFINE h == Head(pending[t])
  <2>1. /\ Send(h) /\ pending' = [pending EXCEPT ![t] = Tail(pending[t])]
        /\ UNCHANGED pc /\ h \in Key
    BY <1>1, <1>3 DEF Publish
  <2>2. \A u \in Txn : u # t => pending'[u] = pending[u]
    BY <2>1 DEF TypeOK
  <2>3. pending'[t] = Tail(pending[t])
    BY <2>1 DEF TypeOK
  <2>4. \A k \in Key : In(k, pending[t]) => k = h \/ In(k, pending'[t])
    BY <1>1, <1>3, <2>3, InTail
  <2> HIDE DEF h
  <2>5. WritesAreAnnounced'
    <3> SUFFICES ASSUME NEW u \in Txn
                 PROVE  /\ \A q \in Key : buf[u][q] # Unwritten => In(q, pending'[u])
                        /\ pc[u] = "publish" => buf[u] = NoWrites
      BY <1>1, <2>1 DEF WritesAreAnnounced, In
    <3>1. CASE u = t
      BY <1>1, <3>1 DEF News, WritesAreAnnounced, NoWrites
    <3>2. CASE u # t
      BY <2>2, <3>2 DEF News, WritesAreAnnounced
    <3>3. QED
      BY <3>1, <3>2
  <2>6. NewsIsComing'
    <3> SUFFICES ASSUME NEW k \in Key \ lost', cache[k] # rows[k], ~In(k, inbox')
                 PROVE  \E u \in Txn : pc[u] = "publish" /\ In(k, pending'[u])
      BY <1>1, <2>1 DEF NewsIsComing, In
    <3>1. inbox \in Seq(Key) /\ k \notin lost
      BY <2>1 DEF Send, TypeOK
    <3>2. k # h /\ ~In(k, inbox)
      BY <2>1, <3>1, SentStays
    <3>3. PICK u \in Txn : pc[u] = "publish" /\ In(k, pending[u])
      BY <3>1, <3>2 DEF News, NewsIsComing
    <3>4. In(k, pending'[u])
      BY <2>2, <2>4, <3>2, <3>3
    <3>5. QED
      BY <3>3, <3>4
  <2>7. QED
    BY <2>5, <2>6 DEF News
<1>4. QED
  BY <1>2, <1>3

\* Every step keeps the news coming.
LEMMA NewsStep == Inv /\ News /\ [Next]_vars => News'
<1> SUFFICES ASSUME TypeOK, SwapIsGuarded, News, [Next]_vars PROVE News'
  BY DEF Inv
<1>1. ASSUME NEW t \in Txn, Begin(t) PROVE News'
  <2>1. UNCHANGED <<rows, buf, pending, watchVars>> /\ pc[t] = "idle"
        /\ pc' = [pc EXCEPT ![t] = "open"]
    BY <1>1 DEF Begin
  <2>2. \A u \in Txn : pc'[u] = "publish" <=> pc[u] = "publish"
    BY <2>1 DEF TypeOK
  <2>3. QED
    BY <2>1, <2>2, IdleNews
<1>2. ASSUME NEW t \in Txn, NEW k \in Key, NEW v \in Value, PutBytes(t, k, v) PROVE News'
  <2>1. /\ Write(t, k, v) /\ pc[t] = "open" /\ pc' = pc /\ v \in Cell
        /\ UNCHANGED <<rows, watchVars>>
    BY <1>2 DEF PutBytes, MayOperate, Cell
  <2>2. QED
    BY <2>1, WriteNews
<1>3. ASSUME NEW t \in Txn, NEW k \in Key, Delete(t, k) PROVE News'
  <2>1. /\ pc[t] = "open" /\ pc' = pc /\ UNCHANGED <<rows, watchVars>> /\ Absent \in Cell
    BY <1>3 DEF Delete, MayOperate, Cell
  <2>2. Write(t, k, Absent) \/ UNCHANGED <<buf, pending>>
    BY <1>3 DEF Delete
  <2>3. QED
    BY <2>1, <2>2, WriteNews, IdleNews
<1>4. ASSUME NEW t \in Txn, NEW k \in Key, NEW expected \in Cell, NEW new \in Cell,
             CasRead(t, k, expected, new)
      PROVE News'
  <2>1. /\ UNCHANGED <<rows, buf, pending, watchVars>> /\ pc[t] = "open"
        /\ pc' = [pc EXCEPT ![t] = "swap"] \/ pc' = pc
    BY <1>4 DEF CasRead, MayOperate
  <2>2. \A u \in Txn : pc'[u] = "publish" <=> pc[u] = "publish"
    BY <2>1 DEF TypeOK
  <2>3. QED
    BY <2>1, <2>2, IdleNews
<1>5. ASSUME NEW t \in Txn, CasWrite(t) PROVE News'
  <2>1. /\ Write(t, cas[t].key, cas[t].new) /\ pc[t] = "swap"
        /\ pc' = [pc EXCEPT ![t] = "open"] /\ UNCHANGED <<rows, watchVars>>
    BY <1>5 DEF CasWrite
  <2>2. cas[t].key \in Key /\ cas[t].new \in Cell
    BY <2>1 DEF SwapIsGuarded, Swap
  <2>3. QED
    BY <2>1, <2>2, WriteNews
<1>6. ASSUME NEW t \in Txn, Commit(t) PROVE News'
  BY <1>6, CommitNews
<1>7. ASSUME NEW t \in Txn, Abort(t) PROVE News'
  <2>1. /\ UNCHANGED <<rows, watchVars>> /\ buf' = [buf EXCEPT ![t] = NoWrites]
        /\ pc' = [pc EXCEPT ![t] = "closed"] /\ pending' = [pending EXCEPT ![t] = <<>>]
        /\ pc[t] # "publish"
    BY <1>7 DEF Abort, Close
  <2>2. /\ \A u \in Txn : u # t => buf'[u] = buf[u] /\ pending'[u] = pending[u] /\ pc'[u] = pc[u]
        /\ buf'[t] = NoWrites /\ pc'[t] # "publish"
    BY <2>1 DEF TypeOK
  <2>3. WritesAreAnnounced'
    BY <2>2 DEF News, WritesAreAnnounced, NoWrites, In
  <2>4. NewsIsComing'
    BY <2>1, <2>2 DEF News, NewsIsComing, watchVars, In
  <2>5. QED
    BY <2>3, <2>4 DEF News
<1>8. ASSUME NEW t \in Txn, Publish(t) PROVE News'
  BY <1>8, PublishNews
<1>9. CASE Receive
  <2>1. /\ inbox # <<>> /\ inbox \in Seq(Key) /\ inbox' = Tail(inbox) /\ Head(inbox) \in Key
        /\ cache' = [cache EXCEPT ![Head(inbox)] = rows[Head(inbox)]]
        /\ lost' = lost \ {Head(inbox)}
        /\ UNCHANGED <<rows, buf, pending, pc>>
    BY <1>9 DEF Receive, TypeOK, txnVars
  <2>2. \A k \in Key : In(k, inbox) => k = Head(inbox) \/ In(k, inbox')
    BY <2>1, InTail
  <2>3. \A k \in Key : cache'[k] = IF k = Head(inbox) THEN rows[k] ELSE cache[k]
    BY <2>1 DEF TypeOK
  <2>4. NewsIsComing'
    BY <2>1, <2>2, <2>3 DEF News, NewsIsComing, In
  <2>5. WritesAreAnnounced'
    BY <2>1 DEF News, WritesAreAnnounced, In
  <2>6. QED
    BY <2>4, <2>5 DEF News
<1>10. CASE ListenerLost
  <2>1. /\ UNCHANGED <<rows, cache, buf, pending, pc>>
        /\ inbox' = <<>> /\ lost' = lost \cup Keys(inbox)
    BY <1>10 DEF ListenerLost, txnVars
  <2>2. \A k \in Key : In(k, inbox) => k \in lost'
    BY <2>1 DEF In, Keys
  <2>3. NewsIsComing'
    BY <2>1, <2>2 DEF News, NewsIsComing, In
  <2>4. WritesAreAnnounced'
    BY <2>1 DEF News, WritesAreAnnounced, In
  <2>5. QED
    BY <2>3, <2>4 DEF News
<1>11. CASE UNCHANGED vars
  BY <1>11, IdleNews DEF vars, txnVars
<1>12. QED
  BY <1>1, <1>2, <1>3, <1>4, <1>5, <1>6, <1>7, <1>8, <1>9, <1>10, <1>11
  DEF Next, Operate

\* storage.md:40: when all events of the commits are delivered, a subscriber that
\* reads each announced row again (watch_stream) has every row of the store
\* whose last event was not lost, whatever the order of the announcements.
THEOREM QuietMeansCurrent == Spec => []QuietCacheIsCurrent
<1>1. Init => News
  BY DEF Init, News, WritesAreAnnounced, NewsIsComing, NoWrites
<1>2. Inv /\ News => QuietCacheIsCurrent
  BY DEF Inv, TypeOK, News, NewsIsComing, QuietCacheIsCurrent, In
<1>3. Spec => [](Inv /\ News)
  BY <1>1, InitInv, GuardStep, NewsStep, PTL DEF Spec
<1>4. QED
  BY <1>2, <1>3, PTL

-----------------------------------------------------------------------------
(* The coordinator lease.                                                  *)

\* The initial state satisfies the inductive invariant.
LEMMA LeaseInitInv == LeaseInit => LeaseInv
  BY LeaseAssumption
  DEF LeaseInit, LeaseInv, LeaseTypeOK, LeaseEpochIsLedgerEpoch, OneCoordinatorPerEpoch,
      ServingIsHolderOrBehind, FencedOnlyIfDeposed, FenceEventInRange,
      HolderHasClaimed, AdoptedWhenServing, ClaimSawExpired, RenewSawOwn,
      Booting, Serving, Stopped

\* try_acquire and renew build well-formed records.
LEMMA RecordTypes ==
  ASSUME LeaseTypeOK, NEW c \in Coord
  PROVE  /\ ClaimRecord(c) \in LeaseRecord
         /\ ClaimRecord(c).holder = c
         /\ ClaimRecord(c).epoch = IF seen[c] = None THEN 0 ELSE seen[c].epoch + 1
         /\ seen[c] # None => RenewRecord(c) \in LeaseRecord
         /\ RenewRecord(c).holder = seen[c].holder
         /\ RenewRecord(c).epoch = seen[c].epoch
  BY LeaseAssumption DEF LeaseTypeOK, ClaimRecord, RenewRecord, LeaseRecord

\* A clock sample is a natural number within the skew of the true time.
LEMMA SampleType ==
  ASSUME LeaseTypeOK, NEW c \in Coord, SampleClock(c)
  PROVE  /\ now' \in [Coord -> Nat]
         /\ now'[c] <= clock + ClockSkew
         /\ \A d \in Coord : d # c => now'[d] = now[d]
  BY LeaseAssumption DEF LeaseTypeOK, SampleClock

\* The clock and a crash touch none of the rows.
LEMMA TickInv == ASSUME LeaseInv, Tick PROVE LeaseInv'
  BY LeaseAssumption
  DEF LeaseInv, Tick, LeaseTypeOK, LeaseEpochIsLedgerEpoch, OneCoordinatorPerEpoch,
      ServingIsHolderOrBehind, FencedOnlyIfDeposed, FenceEventInRange,
      HolderHasClaimed, AdoptedWhenServing, ClaimSawExpired, RenewSawOwn

LEMMA CrashInv == ASSUME LeaseInv, NEW c \in Coord, Crash(c) PROVE LeaseInv'
  BY LeaseAssumption
  DEF LeaseInv, Crash, LeaseTypeOK, LeaseEpochIsLedgerEpoch, OneCoordinatorPerEpoch,
      ServingIsHolderOrBehind, FencedOnlyIfDeposed, FenceEventInRange,
      HolderHasClaimed, AdoptedWhenServing, ClaimSawExpired, RenewSawOwn,
      Booting, Serving, Stopped

LEMMA BootInv == ASSUME LeaseInv, NEW c \in Coord, Boot(c) PROVE LeaseInv'
  <1> USE DEF LeaseInv
  <1>1. /\ now' \in [Coord -> Nat]
        /\ now'[c] <= clock + ClockSkew
        /\ \A d \in Coord : d # c => now'[d] = now[d]
    BY SampleType DEF Boot
  <1>2. LeaseTypeOK'
    BY <1>1 DEF Boot, LeaseTypeOK, Booting
  <1>3. QED
    BY <1>1, <1>2, LeaseAssumption
    DEF Boot, LeaseTypeOK, LeaseEpochIsLedgerEpoch, OneCoordinatorPerEpoch,
        ServingIsHolderOrBehind, FencedOnlyIfDeposed, FenceEventInRange,
        HolderHasClaimed, AdoptedWhenServing, ClaimSawExpired, RenewSawOwn,
        Booting, Serving, Stopped

LEMMA ReadLeaseInv == ASSUME LeaseInv, NEW c \in Coord, ReadLease(c) PROVE LeaseInv'
  BY LeaseAssumption
  DEF LeaseInv, ReadLease, MayClaim, LeaseTypeOK, LeaseEpochIsLedgerEpoch,
      OneCoordinatorPerEpoch, ServingIsHolderOrBehind, FencedOnlyIfDeposed,
      FenceEventInRange, HolderHasClaimed, AdoptedWhenServing, ClaimSawExpired,
      RenewSawOwn, Booting, Serving, Stopped

\* A won claim: the new epoch is above every adopted one, because the row it
\* replaces is the row on record and every adopted epoch is at most that row's.
LEMMA ClaimWonInv == ASSUME LeaseInv, NEW c \in Coord, ClaimWon(c) PROVE LeaseInv'
  <1> USE DEF LeaseInv
  <1>1. /\ lease = seen[c]
        /\ lease' = ClaimRecord(c)
        /\ epochRow' = lease'.epoch
        /\ lease' \in LeaseRecord
        /\ lease'.holder = c
        /\ lease'.epoch = IF lease = None THEN 0 ELSE lease.epoch + 1
        /\ adopted' = [adopted EXCEPT ![c] = lease'.epoch]
        /\ stage' = [stage EXCEPT ![c] = "serving"]
    BY RecordTypes DEF ClaimWon, CasWins, WriteClaim
  <1>2. stage[c] = "claim" /\ adopted[c] = None
    BY DEF ClaimWon, AdoptedWhenServing, Booting
  <1>3. LeaseTypeOK'
    BY <1>1 DEF ClaimWon, LeaseTypeOK, LeaseRecord, Serving
  <1>4. \A d \in Coord : d # c /\ adopted[d] # None => adopted[d] < lease'.epoch
    BY <1>1, LeaseAssumption DEF ServingIsHolderOrBehind, LeaseTypeOK, LeaseRecord
  <1>5. OneCoordinatorPerEpoch' /\ ServingIsHolderOrBehind'
    BY <1>1, <1>2, <1>4, LeaseAssumption
    DEF OneCoordinatorPerEpoch, ServingIsHolderOrBehind, LeaseTypeOK, LeaseRecord
  <1>6. LeaseEpochIsLedgerEpoch' /\ HolderHasClaimed' /\ AdoptedWhenServing'
    BY <1>1, <1>2, <1>3, LeaseAssumption
    DEF LeaseEpochIsLedgerEpoch, HolderHasClaimed, AdoptedWhenServing, LeaseTypeOK,
        LeaseRecord, Booting, Serving
  <1>7. FencedOnlyIfDeposed' /\ FenceEventInRange'
    <2>1. \A d \in Coord : fenceEvent[d] # None => d # c
      BY <1>2, LeaseAssumption DEF FenceEventInRange, LeaseTypeOK, FenceEvent
    <2>2. \A d \in Coord : fenceEvent[d] # None => lease # None
      BY LeaseAssumption
      DEF FenceEventInRange, ServingIsHolderOrBehind, LeaseTypeOK, FenceEvent
    <2>3. QED
      BY <1>1, <2>1, <2>2, LeaseAssumption
      DEF ClaimWon, FencedOnlyIfDeposed, FenceEventInRange, LeaseTypeOK, FenceEvent,
          LeaseRecord
  <1>8. ClaimSawExpired' /\ RenewSawOwn'
    BY <1>1, LeaseAssumption
    DEF ClaimWon, ClaimSawExpired, RenewSawOwn, LeaseTypeOK
  <1>9. QED
    BY <1>3, <1>5, <1>6, <1>7, <1>8

LEMMA ClaimLostInv == ASSUME LeaseInv, NEW c \in Coord, ClaimLost(c) PROVE LeaseInv'
  BY LeaseAssumption
  DEF LeaseInv, ClaimLost, LeaseTypeOK, LeaseEpochIsLedgerEpoch, OneCoordinatorPerEpoch,
      ServingIsHolderOrBehind, FencedOnlyIfDeposed, FenceEventInRange,
      HolderHasClaimed, AdoptedWhenServing, ClaimSawExpired, RenewSawOwn,
      Booting, Serving, Stopped

\* A claim whose answer was lost: as a won claim, but nobody adopts the epoch.
LEMMA ClaimErrorInv == ASSUME LeaseInv, NEW c \in Coord, ClaimError(c) PROVE LeaseInv'
  <1> USE DEF LeaseInv
  <1>1. stage[c] = "claim" /\ adopted[c] = None /\ stage' = [stage EXCEPT ![c] = "exited"]
    BY DEF ClaimError, AdoptedWhenServing, Booting
  <1>2. CASE CasWins(seen[c]) /\ WriteClaim(ClaimRecord(c))
    <2>1. /\ lease = seen[c]
          /\ epochRow' = lease'.epoch
          /\ lease' \in LeaseRecord
          /\ lease'.holder = c
          /\ lease'.epoch = IF lease = None THEN 0 ELSE lease.epoch + 1
      BY <1>2, RecordTypes DEF CasWins, WriteClaim
    <2>2. LeaseTypeOK'
      BY <1>1, <2>1 DEF ClaimError, LeaseTypeOK, LeaseRecord, Stopped
    <2>3. \A d \in Coord : adopted[d] # None =>
            lease # None /\ adopted[d] < lease'.epoch /\ d # c
      BY <1>1, <2>1, LeaseAssumption
      DEF ServingIsHolderOrBehind, LeaseTypeOK, LeaseRecord
    <2>4. LeaseEpochIsLedgerEpoch' /\ OneCoordinatorPerEpoch'
            /\ ServingIsHolderOrBehind'
      BY <2>1, <2>2, <2>3, LeaseAssumption
      DEF ClaimError, LeaseEpochIsLedgerEpoch, OneCoordinatorPerEpoch,
          ServingIsHolderOrBehind, LeaseTypeOK, LeaseRecord
    <2>5. HolderHasClaimed' /\ AdoptedWhenServing' /\ ClaimSawExpired'
      BY <1>1, <2>1, <2>2, LeaseAssumption
      DEF ClaimError, HolderHasClaimed, AdoptedWhenServing, ClaimSawExpired,
          LeaseTypeOK, LeaseRecord, Booting, Serving, Stopped
    <2>6. FencedOnlyIfDeposed' /\ FenceEventInRange' /\ RenewSawOwn'
      <3>1. \A d \in Coord : fenceEvent[d] # None => adopted[d] # None
        BY LeaseAssumption DEF FenceEventInRange, LeaseTypeOK, FenceEvent
      <3>2. QED
        BY <1>1, <2>1, <2>3, <3>1, LeaseAssumption
        DEF ClaimError, FencedOnlyIfDeposed, FenceEventInRange, RenewSawOwn,
            LeaseTypeOK, FenceEvent, LeaseRecord
    <2>7. QED
      BY <2>2, <2>4, <2>5, <2>6
  <1>3. CASE UNCHANGED <<lease, epochRow>>
    BY <1>1, <1>3, LeaseAssumption
    DEF ClaimError, LeaseTypeOK, LeaseEpochIsLedgerEpoch, OneCoordinatorPerEpoch,
        ServingIsHolderOrBehind, FencedOnlyIfDeposed, FenceEventInRange,
        HolderHasClaimed, AdoptedWhenServing, ClaimSawExpired, RenewSawOwn,
        Booting, Serving, Stopped
  <1>4. QED
    BY <1>2, <1>3 DEF ClaimError

LEMMA AcquireInv == ASSUME LeaseInv, NEW c \in Coord, Acquire(c) PROVE LeaseInv'
  BY ReadLeaseInv, ClaimWonInv, ClaimLostInv, ClaimErrorInv DEF Acquire

-----------------------------------------------------------------------------
(* The renew loop.                                                         *)

LEMMA RenewDeposedInv == ASSUME LeaseInv, NEW c \in Coord, RenewDeposed(c) PROVE LeaseInv'
  <1> USE DEF LeaseInv
  <1>1. adopted[c] \in Nat /\ adopted[c] < lease.epoch /\ lease \in LeaseRecord
    BY LeaseAssumption
    DEF RenewDeposed, LeaseTypeOK, AdoptedWhenServing, ServingIsHolderOrBehind, Serving
  <1>2. LeaseTypeOK'
    BY <1>1 DEF RenewDeposed, Fence, LeaseTypeOK, FenceEvent, LeaseRecord, Stopped
  <1>3. FenceEventInRange'
    BY <1>1, LeaseAssumption
    DEF RenewDeposed, Fence, FenceEventInRange, LeaseTypeOK, LeaseRecord
  <1>4. QED
    BY <1>1, <1>2, <1>3, LeaseAssumption
    DEF RenewDeposed, Fence, LeaseTypeOK, LeaseEpochIsLedgerEpoch,
        OneCoordinatorPerEpoch, ServingIsHolderOrBehind, FencedOnlyIfDeposed,
        HolderHasClaimed, AdoptedWhenServing, ClaimSawExpired, RenewSawOwn,
        Booting, Serving, Stopped

LEMMA RenewReadInv == ASSUME LeaseInv, NEW c \in Coord, RenewRead(c) PROVE LeaseInv'
  BY LeaseAssumption
  DEF LeaseInv, RenewRead, LeaseTypeOK, LeaseEpochIsLedgerEpoch, OneCoordinatorPerEpoch,
      ServingIsHolderOrBehind, FencedOnlyIfDeposed, FenceEventInRange,
      HolderHasClaimed, AdoptedWhenServing, ClaimSawExpired, RenewSawOwn,
      Booting, Serving, Stopped

LEMMA RenewSampleInv == ASSUME LeaseInv, NEW c \in Coord, RenewSample(c) PROVE LeaseInv'
  <1> USE DEF LeaseInv
  <1>1. /\ now' \in [Coord -> Nat]
        /\ now'[c] <= clock + ClockSkew
        /\ \A d \in Coord : d # c => now'[d] = now[d]
    BY SampleType DEF RenewSample
  <1>2. LeaseTypeOK'
    BY <1>1 DEF RenewSample, LeaseTypeOK, Serving
  <1>3. QED
    BY <1>1, <1>2, LeaseAssumption
    DEF RenewSample, LeaseTypeOK, LeaseEpochIsLedgerEpoch, OneCoordinatorPerEpoch,
        ServingIsHolderOrBehind, FencedOnlyIfDeposed, FenceEventInRange,
        HolderHasClaimed, AdoptedWhenServing, ClaimSawExpired, RenewSawOwn,
        Booting, Serving, Stopped

\* A renewal that takes effect keeps the holder and the epoch on record, so it
\* disturbs nothing but the expiry; nobody else has read the new row.
LEMMA RenewedInv ==
  ASSUME LeaseInv, NEW c \in Coord, stage[c] = "renewing",
         CasWins(seen[c]), WriteClaim(RenewRecord(c)),
         stage' = [stage EXCEPT ![c] = "serving"],
         UNCHANGED <<clock, now, seen, adopted, fenceEvent>>
  PROVE  LeaseInv'
  <1> USE DEF LeaseInv
  <1>1. /\ lease \in LeaseRecord /\ lease' \in LeaseRecord
        /\ lease'.holder = lease.holder
        /\ lease'.epoch = lease.epoch
        /\ lease.holder = c
        /\ epochRow' = lease'.epoch
    BY RecordTypes, LeaseAssumption
    DEF CasWins, WriteClaim, RenewSawOwn, LeaseTypeOK
  <1>2. LeaseTypeOK'
    BY <1>1 DEF LeaseTypeOK, LeaseRecord, Serving
  <1>3. LeaseEpochIsLedgerEpoch' /\ OneCoordinatorPerEpoch'
          /\ ServingIsHolderOrBehind' /\ FenceEventInRange' /\ ClaimSawExpired'
    BY <1>1, LeaseAssumption
    DEF LeaseEpochIsLedgerEpoch, OneCoordinatorPerEpoch, ServingIsHolderOrBehind,
        FenceEventInRange, ClaimSawExpired, LeaseTypeOK
  <1>4. FencedOnlyIfDeposed' /\ HolderHasClaimed' /\ AdoptedWhenServing'
          /\ RenewSawOwn'
    BY <1>1, LeaseAssumption
    DEF FencedOnlyIfDeposed, HolderHasClaimed, AdoptedWhenServing, RenewSawOwn,
        LeaseTypeOK, Booting, Serving
  <1>5. QED
    BY <1>2, <1>3, <1>4

LEMMA RenewWonInv == ASSUME LeaseInv, NEW c \in Coord, RenewWon(c) PROVE LeaseInv'
  BY RenewedInv DEF RenewWon

LEMMA RenewLostInv == ASSUME LeaseInv, NEW c \in Coord, RenewLost(c) PROVE LeaseInv'
  <1> USE DEF LeaseInv
  <1>1. lease # None /\ lease.holder # c
    BY LeaseAssumption
    DEF RenewLost, CasWins, RenewSawOwn, ServingIsHolderOrBehind,
        AdoptedWhenServing, Serving
  <1>2. QED
    BY <1>1, LeaseAssumption
    DEF RenewLost, LeaseTypeOK, LeaseEpochIsLedgerEpoch, OneCoordinatorPerEpoch,
        ServingIsHolderOrBehind, FencedOnlyIfDeposed, FenceEventInRange,
        HolderHasClaimed, AdoptedWhenServing, ClaimSawExpired, RenewSawOwn,
        Booting, Serving, Stopped

LEMMA RenewErrorInv == ASSUME LeaseInv, NEW c \in Coord, RenewError(c) PROVE LeaseInv'
  <1>1. CASE CasWins(seen[c]) /\ WriteClaim(RenewRecord(c))
    BY <1>1, RenewedInv DEF RenewError
  <1>2. CASE UNCHANGED <<lease, epochRow>>
    BY <1>2, LeaseAssumption
    DEF LeaseInv, RenewError, LeaseTypeOK, LeaseEpochIsLedgerEpoch, OneCoordinatorPerEpoch,
        ServingIsHolderOrBehind, FencedOnlyIfDeposed, FenceEventInRange,
        HolderHasClaimed, AdoptedWhenServing, ClaimSawExpired, RenewSawOwn,
        Booting, Serving, Stopped
  <1>3. QED
    BY <1>1, <1>2 DEF RenewError

LEMMA ObserveInv == ASSUME LeaseInv, NEW c \in Coord, Observe(c) PROVE LeaseInv'
  <1> USE DEF LeaseInv
  <1>1. /\ seen[c].epoch = adopted[c]
        /\ adopted[c] \in Nat
        /\ lease \in LeaseRecord
        /\ lease.holder # c
        /\ adopted[c] < lease.epoch
    BY LeaseAssumption
    DEF Observe, LeaseTypeOK, RenewSawOwn, FencedOnlyIfDeposed, AdoptedWhenServing,
        ServingIsHolderOrBehind, Serving
  <1>2. PICK e \in {adopted[c], lease.epoch} : Fence(c, adopted[c], e)
    BY <1>1 DEF Observe
  <1>3. LeaseTypeOK'
    BY <1>1, <1>2 DEF Observe, Fence, LeaseTypeOK, FenceEvent, LeaseRecord, Stopped
  <1>4. FenceEventInRange'
    BY <1>1, <1>2, LeaseAssumption
    DEF Observe, Fence, FenceEventInRange, LeaseTypeOK, LeaseRecord
  <1>5. QED
    BY <1>1, <1>2, <1>3, <1>4, LeaseAssumption
    DEF Observe, Fence, LeaseTypeOK, LeaseEpochIsLedgerEpoch, OneCoordinatorPerEpoch,
        ServingIsHolderOrBehind, FencedOnlyIfDeposed, HolderHasClaimed,
        AdoptedWhenServing, ClaimSawExpired, RenewSawOwn, Booting, Serving, Stopped

LEMMA RenewLoopInv == ASSUME LeaseInv, NEW c \in Coord, RenewLoop(c) PROVE LeaseInv'
  BY RenewDeposedInv, RenewReadInv, RenewSampleInv, RenewWonInv, RenewLostInv,
     RenewErrorInv, ObserveInv
  DEF RenewLoop

-----------------------------------------------------------------------------
(* The theorems.                                                           *)

LEMMA LeaseStepInv == LeaseInv /\ [LeaseNext]_leaseVars => LeaseInv'
  <1> SUFFICES ASSUME LeaseInv, [LeaseNext]_leaseVars PROVE LeaseInv'
    OBVIOUS
  <1>1. CASE Tick
    BY <1>1, TickInv
  <1>2. ASSUME NEW c \in Coord, Boot(c) \/ Acquire(c) \/ RenewLoop(c) \/ Crash(c)
        PROVE  LeaseInv'
    BY <1>2, BootInv, AcquireInv, RenewLoopInv, CrashInv
  <1>3. CASE UNCHANGED leaseVars
    BY <1>3
    DEF leaseVars, LeaseInv, LeaseTypeOK, LeaseEpochIsLedgerEpoch, OneCoordinatorPerEpoch,
        ServingIsHolderOrBehind, FencedOnlyIfDeposed, FenceEventInRange,
        HolderHasClaimed, AdoptedWhenServing, ClaimSawExpired, RenewSawOwn
  <1>4. QED
    BY <1>1, <1>2, <1>3 DEF LeaseNext

\* The inductive invariant holds in every reachable state.
THEOREM LeaseInvariance == LeaseSpec => []LeaseInv
  BY LeaseInitInv, LeaseStepInv, PTL DEF LeaseSpec

\* Every variable keeps its type.
THEOREM LeaseTypeCorrect == LeaseSpec => []LeaseTypeOK
  <1>1. LeaseInv => LeaseTypeOK
    BY DEF LeaseInv
  <1>2. QED
    BY <1>1, LeaseInvariance, PTL

\* No two coordinator processes ever serve under one epoch (commit_claim).
THEOREM EpochIsExclusive == LeaseSpec => []OneCoordinatorPerEpoch
  <1>1. LeaseInv => OneCoordinatorPerEpoch
    BY DEF LeaseInv
  <1>2. QED
    BY <1>1, LeaseInvariance, PTL

\* The epoch row always repeats the lease row's epoch (commit_claim).
THEOREM RowsInStep == LeaseSpec => []LeaseEpochIsLedgerEpoch
  <1>1. LeaseInv => LeaseEpochIsLedgerEpoch
    BY DEF LeaseInv
  <1>2. QED
    BY <1>1, LeaseInvariance, PTL

\* A serving process is the holder on record or strictly behind it.
THEOREM HolderOrBehind == LeaseSpec => []ServingIsHolderOrBehind
  <1>1. LeaseInv => ServingIsHolderOrBehind
    BY DEF LeaseInv
  <1>2. QED
    BY <1>1, LeaseInvariance, PTL

\* A coordinator fences itself only when it was deposed (spawn_lease_renew_loop).
THEOREM FenceIsSound == LeaseSpec => []FencedOnlyIfDeposed
  <1>1. LeaseInv => FencedOnlyIfDeposed
    BY DEF LeaseInv
  <1>2. QED
    BY <1>1, LeaseInvariance, PTL

\* What one step does to the lease row: nothing, a renewal by its holder, or
\* the replacement of an expired row by a process that never held it.
LEMMA LeaseStep ==
  ASSUME LeaseInv, [LeaseNext]_leaseVars
  PROVE  \/ UNCHANGED lease
         \/ /\ lease # None /\ lease' # None
            /\ lease'.holder = lease.holder /\ lease'.epoch = lease.epoch
            /\ stage[lease.holder] = "renewing" /\ stage'[lease.holder] = "serving"
            /\ \A d \in Coord : d # lease.holder => stage'[d] = stage[d]
         \/ \E c \in Coord :
              /\ stage[c] = "claim" /\ stage'[c] \in {"serving", "exited"}
              /\ \A d \in Coord : d # c => stage'[d] = stage[d]
              /\ lease' = ClaimRecord(c)
              /\ lease' # None
              /\ lease'.holder = c
              /\ lease'.epoch = IF lease = None THEN 0 ELSE lease.epoch + 1
              /\ lease # None => lease.expires < clock + ClockSkew
  <1> USE DEF LeaseInv
  <1>1. CASE Tick \/ UNCHANGED leaseVars
    BY <1>1 DEF Tick, leaseVars
  <1>2. ASSUME NEW c \in Coord, Boot(c) \/ Crash(c) \/ Acquire(c)
        PROVE  \/ UNCHANGED lease
               \/ /\ stage[c] = "claim" /\ stage'[c] \in {"serving", "exited"}
                  /\ \A d \in Coord : d # c => stage'[d] = stage[d]
                  /\ lease' = ClaimRecord(c)
                  /\ lease' # None
                  /\ lease'.holder = c
                  /\ lease'.epoch = IF lease = None THEN 0 ELSE lease.epoch + 1
                  /\ lease # None => lease.expires < clock + ClockSkew
    <2>1. CASE ClaimWon(c) \/ (ClaimError(c) /\ CasWins(seen[c])
                                /\ WriteClaim(ClaimRecord(c)))
      BY <2>1, RecordTypes, LeaseAssumption
      DEF ClaimWon, ClaimError, CasWins, WriteClaim, ClaimSawExpired, LeaseTypeOK,
          LeaseRecord, Serving, Stopped
    <2>2. QED
      BY <1>2, <2>1
      DEF Boot, Crash, Acquire, ReadLease, ClaimLost, ClaimError
  <1>3. ASSUME NEW c \in Coord, RenewLoop(c)
        PROVE  \/ UNCHANGED lease
               \/ /\ lease # None /\ lease' # None
                  /\ lease'.holder = lease.holder /\ lease'.epoch = lease.epoch
                  /\ stage[lease.holder] = "renewing"
                  /\ stage'[lease.holder] = "serving"
                  /\ \A d \in Coord : d # lease.holder => stage'[d] = stage[d]
    <2>1. CASE RenewWon(c) \/ (RenewError(c) /\ CasWins(seen[c])
                                /\ WriteClaim(RenewRecord(c)))
      <3>1. /\ stage[c] = "renewing" /\ stage' = [stage EXCEPT ![c] = "serving"]
            /\ lease = seen[c] /\ lease' = RenewRecord(c)
        BY <2>1 DEF RenewWon, RenewError, CasWins, WriteClaim
      <3>2. seen[c] # None /\ seen[c].holder = c
        BY <3>1 DEF RenewSawOwn
      <3>3. QED
        BY <3>1, <3>2, RecordTypes, LeaseAssumption DEF LeaseTypeOK, LeaseRecord
    <2>2. QED
      BY <1>3, <2>1
      DEF RenewLoop, RenewDeposed, RenewRead, RenewSample, RenewLost, RenewError,
          Observe
  <1>4. QED
    BY <1>1, <1>2, <1>3 DEF LeaseNext

\* The lease changes hands only once the expiry on record has passed.
THEOREM NoEarlySteal == LeaseSpec => StealOnlyAfterExpiry
  <1>1. LeaseInv /\ [LeaseNext]_leaseVars =>
          [lease # None /\ lease'.holder # lease.holder
             => clock + ClockSkew > lease.expires]_leaseVars
    <2> SUFFICES ASSUME LeaseInv, [LeaseNext]_leaseVars, lease # None,
                        lease'.holder # lease.holder
                 PROVE  clock + ClockSkew > lease.expires
      BY DEF leaseVars
    <2>1. lease.expires < clock + ClockSkew
      BY LeaseStep
    <2>2. QED
      BY <2>1, LeaseAssumption DEF LeaseInv, LeaseTypeOK, LeaseRecord
  <1>2. QED
    BY <1>1, LeaseInvariance, PTL DEF LeaseSpec, StealOnlyAfterExpiry

\* A deposed process never gets the lease back.
THEOREM NoReturn == LeaseSpec => DeposedNeverReturns
  <1>1. LeaseInv /\ [LeaseNext]_leaseVars =>
          [\A c \in Coord :
             adopted[c] # None /\ lease.holder # c => lease'.holder # c]_leaseVars
    <2> SUFFICES ASSUME LeaseInv, [LeaseNext]_leaseVars, NEW c \in Coord,
                        adopted[c] # None, lease.holder # c
                 PROVE  lease'.holder # c
      BY DEF leaseVars
    <2>1. stage[c] # "claim"
      BY DEF LeaseInv, AdoptedWhenServing, Booting
    <2>2. QED
      BY <2>1, LeaseStep
  <1>2. QED
    BY <1>1, LeaseInvariance, PTL DEF LeaseSpec, DeposedNeverReturns

\* StorageLease implements EpochSuccession: a claim is a takeover, a process
\* that gives up retires, and every other step is a stutter.
THEOREM LeaseRefinement == LeaseSpec => ImplementsSuccession
  <1>1. LeaseInit => Succession!Init
    BY LeaseAssumption DEF LeaseInit, Succession!Init, Booting
  <1>2. LeaseInv /\ LeaseInv' /\ [LeaseNext]_leaseVars => [Succession!Next]_Succession!vars
    <2> SUFFICES ASSUME LeaseInv, LeaseInv', [LeaseNext]_leaseVars
                 PROVE  [Succession!Next]_Succession!vars
      OBVIOUS
    <2> DEFINE Fresh == {"down"} \cup Booting
               Spent == {c \in Coord : stage[c] \notin Fresh}
    <2>1. ASSUME UNCHANGED lease
          PROVE  Spent' = Spent \/ \E c \in Coord : c \notin Spent /\ Spent' = Spent \cup {c}
      <3>1. CASE Tick \/ UNCHANGED leaseVars
        BY <3>1 DEF Tick, leaseVars
      <3>2. ASSUME NEW c \in Coord,
                   Boot(c) \/ Acquire(c) \/ RenewLoop(c) \/ Crash(c)
            PROVE  /\ \A d \in Coord : d # c => stage'[d] = stage[d]
                   /\ stage[c] \notin Fresh => stage'[c] \notin Fresh
        BY <3>2
        DEF LeaseInv, LeaseTypeOK, Boot, Acquire, ReadLease, ClaimWon, ClaimLost, ClaimError,
            RenewLoop, RenewDeposed, RenewRead, RenewSample, RenewWon, RenewLost,
            RenewError, Observe, Fence, Crash, Booting, Serving, Stopped
      <3>3. QED
        BY <3>1, <3>2 DEF LeaseNext
    <2>2. CASE UNCHANGED lease
      BY <2>1, <2>2
      DEF Succession!Next, Succession!Retire, Succession!vars
    <2>3. CASE lease # None /\ lease' # None /\ lease'.holder = lease.holder
               /\ lease'.epoch = lease.epoch
               /\ stage[lease.holder] = "renewing" /\ stage'[lease.holder] = "serving"
               /\ \A d \in Coord : d # lease.holder => stage'[d] = stage[d]
      <3>1. Spent' = Spent
        BY <2>3 DEF Booting
      <3>2. QED
        BY <2>3, <3>1 DEF Succession!vars
    <2>4. ASSUME NEW c \in Coord,
                 stage[c] = "claim", stage'[c] \in {"serving", "exited"},
                 \A d \in Coord : d # c => stage'[d] = stage[d],
                 lease' # None, lease'.holder = c,
                 lease'.epoch = IF lease = None THEN 0 ELSE lease.epoch + 1
          PROVE  Succession!Takeover(c)
      <3>1. c \notin Spent /\ Spent' = Spent \cup {c}
        BY <2>4 DEF Booting
      <3>2. QED
        BY <2>4, <3>1 DEF Succession!Takeover
    <2>5. QED
      BY <2>2, <2>3, <2>4, LeaseStep DEF Succession!Next
  <1>3. QED
    BY <1>1, <1>2, LeaseInvariance, PTL DEF LeaseSpec, ImplementsSuccession, Succession!Spec

=============================================================================

------------------------- MODULE OfflineSync_proofs -------------------------
(***************************************************************************)
(* What holds of the sync engine with vector clocks for any number of      *)
(* replicas, keys, edits, exchanges, stale or repeated records, flushes    *)
(* and restarts: a vector identifies a record, and an edit is not lost.    *)
(***************************************************************************)
EXTENDS OfflineSync, TLAPS

\* How often replica r has written key k, as far as r knows.
Count(r, k) == IF store[r][k] = None THEN 0 ELSE store[r][k].vector[r]

\* Nobody knows of more writes of a replica than the replica itself.
OwnCountIsLargest == \A x \in seen, r \in Replica : x.vector[r] <= Count(r, x.key)

\* y comes after x.
After(x, y) == x.version < y.version /\ \A p \in Replica : x.vector[p] <= y.vector[p]

\* Each record was written by some replica s: what has seen that write of s
\* comes after the record.
WriterOf(x, s) ==
  /\ x.vector[s] > 0
  /\ \A y \in seen : y.key = x.key /\ x.vector[s] <= y.vector[s] => y = x \/ After(x, y)
EveryRecordHasAWriter == \A x \in seen : \E s \in Replica : WriterOf(x, s)

StoredAreSeen == \A r \in Replica, k \in Key : store[r][k] # None => store[r][k] \in seen

VectorInv == /\ \A r \in Replica : policy[r] = "vector_clock"
             /\ StoredAreSeen /\ OwnCountIsLargest /\ EveryRecordHasAWriter

-----------------------------------------------------------------------------
\* The operations of replica r, wherever they are.
Operations(r) == pending_ops[r] \cup {op \in owed \cup by_op : op.replica = r}

\* The key of an operation: a client's, or one made of the record.
KeyOf(op) == op.idem \in ClientKeys \cup {AutoKey(op.record), DelKey(op.record), LegacyKey(op.record)}

\* An operation is of a record that its replica has, or had before what it has.
OperationOK(op) == /\ op.replica \in Replica /\ op.record \in Record /\ KeyOf(op)
                   /\ store[op.replica][op.record.key] # None
                   /\ op.record.version <= store[op.replica][op.record.key].version

OperationsOK == \A r \in Replica : \A op \in Operations(r) :
                  op.replica = r /\ OperationOK(op)

\* A replica does not make an idempotency key for two operations; only clients may
\* give one key to two.
KeysUnique == \A r \in Replica : \A o1, o2 \in Operations(r) :
                o1.idem = o2.idem => o1.record = o2.record \/ o1.idem \in ClientKeys

\* What a replica takes for flushed has reached the peer.
FlushedAreKnown == \A r \in Replica :
  /\ \A idem \in applied_ops[r] : PeerKnows(idem)
  /\ flushed[r] # None => \A idem \in flushed[r] : PeerKnows(idem)

\* Whatever is owed, or with the peer, was an edit of a replica.
OfReplicas == \A op \in owed \cup by_op : op.replica \in Replica

Kept(op) == \/ torn[op.replica]
            \/ op \in pending_ops[op.replica]
            \/ \E got \in by_op :
                 /\ got.idem = op.idem /\ got.record # None
                 /\ got.replica = op.replica => got.record = op.record \/ op.idem \in ClientKeys

EditInv == /\ OperationsOK /\ KeysUnique /\ FlushedAreKnown
           /\ OfReplicas /\ \A op \in owed : Kept(op)

IsFunction(f) == f = [r \in Replica |-> f[r]]
Shape == /\ IsFunction(pending_ops) /\ IsFunction(applied_ops)
         /\ IsFunction(idempotency_keys) /\ IsFunction(flushed)

IInv == TypeOK /\ Shape /\ StoredAreSeen /\ (configured = "vector_clock" => VectorInv /\ EditInv)

-----------------------------------------------------------------------------
(* Records and vectors. *)

\* A ticked vector counts one more write of its replica.
LEMMA TickFacts ==
  ASSUME NEW v \in [Replica -> Nat], NEW r \in Replica
  PROVE  /\ Tick(v, r) \in [Replica -> Nat]
         /\ Tick(v, r)[r] = v[r] + 1
         /\ \A p \in Replica : p # r => Tick(v, r)[p] = v[p]
         /\ \A p \in Replica : v[p] <= Tick(v, r)[p]
  BY DEF Tick

\* A merged vector counts what either counts.
LEMMA MergeFacts ==
  ASSUME NEW v \in [Replica -> Nat], NEW w \in [Replica -> Nat]
  PROVE  /\ Merge(v, w) \in [Replica -> Nat]
         /\ \A p \in Replica : /\ v[p] <= Merge(v, w)[p] /\ w[p] <= Merge(v, w)[p]
                               /\ Merge(v, w)[p] = v[p] \/ Merge(v, w)[p] = w[p]
  BY DEF Merge, Larger

\* z is a record that r writes now under key k: it counts one more write of r,
\* and it comes after whatever it knows of.
Written(r, k, z) ==
  /\ Count(r, k) < z.vector[r]
  /\ \A p \in Replica : p # r => z.vector[p] <= Count(p, k)
  /\ \A x \in seen, s \in Replica : x.key = k /\ 0 < x.vector[s] /\ x.vector[s] <= z.vector[s] =>
       \E y \in seen : y.key = k /\ x.vector[s] <= y.vector[s] /\ After(y, z)

\* z may take the place of what r has under key k.
Replaces(r, k, z) ==
  /\ z \in Record /\ z.key = k
  /\ store[r][k] # None => store[r][k].version < z.version
  /\ Written(r, k, z) \/ (z \in seen /\ Count(r, k) <= z.vector[r])

\* An edit writes a record that follows the one that the replica has.
LEMMA EditedReplaces ==
  ASSUME TypeOK, VectorInv, NEW r \in Replica, NEW k \in Key, NEW value \in Value \cup {None},
         NEW wall \in Wall
  PROVE  Replaces(r, k, Edited(r, k, value, wall)) /\ Written(r, k, Edited(r, k, value, wall))
<1> DEFINE z == Edited(r, k, value, wall)
           local == store[r][k]
<1>1. CASE local = None
  <2>1. /\ NoTicks \in [Replica -> Nat] /\ z.vector = Tick(NoTicks, r)
        /\ \A p \in Replica : NoTicks[p] = 0
    BY <1>1 DEF Edited, NoTicks
  <2>2. /\ z.vector \in [Replica -> Nat] /\ z.vector[r] = 1
        /\ \A p \in Replica : p # r => z.vector[p] = 0
    BY <2>1, TickFacts
  <2>3. z \in Record /\ z.key = k /\ z.version = 1
    BY <1>1, <2>2 DEF Edited, Record
  <2>4. \A p \in Replica : Count(p, k) \in Nat
    BY DEF TypeOK, Record, Count
  <2>5. Count(r, k) = 0
    BY <1>1 DEF Count
  <2>6. \A x \in seen, s \in Replica : x.key = k /\ 0 < x.vector[s] => ~(x.vector[s] <= z.vector[s])
    <3>1. SUFFICES ASSUME NEW x \in seen, NEW s \in Replica, x.key = k, 0 < x.vector[s],
                          x.vector[s] <= z.vector[s]
                   PROVE  FALSE
      OBVIOUS
    <3>2. x.vector[s] \in Nat /\ x.vector[r] <= 0
      BY <2>5, <3>1 DEF VectorInv, OwnCountIsLargest, TypeOK, Record
    <3>3. QED
      BY <2>2, <3>1, <3>2
  <2>7. Written(r, k, z)
    BY <2>2, <2>4, <2>5, <2>6 DEF Written
  <2>8. QED
    BY <1>1, <2>3, <2>7 DEF Replaces
<1>2. CASE local # None
  <2>1. local \in Record /\ local \in seen /\ local.key = k
    BY <1>2 DEF TypeOK, VectorInv, StoredAreSeen
  <2>2. local.vector \in [Replica -> Nat] /\ local.version \in Nat
    BY <2>1 DEF Record
  <2>3. z.vector = Tick(local.vector, r) /\ z.version = local.version + 1
    BY <1>2 DEF Edited
  <2>4. /\ z.vector \in [Replica -> Nat] /\ z.vector[r] = local.vector[r] + 1
        /\ \A p \in Replica : p # r => z.vector[p] = local.vector[p]
        /\ \A p \in Replica : local.vector[p] <= z.vector[p]
    BY <2>2, <2>3, TickFacts
  <2>5. z \in Record /\ z.key = k
    BY <1>2, <2>2, <2>4 DEF Edited, Record
  <2>6. Count(r, k) = local.vector[r]
    BY <1>2 DEF Count
  <2>7. \A p \in Replica : p # r => z.vector[p] <= Count(p, k)
    BY <2>1, <2>4 DEF VectorInv, OwnCountIsLargest
  <2>8. After(local, z)
    BY <2>2, <2>3, <2>4 DEF After
  <2>9. \A x \in seen, s \in Replica : x.key = k /\ 0 < x.vector[s] /\ x.vector[s] <= z.vector[s] =>
          x.vector[s] <= local.vector[s]
    <3>1. SUFFICES ASSUME NEW x \in seen, NEW s \in Replica, x.key = k, x.vector[s] <= z.vector[s]
                   PROVE  x.vector[s] <= local.vector[s]
      OBVIOUS
    <3>2. CASE s = r
      BY <2>6, <3>1, <3>2 DEF VectorInv, OwnCountIsLargest
    <3>3. CASE s # r
      BY <2>4, <3>1, <3>3
    <3>4. QED
      BY <3>2, <3>3
  <2>10. Written(r, k, z)
    BY <2>1, <2>2, <2>4, <2>6, <2>7, <2>8, <2>9 DEF Written
  <2>11. QED
    BY <2>2, <2>3, <2>5, <2>10 DEF Replaces
<1>3. QED
  BY <1>1, <1>2

\* Records are identified by their vectors, and versions follow them.
LEMMA VectorsOrder ==
  ASSUME TypeOK, VectorInv, NEW x \in seen, NEW y \in seen, x.key = y.key
  PROVE  /\ x.vector = y.vector => x = y
         /\ HappensBefore(x.vector, y.vector) => x.version < y.version
<1>1. PICK s \in Replica : WriterOf(x, s)
  BY DEF VectorInv, EveryRecordHasAWriter
<1>2. PICK t \in Replica : WriterOf(y, t)
  BY DEF VectorInv, EveryRecordHasAWriter
<1>3. /\ x.vector \in [Replica -> Nat] /\ y.vector \in [Replica -> Nat]
      /\ x.version \in Nat /\ y.version \in Nat
  BY DEF TypeOK, Record
<1>4. ASSUME x.vector = y.vector PROVE x = y
  <2>1. y = x \/ x.version < y.version
    BY <1>1, <1>3, <1>4 DEF WriterOf, After
  <2>2. x = y \/ y.version < x.version
    BY <1>2, <1>3, <1>4 DEF WriterOf, After
  <2>3. QED
    BY <1>3, <2>1, <2>2
<1>5. ASSUME HappensBefore(x.vector, y.vector) PROVE x.version < y.version
  BY <1>1, <1>5 DEF HappensBefore, WriterOf, After
<1>6. QED
  BY <1>4, <1>5

\* A merge of concurrent records follows both of them.
LEMMA MergedReplaces ==
  ASSUME TypeOK, VectorInv, NEW r \in Replica, NEW k \in Key, store[r][k] # None,
         NEW remote \in seen, remote.key = k
  PROVE  Replaces(r, k, Merged(store[r][k], remote, r))
<1> DEFINE local == store[r][k]
           z == Merged(local, remote, r)
           m == Merge(local.vector, remote.vector)
           base == ResolveLww(local, remote)
<1>1. /\ local \in Record /\ local \in seen /\ local.key = k
      /\ remote \in Record
  BY DEF TypeOK, VectorInv, StoredAreSeen
<1>2. /\ local.vector \in [Replica -> Nat] /\ local.version \in Nat
      /\ remote.vector \in [Replica -> Nat] /\ remote.version \in Nat
  BY <1>1 DEF Record
<1>3. /\ m \in [Replica -> Nat]
      /\ \A p \in Replica : /\ local.vector[p] <= m[p] /\ remote.vector[p] <= m[p]
                            /\ m[p] = local.vector[p] \/ m[p] = remote.vector[p]
  BY <1>2, MergeFacts
<1>4. base \in Record /\ base.key = k
  BY <1>1 DEF ResolveLww
<1>5. z = [base EXCEPT !.vector = Tick(m, r),
                       !.version = Larger(local.version, remote.version) + 1]
  BY DEF Merged
<1>6. z.vector = Tick(m, r) /\ z.version = Larger(local.version, remote.version) + 1
  BY <1>4, <1>5 DEF Record
<1>7. /\ z.vector \in [Replica -> Nat] /\ z.vector[r] = m[r] + 1
      /\ \A p \in Replica : p # r => z.vector[p] = m[p]
      /\ \A p \in Replica : m[p] <= z.vector[p]
  BY <1>3, <1>6, TickFacts
<1>8. z.version \in Nat /\ local.version < z.version /\ remote.version < z.version
  BY <1>2, <1>6 DEF Larger
<1>9. z \in Record /\ z.key = k
  BY <1>4, <1>5, <1>6, <1>7, <1>8 DEF Record
<1> HIDE DEF z, m, base
<1>10. Count(r, k) = local.vector[r]
  BY DEF Count
<1>11. m[r] = local.vector[r]
  <2>1. remote.vector[r] <= local.vector[r]
    BY <1>10 DEF VectorInv, OwnCountIsLargest
  <2>2. QED
    BY <1>2, <1>3, <2>1
<1>12. \A p \in Replica : p # r => z.vector[p] <= Count(p, k)
  <2>1. SUFFICES ASSUME NEW p \in Replica, p # r PROVE z.vector[p] <= Count(p, k)
    OBVIOUS
  <2>2. local.vector[p] <= Count(p, k) /\ remote.vector[p] <= Count(p, k)
    BY <1>1 DEF VectorInv, OwnCountIsLargest
  <2>3. QED
    BY <1>3, <1>7, <2>1, <2>2
<1>13. After(local, z) /\ After(remote, z)
  <2>1. \A p \in Replica : local.vector[p] <= z.vector[p] /\ remote.vector[p] <= z.vector[p]
    BY <1>2, <1>3, <1>7
  <2>2. QED
    BY <1>8, <2>1 DEF After
<1>14. \A x \in seen, s \in Replica : x.key = k /\ 0 < x.vector[s] /\ x.vector[s] <= z.vector[s] =>
         x.vector[s] <= local.vector[s] \/ x.vector[s] <= remote.vector[s]
  <2>1. SUFFICES ASSUME NEW x \in seen, NEW s \in Replica, x.key = k, x.vector[s] <= z.vector[s]
                 PROVE  x.vector[s] <= local.vector[s] \/ x.vector[s] <= remote.vector[s]
    OBVIOUS
  <2>2. CASE s = r
    BY <1>10, <2>1, <2>2 DEF VectorInv, OwnCountIsLargest
  <2>3. CASE s # r
    BY <1>3, <1>7, <2>1, <2>3
  <2>4. QED
    BY <2>2, <2>3
<1>15. Written(r, k, z)
  <2>1. Count(r, k) < z.vector[r]
    BY <1>2, <1>7, <1>10, <1>11
  <2>2. QED
    BY <1>1, <1>12, <1>13, <1>14, <2>1 DEF Written
<1>16. QED
  BY <1>8, <1>9, <1>15 DEF Replaces, z

\* What apply_remote stores is what the replica has or something that follows it.
LEMMA ResolvedReplaces ==
  ASSUME TypeOK, VectorInv, NEW r \in Replica, NEW k \in Key, NEW remote \in seen, remote.key = k
  PROVE  \/ store[r][k] # None /\ Resolved(r, store[r][k], remote) = store[r][k]
         \/ Replaces(r, k, Resolved(r, store[r][k], remote))
<1> DEFINE local == store[r][k]
<1>1. remote \in Record /\ policy[r] = "vector_clock"
  BY DEF TypeOK, VectorInv
<1>2. CASE local = None
  <2>1. Resolved(r, local, remote) = remote
    BY <1>2 DEF Resolved
  <2>2. Count(r, k) = 0 /\ remote.vector[r] \in Nat
    BY <1>1, <1>2 DEF Count, Record
  <2>3. QED
    BY <1>1, <1>2, <2>1, <2>2 DEF Replaces
<1>3. CASE local # None
  <2>1. Resolved(r, local, remote) = ResolveVector(local, remote, r)
    BY <1>1, <1>3 DEF Resolved
  <2>2. local \in seen /\ local \in Record /\ local.key = k
    BY <1>3 DEF TypeOK, VectorInv, StoredAreSeen
  <2>3. CASE HappensBefore(remote.vector, local.vector) \/ remote.vector = local.vector
    <3>1. /\ local.vector \in [Replica -> Nat] /\ remote.vector \in [Replica -> Nat]
      BY <1>1, <2>2 DEF Record
    <3>2. ~HappensBefore(local.vector, remote.vector)
      BY <2>3, <3>1 DEF HappensBefore
    <3>3. ResolveVector(local, remote, r) = local
      BY <2>3, <3>2 DEF ResolveVector
    <3>4. QED
      BY <1>3, <2>1, <3>3
  <2>4. CASE /\ HappensBefore(local.vector, remote.vector)
             /\ ~(HappensBefore(remote.vector, local.vector) \/ remote.vector = local.vector)
    <3>1. Resolved(r, local, remote) = remote
      BY <2>1, <2>4 DEF ResolveVector
    <3>2. local.version < remote.version
      BY <2>2, <2>4, VectorsOrder
    <3>3. Count(r, k) <= remote.vector[r]
      BY <1>3, <2>4 DEF Count, HappensBefore
    <3>4. QED
      BY <1>1, <3>1, <3>2, <3>3 DEF Replaces
  <2>5. CASE /\ ~HappensBefore(local.vector, remote.vector)
             /\ ~(HappensBefore(remote.vector, local.vector) \/ remote.vector = local.vector)
    <3>1. Resolved(r, local, remote) = Merged(local, remote, r)
      BY <2>1, <2>5 DEF ResolveVector
    <3>2. QED
      BY <1>3, <3>1, MergedReplaces
  <2>6. QED
    BY <2>3, <2>4, <2>5
<1>4. QED
  BY <1>2, <1>3

-----------------------------------------------------------------------------
(* Steps that change what is stored. *)

\* Replica r goes on with the records of n, and the history learns of them.
Stores(r, n) ==
  /\ n \in [Key -> Record \cup {None}]
  /\ \A k \in Key : n[k] = store[r][k] \/ Replaces(r, k, n[k])
  /\ store' = [store EXCEPT ![r] = n]
  /\ seen \subseteq seen'
  /\ \A k \in Key : n[k] # None => n[k] \in seen'
  /\ \A x \in seen' : x \in seen \/ \E k \in Key : n[k] # None /\ x = n[k]

\* A replica's records are only replaced by later ones.
Grows == \A r \in Replica, k \in Key : store[r][k] # None =>
           /\ store'[r][k] # None
           /\ store[r][k].version <= store'[r][k].version

\* Such a step keeps what the vectors say.
LEMMA StoresPreserves ==
  ASSUME TypeOK, VectorInv, NEW r \in Replica, NEW n, Stores(r, n),
         \A p \in Replica : policy'[p] = "vector_clock"
  PROVE  VectorInv' /\ Grows
<1>1. store'[r] = n /\ \A p \in Replica : p # r => store'[p] = store[p]
  BY DEF Stores, TypeOK
<1>2. \A k \in Key : Replaces(r, k, n[k]) => n[k] # None /\ n[k] \in Record /\ n[k].key = k
  BY NoneAssumption DEF Replaces
<1>3. \A x \in seen' : x \in seen \/ \E k \in Key : x = n[k] /\ Replaces(r, k, n[k])
  BY DEF Stores, VectorInv, StoredAreSeen
<1>4. \A x \in seen : x \in Record /\ x.key \in Key /\ x.vector \in [Replica -> Nat] /\ x.version \in Nat
  BY DEF TypeOK, Record
<1>5. \A x \in seen' : x \in Record /\ x.key \in Key /\ x.vector \in [Replica -> Nat] /\ x.version \in Nat
  BY <1>2, <1>3, <1>4 DEF Record
<1>6. \A p \in Replica, k \in Key : Count(p, k) \in Nat
  BY DEF TypeOK, Record, Count
<1>7. \A k \in Key : Count(r, k) <= Count(r, k)' /\ (Replaces(r, k, n[k]) => Count(r, k)' = n[k].vector[r])
  <2>1. SUFFICES ASSUME NEW k \in Key
                 PROVE  /\ Count(r, k) <= Count(r, k)'
                        /\ Replaces(r, k, n[k]) => Count(r, k)' = n[k].vector[r]
    OBVIOUS
  <2>2. Count(r, k)' = IF n[k] = None THEN 0 ELSE n[k].vector[r]
    BY <1>1 DEF Count
  <2>3. CASE Replaces(r, k, n[k])
    <3>1. Count(r, k) <= n[k].vector[r]
      BY <1>2, <1>6, <2>3 DEF Replaces, Written, Record
    <3>2. QED
      BY <1>2, <2>2, <2>3, <3>1
  <2>4. CASE ~Replaces(r, k, n[k])
    BY <1>6, <2>2, <2>4 DEF Stores, Count
  <2>5. QED
    BY <2>3, <2>4
<1>8. \A p \in Replica, k \in Key : p # r => Count(p, k)' = Count(p, k)
  BY <1>1 DEF Count
<1>9. \A p \in Replica, k \in Key : Count(p, k) <= Count(p, k)'
  BY <1>6, <1>7, <1>8
<1>10. \A p \in Replica, k \in Key : Count(p, k)' \in Nat
  BY <1>1, <1>2, <1>6, <1>8 DEF Count, Stores, Record
<1>11. OwnCountIsLargest'
  <2>1. SUFFICES ASSUME NEW x \in seen', NEW p \in Replica PROVE x.vector[p] <= Count(p, x.key)'
    BY DEF OwnCountIsLargest
  <2>2. CASE x \in seen
    <3>1. x.vector[p] <= Count(p, x.key) /\ x.key \in Key
      BY <1>4, <2>2 DEF VectorInv, OwnCountIsLargest
    <3>2. x.vector[p] \in Nat /\ Count(p, x.key) \in Nat /\ Count(p, x.key)' \in Nat
      BY <1>4, <1>6, <1>10, <2>2
    <3>3. QED
      BY <1>9, <3>1, <3>2
  <2>3. CASE x \notin seen
    <3>1. PICK k \in Key : x = n[k] /\ Replaces(r, k, n[k])
      BY <1>3, <2>3
    <3>2. Written(r, k, x) /\ x.key = k
      BY <2>3, <3>1 DEF Replaces
    <3>3. CASE p = r
      BY <1>5, <1>7, <3>1, <3>2, <3>3
    <3>4. CASE p # r
      BY <1>8, <3>2, <3>4 DEF Written
    <3>5. QED
      BY <3>3, <3>4
  <2>4. QED
    BY <2>2, <2>3
<1>12. EveryRecordHasAWriter'
  <2>1. SUFFICES ASSUME NEW x \in seen' PROVE \E s \in Replica : WriterOf(x, s)'
    BY DEF EveryRecordHasAWriter
  <2>2. CASE x \in seen
    <3>1. PICK s \in Replica : WriterOf(x, s)
      BY <2>2 DEF VectorInv, EveryRecordHasAWriter
    <3>2. SUFFICES ASSUME NEW y \in seen', y.key = x.key, x.vector[s] <= y.vector[s], y \notin seen
                   PROVE  After(x, y)
      BY <3>1 DEF WriterOf, After
    <3>3. PICK k \in Key : y = n[k] /\ Replaces(r, k, n[k])
      BY <1>3, <3>2
    <3>4. Written(r, k, y) /\ y.key = k
      BY <3>2, <3>3 DEF Replaces
    <3>5. PICK z \in seen : z.key = k /\ x.vector[s] <= z.vector[s] /\ After(z, y)
      BY <2>2, <3>1, <3>2, <3>4 DEF Written, WriterOf
    <3>6. z = x \/ After(x, z)
      BY <3>1, <3>2, <3>4, <3>5 DEF WriterOf
    <3>7. QED
      BY <1>4, <1>5, <2>2, <3>5, <3>6 DEF After
  <2>3. CASE x \notin seen
    <3>1. PICK k \in Key : x = n[k] /\ Replaces(r, k, n[k])
      BY <1>3, <2>3
    <3>2. Written(r, k, x) /\ x.key = k
      BY <2>3, <3>1 DEF Replaces
    <3>3. 0 < x.vector[r]
      BY <1>5, <1>6, <3>2 DEF Written
    <3>4. ASSUME NEW y \in seen', y.key = k, x.vector[r] <= y.vector[r] PROVE y = x
      <4>1. CASE y \in seen
        <5>1. y.vector[r] <= Count(r, k)
          BY <3>4, <4>1 DEF VectorInv, OwnCountIsLargest
        <5>2. /\ y.vector[r] \in Nat /\ x.vector[r] \in Nat /\ Count(r, k) \in Nat
          BY <1>5, <1>6
        <5>3. QED
          BY <3>2, <3>4, <5>1, <5>2 DEF Written
      <4>2. CASE y \notin seen
        <5>1. PICK l \in Key : y = n[l] /\ Replaces(r, l, n[l])
          BY <1>3, <4>2
        <5>2. l = k
          BY <3>4, <5>1 DEF Replaces
        <5>3. QED
          BY <3>1, <5>1, <5>2
      <4>3. QED
        BY <4>1, <4>2
    <3>5. WriterOf(x, r)'
      BY <3>2, <3>3, <3>4 DEF WriterOf
    <3>6. QED
      BY <3>5
  <2>4. QED
    BY <2>2, <2>3
<1>13. StoredAreSeen'
  BY <1>1 DEF Stores, VectorInv, StoredAreSeen
<1>14. Grows
  <2>1. SUFFICES ASSUME NEW p \in Replica, NEW k \in Key, store[p][k] # None
                 PROVE  store'[p][k] # None /\ store[p][k].version <= store'[p][k].version
    BY DEF Grows
  <2>2. store[p][k].version \in Nat
    BY <2>1 DEF TypeOK, Record
  <2>3. CASE p = r /\ Replaces(r, k, n[k])
    BY <1>1, <1>2, <2>1, <2>2, <2>3 DEF Replaces, Record
  <2>4. CASE ~(p = r /\ Replaces(r, k, n[k]))
    BY <1>1, <2>1, <2>2, <2>4 DEF Stores
  <2>5. QED
    BY <2>3, <2>4
<1>15. QED
  BY <1>11, <1>12, <1>13, <1>14 DEF VectorInv

-----------------------------------------------------------------------------
(* Operations and what becomes of them. *)

\* An operation stays what it is while the records are replaced by later ones.
LEMMA OperationStays ==
  ASSUME TypeOK, TypeOK', Grows, NEW op, OperationOK(op)
  PROVE  OperationOK(op)'
<1>1. op.replica \in Replica /\ op.record.key \in Key /\ op.record.version \in Nat
  BY DEF OperationOK, Record
<1>2. KeyOf(op)'
  BY <1>1 DEF OperationOK, KeyOf
<1>3. store'[op.replica][op.record.key] # None
  BY <1>1 DEF OperationOK, Grows
<1>4. /\ store[op.replica][op.record.key].version \in Nat
      /\ store'[op.replica][op.record.key].version \in Nat
  BY <1>1, <1>3 DEF TypeOK, Record, OperationOK
<1>5. op.record.version <= store'[op.replica][op.record.key].version
  BY <1>1, <1>4 DEF OperationOK, Grows
<1>6. QED
  BY <1>2, <1>3, <1>5 DEF OperationOK

\* A step that makes no operation keeps what is said of all of them.
LEMMA NoNewOperation ==
  ASSUME TypeOK, TypeOK', Grows, OperationsOK, KeysUnique,
         \A r \in Replica : Operations(r)' \subseteq Operations(r)
  PROVE  OperationsOK' /\ KeysUnique'
<1>1. OperationsOK'
  <2>1. SUFFICES ASSUME NEW r \in Replica, NEW op \in Operations(r)'
                 PROVE  op.replica = r /\ OperationOK(op)'
    BY DEF OperationsOK
  <2>2. op.replica = r /\ OperationOK(op)
    BY <2>1 DEF OperationsOK
  <2>3. QED
    BY <2>2, OperationStays
<1>2. KeysUnique'
  BY DEF KeysUnique
<1>3. QED
  BY <1>1, <1>2

\* The key that a replica makes for its next operation is one that it has not used.
LEMMA NewKey ==
  ASSUME OperationsOK, NEW r \in Replica, NEW op \in Operations(r), NEW rec \in Record,
         store[r][rec.key] # None => store[r][rec.key].version < rec.version,
         TypeOK, NEW idem \in {AutoKey(rec), DelKey(rec)}
  PROVE  op.idem # idem
<1>1. /\ op.replica = r /\ op.record \in Record /\ KeyOf(op) /\ store[r][op.record.key] # None
      /\ op.record.version <= store[r][op.record.key].version
  BY DEF OperationsOK, OperationOK
<1>2. op.record.key \in Key /\ store[r][op.record.key].version \in Nat /\ op.record.version \in Nat
      /\ rec.version \in Nat
  BY <1>1 DEF TypeOK, Record
<1>3. op.record.key = rec.key => op.record.version # rec.version
  BY <1>1, <1>2
<1>4. idem \notin ClientKeys
  BY DEF ClientKeys, ClientKey, AutoKey, DelKey
<1>5. CASE idem = AutoKey(rec)
  <2>1. /\ AutoKey(op.record) # AutoKey(rec) /\ DelKey(op.record) # AutoKey(rec) /\ LegacyKey(op.record) # AutoKey(rec)
    BY <1>3 DEF AutoKey, DelKey, LegacyKey
  <2>2. QED
    BY <1>1, <1>4, <1>5, <2>1 DEF KeyOf
<1>6. CASE idem = DelKey(rec)
  <2>1. /\ AutoKey(op.record) # DelKey(rec) /\ DelKey(op.record) # DelKey(rec) /\ LegacyKey(op.record) # DelKey(rec)
    BY <1>3 DEF AutoKey, DelKey, LegacyKey
  <2>2. QED
    BY <1>1, <1>4, <1>6, <2>1 DEF KeyOf
<1>7. QED
  BY <1>5, <1>6

\* What an edit writes is a record, whatever the policy.
LEMMA EditedType ==
  ASSUME TypeOK, NEW r \in Replica, NEW k \in Key, NEW value \in Value \cup {None}, NEW wall \in Wall
  PROVE  Edited(r, k, value, wall) \in Record /\ Edited(r, k, value, wall).key = k
<1> DEFINE base == IF store[r][k] = None THEN NoTicks ELSE store[r][k].vector
           vector == Tick(base, r)
           version == IF store[r][k] = None THEN 1 ELSE store[r][k].version + 1
<1>1. NoTicks \in [Replica -> Nat]
  BY DEF NoTicks
<1>2. store[r][k] # None => store[r][k].vector \in [Replica -> Nat] /\ store[r][k].version \in Nat
  BY DEF TypeOK, Record
<1>3. vector \in [Replica -> Nat] /\ version \in Nat
  <2>1. base \in [Replica -> Nat] /\ version \in Nat
    BY <1>1, <1>2
  <2> HIDE DEF base, version
  <2>2. QED
    BY <2>1, TickFacts
<1> HIDE DEF vector, version, base
<1>4. Edited(r, k, value, wall) = [key |-> k, value |-> value, replica |-> r, wall |-> wall,
                                   vector |-> vector, version |-> version]
  BY DEF Edited, vector, version, base
<1>5. QED
  BY <1>3, <1>4 DEF Record

\* What apply_remote stores is a record, whatever the policy.
LEMMA ResolvedType ==
  ASSUME TypeOK, NEW r \in Replica, NEW k \in Key, NEW remote \in Record, remote.key = k
  PROVE  /\ Resolved(r, store[r][k], remote) \in Record
         /\ Resolved(r, store[r][k], remote).key = k
<1> DEFINE local == store[r][k]
<1>1. CASE local = None
  BY <1>1 DEF Resolved
<1>2. CASE local # None
  <2>1. local \in Record /\ local.key = k
    BY <1>2 DEF TypeOK
  <2>2. /\ local.vector \in [Replica -> Nat] /\ local.version \in Nat
        /\ remote.vector \in [Replica -> Nat] /\ remote.version \in Nat
    BY <2>1 DEF Record
  <2>3. ResolveLww(local, remote) \in Record /\ ResolveLww(local, remote).key = k
    BY <2>1 DEF ResolveLww
  <2>4. Tick(Merge(local.vector, remote.vector), r) \in [Replica -> Nat]
    BY <2>2, MergeFacts, TickFacts
  <2>5. Larger(local.version, remote.version) + 1 \in Nat
    BY <2>2 DEF Larger
  <2>6. Merged(local, remote, r) \in Record /\ Merged(local, remote, r).key = k
    BY <2>3, <2>4, <2>5 DEF Merged, Record
  <2>7. \/ Resolved(r, local, remote) = ResolveLww(local, remote)
        \/ Resolved(r, local, remote) = ResolveVector(local, remote, r)
    BY <1>2 DEF Resolved
  <2>8. ResolveVector(local, remote, r) \in {local, remote, Merged(local, remote, r)}
    BY DEF ResolveVector
  <2>9. QED
    BY <2>1, <2>3, <2>6, <2>7, <2>8
<1>3. QED
  BY <1>1, <1>2

-----------------------------------------------------------------------------
(* The actions. *)

\* The record of an edit is stored and its operation queued, under a new key or one of
\* a client.
LEMMA EditPreserves ==
  ASSUME IInv, NEW r \in Replica, NEW k \in Key, NEW value \in Value \cup {None}, NEW wall \in Wall,
         NEW idem, Edit(r, idem, Edited(r, k, value, wall)),
         \/ /\ idem \in {AutoKey(Edited(r, k, value, wall)), DelKey(Edited(r, k, value, wall))}
            /\ UNCHANGED idempotency_keys
         \/ \E q \in Request :
              /\ idem = ClientKey(q)
              /\ idempotency_keys' = [idempotency_keys EXCEPT ![r] = @ \cup {q}]
  PROVE  IInv'
<1>0. PICK rec, op : rec = Edited(r, k, value, wall) /\ op = Operation(r, idem, rec)
  OBVIOUS
<1>1. rec \in Record /\ rec.key = k /\ rec # None
  BY <1>0, EditedType, NoneAssumption DEF IInv
<1>2. op.replica = r /\ op.idem = idem /\ op.record = rec
  BY <1>0 DEF Operation
<1>3. /\ store' = [store EXCEPT ![r][k] = rec]
      /\ pending_ops' = [pending_ops EXCEPT ![r] = @ \cup {op}]
      /\ seen' = seen \cup {rec} /\ owed' = owed \cup {op}
      /\ UNCHANGED <<applied_ops, flushed, policy, torn, by_op, configured>>
  BY <1>0, <1>1 DEF Edit
<1>4. /\ \A p \in Replica : idempotency_keys'[p] \subseteq Request
      /\ IsFunction(idempotency_keys')
  BY DEF IInv, TypeOK, Shape, IsFunction
<1>5. /\ pending_ops'[r] = pending_ops[r] \cup {op}
      /\ \A p \in Replica : p # r => pending_ops'[p] = pending_ops[p]
      /\ IsFunction(pending_ops')
  BY <1>3 DEF IInv, Shape, IsFunction
<1>6. Shape'
  BY <1>3, <1>4, <1>5 DEF IInv, Shape, IsFunction
<1>7. /\ store'[r][k] = rec /\ \A l \in Key : l # k => store'[r][l] = store[r][l]
      /\ \A p \in Replica : p # r => store'[p] = store[p]
      /\ store' \in [Replica -> [Key -> Record \cup {None}]]
  BY <1>1, <1>3 DEF IInv, TypeOK
<1>8. TypeOK'
  <2>1. \A p \in Replica : \A l \in Key : store'[p][l] # None => store'[p][l].key = l
    BY <1>1, <1>7 DEF IInv, TypeOK
  <2>2. \A p \in Replica : \A o \in pending_ops'[p] : o.replica = p /\ o.record \in Record
    BY <1>1, <1>2, <1>5 DEF IInv, TypeOK
  <2>3. seen' \subseteq Record
    BY <1>1, <1>3 DEF IInv, TypeOK
  <2>4. QED
    BY <1>3, <1>4, <1>7, <2>1, <2>2, <2>3 DEF IInv, TypeOK
<1>9. ASSUME configured = "vector_clock" PROVE VectorInv' /\ EditInv'
  <2>1. TypeOK /\ VectorInv /\ EditInv
    BY <1>9 DEF IInv
  <2>2. Replaces(r, k, rec)
    BY <1>0, <2>1, EditedReplaces
  <2>3. Stores(r, [store[r] EXCEPT ![k] = rec])
    <3> DEFINE n == [store[r] EXCEPT ![k] = rec]
    <3>1. n \in [Key -> Record \cup {None}] /\ n[k] = rec /\ \A l \in Key : l # k => n[l] = store[r][l]
      BY <1>1, <2>1 DEF TypeOK
    <3>2. store' = [store EXCEPT ![r] = n]
      BY <1>3
    <3> HIDE DEF n
    <3>3. \A l \in Key : n[l] = store[r][l] \/ Replaces(r, l, n[l])
      BY <2>2, <3>1
    <3>4. \A l \in Key : n[l] # None => n[l] \in seen'
      BY <1>3, <2>1, <3>1 DEF VectorInv, StoredAreSeen
    <3>5. \A x \in seen' : x \in seen \/ \E l \in Key : n[l] # None /\ x = n[l]
      BY <1>1, <1>3, <3>1
    <3>6. seen \subseteq seen'
      BY <1>3
    <3>7. Stores(r, n)
      BY <3>1, <3>2, <3>3, <3>4, <3>5, <3>6 DEF Stores
    <3>8. QED
      BY <3>7 DEF n
  <2>4. \A p \in Replica : policy'[p] = "vector_clock"
    BY <1>3, <2>1 DEF VectorInv
  <2>5. VectorInv' /\ Grows
    BY <2>1, <2>3, <2>4, StoresPreserves
  <2>6. idem \notin ClientKeys => \A o \in Operations(r) : o.idem # idem
    <3>1. store[r][rec.key] # None => store[r][rec.key].version < rec.version
      BY <1>1, <2>2 DEF Replaces
    <3>2. idem \in {AutoKey(rec), DelKey(rec)} \/ idem \in ClientKeys
      BY <1>0 DEF ClientKeys
    <3>3. OperationsOK
      BY <2>1 DEF EditInv
    <3>4. QED
      BY <1>1, <2>1, <3>1, <3>2, <3>3, NewKey
  <2>7. \A p \in Replica : \A o \in Operations(p)' : o \in Operations(p) \/ (p = r /\ o = op)
    BY <1>2, <1>3, <1>5 DEF Operations
  <2>8. OperationOK(op)'
    <3>1. KeyOf(op)'
      BY <1>0, <1>2 DEF KeyOf, ClientKeys
    <3>2. rec.version \in Nat
      BY <1>1 DEF Record
    <3>3. QED
      BY <1>1, <1>2, <1>7, <3>1, <3>2 DEF OperationOK
  <2>9. OperationsOK'
    <3>1. SUFFICES ASSUME NEW p \in Replica, NEW o \in Operations(p)'
                   PROVE  o.replica = p /\ OperationOK(o)'
      BY DEF OperationsOK
    <3>2. CASE o \in Operations(p)
      <4>1. o.replica = p /\ OperationOK(o)
        BY <2>1, <3>2 DEF EditInv, OperationsOK
      <4>2. QED
        BY <1>4, <1>8, <2>1, <2>5, <4>1, OperationStays
    <3>3. CASE o \notin Operations(p)
      BY <1>2, <2>7, <2>8, <3>3
    <3>4. QED
      BY <3>2, <3>3
  <2>10. KeysUnique'
    BY <1>2, <2>1, <2>6, <2>7 DEF EditInv, KeysUnique
  <2>11. FlushedAreKnown'
    BY <1>3, <2>1 DEF EditInv, FlushedAreKnown, PeerKnows
  <2>12. OfReplicas'
    BY <1>2, <1>3, <2>1 DEF EditInv, OfReplicas
  <2>13. \A o \in owed' : Kept(o)'
    <3>1. SUFFICES ASSUME NEW o \in owed' PROVE Kept(o)'
      OBVIOUS
    <3>2. CASE o \in owed
      <4>1. Kept(o) /\ o.replica \in Replica
        BY <2>1, <3>2 DEF EditInv, OfReplicas
      <4>2. QED
        BY <1>3, <1>5, <4>1 DEF Kept
    <3>3. CASE o = op
      BY <1>2, <1>5, <3>3 DEF Kept
    <3>4. QED
      BY <1>3, <3>2, <3>3
  <2>14. QED
    BY <2>5, <2>9, <2>10, <2>11, <2>12, <2>13 DEF EditInv
<1>10. StoredAreSeen'
  BY <1>3, <1>7 DEF IInv, StoredAreSeen
<1>11. QED
  BY <1>3, <1>6, <1>8, <1>9, <1>10 DEF IInv

\* Emptying the queue of r takes what was in it from what is owed.
LEMMA ClearPreserves ==
  ASSUME TypeOK, Shape, EditInv, NEW r \in Replica, Clear(r), UNCHANGED <<by_op, torn>>
  PROVE  /\ IsFunction(pending_ops') /\ pending_ops'[r] = {}
         /\ \A p \in Replica : p # r => pending_ops'[p] = pending_ops[p]
         /\ \A p \in Replica : Operations(p)' \subseteq Operations(p)
         /\ OfReplicas' /\ \A op \in owed' : Kept(op)'
<1>1. /\ IsFunction(pending_ops') /\ pending_ops'[r] = {}
      /\ \A p \in Replica : p # r => pending_ops'[p] = pending_ops[p]
  BY DEF Clear, Shape, IsFunction
<1>2. owed' \subseteq owed /\ \A op \in owed' : op \notin pending_ops[r]
  BY DEF Clear
<1>3. \A p \in Replica : Operations(p)' \subseteq Operations(p)
  BY <1>1, <1>2 DEF Operations
<1>4. OfReplicas'
  BY <1>2 DEF EditInv, OfReplicas
<1>5. \A op \in owed' : Kept(op)'
  <2>1. SUFFICES ASSUME NEW op \in owed' PROVE Kept(op)'
    OBVIOUS
  <2>2. Kept(op) /\ op.replica \in Replica /\ op \notin pending_ops[r]
    BY <1>2 DEF EditInv, OfReplicas
  <2>3. QED
    BY <1>1, <2>2 DEF Kept
<1>6. QED
  BY <1>1, <1>3, <1>4, <1>5

\* Records that arrive at r, with or without its queue being emptied.
LEMMA ExchangePreserves ==
  ASSUME IInv, NEW r \in Replica, NEW n,
         n = [k \in Key |-> n[k]],
         \A k \in Key : \/ n[k] = store[r][k]
                        \/ \E remote \in seen : remote.key = k /\ n[k] = Resolved(r, store[r][k], remote),
         store' = [store EXCEPT ![r] = n], seen \subseteq seen',
         \A k \in Key : n[k] # None => n[k] \in seen',
         \A x \in seen' : x \in seen \/ \E k \in Key : n[k] # None /\ x = n[k],
         UNCHANGED <<applied_ops, idempotency_keys, flushed, policy, torn, by_op, configured>>,
         Clear(r) \/ UNCHANGED <<pending_ops, owed>>
  PROVE  IInv'
<1>1. \A k \in Key : n[k] # None => n[k] \in Record /\ n[k].key = k
  <2>1. SUFFICES ASSUME NEW k \in Key, n[k] # None PROVE n[k] \in Record /\ n[k].key = k
    OBVIOUS
  <2>2. CASE n[k] = store[r][k]
    BY <2>1, <2>2 DEF IInv, TypeOK
  <2>3. CASE \E remote \in seen : remote.key = k /\ n[k] = Resolved(r, store[r][k], remote)
    <3>1. PICK remote \in seen : remote.key = k /\ n[k] = Resolved(r, store[r][k], remote)
      BY <2>3
    <3>2. remote \in Record
      BY DEF IInv, TypeOK
    <3>3. QED
      BY <3>1, <3>2, ResolvedType DEF IInv
  <2>4. QED
    BY <2>2, <2>3
<1>2. n \in [Key -> Record \cup {None}]
  BY <1>1
<1>3. store'[r] = n /\ \A p \in Replica : p # r => store'[p] = store[p]
  BY DEF IInv, TypeOK
<1>4. IsFunction(pending_ops')
  <2>1. CASE Clear(r)
    BY <2>1 DEF Clear, IInv, Shape, IsFunction
  <2>2. CASE UNCHANGED <<pending_ops, owed>>
    BY <2>2 DEF IInv, Shape, IsFunction
  <2>3. QED
    BY <2>1, <2>2
<1>5. Shape'
  BY <1>4 DEF IInv, Shape, IsFunction
<1>6. \A p \in Replica : pending_ops'[p] \subseteq pending_ops[p]
  <2>1. CASE Clear(r)
    BY <2>1 DEF Clear, IInv, Shape, IsFunction
  <2>2. CASE UNCHANGED <<pending_ops, owed>>
    BY <2>2
  <2>3. QED
    BY <2>1, <2>2
<1>7. TypeOK'
  <2>1. store' \in [Replica -> [Key -> Record \cup {None}]]
    BY <1>2 DEF IInv, TypeOK
  <2>2. \A p \in Replica : \A k \in Key : store'[p][k] # None => store'[p][k].key = k
    BY <1>1, <1>3 DEF IInv, TypeOK
  <2>3. seen' \subseteq Record
    BY <1>1 DEF IInv, TypeOK
  <2>4. QED
    BY <1>6, <2>1, <2>2, <2>3 DEF IInv, TypeOK
<1>8. ASSUME configured = "vector_clock" PROVE VectorInv' /\ EditInv'
  <2>1. TypeOK /\ VectorInv /\ EditInv
    BY <1>8 DEF IInv
  <2>2. \A k \in Key : n[k] = store[r][k] \/ Replaces(r, k, n[k])
    <3>1. SUFFICES ASSUME NEW k \in Key, NEW remote \in seen, remote.key = k,
                          n[k] = Resolved(r, store[r][k], remote)
                   PROVE  n[k] = store[r][k] \/ Replaces(r, k, n[k])
      OBVIOUS
    <3>2. QED
      BY <2>1, <3>1, ResolvedReplaces
  <2>3. Stores(r, n)
    BY <1>2, <1>8, <2>2 DEF Stores
  <2>4. \A p \in Replica : policy'[p] = "vector_clock"
    BY <2>1 DEF VectorInv
  <2>5. VectorInv' /\ Grows
    BY <2>1, <2>3, <2>4, StoresPreserves
  <2>6. /\ \A p \in Replica : Operations(p)' \subseteq Operations(p)
        /\ OfReplicas' /\ \A op \in owed' : Kept(op)'
    <3>1. CASE Clear(r)
      BY <2>1, <3>1, ClearPreserves DEF IInv
    <3>2. CASE UNCHANGED <<pending_ops, owed>>
      BY <2>1, <3>2 DEF Operations, EditInv, OfReplicas, Kept
    <3>3. QED
      BY <3>1, <3>2
  <2>7. OperationsOK' /\ KeysUnique'
    BY <1>7, <2>1, <2>5, <2>6, NoNewOperation DEF EditInv
  <2>8. FlushedAreKnown'
    BY <2>1 DEF EditInv, FlushedAreKnown, PeerKnows
  <2>9. QED
    BY <2>5, <2>6, <2>7, <2>8 DEF EditInv
<1>9. StoredAreSeen'
  BY <1>3 DEF IInv, StoredAreSeen
<1>10. QED
  BY <1>5, <1>7, <1>8, <1>9 DEF IInv

\* One record that some replica has had arrives.
LEMMA ApplyRemotePreserves ==
  ASSUME IInv, NEW r \in Replica, NEW record \in seen, ApplyRemote(r, record)
  PROVE  IInv'
<1> DEFINE result == Resolved(r, store[r][record.key], record)
           n == [store[r] EXCEPT ![record.key] = result]
<1>1. record \in Record /\ record.key \in Key
  BY DEF IInv, TypeOK, Record
<1>2. result \in Record
  BY <1>1, ResolvedType DEF IInv
<1>3. /\ n[record.key] = result /\ \A k \in Key : k # record.key => n[k] = store[r][k]
      /\ n = [k \in Key |-> n[k]]
  BY <1>1 DEF IInv, TypeOK
<1>4. /\ store' = [store EXCEPT ![r] = n] /\ seen' = seen \cup {result}
      /\ UNCHANGED <<applied_ops, idempotency_keys, flushed, policy, torn, by_op, configured>>
      /\ UNCHANGED <<pending_ops, owed>>
  BY DEF ApplyRemote
<1> HIDE DEF n
<1>5. \A k \in Key : \/ n[k] = store[r][k]
                     \/ \E remote \in seen : remote.key = k /\ n[k] = Resolved(r, store[r][k], remote)
  BY <1>3
<1> HIDE DEF result
<1>6. \A k \in Key : n[k] # None => n[k] \in seen'
  BY <1>3, <1>4 DEF IInv, StoredAreSeen
<1>7. \A x \in seen' : x \in seen \/ \E k \in Key : n[k] # None /\ x = n[k]
  BY <1>1, <1>2, <1>3, <1>4, NoneAssumption
<1>8. seen \subseteq seen'
  BY <1>4
<1>9. QED
  BY <1>3, <1>4, <1>5, <1>6, <1>7, <1>8, ExchangePreserves

\* All records of another replica arrive, and the queue is emptied.
LEMMA SyncFromPeerPreserves ==
  ASSUME IInv, NEW r \in Replica, NEW p \in Replica, SyncFromPeer(r, p)
  PROVE  IInv'
<1> DEFINE n == [k \in Key |-> IF store[p][k] = None THEN store[r][k]
                               ELSE Resolved(r, store[r][k], store[p][k])]
<1>1. /\ store' = [store EXCEPT ![r] = n]
      /\ seen' = seen \cup {n[k] : k \in {key \in Key : n[key] # None}}
      /\ UNCHANGED <<applied_ops, idempotency_keys, flushed, policy, torn, by_op, configured>>
      /\ Clear(r)
  BY DEF SyncFromPeer
<1>2. n = [k \in Key |-> n[k]]
  OBVIOUS
<1>3. \A k \in Key : \/ n[k] = store[r][k]
                     \/ \E remote \in seen : remote.key = k /\ n[k] = Resolved(r, store[r][k], remote)
  BY DEF IInv, TypeOK, StoredAreSeen
<1> HIDE DEF n
<1>4. /\ \A k \in Key : n[k] # None => n[k] \in seen'
      /\ \A x \in seen' : x \in seen \/ \E k \in Key : n[k] # None /\ x = n[k]
      /\ seen \subseteq seen'
  BY <1>1
<1>5. QED
  BY <1>1, <1>2, <1>3, <1>4, ExchangePreserves

\* A step that touches neither records, requests nor policies, and whose
\* operations were there before, keeps the invariant if it keeps what is
\* flushed known to the peer and what is owed.
LEMMA RestPreserves ==
  ASSUME IInv, UNCHANGED <<store, idempotency_keys, configured, seen>>,
         policy' \in [Replica -> {"lww", "vector_clock"}], torn' \in [Replica -> BOOLEAN],
         configured = "vector_clock" => \A r \in Replica : policy'[r] = "vector_clock",
         IsFunction(pending_ops'), IsFunction(applied_ops'), IsFunction(flushed'),
         \A r \in Replica : pending_ops'[r] \subseteq pending_ops[r],
         configured = "vector_clock" =>
           /\ \A r \in Replica : Operations(r)' \subseteq Operations(r)
           /\ FlushedAreKnown' /\ OfReplicas' /\ \A op \in owed' : Kept(op)'
  PROVE  IInv'
<1>1. TypeOK'
  BY DEF IInv, TypeOK
<1>2. Shape'
  BY DEF IInv, Shape, IsFunction
<1>3. StoredAreSeen'
  BY DEF IInv, StoredAreSeen
<1>4. ASSUME configured = "vector_clock" PROVE VectorInv' /\ EditInv'
  <2>1. TypeOK /\ VectorInv /\ EditInv
    BY <1>4 DEF IInv
  <2>2. Grows
    BY <2>1 DEF Grows, TypeOK, Record
  <2>3. OwnCountIsLargest' /\ EveryRecordHasAWriter'
    BY <2>1 DEF VectorInv, OwnCountIsLargest, Count, EveryRecordHasAWriter, WriterOf, After
  <2>4. VectorInv'
    BY <1>3, <1>4, <2>3 DEF VectorInv
  <2>5. OperationsOK' /\ KeysUnique'
    BY <1>1, <1>4, <2>1, <2>2, NoNewOperation DEF EditInv
  <2>6. QED
    BY <1>4, <2>4, <2>5 DEF EditInv
<1>5. QED
  BY <1>1, <1>2, <1>3, <1>4 DEF IInv

\* The coordinator's flush empties the queue.
LEMMA FlushPendingSyncPreserves ==
  ASSUME IInv, NEW r \in Replica, FlushPendingSync(r)
  PROVE  IInv'
<1>1. /\ UNCHANGED <<store, applied_ops, idempotency_keys, policy, torn, flushed, by_op,
                     configured, seen>>
      /\ Clear(r)
  BY DEF FlushPendingSync
<1>2. IsFunction(pending_ops') /\ \A p \in Replica : pending_ops'[p] \subseteq pending_ops[p]
  BY <1>1 DEF Clear, IInv, Shape, IsFunction
<1>3. /\ policy' \in [Replica -> {"lww", "vector_clock"}] /\ torn' \in [Replica -> BOOLEAN]
      /\ IsFunction(applied_ops') /\ IsFunction(flushed')
      /\ configured = "vector_clock" => \A p \in Replica : policy'[p] = "vector_clock"
  BY <1>1 DEF IInv, TypeOK, Shape, VectorInv, IsFunction
<1>4. ASSUME configured = "vector_clock"
      PROVE  /\ \A p \in Replica : Operations(p)' \subseteq Operations(p)
             /\ FlushedAreKnown' /\ OfReplicas' /\ \A op \in owed' : Kept(op)'
  <2>1. TypeOK /\ Shape /\ EditInv
    BY <1>4 DEF IInv
  <2>2. UNCHANGED <<by_op, torn>>
    BY <1>1
  <2>3. FlushedAreKnown'
    BY <1>1, <2>1 DEF EditInv, FlushedAreKnown, PeerKnows
  <2>4. QED
    BY <1>1, <2>1, <2>2, <2>3, ClearPreserves
<1>5. QED
  BY <1>1, <1>2, <1>3, <1>4, RestPreserves

\* A flush begins with nothing flushed; an operation reaches the peer before its
\* key counts as flushed; the queue is emptied when all of it has reached the peer.
LEMMA FlushPreserves ==
  ASSUME IInv, NEW r \in Replica, Flush(r)
  PROVE  IInv'
<1>1. UNCHANGED <<store, idempotency_keys, configured, seen, policy, torn, owed>>
  BY DEF Flush, StartFlush, FlushOne, EndFlush, replicas
<1>2. /\ policy' \in [Replica -> {"lww", "vector_clock"}] /\ torn' \in [Replica -> BOOLEAN]
      /\ configured = "vector_clock" => \A p \in Replica : policy'[p] = "vector_clock"
  BY <1>1 DEF IInv, TypeOK, VectorInv
<1>3. CASE StartFlush(r)
  <2>1. /\ flushed' = [flushed EXCEPT ![r] = {}]
        /\ UNCHANGED <<pending_ops, applied_ops, by_op>>
    BY <1>3 DEF StartFlush, replicas
  <2>2. /\ IsFunction(pending_ops') /\ IsFunction(applied_ops') /\ IsFunction(flushed')
        /\ flushed'[r] = {} /\ \A p \in Replica : p # r => flushed'[p] = flushed[p]
    BY <2>1 DEF IInv, Shape, IsFunction
  <2>3. ASSUME configured = "vector_clock"
        PROVE  /\ \A p \in Replica : Operations(p)' \subseteq Operations(p)
               /\ FlushedAreKnown' /\ OfReplicas' /\ \A op \in owed' : Kept(op)'
    <3>1. EditInv
      BY <2>3 DEF IInv
    <3>2. FlushedAreKnown'
      BY <2>1, <2>2, <3>1 DEF EditInv, FlushedAreKnown, PeerKnows
    <3>3. QED
      BY <1>1, <2>1, <3>1, <3>2 DEF Operations, EditInv, OfReplicas, Kept
  <2>4. QED
    BY <1>1, <1>2, <2>1, <2>2, <2>3, RestPreserves
<1>4. CASE FlushOne(r)
  <2>1. PICK op \in pending_ops[r] : PeerApply(op) /\ flushed' = [flushed EXCEPT ![r] = @ \cup {op.idem}]
    BY <1>4 DEF FlushOne, ToFlush
  <2>2. UNCHANGED <<pending_ops, applied_ops>> /\ flushed[r] # None
    BY <1>4 DEF FlushOne, replicas
  <2>3. /\ IsFunction(pending_ops') /\ IsFunction(applied_ops') /\ IsFunction(flushed')
        /\ flushed'[r] = flushed[r] \cup {op.idem}
        /\ \A p \in Replica : p # r => flushed'[p] = flushed[p]
    BY <2>1, <2>2 DEF IInv, Shape, IsFunction
  <2>4. /\ by_op \subseteq by_op' /\ by_op' \subseteq by_op \cup {op}
        /\ \E got \in by_op' : got.idem = op.idem
    BY <2>1 DEF PeerApply, PeerKnows
  <2>5. op.replica = r
    BY <2>1 DEF IInv, TypeOK
  <2>6. ASSUME configured = "vector_clock"
        PROVE  /\ \A p \in Replica : Operations(p)' \subseteq Operations(p)
               /\ FlushedAreKnown' /\ OfReplicas' /\ \A o \in owed' : Kept(o)'
    <3>1. EditInv
      BY <2>6 DEF IInv
    <3>2. \A p \in Replica : Operations(p)' \subseteq Operations(p)
      BY <1>1, <2>1, <2>2, <2>4, <2>5 DEF Operations
    <3>3. FlushedAreKnown'
      BY <2>2, <2>3, <2>4, <3>1 DEF EditInv, FlushedAreKnown, PeerKnows
    <3>4. OfReplicas' /\ \A o \in owed' : Kept(o)'
      BY <1>1, <2>2, <2>4, <2>5, <3>1 DEF EditInv, OfReplicas, Kept
    <3>5. QED
      BY <3>2, <3>3, <3>4
  <2>7. \A p \in Replica : pending_ops'[p] \subseteq pending_ops[p]
    BY <2>2
  <2>8. QED
    BY <1>1, <1>2, <2>3, <2>6, <2>7, RestPreserves
<1>5. CASE EndFlush(r)
  <2>1. /\ pending_ops' = [pending_ops EXCEPT ![r] = {}]
        /\ applied_ops' = [applied_ops EXCEPT ![r] = @ \cup flushed[r]]
        /\ flushed' = [flushed EXCEPT ![r] = None]
        /\ by_op' = by_op /\ flushed[r] # None /\ ToFlush(r) = {}
    BY <1>5 DEF EndFlush, AllFlushed
  <2>2. /\ IsFunction(pending_ops') /\ IsFunction(applied_ops') /\ IsFunction(flushed')
        /\ pending_ops'[r] = {} /\ applied_ops'[r] = applied_ops[r] \cup flushed[r]
        /\ flushed'[r] = None
        /\ \A p \in Replica : p # r => /\ pending_ops'[p] = pending_ops[p]
                                       /\ applied_ops'[p] = applied_ops[p]
                                       /\ flushed'[p] = flushed[p]
    BY <2>1 DEF IInv, Shape, IsFunction
  <2>3. ASSUME configured = "vector_clock"
        PROVE  /\ \A p \in Replica : Operations(p)' \subseteq Operations(p)
               /\ FlushedAreKnown' /\ OfReplicas' /\ \A o \in owed' : Kept(o)'
    <3>1. EditInv
      BY <2>3 DEF IInv
    <3>2. \A p \in Replica : Operations(p)' \subseteq Operations(p)
      BY <1>1, <2>1, <2>2 DEF Operations
    <3>3. FlushedAreKnown'
      BY <2>1, <2>2, <3>1 DEF EditInv, FlushedAreKnown, PeerKnows
    <3>4. ASSUME NEW o \in owed PROVE Kept(o)'
      <4>1. Kept(o) /\ o.replica \in Replica
        BY <3>1 DEF EditInv, OfReplicas
      <4>2. CASE o.replica = r /\ o \in pending_ops[r]
        <5>1. o.idem \in applied_ops[r] \cup flushed[r]
          BY <2>1, <4>2 DEF ToFlush
        <5>2. PICK got \in by_op : got.idem = o.idem
          BY <2>1, <3>1, <5>1 DEF EditInv, FlushedAreKnown, PeerKnows
        <5>3. got.replica = r => got.record = o.record \/ o.idem \in ClientKeys
          BY <3>1, <4>2, <5>2 DEF EditInv, KeysUnique, Operations
        <5>4. got.replica \in Replica /\ got \in Operations(got.replica)
          BY <3>1, <5>2 DEF EditInv, OfReplicas, Operations
        <5>5. got.record # None
          BY <3>1, <5>4, NoneAssumption DEF EditInv, OperationsOK, OperationOK
        <5>6. QED
          BY <2>1, <4>2, <5>2, <5>3, <5>5 DEF Kept
      <4>3. CASE ~(o.replica = r /\ o \in pending_ops[r])
        BY <1>1, <2>1, <2>2, <4>1, <4>3 DEF Kept
      <4>4. QED
        BY <4>2, <4>3
    <3>5. OfReplicas' /\ \A o \in owed' : Kept(o)'
      BY <1>1, <2>1, <3>1, <3>4 DEF EditInv, OfReplicas
    <3>6. QED
      BY <3>2, <3>3, <3>5
  <2>4. \A p \in Replica : pending_ops'[p] \subseteq pending_ops[p]
    BY <2>2
  <2>5. QED
    BY <1>1, <1>2, <2>2, <2>3, <2>4, RestPreserves
<1>6. QED
  BY <1>3, <1>4, <1>5 DEF Flush

\* A replay finds its keys at the peer; a new process has forgotten a flush and
\* runs the default policy; a torn file keeps its replica from everything.
LEMMA ProcessPreserves ==
  ASSUME IInv, NEW r \in Replica, Replay(r) \/ Restart(r) \/ Tear(r)
  PROVE  IInv'
<1>1. UNCHANGED <<store, idempotency_keys, configured, seen, pending_ops, applied_ops, owed>>
  BY DEF Replay, Restart, Tear, replicas
<1>2. IsFunction(pending_ops') /\ IsFunction(applied_ops')
  BY <1>1 DEF IInv, Shape, IsFunction
<1>3. /\ IsFunction(flushed')
      /\ \A p \in Replica : flushed'[p] = flushed[p] \/ flushed'[p] = None
  BY DEF Replay, Restart, Tear, replicas, IInv, Shape, IsFunction
<1>4. /\ policy' \in [Replica -> {"lww", "vector_clock"}]
      /\ configured = "vector_clock" => \A p \in Replica : policy'[p] = "vector_clock"
  BY DEF Replay, Restart, Tear, replicas, IInv, TypeOK, VectorInv, LoadedPolicy
<1>5. torn' \in [Replica -> BOOLEAN] /\ \A p \in Replica : torn[p] => torn'[p]
  BY DEF Replay, Restart, Tear, replicas, IInv, TypeOK
<1>6. ASSUME configured = "vector_clock"
      PROVE  /\ \A p \in Replica : Operations(p)' \subseteq Operations(p)
             /\ FlushedAreKnown' /\ OfReplicas' /\ \A o \in owed' : Kept(o)'
  <2>1. EditInv
    BY <1>6 DEF IInv
  <2>2. by_op' = by_op
    <3>1. {i \in applied_ops[r] : ~PeerKnows(i)} = {}
      BY <2>1 DEF EditInv, FlushedAreKnown
    <3>2. CASE Replay(r)
      <4>1. by_op' = by_op \cup {Operation(r, idem, None) : idem \in {i \in applied_ops[r] : ~PeerKnows(i)}}
        BY <3>2 DEF Replay
      <4>2. QED
        BY <3>1, <4>1
    <3>3. CASE Restart(r) \/ Tear(r)
      BY <3>3 DEF Restart, Tear
    <3>4. QED
      BY <3>2, <3>3
  <2>3. \A p \in Replica : Operations(p)' \subseteq Operations(p)
    BY <1>1, <2>2 DEF Operations
  <2>4. FlushedAreKnown'
    BY <1>1, <1>3, <2>1, <2>2 DEF EditInv, FlushedAreKnown, PeerKnows
  <2>5. OfReplicas' /\ \A o \in owed' : Kept(o)'
    BY <1>1, <1>5, <2>1, <2>2 DEF EditInv, OfReplicas, Kept
  <2>6. QED
    BY <2>3, <2>4, <2>5
<1>7. QED
  BY <1>1, <1>2, <1>3, <1>4, <1>5, <1>6, RestPreserves

-----------------------------------------------------------------------------
(* The theorems. *)

\* The invariant holds at the start, with records from before operations were kept.
LEMMA InitEstablishes ==
  ASSUME Init
  PROVE  IInv
<1>1. PICK old \in [Replica -> SUBSET Key] :
        /\ store = [r \in Replica |-> [k \in Key |-> IF k \in old[r] THEN FirstEdit(r, k) ELSE None]]
        /\ pending_ops = [r \in Replica |->
                      {Operation(r, LegacyKey(FirstEdit(r, k)), FirstEdit(r, k)) : k \in old[r]}]
        /\ seen = UNION {{FirstEdit(r, k) : k \in old[r]} : r \in Replica}
  BY DEF Init
<1>2. \A r \in Replica, k \in Key :
        /\ FirstEdit(r, k).key = k /\ FirstEdit(r, k).version = 1 /\ FirstEdit(r, k).replica = r
        /\ FirstEdit(r, k).vector \in [Replica -> Nat]
        /\ FirstEdit(r, k).vector[r] = 1
        /\ \A p \in Replica : p # r => FirstEdit(r, k).vector[p] = 0
  <2>1. NoTicks \in [Replica -> Nat] /\ \A p \in Replica : NoTicks[p] = 0
    BY DEF NoTicks
  <2>2. \A r \in Replica, k \in Key : FirstEdit(r, k).vector = Tick(NoTicks, r)
    BY DEF FirstEdit
  <2>3. \A r \in Replica, k \in Key :
          FirstEdit(r, k).key = k /\ FirstEdit(r, k).version = 1 /\ FirstEdit(r, k).replica = r
    BY DEF FirstEdit
  <2>4. QED
    BY <2>1, <2>2, <2>3, TickFacts
<1>3. \A r \in Replica, k \in Key : FirstEdit(r, k) \in Record /\ FirstEdit(r, k) # None
  <2>1. SUFFICES ASSUME NEW r \in Replica, NEW k \in Key PROVE FirstEdit(r, k) \in Record
    BY NoneAssumption
  <2>2. FirstEdit(r, k) = [key |-> k, value |-> None, replica |-> r, wall |-> 0,
                           vector |-> FirstEdit(r, k).vector, version |-> 1]
    BY DEF FirstEdit
  <2>3. QED
    BY <1>2, <2>1, <2>2, ReplicaAssumption DEF Record
<1>4. \A r \in Replica : /\ torn[r] = FALSE /\ by_op = {} /\ flushed[r] = None
                         /\ applied_ops[r] = {} /\ idempotency_keys[r] = {}
                         /\ policy[r] = configured
  BY DEF Init
<1>5. \A r \in Replica : \A op \in pending_ops[r] : \E k \in Key :
        /\ k \in old[r] /\ op = Operation(r, LegacyKey(FirstEdit(r, k)), FirstEdit(r, k))
        /\ op.replica = r /\ op.record = FirstEdit(r, k) /\ op.idem = LegacyKey(FirstEdit(r, k))
  BY <1>1 DEF Operation
<1>6. \A x \in seen : \E r \in Replica, k \in Key : k \in old[r] /\ x = FirstEdit(r, k)
  BY <1>1
<1>7. \A r \in Replica, k \in Key : /\ store[r][k] = IF k \in old[r] THEN FirstEdit(r, k) ELSE None
                                    /\ k \in old[r] => FirstEdit(r, k) \in seen
  BY <1>1
<1>8. owed = UNION {pending_ops[r] : r \in Replica}
  BY DEF Init
<1>9. TypeOK
  <2>1. store \in [Replica -> [Key -> Record \cup {None}]]
    BY <1>1, <1>3
  <2>2. \A r \in Replica : \A k \in Key : store[r][k] # None => store[r][k].key = k
    BY <1>2, <1>7
  <2>3. \A r \in Replica : \A op \in pending_ops[r] : op.replica = r /\ op.record \in Record
    BY <1>3, <1>5
  <2>4. seen \subseteq Record
    BY <1>3, <1>6
  <2>5. policy \in [Replica -> {"lww", "vector_clock"}] /\ torn \in [Replica -> BOOLEAN]
    BY PolicyAssumption DEF Init
  <2>6. \A r \in Replica : idempotency_keys[r] \subseteq Request
    BY <1>4
  <2>7. QED
    BY <2>1, <2>2, <2>3, <2>4, <2>5, <2>6 DEF TypeOK
<1>10. Shape
  BY <1>1 DEF Init, Shape, IsFunction
<1>11. StoredAreSeen
  BY <1>7 DEF StoredAreSeen
<1>12. OwnCountIsLargest
  <2>1. SUFFICES ASSUME NEW x \in seen, NEW r \in Replica PROVE x.vector[r] <= Count(r, x.key)
    BY DEF OwnCountIsLargest
  <2>2. PICK s \in Replica, k \in Key : k \in old[s] /\ x = FirstEdit(s, k)
    BY <1>6
  <2>3. Count(r, k) = IF k \in old[r] THEN 1 ELSE 0
    BY <1>2, <1>3, <1>7 DEF Count
  <2>4. CASE r = s
    BY <1>2, <2>2, <2>3, <2>4
  <2>5. CASE r # s
    BY <1>2, <2>2, <2>3, <2>5
  <2>6. QED
    BY <2>4, <2>5
<1>13. EveryRecordHasAWriter
  <2>1. SUFFICES ASSUME NEW x \in seen PROVE \E s \in Replica : WriterOf(x, s)
    BY DEF EveryRecordHasAWriter
  <2>2. PICK s \in Replica, k \in Key : k \in old[s] /\ x = FirstEdit(s, k)
    BY <1>6
  <2>3. ASSUME NEW y \in seen, y.key = x.key, x.vector[s] <= y.vector[s] PROVE y = x
    <3>1. PICK t \in Replica, l \in Key : l \in old[t] /\ y = FirstEdit(t, l)
      BY <1>6, <2>3
    <3>2. l = k
      BY <1>2, <2>2, <2>3, <3>1
    <3>3. t = s
      BY <1>2, <2>2, <2>3, <3>1
    <3>4. QED
      BY <2>2, <3>1, <3>2, <3>3
  <2>4. QED
    BY <1>2, <2>2, <2>3 DEF WriterOf
<1>14. ASSUME configured = "vector_clock" PROVE VectorInv /\ EditInv
  <2>1. VectorInv
    BY <1>4, <1>11, <1>12, <1>13, <1>14 DEF VectorInv
  <2>2. OfReplicas /\ \A op \in owed : op.replica \in Replica /\ op \in pending_ops[op.replica]
    <3>1. \A op \in owed : op.replica \in Replica /\ op \in pending_ops[op.replica]
      BY <1>5, <1>8
    <3>2. QED
      BY <3>1 DEF OfReplicas, Init
  <2>3. \A r \in Replica : Operations(r) = pending_ops[r]
    BY <1>4, <2>2 DEF Operations
  <2>4. OperationsOK
    <3>1. SUFFICES ASSUME NEW r \in Replica, NEW op \in pending_ops[r]
                   PROVE  op.replica = r /\ OperationOK(op)
      BY <2>3 DEF OperationsOK
    <3>2. PICK k \in Key : /\ k \in old[r] /\ op.replica = r /\ op.record = FirstEdit(r, k)
                           /\ op.idem = LegacyKey(FirstEdit(r, k))
      BY <1>5
    <3>3. store[r][k] = FirstEdit(r, k)
      BY <1>7, <3>2
    <3>4. KeyOf(op)
      BY <3>2 DEF KeyOf
    <3>5. QED
      BY <1>2, <1>3, <3>2, <3>3, <3>4 DEF OperationOK
  <2>5. KeysUnique
    <3>1. SUFFICES ASSUME NEW r \in Replica, NEW o1 \in pending_ops[r], NEW o2 \in pending_ops[r],
                          o1.idem = o2.idem
                   PROVE  o1.record = o2.record
      BY <2>3 DEF KeysUnique
    <3>2. PICK k \in Key : o1.record = FirstEdit(r, k) /\ o1.idem = LegacyKey(FirstEdit(r, k))
      BY <1>5
    <3>3. PICK l \in Key : o2.record = FirstEdit(r, l) /\ o2.idem = LegacyKey(FirstEdit(r, l))
      BY <1>5
    <3>4. \A x, y : LegacyKey(x) = LegacyKey(y) => x.key = y.key
      <4>1. \A x : LegacyKey(x)[2] = x.key
        BY DEF LegacyKey
      <4>2. QED
        BY <4>1, Zenon
    <3>5. QED
      <4>1. FirstEdit(r, k).key = FirstEdit(r, l).key
        BY <3>1, <3>2, <3>3, <3>4
      <4>2. QED
        BY <1>2, <3>2, <3>3, <4>1
  <2>6. FlushedAreKnown
    BY <1>4 DEF FlushedAreKnown
  <2>7. \A op \in owed : Kept(op)
    BY <2>2 DEF Kept
  <2>8. QED
    BY <2>1, <2>2, <2>4, <2>5, <2>6, <2>7 DEF EditInv
<1>15. QED
  BY <1>9, <1>10, <1>11, <1>14 DEF IInv

\* Every step keeps the invariant.
LEMMA StepPreserves ==
  ASSUME IInv, [Next]_vars
  PROVE  IInv'
<1>1. CASE UNCHANGED vars
  <2>1. UNCHANGED <<store, idempotency_keys, configured, seen, policy, torn, pending_ops, applied_ops,
                    flushed, owed, by_op>>
    BY <1>1 DEF vars, replicas
  <2>2. IsFunction(pending_ops') /\ IsFunction(applied_ops') /\ IsFunction(flushed')
    BY <2>1 DEF IInv, Shape, IsFunction
  <2>3. /\ policy' \in [Replica -> {"lww", "vector_clock"}] /\ torn' \in [Replica -> BOOLEAN]
        /\ configured = "vector_clock" => \A r \in Replica : policy'[r] = "vector_clock"
    BY <2>1 DEF IInv, TypeOK, VectorInv
  <2>4. ASSUME configured = "vector_clock"
        PROVE  /\ \A r \in Replica : Operations(r)' \subseteq Operations(r)
               /\ FlushedAreKnown' /\ OfReplicas' /\ \A op \in owed' : Kept(op)'
    BY <2>1, <2>4 DEF IInv, EditInv, Operations, FlushedAreKnown, PeerKnows, OfReplicas, Kept
  <2>5. QED
    BY <2>1, <2>2, <2>3, <2>4, RestPreserves
<1>2. ASSUME NEW r \in Replica, NEW k \in Key, NEW wall \in Wall, Delete(r, k, wall)
      PROVE  IInv'
  <2>1. Edit(r, DelKey(Edited(r, k, None, wall)), Edited(r, k, None, wall)) /\ UNCHANGED idempotency_keys
    BY <1>2 DEF Delete
  <2>2. None \in Value \cup {None}
    OBVIOUS
  <2>3. QED
    BY <2>1, <2>2, EditPreserves
<1>3. ASSUME NEW r \in Replica, NEW k \in Key, NEW wall \in Wall, NEW value \in Value, Put(r, k, value, wall)
      PROVE  IInv'
  <2>1. Edit(r, AutoKey(Edited(r, k, value, wall)), Edited(r, k, value, wall)) /\ UNCHANGED idempotency_keys
    BY <1>3 DEF Put
  <2>2. QED
    BY <2>1, EditPreserves
<1>4. ASSUME NEW r \in Replica, NEW k \in Key, NEW wall \in Wall, NEW value \in Value,
             NEW q \in Request, PutRequest(r, q, k, value, wall)
      PROVE  IInv'
  <2>1. /\ Edit(r, ClientKey(q), Edited(r, k, value, wall))
        /\ idempotency_keys' = [idempotency_keys EXCEPT ![r] = @ \cup {q}]
    BY <1>4 DEF PutRequest
  <2>2. QED
    BY <2>1, EditPreserves
<1>5. ASSUME NEW r \in Replica, \/ \E record \in seen : ApplyRemote(r, record)
                                \/ \E p \in Replica : SyncFromPeer(r, p)
                                \/ FlushPendingSync(r)
                                \/ Flush(r) \/ Replay(r) \/ Restart(r) \/ Tear(r)
      PROVE  IInv'
  BY <1>5, ApplyRemotePreserves, SyncFromPeerPreserves, FlushPendingSyncPreserves, FlushPreserves,
     ProcessPreserves
<1>6. QED
  BY <1>1, <1>2, <1>3, <1>4, <1>5 DEF Next

-----------------------------------------------------------------------------
(* What a step does to the records that are there. *)

\* y is x or comes after it; what has no record yet may get any.
AtMost(x, y) ==
  x = None \/ (y # None /\ (x = y \/ (HappensBefore(x.vector, y.vector) /\ x.version < y.version)))

\* An edit comes after the record it edits.
LEMMA EditedFollows ==
  ASSUME TypeOK, NEW r \in Replica, NEW k \in Key, NEW value \in Value \cup {None}, NEW wall \in Wall
  PROVE  AtMost(store[r][k], Edited(r, k, value, wall))
<1> DEFINE local == store[r][k]
           rec == Edited(r, k, value, wall)
<1>1. SUFFICES ASSUME local # None PROVE AtMost(local, rec)
  BY DEF AtMost
<1>2. local.vector \in [Replica -> Nat] /\ local.version \in Nat
  BY <1>1 DEF TypeOK, Record
<1>3. rec \in Record
  BY EditedType
<1>4. rec.vector = Tick(local.vector, r) /\ rec.version = local.version + 1
  BY <1>1 DEF Edited
<1>5. HappensBefore(local.vector, Tick(local.vector, r))
  BY <1>2, TickFacts DEF HappensBefore
<1> HIDE DEF local, rec
<1>6. QED
  BY <1>2, <1>3, <1>4, <1>5, NoneAssumption DEF AtMost

\* The merge of two records comes after both.
LEMMA MergedFollows ==
  ASSUME NEW r \in Replica, NEW x \in Record, NEW y \in Record
  PROVE  LET z == Merged(x, y, r)
         IN /\ HappensBefore(x.vector, z.vector) /\ x.version < z.version
            /\ HappensBefore(y.vector, z.vector) /\ y.version < z.version
<1> DEFINE m == Merge(x.vector, y.vector)
           z == Merged(x, y, r)
<1>1. /\ x.vector \in [Replica -> Nat] /\ y.vector \in [Replica -> Nat]
      /\ x.version \in Nat /\ y.version \in Nat
  BY DEF Record
<1>2. /\ m \in [Replica -> Nat]
      /\ \A p \in Replica : x.vector[p] <= m[p] /\ y.vector[p] <= m[p]
  BY <1>1, MergeFacts
<1>3. z.vector = Tick(m, r) /\ z.version = Larger(x.version, y.version) + 1
  <2>1. ResolveLww(x, y) \in Record
    BY DEF ResolveLww
  <2>2. QED
    BY <2>1 DEF Merged, Record
<1> HIDE DEF m, z
<1>4. /\ Tick(m, r)[r] = m[r] + 1
      /\ \A p \in Replica : m[p] <= Tick(m, r)[p] /\ Tick(m, r)[p] \in Nat
  BY <1>2, TickFacts
<1>5. /\ \A p \in Replica : x.vector[p] <= Tick(m, r)[p] /\ y.vector[p] <= Tick(m, r)[p]
      /\ x.vector[r] < Tick(m, r)[r] /\ y.vector[r] < Tick(m, r)[r]
  BY <1>1, <1>2, <1>4
<1>6. x.version < z.version /\ y.version < z.version
  BY <1>1, <1>3 DEF Larger
<1>7. \A v \in [Replica -> Nat] : v[r] < Tick(m, r)[r] => v # Tick(m, r)
  BY <1>4
<1>8. HappensBefore(x.vector, z.vector) /\ HappensBefore(y.vector, z.vector)
  BY <1>1, <1>3, <1>5, <1>7 DEF HappensBefore
<1>9. QED
  BY <1>6, <1>8 DEF z

\* What apply_remote stores is at most later than both records.
LEMMA ResolvedFollows ==
  ASSUME TypeOK, VectorInv, NEW r \in Replica, NEW k \in Key, NEW remote \in seen, remote.key = k
  PROVE  /\ AtMost(store[r][k], Resolved(r, store[r][k], remote))
         /\ AtMost(remote, Resolved(r, store[r][k], remote))
<1> DEFINE local == store[r][k]
<1>1. remote \in Record /\ remote # None /\ policy[r] = "vector_clock"
  BY NoneAssumption DEF TypeOK, VectorInv
<1>2. CASE local = None
  BY <1>1, <1>2 DEF Resolved, AtMost
<1>3. CASE local # None
  <2>1. Resolved(r, local, remote) = ResolveVector(local, remote, r)
    BY <1>1, <1>3 DEF Resolved
  <2>2. local \in seen /\ local \in Record /\ local.key = k
    BY <1>3 DEF TypeOK, VectorInv, StoredAreSeen
  <2>3. local.vector \in [Replica -> Nat] /\ remote.vector \in [Replica -> Nat]
    BY <1>1, <2>2 DEF Record
  <2>4. CASE HappensBefore(remote.vector, local.vector) \/ remote.vector = local.vector
    <3>1. ~HappensBefore(local.vector, remote.vector)
      BY <2>3, <2>4 DEF HappensBefore
    <3>2. ResolveVector(local, remote, r) = local
      BY <2>4, <3>1 DEF ResolveVector
    <3>3. remote = local \/ (HappensBefore(remote.vector, local.vector)
                              /\ remote.version < local.version)
      BY <2>2, <2>4, VectorsOrder
    <3>4. QED
      BY <1>3, <2>1, <3>2, <3>3 DEF AtMost
  <2>5. CASE /\ HappensBefore(local.vector, remote.vector)
             /\ ~(HappensBefore(remote.vector, local.vector) \/ remote.vector = local.vector)
    <3>1. Resolved(r, local, remote) = remote
      BY <2>1, <2>5 DEF ResolveVector
    <3>2. local.version < remote.version
      BY <2>2, <2>5, VectorsOrder
    <3>3. QED
      BY <1>1, <2>5, <3>1, <3>2 DEF AtMost
  <2>6. CASE /\ ~HappensBefore(local.vector, remote.vector)
             /\ ~(HappensBefore(remote.vector, local.vector) \/ remote.vector = local.vector)
    <3>1. Resolved(r, local, remote) = Merged(local, remote, r)
      BY <2>1, <2>6 DEF ResolveVector
    <3>2. Resolved(r, local, remote) # None
      BY <1>1, <1>3, <2>2, ResolvedType, NoneAssumption
    <3>3. QED
      BY <1>1, <2>2, <3>1, <3>2, MergedFollows DEF AtMost
  <2>7. QED
    BY <2>4, <2>5, <2>6
<1>4. QED
  BY <1>2, <1>3

\* What a replica stores of a record that comes after its own is that record.
LEMMA ResolvedTakesLater ==
  ASSUME TypeOK, VectorInv, NEW r \in Replica, NEW k \in Key, NEW remote \in seen, remote.key = k,
         AtMost(store[r][k], remote)
  PROVE  Resolved(r, store[r][k], remote) = remote
<1> DEFINE local == store[r][k]
<1>1. remote \in Record /\ remote # None /\ policy[r] = "vector_clock"
  BY NoneAssumption DEF TypeOK, VectorInv
<1>2. CASE local = None
  BY <1>2 DEF Resolved
<1>3. CASE local # None
  <2>1. Resolved(r, local, remote) = ResolveVector(local, remote, r)
    BY <1>1, <1>3 DEF Resolved
  <2>2. local \in Record
    BY <1>3 DEF TypeOK
  <2>3. local.vector \in [Replica -> Nat] /\ remote.vector \in [Replica -> Nat]
    BY <1>1, <2>2 DEF Record
  <2>4. CASE local = remote
    <3>1. ~HappensBefore(local.vector, remote.vector) /\ local.vector = remote.vector
      BY <2>4 DEF HappensBefore
    <3>2. QED
      BY <2>1, <2>4, <3>1 DEF ResolveVector
  <2>5. CASE HappensBefore(local.vector, remote.vector)
    <3>1. ~(HappensBefore(remote.vector, local.vector) \/ remote.vector = local.vector)
      BY <2>3, <2>5 DEF HappensBefore
    <3>2. QED
      BY <2>1, <2>5, <3>1 DEF ResolveVector
  <2>6. QED
    BY <1>3, <2>4, <2>5 DEF AtMost
<1>4. QED
  BY <1>2, <1>3

\* What an exchange leaves in the two stores.
LEMMA SyncedStore ==
  ASSUME TypeOK, NEW r \in Replica, NEW p \in Replica, SyncFromPeer(r, p)
  PROVE  /\ r # p /\ \A q \in Replica : q # r => store'[q] = store[q]
         /\ store'[r] = [k \in Key |-> IF store[p][k] = None THEN store[r][k]
                                       ELSE Resolved(r, store[r][k], store[p][k])]
  BY DEF SyncFromPeer, TypeOK

\* The invariant holds in every reachable state.
THEOREM Invariant == Spec => []IInv
<1>1. Init => IInv
  BY InitEstablishes
<1>2. IInv /\ [Next]_vars => IInv'
  BY StepPreserves
<1>3. QED
  BY <1>1, <1>2, PTL DEF Spec

\* Records stay records, under either policy and after any restart.
THEOREM TypeCorrect == Spec => []TypeOK
<1>1. IInv => TypeOK
  BY DEF IInv
<1>2. QED
  BY <1>1, Invariant, PTL

\* With vector clocks, a vector stands for one record, and the version numbers
\* follow the vectors (tick, merge, _resolve_vector): the tick of the merge and
\* the own counter, which nobody else exceeds, make it so.
THEOREM VectorsAlwaysIdentify == Spec => []VectorsIdentify
<1>1. IInv => VectorsIdentify
  BY VectorsOrder DEF IInv, VectorsIdentify
<1>2. QED
  BY <1>1, Invariant, PTL

\* With vector clocks, an edit that no sync dropped waits at its replica until the peer
\* has an edit under its key: that very edit, unless a client or the engine of another
\* replica used the key again (put, delete, flush_to_peer, _load).
THEOREM EditsAlwaysKept == Spec => []EditsKept
<1>1. IInv => EditsKept
  BY DEF IInv, EditInv, EditsKept, Kept
<1>2. QED
  BY <1>1, Invariant, PTL

-----------------------------------------------------------------------------
\* put, delete, apply_remote, sync_from_peer, _load: a replica never goes back to an
\* earlier record, whichever records arrive late or again.
NeverBack ==
  [][configured = "vector_clock" =>
       \A r \in Replica, k \in Key : AtMost(store[r][k], store'[r][k])]_vars

\* No step of any replica takes a record back.
LEMMA StepNeverBack ==
  ASSUME IInv, [Next]_vars, configured = "vector_clock", NEW r \in Replica, NEW k \in Key
  PROVE  AtMost(store[r][k], store'[r][k])
<1>1. TypeOK /\ VectorInv
  BY DEF IInv
<1>2. AtMost(store[r][k], store[r][k])
  BY DEF AtMost
<1>3. ASSUME NEW q \in Replica, NEW l \in Key, NEW value \in Value \cup {None}, NEW wall \in Wall,
             NEW idem, Edit(q, idem, Edited(q, l, value, wall))
      PROVE  AtMost(store[r][k], store'[r][k])
  <2> DEFINE rec == Edited(q, l, value, wall)
  <2>1. rec.key = l
    BY DEF Edited
  <2>2. store' = [store EXCEPT ![q][rec.key] = rec]
    BY <1>3 DEF Edit
  <2>3. AtMost(store[q][l], rec)
    BY <1>1, EditedFollows
  <2> HIDE DEF rec
  <2>4. \/ r = q /\ k = l /\ store'[r][k] = rec
        \/ store'[r][k] = store[r][k]
    BY <1>1, <2>1, <2>2 DEF TypeOK
  <2>5. QED
    BY <1>2, <2>3, <2>4
<1>4. ASSUME NEW q \in Replica, NEW record \in seen, ApplyRemote(q, record)
      PROVE  AtMost(store[r][k], store'[r][k])
  <2> DEFINE result == Resolved(q, store[q][record.key], record)
  <2>1. record.key \in Key
    BY <1>1 DEF TypeOK, Record
  <2>2. store' = [store EXCEPT ![q][record.key] = result]
    BY <1>4 DEF ApplyRemote
  <2>3. AtMost(store[q][record.key], result)
    BY <1>1, <2>1, ResolvedFollows
  <2> HIDE DEF result
  <2>4. \/ r = q /\ k = record.key /\ store'[r][k] = result
        \/ store'[r][k] = store[r][k]
    BY <1>1, <2>1, <2>2 DEF TypeOK
  <2>5. QED
    BY <1>2, <2>3, <2>4
<1>5. ASSUME NEW q \in Replica, NEW p \in Replica, SyncFromPeer(q, p)
      PROVE  AtMost(store[r][k], store'[r][k])
  <2>1. CASE r # q
    BY <1>1, <1>2, <1>5, <2>1, SyncedStore
  <2>2. CASE r = q /\ store[p][k] = None
    BY <1>1, <1>2, <1>5, <2>2, SyncedStore
  <2>3. CASE r = q /\ store[p][k] # None
    <3>1. store'[r][k] = Resolved(r, store[r][k], store[p][k])
      <4>1. store'[q] = [key \in Key |-> IF store[p][key] = None THEN store[q][key]
                                         ELSE Resolved(q, store[q][key], store[p][key])]
        BY <1>1, <1>5, SyncedStore
      <4>2. store'[q][k] = Resolved(q, store[q][k], store[p][k])
        BY <2>3, <4>1
      <4>3. QED
        BY <2>3, <4>2
    <3>2. store[p][k] \in seen /\ store[p][k].key = k
      BY <1>1, <2>3 DEF TypeOK, VectorInv, StoredAreSeen
    <3>3. QED
      BY <1>1, <3>1, <3>2, ResolvedFollows
  <2>4. QED
    BY <2>1, <2>2, <2>3
<1>6. CASE \E q \in Replica, l \in Key, wall \in Wall :
             Delete(q, l, wall) \/ \E value \in Value : Put(q, l, value, wall)
  <2>1. PICK q \in Replica, l \in Key, wall \in Wall :
          Delete(q, l, wall) \/ \E value \in Value : Put(q, l, value, wall)
    BY <1>6
  <2>2. CASE Delete(q, l, wall)
    BY <1>3, <2>2 DEF Delete
  <2>3. CASE \E value \in Value : Put(q, l, value, wall)
    BY <1>3, <2>3 DEF Put
  <2>4. QED
    BY <2>1, <2>2, <2>3
<1>7. CASE \E q \in Replica, l \in Key, wall \in Wall, value \in Value, request \in Request :
             PutRequest(q, request, l, value, wall)
  BY <1>3, <1>7 DEF PutRequest
<1>8. CASE UNCHANGED store
  BY <1>2, <1>8
<1>9. UNCHANGED vars => UNCHANGED store
  BY DEF vars, replicas
<1>10. ASSUME NEW q \in Replica, FlushPendingSync(q) \/ Flush(q) \/ Replay(q) \/ Restart(q) \/ Tear(q)
       PROVE  UNCHANGED store
  BY <1>10 DEF FlushPendingSync, Flush, StartFlush, FlushOne, EndFlush, Replay, Restart, Tear, replicas
<1>11. QED
  BY <1>4, <1>5, <1>6, <1>7, <1>8, <1>9, <1>10 DEF Next

\* For any number of replicas and any exchanges, what a replica has is replaced only by
\* what comes after it (apply_remote, _resolve_vector).
THEOREM NeverBackAlways == Spec => NeverBack
<1>1. IInv /\ [Next]_vars =>
        [configured = "vector_clock" =>
           \A r \in Replica, k \in Key : AtMost(store[r][k], store'[r][k])]_vars
  BY StepNeverBack
<1>2. QED
  BY <1>1, Invariant, PTL DEF Spec, NeverBack

\* sync_from_peer: the caller ends up with each record of the other replica or with
\* one that comes after it, and an exchange back makes both the same.
ExchangeAgrees ==
  [][configured = "vector_clock" =>
       \A r, p \in Replica : SyncFromPeer(r, p) =>
         /\ \A k \in Key : AtMost(store[p][k], store'[r][k])
         /\ (\A k \in Key : AtMost(store[r][k], store[p][k])) => store'[r] = store'[p]]_vars

\* One exchange.
LEMMA SyncAgrees ==
  ASSUME IInv, configured = "vector_clock", NEW r \in Replica, NEW p \in Replica, SyncFromPeer(r, p)
  PROVE  /\ \A k \in Key : AtMost(store[p][k], store'[r][k])
         /\ (\A k \in Key : AtMost(store[r][k], store[p][k])) => store'[r] = store'[p]
<1>1. TypeOK /\ VectorInv
  BY DEF IInv
<1>2. /\ store'[p] = store[p]
      /\ store'[r] = [k \in Key |-> IF store[p][k] = None THEN store[r][k]
                                    ELSE Resolved(r, store[r][k], store[p][k])]
  BY <1>1, SyncedStore
<1>3. \A k \in Key : store[p][k] # None => store[p][k] \in seen /\ store[p][k].key = k
  BY <1>1 DEF TypeOK, VectorInv, StoredAreSeen
<1>4. ASSUME NEW k \in Key PROVE AtMost(store[p][k], store'[r][k])
  <2>1. CASE store[p][k] = None
    BY <2>1 DEF AtMost
  <2>2. CASE store[p][k] # None
    BY <1>1, <1>2, <1>3, <2>2, ResolvedFollows
  <2>3. QED
    BY <2>1, <2>2
<1>5. ASSUME \A k \in Key : AtMost(store[r][k], store[p][k]) PROVE store'[r] = store'[p]
  <2>1. ASSUME NEW k \in Key PROVE store'[r][k] = store[p][k]
    <3>1. CASE store[p][k] = None
      BY <1>2, <1>5, <3>1 DEF AtMost
    <3>2. CASE store[p][k] # None
      BY <1>1, <1>2, <1>3, <1>5, <3>2, ResolvedTakesLater
    <3>3. QED
      BY <3>1, <3>2
  <2>2. store[p] \in [Key -> Record \cup {None}]
    BY <1>1 DEF TypeOK
  <2>3. QED
    BY <1>2, <2>1, <2>2
<1>6. QED
  BY <1>4, <1>5

\* Two replicas that exchange in both directions, with no edit in between, have the
\* same records (sync_from_peer, called by each of them).
THEOREM ExchangesAgree == Spec => ExchangeAgrees
<1>1. IInv /\ [Next]_vars =>
        [configured = "vector_clock" =>
           \A r, p \in Replica : SyncFromPeer(r, p) =>
             /\ \A k \in Key : AtMost(store[p][k], store'[r][k])
             /\ (\A k \in Key : AtMost(store[r][k], store[p][k])) => store'[r] = store'[p]]_vars
  BY SyncAgrees
<1>2. QED
  BY <1>1, Invariant, PTL DEF Spec, ExchangeAgrees

-----------------------------------------------------------------------------
\* replay_pending_to_peer: the keys presented again are all known to the peer, which
\* would otherwise apply them as operations without a record.
ReplayAddsNothing ==
  [][configured = "vector_clock" => \A r \in Replica : Replay(r) => by_op' = by_op]_vars

\* What a replica has in its file as flushed had reached the peer, also after a crash in
\* a flush; so a replay changes nothing (flush_to_peer, replay_pending_to_peer).
THEOREM ReplaysAddNothing == Spec => ReplayAddsNothing
<1>1. IInv /\ [Next]_vars =>
        [configured = "vector_clock" => \A r \in Replica : Replay(r) => by_op' = by_op]_vars
  <2>1. SUFFICES ASSUME IInv, configured = "vector_clock", NEW r \in Replica, Replay(r)
                 PROVE  by_op' = by_op
    OBVIOUS
  <2>2. \A idem \in applied_ops[r] : PeerKnows(idem)
    BY <2>1 DEF IInv, EditInv, FlushedAreKnown
  <2>3. QED
    BY <2>1, <2>2 DEF Replay
<1>2. QED
  BY <1>1, Invariant, PTL DEF Spec, ReplayAddsNothing
=============================================================================

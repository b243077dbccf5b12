----------------------------- MODULE OfflineSync -----------------------------
(***************************************************************************)
(* The offline sync engine: replicas that edit records on their own        *)
(* (offline_sync.py), keep them in a file (platform/persistent_sync.py),   *)
(* exchange them with each other, and flush what is pending to a server,   *)
(* the peer, that applies an operation once per idempotency key.           *)
(*                                                                         *)
(* Every operation writes the whole file before it returns, so memory and  *)
(* file agree between operations and are one state here, except during     *)
(* flush_to_peer, which writes the file once, after the last operation.    *)
(***************************************************************************)
EXTENDS Integers, FiniteSets

CONSTANTS
  Replica,    \* replica ids; only their order matters
  Key, Value,
  Wall,       \* what the clock of a replica may show
  Request,    \* idempotency keys that clients choose
  None,       \* no record; the value of a deleted one
  Policies,   \* the policies the replicas may be created with
  MaxEdits, MaxApplied   \* bounds of the model: edits, and single records applied

ASSUME ReplicaAssumption == Replica \subseteq Nat /\ Wall \subseteq Nat
ASSUME PolicyAssumption == Policies \subseteq {"lww", "vector_clock"}

\* replica: who wrote the value.
Record == [key : Key, value : Value \cup {None}, replica : Replica, wall : Wall \cup {0},
           vector : [Replica -> Nat], version : Nat]

ASSUME NoneAssumption == None \notin Record

VARIABLES
  store,             \* store[r][k]: a record or None
  pending_ops,       \* pending_ops[r]: operations that wait for a flush
  applied_ops,       \* applied_ops[r]: idempotency keys flushed by r, in the file
  idempotency_keys,  \* idempotency_keys[r]: keys of clients that r has taken
  flushed,           \* flushed[r]: keys done by the flush under way, None if there is none
  policy,            \* policy[r]
  torn,              \* torn[r]: the file does not parse, the replica does not load
  by_op,             \* the peer: the operations it has applied
  configured,        \* the policy all replicas were created with
  seen,              \* history: every record that was ever in a store
  owed,              \* history: operations queued and not dropped by sync_from_peer
  edits, applied     \* steps counted against the bounds

replicas == <<store, pending_ops, applied_ops, idempotency_keys, policy, torn>>
counts == <<edits, applied>>
vars == <<replicas, flushed, by_op, configured, seen, owed, counts>>

-----------------------------------------------------------------------------
(* Vector clocks and the resolution of conflicts. *)

NoTicks == [r \in Replica |-> 0]
Tick(vector, r) == [vector EXCEPT ![r] = @ + 1]
Larger(m, n) == IF m > n THEN m ELSE n
Merge(v, w) == [r \in Replica |-> Larger(v[r], w[r])]
HappensBefore(v, w) == v # w /\ \A r \in Replica : v[r] <= w[r]

\* The later wall time, then the greater replica id; the local one in a tie.
Newer(x, y) == x.wall > y.wall \/ (x.wall = y.wall /\ x.replica > y.replica)
ResolveLww(local, remote) == IF Newer(remote, local) THEN remote ELSE local

\* Variant with a bug: the merged record keeps the greater version.
MergedSameVersion(local, remote, r) ==
  [ResolveLww(local, remote) EXCEPT
     !.vector = Tick(Merge(local.vector, remote.vector), r),
     !.version = Larger(local.version, remote.version)]

\* Concurrent records: a new record of this replica with one of the values.
Merged(local, remote, r) ==
  [ResolveLww(local, remote) EXCEPT
     !.vector = Tick(Merge(local.vector, remote.vector), r),
     !.version = Larger(local.version, remote.version) + 1]

\* Variant with a bug: of concurrent records each replica keeps its own.
KeepsOwn(local, remote, r) ==
  IF HappensBefore(local.vector, remote.vector) THEN remote ELSE local

ResolveVector(local, remote, r) ==
  CASE HappensBefore(remote.vector, local.vector) \/ remote.vector = local.vector -> local
    [] HappensBefore(local.vector, remote.vector) -> remote
    [] OTHER -> Merged(local, remote, r)

\* What apply_remote stores.
Resolved(r, local, remote) ==
  CASE local = None -> remote
    [] local # None /\ policy[r] = "lww" -> ResolveLww(local, remote)
    [] OTHER -> ResolveVector(local, remote, r)

-----------------------------------------------------------------------------
\* The next edit of key k at replica r.
Edited(r, k, value, wall) ==
  LET local == store[r][k]
  IN [key |-> k, value |-> value, replica |-> r, wall |-> wall,
      vector |-> Tick(IF local = None THEN NoTicks ELSE local.vector, r),
      version |-> IF local = None THEN 1 ELSE local.version + 1]

Operation(r, idem, record) == [replica |-> r, idem |-> idem, record |-> record]

\* Idempotency keys: of a client, of put and delete, and of records queued by a
\* version of the engine that kept no operations.
ClientKey(q) == <<"client", q>>
ClientKeys == {ClientKey(q) : q \in Request}
AutoKey(rec) == <<"auto", rec.key, rec.version, rec.wall>>
DelKey(rec) == <<"del", rec.key, rec.version, rec.wall>>
LegacyKey(rec) == <<"legacy", rec.key, rec.version>>

\* The first edit of a key by a replica, from before operations were kept.
FirstEdit(r, k) == [key |-> k, value |-> None, replica |-> r, wall |-> 0,
                    vector |-> Tick(NoTicks, r), version |-> 1]

\* Each replica is new or loads the file of that older version: then what is in
\* the queue becomes pending.
Init ==
  /\ \E old \in [Replica -> SUBSET Key] :
       /\ store = [r \in Replica |-> [k \in Key |-> IF k \in old[r] THEN FirstEdit(r, k) ELSE None]]
       /\ pending_ops = [r \in Replica |->
                     {Operation(r, LegacyKey(FirstEdit(r, k)), FirstEdit(r, k)) : k \in old[r]}]
       /\ seen = UNION {{FirstEdit(r, k) : k \in old[r]} : r \in Replica}
  /\ owed = UNION {pending_ops[r] : r \in Replica}
  /\ applied_ops = [r \in Replica |-> {}]
  /\ idempotency_keys = [r \in Replica |-> {}]
  /\ flushed = [r \in Replica |-> None]
  /\ configured \in Policies
  /\ policy = [r \in Replica |-> configured]
  /\ torn = [r \in Replica |-> FALSE]
  /\ by_op = {}
  /\ edits = Cardinality(seen) /\ applied = 0

\* The process of the replica runs and is not inside a flush.
Idle(r) == ~torn[r] /\ flushed[r] = None

-----------------------------------------------------------------------------
\* The record is stored and its operation queued.
Edit(r, idem, record) ==
  /\ Idle(r) /\ edits < MaxEdits
  /\ store' = [store EXCEPT ![r][record.key] = record]
  /\ pending_ops' = [pending_ops EXCEPT ![r] = @ \cup {Operation(r, idem, record)}]
  /\ seen' = seen \cup {record}
  /\ owed' = owed \cup {Operation(r, idem, record)}
  /\ edits' = edits + 1
  /\ UNCHANGED <<applied_ops, flushed, policy, torn, by_op, configured, applied>>

Put(r, k, value, wall) ==
  LET record == Edited(r, k, value, wall)
  IN Edit(r, AutoKey(record), record) /\ UNCHANGED idempotency_keys

\* put with an idempotency key: asked again under the same key of the store it changes
\* nothing, under another one it is an edit like any other.
IsRetry(r, q, k) == q \in idempotency_keys[r] /\ store[r][k] # None
PutRequest(r, q, k, value, wall) ==
  /\ ~IsRetry(r, q, k)
  /\ Edit(r, ClientKey(q), Edited(r, k, value, wall))
  /\ idempotency_keys' = [idempotency_keys EXCEPT ![r] = @ \cup {q}]

Delete(r, k, wall) ==
  LET record == Edited(r, k, None, wall)
  IN Edit(r, DelKey(record), record) /\ UNCHANGED idempotency_keys

\* A record that some replica has had arrives, late or for a second time.
ApplyRemote(r, record) ==
  LET result == Resolved(r, store[r][record.key], record)
  IN /\ Idle(r) /\ applied < MaxApplied
     /\ store' = [store EXCEPT ![r][record.key] = result]
     /\ seen' = seen \cup {result}
     /\ applied' = applied + 1
     /\ UNCHANGED <<pending_ops, applied_ops, idempotency_keys, flushed, policy, torn,
                    by_op, configured, owed, edits>>

\* The queue of r is emptied, whether or not anybody was sent what was in it.
Clear(r) ==
  /\ pending_ops' = [pending_ops EXCEPT ![r] = {}]
  /\ owed' = owed \ pending_ops[r]

\* sync_from_peer with all records of another replica.
SyncFromPeer(r, p) ==
  LET synced == [k \in Key |-> IF store[p][k] = None THEN store[r][k]
                               ELSE Resolved(r, store[r][k], store[p][k])]
  IN /\ Idle(r) /\ ~torn[p] /\ r # p
     /\ store' = [store EXCEPT ![r] = synced]
     /\ seen' = seen \cup {synced[k] : k \in {key \in Key : synced[key] # None}}
     /\ Clear(r)
     /\ UNCHANGED <<applied_ops, idempotency_keys, flushed, policy, torn, by_op,
                    configured, counts>>

\* flush_pending_sync of the coordinator: sync_from_peer with the own queue,
\* which the store already has.
FlushPendingSync(r) ==
  /\ Idle(r) /\ pending_ops[r] # {}
  /\ Clear(r)
  /\ UNCHANGED <<store, applied_ops, idempotency_keys, policy, torn, flushed, by_op,
                 configured, seen, counts>>

-----------------------------------------------------------------------------
(* flush_to_peer. *)

PeerKnows(idem) == \E op \in by_op : op.idem = idem

\* The peer applies an operation unless it knows its idempotency key.
PeerApply(op) == by_op' = IF PeerKnows(op.idem) THEN by_op ELSE by_op \cup {op}

StartFlush(r) ==
  /\ Idle(r) /\ pending_ops[r] # {}
  /\ flushed' = [flushed EXCEPT ![r] = {}]
  /\ UNCHANGED <<replicas, by_op, configured, seen, owed, counts>>

\* The loop passes over keys that were flushed before.
ToFlush(r) == {op \in pending_ops[r] : op.idem \notin applied_ops[r] \cup flushed[r]}

FlushOne(r) ==
  /\ ~torn[r] /\ flushed[r] # None
  /\ \E op \in ToFlush(r) :
       /\ PeerApply(op)
       /\ flushed' = [flushed EXCEPT ![r] = @ \cup {op.idem}]
  /\ UNCHANGED <<replicas, configured, seen, owed, counts>>

\* Variant with a bug: the queue is cleared without a look at the peer.
AnyTime(r) == TRUE
AllFlushed(r) == ToFlush(r) = {}

EndFlush(r) ==
  /\ ~torn[r] /\ flushed[r] # None /\ AllFlushed(r)
  /\ pending_ops' = [pending_ops EXCEPT ![r] = {}]
  /\ applied_ops' = [applied_ops EXCEPT ![r] = @ \cup flushed[r]]
  /\ flushed' = [flushed EXCEPT ![r] = None]
  /\ UNCHANGED <<store, idempotency_keys, policy, torn, by_op, configured, seen, owed, counts>>

\* replay_pending_to_peer presents the keys again, without their records.
Replay(r) ==
  /\ Idle(r)
  /\ by_op' = by_op \cup {Operation(r, idem, None) : idem \in {i \in applied_ops[r] : ~PeerKnows(i)}}
  /\ UNCHANGED <<replicas, flushed, configured, seen, owed, counts>>

\* Variant with a bug: the loader takes a policy that an old file does not have.
PolicyOfOldFile == None

\* A new process has the default policy.
LoadedPolicy == "vector_clock"

\* A new process loads the file: a flush under way is forgotten, and the policy
\* in the file is not loaded.
Restart(r) ==
  /\ ~torn[r]
  /\ flushed' = [flushed EXCEPT ![r] = None]
  /\ policy' = [policy EXCEPT ![r] = LoadedPolicy]
  /\ UNCHANGED <<store, pending_ops, applied_ops, idempotency_keys, torn, by_op,
                 configured, seen, owed, counts>>

\* The process dies while it writes the file in place.
Tear(r) ==
  /\ ~torn[r]
  /\ torn' = [torn EXCEPT ![r] = TRUE]
  /\ UNCHANGED <<store, pending_ops, applied_ops, idempotency_keys, flushed, policy, by_op,
                 configured, seen, owed, counts>>

Flush(r) == StartFlush(r) \/ FlushOne(r) \/ EndFlush(r)

Next == \E r \in Replica :
  \/ \E k \in Key, wall \in Wall :
       \/ Delete(r, k, wall)
       \/ \E value \in Value :
            Put(r, k, value, wall) \/ \E q \in Request : PutRequest(r, q, k, value, wall)
  \/ \E record \in seen : ApplyRemote(r, record)
  \/ \E p \in Replica : SyncFromPeer(r, p)
  \/ FlushPendingSync(r)
  \/ Flush(r)
  \/ Replay(r)
  \/ Restart(r)
  \/ Tear(r)

Spec == Init /\ [][Next]_vars

\* Replicas that run keep exchanging, and a flush goes on.
FairSpec ==
  /\ Spec
  /\ \A r \in Replica : /\ WF_vars(FlushOne(r) \/ EndFlush(r))
                        /\ \A p \in Replica : SF_vars(SyncFromPeer(r, p))

-----------------------------------------------------------------------------
(* Properties. *)

TypeOK ==
  /\ store \in [Replica -> [Key -> Record \cup {None}]]
  /\ \A r \in Replica : \A k \in Key : store[r][k] # None => store[r][k].key = k
  /\ \A r \in Replica : /\ \A op \in pending_ops[r] : op.replica = r /\ op.record \in Record
                        /\ idempotency_keys[r] \subseteq Request
  /\ policy \in [Replica -> {"lww", "vector_clock"}] /\ torn \in [Replica -> BOOLEAN]
  /\ seen \subseteq Record

\* Vector clocks tell the truth, after any edits, exchanges, stale or repeated
\* records and restarts: two records of a key with the same vector are the same
\* record, and one that happens before another has a lower version.
VectorsIdentify == configured = "vector_clock" =>
  \A x, y \in seen : x.key = y.key =>
    /\ x.vector = y.vector => x = y
    /\ HappensBefore(x.vector, y.vector) => x.version < y.version

\* An edit is pending at its replica until the peer has an edit under its key, and a
\* crash in a flush does not change that; only sync_from_peer drops one.  What the
\* peer has is that very edit, unless the key was used for another: by a client, or
\* by the engine of another replica.
EditsKept == configured = "vector_clock" =>
  \A op \in owed :
    \/ torn[op.replica]
    \/ op \in pending_ops[op.replica]
    \/ \E got \in by_op :
         /\ got.idem = op.idem /\ got.record # None
         /\ got.replica = op.replica => got.record = op.record \/ op.idem \in ClientKeys

\* When the edits end, two replicas that keep exchanging come to agree, though each
\* merge of concurrent records makes a new one.
Agree == \A r, p \in Replica : torn[r] \/ torn[p] \/ store[r] = store[p]
Converges == configured = "vector_clock" => <>[]Agree
=============================================================================

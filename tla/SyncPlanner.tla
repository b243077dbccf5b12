----------------------------- MODULE SyncPlanner -----------------------------
(***************************************************************************)
(* The opportunistic sync queue (service_continuity_execution/sync.py): a  *)
(* process enqueues items, applies what an opportunity allows, persists    *)
(* queue and ledger, and may die; the next one loads what was persisted.   *)
(*                                                                         *)
(* Deadlines only break ties in the order of items; an opportunity that is *)
(* not active, or whose budget is negative, changes nothing.               *)
(***************************************************************************)
EXTENDS Integers, FiniteSets

CONSTANTS
  Items,          \* what may be enqueued
  Opportunities,  \* that come up, active and with a budget
  Plenty,         \* an opportunity any single item fits
  None            \* nothing persisted

TrafficClass == {"EMERGENCY", "COMMUNICATION", "LEARNING", "BACKGROUND", "OTHER"}

SyncItem == [id : Nat, class : TrafficClass, size : Nat, priority : Nat, key : STRING]

\* budget: the smaller of max_bytes and data_budget_remaining.
SyncOpportunity ==
  [allowed : SUBSET TrafficClass, floor : Nat, budget : Nat,
   trusted : BOOLEAN, metered : BOOLEAN, low_battery : BOOLEAN, local_peer : BOOLEAN]

ASSUME ItemsAssumption == Items \subseteq SyncItem
ASSUME OpportunitiesAssumption ==
  Plenty \in Opportunities /\ Opportunities \subseteq SyncOpportunity

VARIABLES
  queue,     \* the items enqueued
  applied,   \* those with the applied flag
  ledger,    \* applied_ledger, idempotency keys
  disk,      \* what was persisted
  sent       \* history: the items plan_and_apply has told callers to apply

vars == <<queue, applied, ledger, disk, sent>>

Saved == [queue : SUBSET Items, applied : SUBSET Items, ledger : SUBSET STRING]
ASSUME NoneAssumption == None \notin Saved

Image == [queue |-> queue, applied |-> applied, ledger |-> ledger]

Init ==
  /\ queue = {} /\ applied = {} /\ ledger = {}
  /\ disk = None
  /\ sent = [i \in Items |-> 0]

\* Variant with a bug: what was applied may be enqueued again.
IsPending(i) == \E q \in queue \ applied : q.id = i.id

IsQueued(i) == \E q \in queue : q.id = i.id

Enqueue(i) ==
  /\ ~IsQueued(i)
  /\ queue' = queue \cup {i}
  /\ UNCHANGED <<applied, ledger, disk, sent>>

-----------------------------------------------------------------------------
\* What the opportunity o admits.
Eligible(i, o) ==
  /\ i.class \in IF o.low_battery THEN {"EMERGENCY", "COMMUNICATION"} ELSE o.allowed
  /\ i.priority >= o.floor
  /\ o.trusted \/ i.class # "EMERGENCY"
  /\ o.metered => i.priority >= 80 \/ i.class \in {"EMERGENCY", "COMMUNICATION"}
  /\ o.local_peer => i.class \in {"LEARNING", "COMMUNICATION"}

Candidates(o) == {i \in queue \ applied : Eligible(i, o)}

\* Variant with a bug: the lowest priority goes first.
LowestFirst(i, j) == i.priority < j.priority \/ (i.priority = j.priority /\ i.id < j.id)

Before(i, j) == i.priority > j.priority \/ (i.priority = j.priority /\ i.id < j.id)

\* The sum of the sizes of the items of S, counted byte by byte.
Bytes(S) == Cardinality(UNION {{i} \X (1 .. i.size) : i \in S})

\* Variant with a bug: the ledger alone is looked at, not what this call takes.
KeysOfLedger(taken, i) == ledger

\* The ledger when i's turn comes, if the candidates in taken are applied.
KeysBefore(taken, i) == ledger \cup {t.key : t \in {u \in taken : Before(u, i)}}

Fits(taken, i, o) == Bytes({t \in taken : Before(t, i)}) + i.size <= o.budget

\* The loop of plan_and_apply: in order of priority, what is not in the ledger and
\* still fits.
Greedy(taken, o) ==
  taken = {i \in Candidates(o) : i.key \notin KeysBefore(taken, i) /\ Fits(taken, i, o)}

\* Variants with a bug: what was done before is left for later; what does not fit
\* is taken for done.
NeverDone(taken, o) == {}
DoneOrTooBig(taken, o) == Candidates(o) \ taken

\* The candidates that only get their flag.
AlreadyDone(taken, o) == {i \in Candidates(o) : i.key \in KeysBefore(taken, i)}

PlanAndApply(o) ==
  \E taken \in SUBSET Candidates(o) :
    /\ Greedy(taken, o)
    /\ applied' = applied \cup taken \cup AlreadyDone(taken, o)
    /\ ledger' = ledger \cup {t.key : t \in taken}
    /\ sent' = [i \in Items |-> IF i \in taken THEN sent[i] + 1 ELSE sent[i]]
    /\ UNCHANGED <<queue, disk>>

-----------------------------------------------------------------------------
Persist ==
  /\ disk' = Image
  /\ UNCHANGED <<queue, applied, ledger, sent>>

\* A new process, after one that persisted what it applied before it ended, loads
\* the file, or starts an empty planner where there is none.
Restart ==
  /\ IF disk = None
     THEN ledger = {} /\ queue' = {} /\ applied' = {}
     ELSE ledger = disk.ledger /\ queue' = disk.queue /\ applied' = disk.applied
  /\ UNCHANGED <<ledger, disk, sent>>

Next ==
  \/ \E i \in Items : Enqueue(i)
  \/ \E o \in Opportunities : PlanAndApply(o)
  \/ Persist
  \/ Restart

Spec == Init /\ [][Next]_vars

-----------------------------------------------------------------------------
\* Type invariant.  No id is queued twice.
TypeOK ==
  /\ queue \subseteq Items /\ applied \subseteq queue
  /\ \A i, j \in queue : i.id = j.id => i = j
  /\ ledger \subseteq {i.key : i \in Items}
  /\ disk \in Saved \cup {None}
  /\ sent \in [Items -> Nat]

\* SYNC_EXACTLY_ONCE: an idempotency key is applied once, whichever items carry it
\* and however often an opportunity is replayed or the planner is loaded again.
ExactlyOnce ==
  \A i, j \in Items : i.key = j.key => sent[i] <= 1 /\ (sent[i] = 1 /\ sent[j] = 1 => i = j)

\* No item is written off: what has the applied flag was applied, or one with the
\* same key was.
AppliedMeansSent ==
  \A i \in applied : \E j \in Items : j.key = i.key /\ sent[j] > 0

\* An item never overtakes an admitted one of higher priority that is no larger.
NoInversion ==
  [][\A o \in Opportunities : PlanAndApply(o) =>
       ~\E i \in Items, j \in queue \ applied' :
          /\ sent'[i] > sent[i]
          /\ Eligible(j, o)
          /\ j.priority > i.priority /\ j.size <= i.size]_vars
=============================================================================

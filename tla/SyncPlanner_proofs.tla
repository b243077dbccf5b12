------------------------- MODULE SyncPlanner_proofs -------------------------
(***************************************************************************)
(* Theorems about SyncPlanner, for every set of items and opportunities.   *)
(***************************************************************************)
EXTENDS SyncPlanner, FiniteSetTheorems, TLAPS

\* What is persisted is what a planner can hold, and what it flags was applied.
DiskOK ==
  disk # None =>
    /\ disk.applied \subseteq disk.queue
    /\ \A i, j \in disk.queue : i.id = j.id => i = j
    /\ disk.ledger \subseteq {i.key : i \in Items}
    /\ \A i \in disk.applied : \E j \in Items : j.key = i.key /\ sent[j] > 0

\* The ledger of the process holds the keys of all that was ever applied.
LedgerComplete == \A i \in Items : sent[i] > 0 <=> (sent[i] = 1 /\ i.key \in ledger)
LedgerSent == \A k \in ledger : \E i \in Items : i.key = k /\ sent[i] > 0

Inv == TypeOK /\ ExactlyOnce /\ AppliedMeansSent /\ DiskOK /\ LedgerComplete /\ LedgerSent

\* Items come into the queue one at a time, and from a file that held a queue.
Finite == IsFiniteSet(queue) /\ (disk # None => IsFiniteSet(disk.queue))

\* The types of an item's fields.
LEMMA ItemFields ==
  ASSUME NEW i \in Items
  PROVE  i.id \in Nat /\ i.size \in Nat /\ i.priority \in Nat /\ i.key \in STRING
BY ItemsAssumption DEF SyncItem

\* An empty planner satisfies the invariant.
LEMMA InitInv == Init => Inv
<1> SUFFICES ASSUME Init PROVE Inv
  OBVIOUS
<1>1. \A i \in Items : sent[i] = 0  BY DEF Init
<1>2. TypeOK  BY DEF Init, TypeOK
<1> QED
  BY <1>1, <1>2 DEF Init, Inv, ExactlyOnce, AppliedMeansSent, DiskOK, LedgerComplete, LedgerSent

\* Two items that one call applies have different keys.
LEMMA TakenKeys ==
  ASSUME TypeOK, NEW o, NEW taken \in SUBSET Candidates(o), Greedy(taken, o),
         NEW i \in taken, NEW j \in taken, i.key = j.key
  PROVE  i = j
<1>1. /\ i \in queue /\ j \in queue /\ i \in Items /\ j \in Items
  BY DEF Candidates, TypeOK
<1>2. i.key \notin KeysBefore(taken, i) /\ j.key \notin KeysBefore(taken, j)
  BY DEF Greedy
<1>3. ~Before(i, j) /\ ~Before(j, i)
  BY <1>2 DEF KeysBefore
<1>4. i.id = j.id
  BY <1>1, <1>3, ItemFields DEF Before
<1> QED  BY <1>1, <1>4 DEF TypeOK

\* One call of plan_and_apply.
LEMMA PlanAndApplyInv ==
  ASSUME Inv, NEW o, PlanAndApply(o)
  PROVE  Inv'
<1>1. PICK taken \in SUBSET Candidates(o) :
        /\ Greedy(taken, o)
        /\ applied' = applied \cup taken \cup AlreadyDone(taken, o)
        /\ ledger' = ledger \cup {t.key : t \in taken}
        /\ sent' = [i \in Items |-> IF i \in taken THEN sent[i] + 1 ELSE sent[i]]
        /\ UNCHANGED <<queue, disk>>
  BY DEF PlanAndApply
<1>2. taken \subseteq queue /\ taken \subseteq Items /\ queue \subseteq Items
  BY DEF Candidates, Inv, TypeOK
<1>3. sent \in [Items -> Nat]  BY DEF Inv, TypeOK
<1>4. \A i \in taken : i.key \notin ledger
  BY <1>1 DEF Greedy, KeysBefore
<1>5. \A i \in taken : sent[i] = 0
  <2> SUFFICES ASSUME NEW i \in taken PROVE sent[i] = 0
    OBVIOUS
  <2>1. i \in Items /\ i.key \notin ledger /\ sent[i] \in Nat  BY <1>2, <1>3, <1>4
  <2> QED  BY <2>1 DEF Inv, LedgerComplete
<1>6. \A i \in Items : sent'[i] = IF i \in taken THEN 1 ELSE sent[i]
  <2> SUFFICES ASSUME NEW i \in Items PROVE sent'[i] = IF i \in taken THEN 1 ELSE sent[i]
    OBVIOUS
  <2>1. sent'[i] = IF i \in taken THEN sent[i] + 1 ELSE sent[i]  BY <1>1
  <2> QED  BY <2>1, <1>5
<1>7. sent' \in [Items -> Nat]
  <2>1. \A i \in Items : sent'[i] \in Nat  BY <1>3, <1>6
  <2> QED  BY <1>1, <2>1
<1>8. \A i \in Items : sent[i] > 0 => sent'[i] > 0
  BY <1>3, <1>6
<1>9. \A i \in taken : i \in Items /\ sent'[i] = 1 /\ sent'[i] > 0 /\ i.key \in ledger'
  BY <1>1, <1>2, <1>6
<1>10. TypeOK'
  <2>1. applied' \subseteq queue'
    BY <1>1, <1>2 DEF AlreadyDone, Candidates, Inv, TypeOK
  <2>2. ledger' \subseteq {i.key : i \in Items}
    BY <1>1, <1>2 DEF Inv, TypeOK
  <2> QED  BY <1>1, <1>7, <2>1, <2>2 DEF Inv, TypeOK
<1>11. LedgerComplete'
  <2> SUFFICES ASSUME NEW i \in Items
               PROVE  sent'[i] > 0 <=> (sent'[i] = 1 /\ i.key \in ledger')
    BY DEF LedgerComplete
  <2>1. CASE i \in taken  BY <1>9, <2>1
  <2>2. CASE i \notin taken
    <3>1. sent'[i] = sent[i] /\ sent[i] \in Nat  BY <1>3, <1>6, <2>2
    <3>2. ledger \subseteq ledger'  BY <1>1
    <3> QED  BY <3>1, <3>2 DEF Inv, LedgerComplete
  <2> QED  BY <2>1, <2>2
<1>12. LedgerSent'
  <2> SUFFICES ASSUME NEW k \in ledger'
               PROVE  \E i \in Items : i.key = k /\ sent'[i] > 0
    BY DEF LedgerSent
  <2>1. CASE k \in ledger  BY <1>8, <2>1 DEF Inv, LedgerSent
  <2>2. CASE k \in {t.key : t \in taken}  BY <1>9, <2>2
  <2> QED  BY <1>1, <2>1, <2>2
<1>13. ExactlyOnce'
  <2> SUFFICES ASSUME NEW i \in Items, NEW j \in Items, i.key = j.key
               PROVE  sent'[i] <= 1 /\ (sent'[i] = 1 /\ sent'[j] = 1 => i = j)
    BY DEF ExactlyOnce
  <2>1. sent'[i] \in Nat /\ sent'[j] \in Nat /\ sent[i] \in Nat /\ sent[j] \in Nat
    BY <1>3, <1>7
  <2>2. sent'[i] <= 1  BY <2>1, <1>11 DEF LedgerComplete
  <2>3. CASE i \in taken /\ j \in taken
    <3>1. TypeOK /\ Greedy(taken, o)  BY <1>1 DEF Inv
    <3>2. i = j  BY <2>3, <3>1, TakenKeys
    <3> QED  BY <2>2, <3>2
  <2>4. CASE i \notin taken /\ j \notin taken
    <3>1. sent'[i] = sent[i] /\ sent'[j] = sent[j]  BY <1>6, <2>4
    <3> QED  BY <2>2, <3>1 DEF Inv, ExactlyOnce
  <2>5. CASE i \in taken /\ j \notin taken
    <3>1. j.key \notin ledger /\ sent'[j] = sent[j]  BY <1>4, <1>6, <2>5
    <3>2. ~(sent[j] > 0)  BY <3>1 DEF Inv, LedgerComplete
    <3> QED  BY <2>1, <2>2, <3>1, <3>2
  <2>6. CASE i \notin taken /\ j \in taken
    <3>1. i.key \notin ledger /\ sent'[i] = sent[i]  BY <1>4, <1>6, <2>6
    <3>2. ~(sent[i] > 0)  BY <3>1 DEF Inv, LedgerComplete
    <3> QED  BY <2>1, <2>2, <3>1, <3>2
  <2> QED  BY <2>3, <2>4, <2>5, <2>6
<1>14. AppliedMeansSent'
  <2> SUFFICES ASSUME NEW i \in applied'
               PROVE  \E j \in Items : j.key = i.key /\ sent'[j] > 0
    BY DEF AppliedMeansSent
  <2>1. CASE i \in applied  BY <1>8, <2>1 DEF Inv, AppliedMeansSent
  <2>2. CASE i \in taken  BY <1>9, <2>2
  <2>3. CASE i \in AlreadyDone(taken, o)
    <3>1. i.key \in ledger \/ \E t \in taken : t.key = i.key
      BY <2>3 DEF AlreadyDone, KeysBefore
    <3>2. i.key \in ledger'  BY <1>1, <3>1
    <3> QED  BY <1>12, <3>2 DEF LedgerSent
  <2> QED  BY <1>1, <2>1, <2>2, <2>3
<1>15. DiskOK'
  <2> SUFFICES ASSUME disk # None
               PROVE  /\ disk.applied \subseteq disk.queue
                      /\ \A i, j \in disk.queue : i.id = j.id => i = j
                      /\ disk.ledger \subseteq {i.key : i \in Items}
                      /\ \A i \in disk.applied : \E j \in Items : j.key = i.key /\ sent'[j] > 0
    BY <1>1 DEF DiskOK
  <2> QED  BY <1>8 DEF Inv, DiskOK
<1> QED  BY <1>10, <1>11, <1>12, <1>13, <1>14, <1>15 DEF Inv

\* Enqueueing, applying, persisting and restarting keep the invariant.
LEMMA NextInv == Inv /\ [Next]_vars => Inv'
<1> SUFFICES ASSUME Inv, [Next]_vars PROVE Inv'
  OBVIOUS
<1> USE NoneAssumption
<1>1. ASSUME NEW i \in Items, Enqueue(i) PROVE Inv'
  <2>1. TypeOK'
    BY <1>1 DEF Enqueue, IsQueued, Inv, TypeOK
  <2>2. UNCHANGED <<applied, ledger, disk, sent>>  BY <1>1 DEF Enqueue
  <2> QED  BY <2>1, <2>2 DEF Inv, ExactlyOnce, AppliedMeansSent, DiskOK, LedgerComplete, LedgerSent
<1>2. ASSUME NEW o \in Opportunities, PlanAndApply(o) PROVE Inv'
  BY <1>2, PlanAndApplyInv
<1>3. CASE Persist
  <2>1. disk' = Image /\ UNCHANGED <<queue, applied, ledger, sent>>  BY <1>3 DEF Persist
  <2>2. /\ Image.queue = queue /\ Image.applied = applied /\ Image.ledger = ledger
    BY DEF Image
  <2>3. Image \in Saved
    <3>1. ledger \subseteq STRING  BY ItemFields DEF Inv, TypeOK
    <3> QED  BY <3>1 DEF Image, Saved, Inv, TypeOK
  <2>4. TypeOK'  BY <2>1, <2>3 DEF Inv, TypeOK
  <2>5. DiskOK'  BY <2>1, <2>2 DEF Inv, TypeOK, AppliedMeansSent, DiskOK
  <2> QED  BY <2>1, <2>4, <2>5 DEF Inv, ExactlyOnce, AppliedMeansSent, LedgerComplete, LedgerSent
<1>4. CASE Restart
  <2>1. UNCHANGED <<ledger, disk, sent>>  BY <1>4 DEF Restart
  <2>2. CASE disk = None
    <3>1. queue' = {} /\ applied' = {}  BY <1>4, <2>2 DEF Restart
    <3> QED  BY <2>1, <3>1
             DEF Inv, TypeOK, ExactlyOnce, AppliedMeansSent, DiskOK, LedgerComplete, LedgerSent
  <2>3. CASE disk # None
    <3>1. queue' = disk.queue /\ applied' = disk.applied  BY <1>4, <2>3 DEF Restart
    <3>2. disk \in Saved  BY <2>3 DEF Inv, TypeOK
    <3>3. TypeOK'  BY <2>1, <2>3, <3>1, <3>2 DEF Inv, TypeOK, DiskOK, Saved
    <3>4. AppliedMeansSent'  BY <2>1, <2>3, <3>1 DEF Inv, DiskOK, AppliedMeansSent
    <3> QED  BY <2>1, <3>3, <3>4 DEF Inv, ExactlyOnce, DiskOK, LedgerComplete, LedgerSent
  <2> QED  BY <2>2, <2>3
<1>5. CASE UNCHANGED vars
  BY <1>5 DEF vars, Inv, TypeOK, ExactlyOnce, AppliedMeansSent, DiskOK, LedgerComplete, LedgerSent
<1> QED  BY <1>1, <1>2, <1>3, <1>4, <1>5 DEF Next

\* The invariant holds in every reachable state.
LEMMA Invariance == Spec => []Inv
BY InitInv, NextInv, PTL DEF Spec

\* plan_and_apply leaves the queue as it is; only enqueue and a load change it.
LEMMA FiniteInv == TypeOK /\ Finite /\ [Next]_vars => Finite'
<1> SUFFICES ASSUME TypeOK, Finite, [Next]_vars PROVE Finite'
  OBVIOUS
<1>1. ASSUME NEW i \in Items, Enqueue(i) PROVE Finite'
  <2>1. IsFiniteSet(queue \cup {i})  BY FS_AddElement DEF Finite
  <2> QED  BY <1>1, <2>1 DEF Enqueue, Finite
<1>2. ASSUME NEW o \in Opportunities, PlanAndApply(o) PROVE Finite'
  BY <1>2 DEF PlanAndApply, Finite
<1>3. CASE Persist
  <2>1. disk'.queue = queue  BY <1>3 DEF Persist, Image
  <2> QED  BY <1>3, <2>1 DEF Persist, Finite
<1>4. CASE Restart
  <2>1. queue' = {} \/ (disk # None /\ queue' = disk.queue)  BY <1>4 DEF Restart
  <2>2. IsFiniteSet(queue')  BY <2>1, FS_EmptySet DEF Finite
  <2> QED  BY <1>4, <2>2 DEF Restart, Finite
<1>5. CASE UNCHANGED vars  BY <1>5 DEF vars, Finite
<1> QED  BY <1>1, <1>2, <1>3, <1>4, <1>5 DEF Next

\* The queue is finite in every reachable state.
LEMMA AlwaysFinite == Spec => []Finite
<1>1. Init => Finite  BY FS_EmptySet DEF Init, Finite
<1>2. Spec => []TypeOK  BY Invariance, PTL DEF Inv
<1> QED  BY <1>1, <1>2, FiniteInv, PTL DEF Spec

-----------------------------------------------------------------------------
\* The bytes of finitely many items are finitely many.
LEMMA BytesFinite ==
  ASSUME NEW S \in SUBSET Items, IsFiniteSet(S)
  PROVE  IsFiniteSet(UNION {{i} \X (1 .. i.size) : i \in S})
<1> DEFINE T == {{i} \X (1 .. i.size) : i \in S}
           f == [i \in S |-> {i} \X (1 .. i.size)]
<1>1. f \in Surjection(S, T)  BY DEF Surjection
<1>2. IsFiniteSet(T)  BY <1>1, FS_Surjection
<1>3. ASSUME NEW t \in T PROVE IsFiniteSet(t)
  <2>1. PICK i \in S : t = {i} \X (1 .. i.size)  OBVIOUS
  <2>2. IsFiniteSet(1 .. i.size)  BY FS_Interval, ItemFields
  <2>3. IsFiniteSet({i})  BY FS_Singleton
  <2> QED  BY <2>1, <2>2, <2>3, FS_Product
<1> QED  BY <1>2, <1>3, FS_UNION

\* More items have at least as many bytes.
LEMMA BytesMonotone ==
  ASSUME NEW S \in SUBSET Items, IsFiniteSet(S), NEW T \in SUBSET S
  PROVE  Bytes(T) \in Nat /\ Bytes(S) \in Nat /\ Bytes(T) <= Bytes(S)
<1> DEFINE B(X) == UNION {{i} \X (1 .. i.size) : i \in X}
<1>1. IsFiniteSet(B(S))  BY BytesFinite
<1>2. B(T) \subseteq B(S)  OBVIOUS
<1>3. Cardinality(B(T)) <= Cardinality(B(S)) /\ IsFiniteSet(B(T))  BY <1>1, <1>2, FS_Subset
<1>4. Cardinality(B(T)) \in Nat /\ Cardinality(B(S)) \in Nat
  BY <1>1, <1>3, FS_CardinalityType
<1> QED  BY <1>3, <1>4 DEF Bytes

\* What leaves no room for an item of higher priority leaves none for one that is no
\* smaller and comes later.
LEMMA NoRoomLater ==
  ASSUME TypeOK, Finite, NEW o \in Opportunities, NEW taken \in SUBSET queue,
         NEW i \in Items, NEW j \in Items, j.priority > i.priority, j.size <= i.size,
         Fits(taken, i, o)
  PROVE  Fits(taken, j, o)
<1> DEFINE S == {t \in taken : Before(t, i)}
           T == {t \in taken : Before(t, j)}
<1>1. taken \subseteq Items /\ IsFiniteSet(taken)  BY FS_Subset DEF TypeOK, Finite
<1>2. T \subseteq S
  <2> SUFFICES ASSUME NEW t \in taken, Before(t, j) PROVE Before(t, i)
    OBVIOUS
  <2>1. t \in Items  BY <1>1
  <2>2. t.priority \in Nat /\ j.priority \in Nat /\ i.priority \in Nat  BY <2>1, ItemFields
  <2> QED  BY <2>2 DEF Before
<1>3. S \in SUBSET Items /\ IsFiniteSet(S)  BY <1>1, FS_Subset
<1>4. Bytes(T) \in Nat /\ Bytes(S) \in Nat /\ Bytes(T) <= Bytes(S)
  BY <1>2, <1>3, BytesMonotone
<1>5. i.size \in Nat /\ j.size \in Nat /\ o.budget \in Nat
  BY ItemFields, OpportunitiesAssumption DEF SyncOpportunity
<1>6. Bytes(S) + i.size <= o.budget  BY DEF Fits
<1>7. Bytes(T) + j.size <= o.budget  BY <1>4, <1>5, <1>6
<1> QED  BY <1>7 DEF Fits

\* One call of plan_and_apply overtakes nothing.
LEMMA NoneOvertaken ==
  ASSUME TypeOK, Finite, NEW o \in Opportunities, PlanAndApply(o),
         NEW i \in Items, NEW j \in queue \ applied',
         sent'[i] > sent[i], Eligible(j, o), j.priority > i.priority, j.size <= i.size
  PROVE  FALSE
<1>1. PICK taken \in SUBSET Candidates(o) :
        /\ Greedy(taken, o)
        /\ applied' = applied \cup taken \cup AlreadyDone(taken, o)
        /\ sent' = [k \in Items |-> IF k \in taken THEN sent[k] + 1 ELSE sent[k]]
  BY DEF PlanAndApply
<1>2. i \in taken
  <2>1. sent[i] \in Nat /\ sent'[i] = IF i \in taken THEN sent[i] + 1 ELSE sent[i]
    BY <1>1 DEF TypeOK
  <2> QED  BY <2>1
<1>3. Fits(taken, i, o)  BY <1>1, <1>2 DEF Greedy
<1>4. j \in Items /\ taken \in SUBSET queue  BY DEF TypeOK, Candidates
<1>5. Fits(taken, j, o)  BY <1>3, <1>4, NoRoomLater
<1>6. j \in Candidates(o)  BY <1>1 DEF Candidates
<1>7. j \notin taken /\ j.key \notin KeysBefore(taken, j)  BY <1>1, <1>6 DEF AlreadyDone
<1> QED  BY <1>1, <1>5, <1>6, <1>7 DEF Greedy

-----------------------------------------------------------------------------
\* The order of plan_and_apply: no item is before itself, and of two items in the
\* queue, whose ids differ, one is before the other.
LEMMA BeforeIsAnOrder ==
  ASSUME TypeOK, NEW i \in queue, NEW j \in queue
  PROVE  /\ ~Before(i, i)
         /\ ~Before(i, j) \/ ~Before(j, i)
         /\ i # j => Before(i, j) \/ Before(j, i)
         /\ \A k \in queue : Before(i, j) /\ Before(j, k) => Before(i, k)
<1>1. \A k \in queue : k.id \in Nat /\ k.priority \in Nat  BY ItemFields DEF TypeOK
<1>2. i # j => i.id # j.id  BY DEF TypeOK
<1> QED  BY <1>1, <1>2 DEF Before

\* Of finitely many items in the queue one comes first.
LEMMA FirstItem ==
  ASSUME TypeOK, NEW D \in SUBSET queue, IsFiniteSet(D), D # {}
  PROVE  \E i \in D : \A j \in D : ~Before(j, i)
<1> DEFINE P(i) == {u \in D : Before(u, i)}
           T == {P(i) : i \in D}
<1>1. T \in SUBSET FiniteSubsetsOf(D)
  <2> SUFFICES ASSUME NEW i \in D PROVE P(i) \in FiniteSubsetsOf(D)
    OBVIOUS
  <2>1. P(i) \in SUBSET D  OBVIOUS
  <2>2. SUBSET D = FiniteSubsetsOf(D)  BY FS_FiniteSubsetsOfFinite
  <2> QED  BY <2>1, <2>2
<1>2. T # {}  OBVIOUS
<1>3. PICK x \in T : \A y \in T : ~(<<y, x>> \in StrictSubsetOrdering(D))
  <2> HIDE DEF T
  <2> QED  BY <1>1, <1>2, FS_StrictSubsetOrderingWellFounded, WFMin
<1>4. PICK i \in D : x = P(i)  OBVIOUS
<1>5. ASSUME NEW j \in D, Before(j, i) PROVE FALSE
  <2>1. P(j) \subseteq P(i)  BY <1>5, BeforeIsAnOrder
  <2>2. j \in P(i) /\ j \notin P(j)  BY <1>5, BeforeIsAnOrder
  <2>3. <<P(j), P(i)>> \in StrictSubsetOrdering(D)
    BY <2>1, <2>2 DEF StrictSubsetOrdering
  <2>4. P(j) \in T  OBVIOUS
  <2> QED  BY <1>3, <1>4, <2>3, <2>4
<1> QED  BY <1>5

\* One comes last.
LEMMA LastItem ==
  ASSUME TypeOK, NEW D \in SUBSET queue, IsFiniteSet(D), D # {}
  PROVE  \E i \in D : \A j \in D : ~Before(i, j)
<1> DEFINE P(i) == {u \in D : Before(i, u)}
           T == {P(i) : i \in D}
<1>1. T \in SUBSET FiniteSubsetsOf(D)
  <2> SUFFICES ASSUME NEW i \in D PROVE P(i) \in FiniteSubsetsOf(D)
    OBVIOUS
  <2>1. P(i) \in SUBSET D  OBVIOUS
  <2>2. SUBSET D = FiniteSubsetsOf(D)  BY FS_FiniteSubsetsOfFinite
  <2> QED  BY <2>1, <2>2
<1>2. T # {}  OBVIOUS
<1>3. PICK x \in T : \A y \in T : ~(<<y, x>> \in StrictSubsetOrdering(D))
  <2> HIDE DEF T
  <2> QED  BY <1>1, <1>2, FS_StrictSubsetOrderingWellFounded, WFMin
<1>4. PICK i \in D : x = P(i)  OBVIOUS
<1>5. ASSUME NEW j \in D, Before(i, j) PROVE FALSE
  <2>1. P(j) \subseteq P(i)  BY <1>5, BeforeIsAnOrder
  <2>2. j \in P(i) /\ j \notin P(j)  BY <1>5, BeforeIsAnOrder
  <2>3. <<P(j), P(i)>> \in StrictSubsetOrdering(D)
    BY <2>1, <2>2 DEF StrictSubsetOrdering
  <2>4. P(j) \in T  OBVIOUS
  <2> QED  BY <1>3, <1>4, <2>3, <2>4
<1> QED  BY <1>5

\* What happens to an item depends on what was taken before it only.
LEMMA OnlyWhatIsBefore ==
  ASSUME NEW A, NEW B, NEW i, NEW o, {t \in A : Before(t, i)} = {t \in B : Before(t, i)}
  PROVE  KeysBefore(A, i) = KeysBefore(B, i) /\ (Fits(A, i, o) => Fits(B, i, o))
BY DEF KeysBefore, Fits

\* The loop has at most one result.
LEMMA AtMostOnePlan ==
  ASSUME TypeOK, Finite, NEW o, NEW A \in SUBSET Candidates(o), NEW B \in SUBSET Candidates(o),
         Greedy(A, o), Greedy(B, o)
  PROVE  A = B
<1> SUFFICES ASSUME A # B PROVE FALSE
  OBVIOUS
<1> DEFINE D == (A \ B) \cup (B \ A)
<1>1. D \in SUBSET queue /\ D # {}  BY DEF Candidates
<1>2. IsFiniteSet(D)  BY <1>1, FS_Subset DEF Finite
<1>3. PICK i \in D : \A j \in D : ~Before(j, i)  BY <1>1, <1>2, FirstItem
<1>4. {t \in A : Before(t, i)} = {t \in B : Before(t, i)}  BY <1>3
<1>5. KeysBefore(A, i) = KeysBefore(B, i) /\ (Fits(A, i, o) => Fits(B, i, o))
      /\ (Fits(B, i, o) => Fits(A, i, o))
  BY <1>4, OnlyWhatIsBefore
<1>6. i \in Candidates(o)  BY <1>3
<1> QED  BY <1>3, <1>5, <1>6 DEF Greedy

\* The result of the loop, run on some of the candidates.
GreedyIn(X, taken, o) ==
  taken = {i \in X : i.key \notin KeysBefore(taken, i) /\ Fits(taken, i, o)}

\* One more item at the end of the loop.
LEMMA OneMoreItem ==
  ASSUME TypeOK, NEW o, NEW X \in SUBSET queue, NEW l \in X, \A j \in X : ~Before(l, j),
         NEW A \in SUBSET (X \ {l}), GreedyIn(X \ {l}, A, o)
  PROVE  \E B \in SUBSET X : GreedyIn(X, B, o)
<1> DEFINE Takes == l.key \notin KeysBefore(A, l) /\ Fits(A, l, o)
           B == IF Takes THEN A \cup {l} ELSE A
<1>1. ASSUME NEW i \in X
      PROVE  i.key \notin KeysBefore(B, i) /\ Fits(B, i, o)
               <=> i.key \notin KeysBefore(A, i) /\ Fits(A, i, o)
  <2>1. {t \in A : Before(t, i)} = {t \in B : Before(t, i)}  OBVIOUS
  <2> HIDE DEF B
  <2>2. KeysBefore(A, i) = KeysBefore(B, i) /\ (Fits(A, i, o) => Fits(B, i, o))
        /\ (Fits(B, i, o) => Fits(A, i, o))
    BY <2>1, OnlyWhatIsBefore
  <2> QED  BY <2>2
<1>2. ASSUME NEW i \in X
      PROVE  i \in B <=> i.key \notin KeysBefore(A, i) /\ Fits(A, i, o)
  <2>1. CASE i = l  BY <2>1
  <2>2. CASE i # l  BY <2>2 DEF GreedyIn
  <2> QED  BY <2>1, <2>2
<1>3. B \in SUBSET X  OBVIOUS
<1> HIDE DEF B
<1>4. GreedyIn(X, B, o)  BY <1>1, <1>2, <1>3 DEF GreedyIn
<1> QED  BY <1>3, <1>4

\* The loop has a result.
LEMMA AtLeastOnePlan ==
  ASSUME TypeOK, Finite, NEW o
  PROVE  \E taken \in SUBSET Candidates(o) : Greedy(taken, o)
<1> DEFINE C == Candidates(o)
           Bad == {X \in SUBSET C : ~\E A \in SUBSET X : GreedyIn(X, A, o)}
<1>1. C \in SUBSET queue /\ IsFiniteSet(C)  BY FS_Subset DEF Candidates, Finite
<1>2. Bad = {}
  <2> SUFFICES ASSUME Bad # {} PROVE FALSE
    OBVIOUS
  <2>1. Bad \in SUBSET FiniteSubsetsOf(C)  BY <1>1, FS_FiniteSubsetsOfFinite
  <2>2. PICK X \in Bad : \A Y \in Bad : ~(<<Y, X>> \in StrictSubsetOrdering(C))
    <3> HIDE DEF Bad
    <3> QED  BY <2>1, FS_StrictSubsetOrderingWellFounded, WFMin
  <2>3. X # {}
    <3>1. GreedyIn({}, {}, o)  BY DEF GreedyIn
    <3> QED  BY <3>1
  <2>4. X \in SUBSET queue /\ IsFiniteSet(X)  BY <1>1, FS_Subset
  <2>5. PICK l \in X : \A j \in X : ~Before(l, j)  BY <2>3, <2>4, LastItem
  <2>6. <<X \ {l}, X>> \in StrictSubsetOrdering(C)
    BY DEF StrictSubsetOrdering
  <2>7. X \ {l} \notin Bad  BY <2>2, <2>6
  <2>8. PICK A \in SUBSET (X \ {l}) : GreedyIn(X \ {l}, A, o)  BY <2>7
  <2>9. \E B \in SUBSET X : GreedyIn(X, B, o)  BY <2>4, <2>5, <2>8, OneMoreItem
  <2> QED  BY <2>9
<1>3. PICK A \in SUBSET C : GreedyIn(C, A, o)  BY <1>2
<1> QED  BY <1>3 DEF GreedyIn, Greedy

-----------------------------------------------------------------------------
\* sync.py: the planner and its file are well typed, and no id is queued twice.
THEOREM TypeCorrect == Spec => []TypeOK
BY Invariance, PTL DEF Inv

\* sync.py, plan_and_apply: an idempotency key is applied once, whichever items
\* carry it, for a caller that persists what it applied before it ends.
THEOREM AppliedOnce == Spec => []ExactlyOnce
BY Invariance, PTL DEF Inv

\* sync.py, plan_and_apply: no item gets its flag without its key being applied.
THEOREM NothingWrittenOff == Spec => []AppliedMeansSent
BY Invariance, PTL DEF Inv

\* sync.py, plan_and_apply: an item is never applied in a call that leaves an
\* admitted one of higher priority that is no larger, for any items and budgets.
THEOREM NeverOvertaken == Spec => NoInversion
<1>1. TypeOK /\ Finite /\ [Next]_vars =>
        [\A o \in Opportunities : PlanAndApply(o) =>
           ~\E i \in Items, j \in queue \ applied' :
              /\ sent'[i] > sent[i]
              /\ Eligible(j, o)
              /\ j.priority > i.priority /\ j.size <= i.size]_vars
  BY NoneOvertaken
<1>2. Spec => []TypeOK  BY Invariance, PTL DEF Inv
<1> QED  BY <1>1, <1>2, AlwaysFinite, PTL DEF Spec, NoInversion

\* A call of plan_and_apply can be made in every state and has one result: what
\* Greedy describes is what a loop in the order of Before computes.
OnePlan ==
  \A o \in Opportunities :
    \E taken \in SUBSET Candidates(o) :
      /\ Greedy(taken, o)
      /\ \A other \in SUBSET Candidates(o) : Greedy(other, o) => other = taken

\* sync.py, plan_and_apply: whatever is queued and applied, the loop takes one set of
\* items, and no other satisfies its description.
THEOREM OnePlanAlways == Spec => []OnePlan
<1>1. TypeOK /\ Finite => OnePlan
  <2> SUFFICES ASSUME TypeOK, Finite, NEW o \in Opportunities
               PROVE  \E taken \in SUBSET Candidates(o) :
                        /\ Greedy(taken, o)
                        /\ \A other \in SUBSET Candidates(o) :
                             Greedy(other, o) => other = taken
    BY DEF OnePlan
  <2>1. PICK taken \in SUBSET Candidates(o) : Greedy(taken, o)  BY AtLeastOnePlan
  <2>2. ASSUME NEW other \in SUBSET Candidates(o), Greedy(other, o) PROVE other = taken
    BY <2>1, <2>2, AtMostOnePlan
  <2> QED  BY <2>1, <2>2
<1>2. Spec => []TypeOK  BY Invariance, PTL DEF Inv
<1> QED  BY <1>1, <1>2, AlwaysFinite, PTL
=============================================================================

---------------------------- MODULE SyncArrivals ----------------------------
(***************************************************************************)
(* SyncPlanner with items that never cease to come.  The items of          *)
(* Recurring stand each for a series of them, of the same class, size and  *)
(* priority but with an id and a key of their own: once one was applied,   *)
(* its id and its key do not come again, what is kept of it no longer      *)
(* matters, and the next one takes its place.                              *)
(***************************************************************************)
EXTENDS SyncPlanner

CONSTANT Recurring

ASSUME RecurringAssumption ==
  /\ Recurring \subseteq Items
  /\ \A i \in Recurring, j \in Items : i.id = j.id \/ i.key = j.key => i = j

\* An applied item gives its place to the next of its kind.
Retire(i) ==
  /\ i \in applied
  /\ queue' = queue \ {i} /\ applied' = applied \ {i}
  /\ ledger' = ledger \ {i.key}
  /\ disk' = IF disk = None THEN None
             ELSE [queue |-> disk.queue \ {i}, applied |-> disk.applied \ {i},
                   ledger |-> disk.ledger \ {i.key}]
  /\ sent' = [sent EXCEPT ![i] = 0]

NextArriving == Next \/ \E i \in Recurring : Retire(i)

\* Opportunities with plenty of room keep coming.
ArrivingSpec == Init /\ [][NextArriving]_vars /\ WF_vars(PlanAndApply(Plenty))

-----------------------------------------------------------------------------
Overtaken(i) == \E j \in Items : Before(j, i) /\ Enqueue(j)

\* A queued item starves only where items that go before it keep arriving for ever:
\* if from some time on none does, and opportunities with room for any single item
\* keep coming, it is applied, or was lost with a process that did not persist it.
StarvedByArrivalsOnly ==
  \A i \in Items :
    <>[][~Overtaken(i)]_vars => (i \in queue ~> i \in applied \/ i \notin queue)
=============================================================================

----------------------------- MODULE MCDevPlane -----------------------------
(* Instance of DevPlane for TLC. *)
EXTENDS DevPlane, TLC

CONSTANTS i1, i2, d1, s1, channel, c1

Call(route, offline) == [route |-> route, offline |-> offline]

\* One call of every kind; two puts that expect the same version.
MCOp ==
  { Call("record", FALSE) @@ [key |-> channel],
    Call("submit", FALSE) @@ [device |-> d1, dev_token |-> TRUE],
    Call("submit", FALSE) @@ [device |-> d1, dev_token |-> FALSE],
    Call("heartbeat", FALSE) @@ [device |-> d1],
    Call("mark_stale", FALSE) @@ [device |-> d1],
    Call("revoke", FALSE) @@ [device |-> d1],
    Call("put", TRUE) @@ [save |-> s1, expect |-> None, version |-> None],
    Call("put", TRUE) @@ [save |-> s1, expect |-> 1, version |-> 2],
    Call("enqueue", FALSE) @@ [what |-> c1],
    Call("drain", FALSE) @@ [limit |-> 1],
    Call("log", TRUE) @@ [what |-> c1],
    Call("ota_campaign", FALSE) @@ [key |-> channel],
    Call("rollback_campaign", FALSE) }

\* The calls of a client that goes through an outage.
ResyncOp == {op \in MCOp : op.route \in {"enqueue", "drain", "log"} \/ (op.route = "put" /\ op.expect # None)}

\* A fresh database, and one with an enrolled device, a save and a queue.
UsedDoc == [EmptyDoc EXCEPT
  !.enrollments[d1] = "accepted_dev",
  !.fleet[d1] = [health |-> "healthy", stale |-> FALSE, revoked |-> FALSE],
  !.saves[s1] = 1,
  !.sync_queue = {[what |-> c1, at |-> 0]}]

MCInitialDoc == {EmptyDoc, UsedDoc}
Symmetry == Permutations({i1, i2})
=============================================================================

--------------------------- MODULE ServiceSession ---------------------------
(***************************************************************************)
(* A ServiceSession (service_continuity_execution/models.py) and the       *)
(* functions of resume.py that change one.                                 *)
(*                                                                         *)
(* The integrity hash covers the whole content: "signed" says that it      *)
(* matches.  The order of operations, identifiers and timestamps other     *)
(* than the expiry of the token are abstracted.                            *)
(***************************************************************************)
EXTENDS Integers

CONSTANTS
  Ops,       \* operation ids
  Lifetime   \* of the resume token, 3600 s

ASSUME LifetimeAssumption == Lifetime \in Nat

\* committed[o]: how often o is in committed_operation_ids.  resumed:
\* resume_count > 0.  genuine: history, only these functions wrote the content.
Session == [pending : SUBSET Ops, committed : [Ops -> Nat], position : Nat,
            expires_at : Nat, resumed : BOOLEAN, signed : BOOLEAN, genuine : BOOLEAN]

\* Variant with a bug: the token expires in the past.
FreshExpired(now) ==
  [pending |-> {}, committed |-> [o \in Ops |-> 0], position |-> 0,
   expires_at |-> now - 1, resumed |-> FALSE, signed |-> TRUE, genuine |-> TRUE]

\* create_session
Fresh(now) ==
  [pending |-> {}, committed |-> [o \in Ops |-> 0], position |-> 0,
   expires_at |-> now + Lifetime, resumed |-> FALSE, signed |-> TRUE, genuine |-> TRUE]

\* Variant with a bug: a signature copied from the loaded file.
SignedAsLoaded(s) == s
Signed(s) == [s EXCEPT !.signed = TRUE]

Committed(s) == {o \in Ops : s.committed[o] > 0}

\* Variant with a bug: the whole queue is dropped.
CommittedAndCleared(s, o) ==
  IF o \in Committed(s) THEN s
  ELSE [s EXCEPT !.committed[o] = @ + 1, !.pending = {}, !.signed = TRUE]

\* mark_operation_committed
MarkCommitted(s, o) ==
  IF o \in Committed(s) THEN s
  ELSE [s EXCEPT !.committed[o] = @ + 1, !.pending = @ \ {o}, !.signed = TRUE]

\* Variant with a bug: only the pending operations are looked at.
EnqueuedAgain(s, o) ==
  IF o \in s.pending THEN s ELSE [s EXCEPT !.pending = @ \cup {o}, !.signed = TRUE]

\* enqueue_operation
Enqueued(s, o) ==
  IF o \in Committed(s) \cup s.pending THEN s
  ELSE [s EXCEPT !.pending = @ \cup {o}, !.signed = TRUE]

\* The caller assigns logical_position; the hash is not computed again.
Advanced(s) == [s EXCEPT !.position = @ + 1, !.signed = FALSE]

\* Variant with a bug: the hash is not compared.
ValidToken(s, now, right_token) == now <= s.expires_at /\ right_token

\* validate_checkpoint
Valid(s, now, right_token) == s.signed /\ now <= s.expires_at /\ right_token

\* A pending operation that is committed already: "committed_operation_replay".
Replays(s) == s.pending \cap Committed(s) # {}

\* Variants with a bug: the pending operations are dropped; they stay in the queue.
ResumedKeepingQueue(s) ==
  [s EXCEPT !.committed = [o \in Ops |-> IF o \in s.pending THEN @[o] + 1 ELSE @[o]],
            !.resumed = TRUE, !.signed = TRUE]
ResumedDropping(s) == [s EXCEPT !.pending = {}, !.resumed = TRUE, !.signed = TRUE]

\* resume_once of a valid session: a second resume with nothing pending does
\* nothing, else every pending operation is committed.
Resumed(s) ==
  IF s.resumed /\ s.pending = {} THEN s
  ELSE [s EXCEPT !.committed = [o \in Ops |-> IF o \in s.pending THEN @[o] + 1 ELSE @[o]],
                 !.pending = {}, !.resumed = TRUE, !.signed = TRUE]

\* resume_once up to a replay: the operations before it have been committed.
PartlyResumed(s) ==
  {[s EXCEPT !.committed = [o \in Ops |-> IF o \in applied THEN @[o] + 1 ELSE @[o]],
             !.pending = @ \ applied, !.signed = TRUE] :
     applied \in SUBSET (s.pending \ Committed(s))}

\* The file is changed behind the program's back: its hash no longer matches.
Altered(s, positions) ==
  {t \in [pending : SUBSET Ops, committed : [Ops -> {0, 1}], position : positions,
          expires_at : {s.expires_at}, resumed : {s.resumed},
          signed : {FALSE}, genuine : {FALSE}] :
     <<t.pending, t.committed, t.position>> # <<s.pending, s.committed, s.position>>}

\* No operation committed twice, none both pending and committed.
Once(s) == (\A o \in Ops : s.committed[o] <= 1) /\ ~Replays(s)

\* Everything s holds, t holds too.
Keeps(s, t) ==
  /\ Committed(s) \subseteq Committed(t)
  /\ s.pending \subseteq t.pending \cup Committed(t)
  /\ s.position <= t.position
=============================================================================

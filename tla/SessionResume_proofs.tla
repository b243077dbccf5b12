------------------------ MODULE SessionResume_proofs ------------------------
(***************************************************************************)
(* Theorems about SessionResume, for every set of operations, lifetime of  *)
(* the token and bound, after the lemmas about the functions of            *)
(* ServiceSession, which the proofs about the controller use too.          *)
(***************************************************************************)
EXTENDS SessionResume, TLAPS

-----------------------------------------------------------------------------
(* What each function of ServiceSession does to a session: it stays one,   *)
(* keeps the ledger exactly-once, and forgets nothing.                     *)

\* A session that is not changed forgets nothing.
LEMMA KeepsReflexive ==
  ASSUME NEW s \in Session
  PROVE  Keeps(s, s)
BY DEF Keeps, Session

\* Two changes that forget nothing forget nothing together.
LEMMA KeepsTransitive ==
  ASSUME NEW r \in Session, NEW s \in Session, NEW t \in Session, Keeps(r, s), Keeps(s, t)
  PROVE  Keeps(r, t)
BY DEF Keeps, Session

\* create_session: well formed, signed, nothing committed.
LEMMA FreshSession ==
  ASSUME NEW n \in Nat
  PROVE  /\ Fresh(n) \in Session
         /\ Once(Fresh(n))
         /\ Fresh(n).signed = TRUE /\ Fresh(n).genuine = TRUE
BY LifetimeAssumption DEF Fresh, Session, Once, Replays, Committed

\* Computing the hash changes nothing but the signature.
LEMMA SignedSession ==
  ASSUME NEW s \in Session
  PROVE  /\ Signed(s) \in Session
         /\ Once(s) => Once(Signed(s))
         /\ Signed(s).signed = TRUE /\ Signed(s).genuine = s.genuine
         /\ Keeps(s, Signed(s))
<1>1. Signed(s) \in Session /\ Signed(s).signed = TRUE /\ Signed(s).genuine = s.genuine
  BY DEF Signed, Session
<1>2. /\ Signed(s).pending = s.pending /\ Signed(s).committed = s.committed
      /\ Signed(s).position = s.position
  BY DEF Signed, Session
<1>3. Keeps(s, Signed(s))  BY <1>2 DEF Session, Keeps, Committed
<1>4. Once(s) => Once(Signed(s))  BY <1>2 DEF Session, Once, Replays, Committed
<1> QED  BY <1>1, <1>3, <1>4

\* mark_operation_committed: the ledger stays exactly-once and only grows.
LEMMA MarkCommittedSession ==
  ASSUME NEW s \in Session, NEW o \in Ops
  PROVE  /\ MarkCommitted(s, o) \in Session
         /\ Once(s) => Once(MarkCommitted(s, o))
         /\ MarkCommitted(s, o).genuine = s.genuine
         /\ Keeps(s, MarkCommitted(s, o))
<1>1. CASE o \in Committed(s)
  BY <1>1, KeepsReflexive DEF MarkCommitted
<1>2. CASE o \notin Committed(s)
  <2> DEFINE t == MarkCommitted(s, o)
             c == [s.committed EXCEPT ![o] = @ + 1]
  <2>1. t = [s EXCEPT !.committed = c, !.pending = @ \ {o}, !.signed = TRUE]
    BY <1>2 DEF MarkCommitted
  <2>2. c \in [Ops -> Nat]  BY DEF Session
  <2>3. \A p \in Ops : c[p] = IF p = o THEN s.committed[p] + 1 ELSE s.committed[p]
    BY DEF Session
  <2> HIDE DEF c
  <2>4. /\ t \in Session /\ t.genuine = s.genuine
        /\ t.pending = s.pending \ {o} /\ t.committed = c /\ t.position = s.position
    BY <2>1, <2>2 DEF Session
  <2> HIDE DEF t
  <2>5. Keeps(s, t)  BY <2>3, <2>4 DEF Session, Keeps, Committed
  <2>6. Once(s) => Once(t)  BY <1>2, <2>3, <2>4 DEF Session, Once, Replays, Committed
  <2> QED  BY <2>4, <2>5, <2>6 DEF t
<1> QED  BY <1>1, <1>2

\* enqueue_operation: what is committed is not enqueued again.
LEMMA EnqueuedSession ==
  ASSUME NEW s \in Session, NEW o \in Ops
  PROVE  /\ Enqueued(s, o) \in Session
         /\ Once(s) => Once(Enqueued(s, o))
         /\ Enqueued(s, o).genuine = s.genuine
         /\ Keeps(s, Enqueued(s, o))
<1>1. CASE o \in Committed(s) \cup s.pending
  BY <1>1, KeepsReflexive DEF Enqueued
<1>2. CASE o \notin Committed(s) \cup s.pending
  <2> DEFINE t == Enqueued(s, o)
             q == s.pending \cup {o}
  <2>1. t = [s EXCEPT !.pending = q, !.signed = TRUE]
    BY <1>2 DEF Enqueued
  <2>2. q \in SUBSET Ops  BY DEF Session
  <2> HIDE DEF q, t
  <2>3. t \in Session /\ t.genuine = s.genuine  BY <2>1, <2>2 DEF Session
  <2>4. t.pending = s.pending \cup {o} /\ t.committed = s.committed /\ t.position = s.position
    BY <2>1 DEF Session, q
  <2>5. Keeps(s, t)  BY <2>3, <2>4 DEF Session, Keeps, Committed
  <2>6. Once(s) => Once(t)  BY <1>2, <2>3, <2>4 DEF Session, Once, Replays, Committed
  <2> QED  BY <2>3, <2>5, <2>6 DEF t
<1> QED  BY <1>1, <1>2

\* An assignment to logical_position leaves the ledger alone.
LEMMA AdvancedSession ==
  ASSUME NEW s \in Session
  PROVE  /\ Advanced(s) \in Session
         /\ Once(s) => Once(Advanced(s))
         /\ Advanced(s).genuine = s.genuine
         /\ Keeps(s, Advanced(s))
<1>1. Advanced(s) \in Session /\ Advanced(s).genuine = s.genuine
  <2> DEFINE n == s.position + 1
  <2>1. n \in Nat  BY DEF Session
  <2>2. Advanced(s) = [s EXCEPT !.position = n, !.signed = FALSE]  BY DEF Advanced
  <2> HIDE DEF n
  <2> QED  BY <2>1, <2>2 DEF Session
<1>2. /\ Advanced(s).pending = s.pending /\ Advanced(s).committed = s.committed
      /\ Advanced(s).position = s.position + 1
  BY DEF Advanced, Session
<1>3. Keeps(s, Advanced(s))  BY <1>2 DEF Session, Keeps, Committed
<1>4. Once(s) => Once(Advanced(s))  BY <1>2 DEF Session, Once, Replays, Committed
<1> QED  BY <1>1, <1>3, <1>4

\* resume_once of a valid session: what was pending is committed, each once.
LEMMA ResumedSession ==
  ASSUME NEW s \in Session
  PROVE  /\ Resumed(s) \in Session
         /\ Once(s) => Once(Resumed(s))
         /\ Resumed(s).genuine = s.genuine
         /\ Keeps(s, Resumed(s))
<1>1. CASE s.resumed /\ s.pending = {}
  <2>1. Resumed(s) = s  BY <1>1 DEF Resumed
  <2> QED  BY <2>1, KeepsReflexive
<1>2. CASE ~(s.resumed /\ s.pending = {})
  <2> DEFINE t == Resumed(s)
             c == [o \in Ops |-> IF o \in s.pending THEN s.committed[o] + 1 ELSE s.committed[o]]
  <2>1. t = [s EXCEPT !.committed = c, !.pending = {}, !.resumed = TRUE, !.signed = TRUE]
    BY <1>2 DEF Resumed
  <2>2. c \in [Ops -> Nat]  BY DEF Session
  <2>3. \A o \in Ops : c[o] = IF o \in s.pending THEN s.committed[o] + 1 ELSE s.committed[o]
    OBVIOUS
  <2> HIDE DEF c
  <2>4. /\ t \in Session /\ t.genuine = s.genuine
        /\ t.pending = {} /\ t.committed = c /\ t.position = s.position
    BY <2>1, <2>2 DEF Session
  <2> HIDE DEF t
  <2>5. Keeps(s, t)  BY <2>3, <2>4 DEF Session, Keeps, Committed
  <2>6. Once(s) => Once(t)  BY <2>3, <2>4 DEF Session, Once, Replays, Committed
  <2> QED  BY <2>4, <2>5, <2>6 DEF t
<1> QED  BY <1>1, <1>2

\* resume_once that stops at a replay: what it did commit is committed once.
LEMMA PartlyResumedSession ==
  ASSUME NEW s \in Session, NEW t \in PartlyResumed(s)
  PROVE  /\ t \in Session
         /\ t.genuine = s.genuine
         /\ Keeps(s, t)
<1>1. PICK applied \in SUBSET (s.pending \ Committed(s)) :
        t = [s EXCEPT !.committed = [o \in Ops |-> IF o \in applied THEN @[o] + 1 ELSE @[o]],
                      !.pending = @ \ applied, !.signed = TRUE]
  BY DEF PartlyResumed
<1> DEFINE c == [o \in Ops |-> IF o \in applied THEN s.committed[o] + 1 ELSE s.committed[o]]
<1>2. t = [s EXCEPT !.committed = c, !.pending = @ \ applied, !.signed = TRUE]
  BY <1>1
<1>3. c \in [Ops -> Nat]  BY DEF Session
<1>4. \A o \in Ops : c[o] = IF o \in applied THEN s.committed[o] + 1 ELSE s.committed[o]
  OBVIOUS
<1> HIDE DEF c
<1>5. /\ t \in Session /\ t.genuine = s.genuine
      /\ t.pending = s.pending \ applied /\ t.committed = c /\ t.position = s.position
  BY <1>2, <1>3 DEF Session
<1>6. Keeps(s, t)
  <2>1. \A o \in Ops : s.committed[o] > 0 => c[o] > 0  BY <1>4 DEF Session
  <2>2. applied \subseteq Ops  BY DEF Session
  <2>3. s.committed \in [Ops -> Nat]  BY DEF Session
  <2>4. ASSUME NEW o \in applied PROVE c[o] > 0
    <3>1. o \in Ops /\ s.committed[o] \in Nat  BY <2>2, <2>3
    <3>2. c[o] = s.committed[o] + 1  BY <1>4, <3>1
    <3> QED  BY <3>1, <3>2
  <2>5. Committed(s) \subseteq Committed(t)  BY <2>1, <1>5 DEF Committed
  <2>6. s.pending \subseteq t.pending \cup Committed(t)  BY <2>2, <2>4, <1>5 DEF Committed
  <2> QED  BY <2>5, <2>6, <1>5 DEF Keeps, Session
<1> QED  BY <1>3, <1>5, <1>6

\* A file that was changed is still a session, neither signed nor genuine.
LEMMA AlteredSession ==
  ASSUME NEW s \in Session, NEW positions \in SUBSET Nat, NEW t \in Altered(s, positions)
  PROVE  t \in Session /\ t.signed = FALSE /\ t.genuine = FALSE
<1>1. t.pending \in SUBSET Ops /\ t.committed \in [Ops -> {0, 1}] /\ t.position \in positions
  BY DEF Altered
<1>2. t.committed \in [Ops -> Nat]  BY <1>1
<1>3. t.position \in Nat  BY <1>1
<1> QED  BY <1>2, <1>3 DEF Altered, Session

-----------------------------------------------------------------------------
(* The inductive invariant.  A session that runs descends from the file it *)
(* was loaded from, and what a file says of itself is what it is.          *)

Provenance ==
  /\ disk \in Session => (disk.signed <=> disk.genuine)
  /\ pc = "loaded" => (mem.signed => mem.genuine)
  /\ pc \in {"truncated", "written"} => mem.signed
  /\ pc = "written" => tmp = mem
  /\ (pc # "off" /\ disk \in Session) => (disk.genuine /\ mem.genuine => Keeps(disk, mem))

ProcessInv == ProcessTypeOK /\ ProcessesExactlyOnce /\ OnlyGenuineRuns /\ Provenance

\* With no file and no process the invariant holds.
LEMMA ProcessInitInv == ProcessInit => ProcessInv
BY NoneAssumption
   DEF ProcessInit, ProcessInv, ProcessTypeOK, ProcessesExactlyOnce, OnlyGenuineRuns, Provenance

\* Work does to the session in memory what the lemmas above say.
LEMMA WorkSession ==
  ASSUME ProcessTypeOK, Work
  PROVE  /\ mem \in Session /\ mem' \in Session
         /\ Once(mem) => Once(mem')
         /\ (mem').genuine = mem.genuine
         /\ Keeps(mem, mem')
         /\ pc = "run" /\ UNCHANGED <<now, disk, tmp, pc>>
<1>1. mem \in Session  BY DEF ProcessTypeOK, Work
<1>2. ASSUME NEW o \in Ops, mem' \in {Enqueued(mem, o), MarkCommitted(mem, o)}
      PROVE  /\ mem' \in Session /\ (Once(mem) => Once(mem'))
             /\ (mem').genuine = mem.genuine /\ Keeps(mem, mem')
  <2>1. CASE mem' = Enqueued(mem, o)  BY <1>1, <2>1, EnqueuedSession
  <2>2. CASE mem' = MarkCommitted(mem, o)  BY <1>1, <2>2, MarkCommittedSession
  <2> QED  BY <1>2, <2>1, <2>2
<1>3. ASSUME mem' = Advanced(mem)
      PROVE  /\ mem' \in Session /\ (Once(mem) => Once(mem'))
             /\ (mem').genuine = mem.genuine /\ Keeps(mem, mem')
  BY <1>1, <1>3, AdvancedSession
<1> QED  BY <1>1, <1>2, <1>3 DEF Work

\* Every step of a process, every crash and change of the file keeps the invariant.
LEMMA ProcessNextInv == ProcessInv /\ [ProcessNext]_process_vars => ProcessInv'
<1> SUFFICES ASSUME ProcessInv, [ProcessNext]_process_vars PROVE ProcessInv'
  OBVIOUS
<1> USE NoneAssumption
<1>1. CASE Create
  <2>1. mem' = Fresh(now) /\ now \in Nat  BY <1>1 DEF Create, ProcessInv, ProcessTypeOK
  <2>2. /\ mem' \in Session /\ Once(mem') /\ (mem').signed = TRUE /\ (mem').genuine = TRUE
    BY <2>1, FreshSession
  <2> QED  BY <1>1, <2>2
              DEF Create, ProcessInv, ProcessTypeOK, ProcessesExactlyOnce, OnlyGenuineRuns,
                  Provenance
<1>2. CASE Load
  <2>1. Keeps(disk, mem')  BY <1>2, KeepsReflexive DEF Load
  <2> QED  BY <1>2, <2>1
              DEF Load, ProcessInv, ProcessTypeOK, ProcessesExactlyOnce, OnlyGenuineRuns,
                  Provenance
<1>3. ASSUME NEW right_token \in BOOLEAN, ResumeFirst(right_token) PROVE ProcessInv'
  <2>1. mem \in Session  BY <1>3 DEF ResumeFirst, ProcessInv, ProcessTypeOK
  <2>2. CASE Valid(mem, now, right_token) /\ ~Replays(mem)
    <3>1. mem.signed /\ mem' = Resumed(mem) /\ pc' = "run" /\ pc # "off"
      BY <1>3, <2>2 DEF ResumeFirst, Valid
    <3>2. mem.genuine  BY <1>3, <3>1 DEF ResumeFirst, ProcessInv, OnlyGenuineRuns, Provenance
    <3>3. /\ mem' \in Session /\ (Once(mem) => Once(mem'))
          /\ (mem').genuine = mem.genuine /\ Keeps(mem, mem')
      BY <2>1, <3>1, ResumedSession
    <3>4. Once(mem)  BY <2>1, <3>2 DEF ProcessInv, ProcessesExactlyOnce
    <3>5. (disk \in Session) => (disk.genuine => Keeps(disk, mem'))
      BY <2>1, <3>1, <3>2, <3>3, KeepsTransitive DEF ProcessInv, Provenance
    <3> QED  BY <1>3, <3>1, <3>2, <3>3, <3>4, <3>5
             DEF ResumeFirst, ProcessInv, ProcessTypeOK, ProcessesExactlyOnce, OnlyGenuineRuns,
                 Provenance
  <2>3. CASE ~(Valid(mem, now, right_token) /\ ~Replays(mem))
    <3>1. mem' = None /\ pc' = "off" /\ UNCHANGED <<now, disk, tmp>>
      BY <1>3, <2>3 DEF ResumeFirst
    <3> QED  BY <3>1
                DEF ProcessInv, ProcessTypeOK, ProcessesExactlyOnce, OnlyGenuineRuns, Provenance
  <2> QED  BY <2>2, <2>3
<1>4. CASE Work
  <2>1. /\ mem \in Session /\ mem' \in Session /\ (Once(mem) => Once(mem'))
        /\ (mem').genuine = mem.genuine /\ Keeps(mem, mem')
        /\ pc = "run" /\ UNCHANGED <<now, disk, tmp, pc>>
    BY <1>4, WorkSession DEF ProcessInv
  <2>2. mem.genuine /\ Once(mem)  BY <2>1 DEF ProcessInv, OnlyGenuineRuns, ProcessesExactlyOnce
  <2>3. (disk \in Session) => (disk.genuine => Keeps(disk, mem'))
    BY <2>1, <2>2, KeepsTransitive DEF ProcessInv, Provenance
  <2> QED  BY <2>1, <2>2, <2>3
              DEF ProcessInv, ProcessTypeOK, ProcessesExactlyOnce, OnlyGenuineRuns, Provenance
<1>5. CASE Truncate
  <2>1. mem \in Session /\ mem' = Signed(mem) /\ pc = "run" /\ mem.genuine
    BY <1>5 DEF Truncate, ProcessInv, ProcessTypeOK, OnlyGenuineRuns
  <2>2. /\ mem' \in Session /\ (Once(mem) => Once(mem')) /\ (mem').signed = TRUE
        /\ (mem').genuine = mem.genuine /\ Keeps(mem, mem')
    BY <2>1, SignedSession
  <2>3. Once(mem)  BY <2>1 DEF ProcessInv, ProcessesExactlyOnce
  <2>4. (disk \in Session) => (disk.genuine => Keeps(disk, mem'))
    BY <2>1, <2>2, KeepsTransitive DEF ProcessInv, Provenance
  <2> QED  BY <1>5, <2>1, <2>2, <2>3, <2>4
           DEF Truncate, OpenTmp, ProcessInv, ProcessTypeOK, ProcessesExactlyOnce,
               OnlyGenuineRuns, Provenance
<1>6. CASE Write
  BY <1>6 DEF Write, ProcessInv, ProcessTypeOK, ProcessesExactlyOnce, OnlyGenuineRuns, Provenance
<1>7. CASE Replace
  <2>1. mem \in Session /\ disk' = mem /\ mem' = mem /\ mem.signed /\ mem.genuine
    BY <1>7 DEF Replace, ProcessInv, ProcessTypeOK, OnlyGenuineRuns, Provenance
  <2>2. Keeps(disk', mem')  BY <2>1, KeepsReflexive
  <2> QED  BY <1>7, <2>1, <2>2
           DEF Replace, ProcessInv, ProcessTypeOK, ProcessesExactlyOnce, OnlyGenuineRuns, Provenance
<1>8. CASE Crash
  BY <1>8 DEF Crash, ProcessInv, ProcessTypeOK, ProcessesExactlyOnce, OnlyGenuineRuns, Provenance
<1>9. CASE FileAltered
  <2>1. disk \in Session /\ disk' \in Altered(disk, 0 .. MaxPosition)  BY <1>9
                                                                          DEF FileAltered,
                                                                              AlterFile
  <2>2. disk' \in Session /\ (disk').signed = FALSE /\ (disk').genuine = FALSE
    BY <2>1, AlteredSession, 0 .. MaxPosition \in SUBSET Nat
  <2> QED  BY <1>9, <2>2
              DEF FileAltered, AlterFile, ProcessInv, ProcessTypeOK, ProcessesExactlyOnce,
                  OnlyGenuineRuns, Provenance
<1>10. CASE ClockTick
  BY <1>10
     DEF ClockTick, Tick, ProcessInv, ProcessTypeOK, ProcessesExactlyOnce, OnlyGenuineRuns,
         Provenance
<1>11. CASE UNCHANGED process_vars
  BY <1>11
     DEF process_vars, ProcessInv, ProcessTypeOK, ProcessesExactlyOnce, OnlyGenuineRuns,
         Provenance
<1> QED
  BY <1>1, <1>2, <1>3, <1>4, <1>5, <1>6, <1>7, <1>8, <1>9, <1>10, <1>11 DEF ProcessNext

\* The invariant holds in every reachable state.
LEMMA ProcessInvariance == ProcessSpec => []ProcessInv
BY ProcessInitInv, ProcessNextInv, PTL DEF ProcessSpec

-----------------------------------------------------------------------------
\* resume.py, checkpoint: memory and files are well typed, and a crash never
\* leaves a checkpoint that cannot be read.
THEOREM TypeCorrect == ProcessSpec => []ProcessTypeOK
BY ProcessInvariance, PTL DEF ProcessInv

\* resume.py, resume_once: no operation is committed twice or waits to be, across
\* any crashes and resumes.
THEOREM CommittedOnce == ProcessSpec => []ProcessesExactlyOnce
BY ProcessInvariance, PTL DEF ProcessInv

\* resume.py, validate_checkpoint: no process gets to work on an altered session.
THEOREM GenuineOnly == ProcessSpec => []OnlyGenuineRuns
BY ProcessInvariance, PTL DEF ProcessInv

\* resume.py, checkpoint: what the program wrote carries its hash.
THEOREM SignedOnDisk == ProcessSpec => []CheckpointsAreSigned
<1>1. ProcessInv => CheckpointsAreSigned  BY DEF ProcessInv, Provenance, CheckpointsAreSigned
<1> QED  BY <1>1, ProcessInvariance, PTL

\* resume.py, checkpoint: no checkpoint loses an operation or progress of the
\* one it replaces.
THEOREM NeverForgets == ProcessSpec => CheckpointsOnlyGrow
<1> DEFINE Kept == (disk \in Session /\ disk.genuine)
                     => (disk' \in Session /\ ((disk').genuine => Keeps(disk, disk')))
<1>1. ProcessInv /\ [ProcessNext]_process_vars => [Kept]_process_vars
  <2> SUFFICES ASSUME ProcessInv, ProcessNext, disk \in Session, disk.genuine
               PROVE  disk' \in Session /\ ((disk').genuine => Keeps(disk, disk'))
    OBVIOUS
  <2>1. CASE disk' = disk
    BY <2>1, KeepsReflexive
  <2>2. CASE Replace
    <3>1. disk' = mem /\ mem \in Session /\ mem.genuine /\ pc # "off"
      BY <2>2 DEF Replace, ProcessInv, ProcessTypeOK, OnlyGenuineRuns, Provenance
    <3> QED  BY <3>1 DEF ProcessInv, Provenance
  <2>3. CASE FileAltered
    <3>1. disk' \in Session /\ (disk').genuine = FALSE
      BY <2>3, AlteredSession, 0 .. MaxPosition \in SUBSET Nat DEF FileAltered, AlterFile
    <3> QED  BY <3>1
  <2>4. disk' = disk \/ Replace \/ FileAltered
    BY
       DEF ProcessNext, Create, Load, ResumeFirst, Work, Truncate, OpenTmp, Write, Crash,
           ClockTick, Tick
  <2> QED  BY <2>1, <2>2, <2>3, <2>4
<1> QED  BY <1>1, ProcessInvariance, PTL DEF ProcessSpec, CheckpointsOnlyGrow
=============================================================================

-------------------------- MODULE DevPlane_proofs --------------------------
(***************************************************************************)
(* What the merge of stale copies cannot break, for any number of server   *)
(* instances, clients, calls, failed writes and restarts.                  *)
(***************************************************************************)
EXTENDS DevPlane, TLAPS

\* A post that was acknowledged is in the document.
AcknowledgedIsStored ==
  \A op \in Posts : phase[op] = "acknowledged" => PostedEvent(op) \in EventsIn(stored)

\* The copies, stale or not, are documents that know their campaigns.
CopiesKnowCampaigns == \A i \in Instance : CampaignsKnownIn(copy[i])

\* A client waits for an answer only while its call is open.
Open == {"calling", "resending"}
WaitsOpen == \A op \in Op : waiting[op] # None => phase[op] \in Open

IInv == /\ TypeOK /\ CampaignsKnown /\ CopiesKnowCampaigns
        /\ HandedAreRecorded /\ AcknowledgedIsStored /\ WaitsOpen

\* What a merge must not lose.
Keeps(old, new) ==
  /\ old.campaigns \subseteq new.campaigns
  /\ old.sync_queue \subseteq new.sync_queue
  /\ old.sync_delivered \subseteq new.sync_delivered
  /\ old.logs \subseteq new.logs

\* A step acknowledges at most one call, and takes no acknowledgement back.
Acknowledges ==
  /\ \A o \in Op : phase[o] = "acknowledged" => phase'[o] = "acknowledged"
  /\ \A o, p \in Op : phase[o] # "acknowledged" /\ phase'[o] = "acknowledged"
       /\ phase[p] # "acknowledged" /\ phase'[p] = "acknowledged" => o = p

\* Merging two dictionaries gives one of the same type.
LEMMA MergeKeysType ==
  ASSUME NEW K, NEW V, NEW a \in [K -> V \cup {None}], NEW b \in [K -> V \cup {None}]
  PROVE  /\ MergeKeys(a, b) \in [K -> V \cup {None}]
         /\ \A k \in K : MergeKeys(a, b)[k] = IF b[k] = None THEN a[k] ELSE b[k]
  BY DEF MergeKeys

\* Merging two documents gives a document that holds the lists of both.
LEMMA MergeType ==
  ASSUME NEW a \in Doc, NEW b \in Doc
  PROVE  MergeDocs(a, b) \in Doc
<1> DEFINE m == MergeDocs(a, b)
<1>1. m.enrollments \in [Device -> Status \cup {None}]
  BY MergeKeysType DEF Doc, MergeDocs
<1>2. m.fleet \in [Device -> Heartbeat \cup {None}]
  BY MergeKeysType DEF Doc, MergeDocs
<1>3. m.saves \in [Save -> Nat \cup {None}]
  BY MergeKeysType DEF Doc, MergeDocs
<1>4. m.records \in [Key -> Op \cup {None}]
  BY MergeKeysType DEF Doc, MergeDocs
<1>5. /\ m.campaigns \in SUBSET Op /\ m.sync_queue \in SUBSET Entry
      /\ m.sync_delivered \in SUBSET Delivery /\ m.logs \in SUBSET Entry
  BY DEF Doc, MergeDocs
<1>6. QED
  BY <1>1, <1>2, <1>3, <1>4, <1>5 DEF Doc, MergeDocs

LEMMA MergeKeeps ==
  ASSUME NEW a, NEW b
  PROVE  Keeps(a, MergeDocs(a, b)) /\ Keeps(b, MergeDocs(a, b))
  BY DEF Keeps, MergeDocs

\* The events of a document that keeps another's lists.
LEMMA KeepsEvents ==
  ASSUME NEW a, NEW b, Keeps(a, b)
  PROVE  EventsIn(a) \subseteq EventsIn(b)
  BY DEF Keeps, EventsIn

\* Merged documents that know their campaigns give one that does.
LEMMA MergeCampaigns ==
  ASSUME NEW a \in Doc, NEW b \in Doc, CampaignsKnownIn(a), CampaignsKnownIn(b)
  PROVE  CampaignsKnownIn(MergeDocs(a, b))
<1> DEFINE m == MergeDocs(a, b)
<1>1. \A k \in Key : m.records[k] = a.records[k] \/ m.records[k] = b.records[k]
  <2>1. a.records \in [Key -> Op \cup {None}] /\ b.records \in [Key -> Op \cup {None}]
    BY DEF Doc
  <2>2. m.records = MergeKeys(a.records, b.records)
    BY DEF MergeDocs
  <2>3. DOMAIN a.records = Key
    BY <2>1
  <2>4. \A k \in Key : MergeKeys(a.records, b.records)[k] =
                       IF b.records[k] = None THEN a.records[k] ELSE b.records[k]
    BY <2>3 DEF MergeKeys
  <2>5. QED
    BY <2>2, <2>4
<1>2. a.campaigns \subseteq m.campaigns /\ b.campaigns \subseteq m.campaigns
  BY DEF MergeDocs
<1> HIDE DEF m
<1>3. CampaignsKnownIn(m)
  BY <1>1, <1>2 DEF CampaignsKnownIn
<1>4. QED
  BY <1>3 DEF m

-----------------------------------------------------------------------------
(* One handler. *)

\* Type and campaigns of the copies after a handler has served its request.
LEMMA ServeCopies ==
  ASSUME IInv, NEW i \in Instance, NEW op \in Op, NEW doc \in Doc,
         CampaignsKnownIn(doc), Serve(i, op, doc)
  PROVE  /\ stored' \in Doc /\ copy' \in [Instance -> Doc]
         /\ CampaignsKnown' /\ CopiesKnowCampaigns'
         /\ Keeps(stored, stored')
         /\ faults' \in Nat
<1> DEFINE m == MergeDocs(stored, doc)
<1>1. m \in Doc /\ CampaignsKnownIn(m) /\ Keeps(stored, m)
  BY MergeType, MergeCampaigns, MergeKeeps DEF IInv, TypeOK, CampaignsKnown
<1>2. Keeps(stored, stored)
  BY DEF Keeps
<1>3. /\ stored' = m \/ stored' = stored
      /\ \E d \in {doc, m} : copy' = [copy EXCEPT ![i] = d]
      /\ faults' = faults \/ faults' = faults + 1
  BY DEF Serve, Persist, PersistFails
<1> HIDE DEF m
<1>4. copy' \in [Instance -> Doc]
  BY <1>1, <1>3 DEF IInv, TypeOK
<1>5. CopiesKnowCampaigns'
  <2>1. PICK d \in {doc, m} : copy' = [copy EXCEPT ![i] = d]
    BY <1>3
  <2>2. CampaignsKnownIn(d)
    BY <1>1
  <2>3. SUFFICES ASSUME NEW j \in Instance PROVE CampaignsKnownIn(copy'[j])
    BY DEF CopiesKnowCampaigns, CampaignsKnownIn
  <2>4. copy'[j] = d \/ copy'[j] = copy[j]
    BY <2>1 DEF IInv, TypeOK
  <2>5. QED
    BY <2>2, <2>4 DEF IInv, CopiesKnowCampaigns
<1>6. CampaignsKnown'
  <2>1. CampaignsKnownIn(stored')
    BY <1>1, <1>3 DEF IInv, CampaignsKnown
  <2>2. QED
    BY <2>1 DEF CampaignsKnown, CampaignsKnownIn
<1>7. QED
  BY <1>1, <1>2, <1>3, <1>4, <1>5, <1>6 DEF IInv, TypeOK

\* A thread ends: only its own call's phase may change, to the result.
LEMMA ThreadEnds ==
  ASSUME IInv, NEW i \in Instance, NEW op \in Op, NEW result \in Phase \ Open,
         EndThread(i, op, result)
  PROVE  /\ threads' \in Thread
         /\ phase' \in [Op -> Phase] /\ waiting' \in [Op -> Instance \cup {None}]
         /\ \A o \in Op : phase'[o] = phase[o] \/ (o = op /\ phase'[o] = result)
         /\ WaitsOpen' /\ Acknowledges
<1>1. threads' \in Thread
  <2>1. threads[i] \in [Op -> Nat] /\ threads[i][op] \in Nat /\ threads[i][op] > 0
    BY DEF EndThread, IInv, TypeOK, Thread
  <2>2. threads[i][op] - 1 \in Nat
    BY <2>1
  <2>3. threads' = [threads EXCEPT ![i] = [threads[i] EXCEPT ![op] = threads[i][op] - 1]]
    BY DEF EndThread
  <2>4. QED
    BY <2>1, <2>2, <2>3 DEF IInv, TypeOK, Thread
<1>2. /\ phase' \in [Op -> Phase] /\ waiting' \in [Op -> Instance \cup {None}]
      /\ \A o \in Op : phase'[o] = phase[o] \/ (o = op /\ phase'[o] = result)
  BY DEF EndThread, IInv, TypeOK
<1>3. \/ phase' = phase /\ waiting' = waiting
      \/ /\ phase' = [phase EXCEPT ![op] = result]
         /\ waiting' = [waiting EXCEPT ![op] = None]
         /\ phase[op] \in Open
  BY OpAssumption DEF EndThread, IsWaitedFor, IInv, WaitsOpen
<1>4. WaitsOpen' /\ Acknowledges
  BY <1>3 DEF IInv, TypeOK, WaitsOpen, Acknowledges, Open
<1>5. QED
  BY <1>1, <1>2, <1>4

\* The results of a call are phases.
LEMMA Results ==
  ASSUME IInv, NEW op \in Op
  PROVE  /\ NoAnswer(op) \in Phase \ Open /\ NoAnswer(op) # "acknowledged"
         /\ Answered(op, TRUE) = "acknowledged" /\ "acknowledged" \in Phase \ Open
         /\ Answered(op, FALSE) \in Phase \ Open /\ Answered(op, FALSE) # "acknowledged"
  BY DEF NoAnswer, Answered, Phase, Open

\* A handler that serves keeps everything but the record of deliveries, which
\* only drain touches.
LEMMA ServePreserves ==
  ASSUME IInv, NEW i \in Instance, NEW op \in Op, NEW doc \in Doc,
         CampaignsKnownIn(doc), op \in Posts => PostedEvent(op) \in EventsIn(doc),
         Serve(i, op, doc), UNCHANGED environment
  PROVE  /\ CampaignsKnown' /\ CopiesKnowCampaigns' /\ AcknowledgedIsStored'
         /\ handed' \subseteq Delivery => TypeOK'
         /\ handed' \subseteq handed => IInv'
         /\ WaitsOpen' /\ Acknowledges
         /\ Keeps(stored, stored')
<1>1. /\ stored' \in Doc /\ copy' \in [Instance -> Doc]
      /\ CampaignsKnown' /\ CopiesKnowCampaigns'
      /\ Keeps(stored, stored')
      /\ faults' \in Nat
  BY ServeCopies
<1>2. \/ Persist(i, doc) /\ EndThread(i, op, "acknowledged")
      \/ PersistFails(i, doc) /\ EndThread(i, op, NoAnswer(op))
  BY Results DEF Serve
<1>3. /\ threads' \in Thread
      /\ phase' \in [Op -> Phase] /\ waiting' \in [Op -> Instance \cup {None}]
      /\ WaitsOpen' /\ Acknowledges
  BY <1>2, ThreadEnds, Results
<1>4. AcknowledgedIsStored'
  <2>1. EventsIn(stored) \subseteq EventsIn(stored')
    BY <1>1, KeepsEvents
  <2>2. SUFFICES ASSUME NEW o \in Posts, phase'[o] = "acknowledged"
                 PROVE  PostedEvent(o) \in EventsIn(stored')
    BY DEF AcknowledgedIsStored, Posts, PostedEvent, EventsIn
  <2>3. o \in Op
    BY DEF Posts
  <2>4. CASE phase[o] = "acknowledged"
    BY <2>1, <2>4 DEF IInv, AcknowledgedIsStored
  <2>5. CASE phase[o] # "acknowledged"
    <3>1. o = op /\ Persist(i, doc)
      <4>1. CASE Persist(i, doc) /\ EndThread(i, op, "acknowledged")
        BY <4>1, <2>2, <2>3, <2>5, ThreadEnds, Results
      <4>2. CASE PersistFails(i, doc) /\ EndThread(i, op, NoAnswer(op))
        BY <4>2, <2>2, <2>3, <2>5, ThreadEnds, Results
      <4>3. QED
        BY <1>2, <4>1, <4>2
    <3>2. Keeps(doc, stored')
      BY <3>1, MergeKeeps DEF Persist
    <3>3. QED
      BY <3>1, <3>2, KeepsEvents
  <2>6. QED
    BY <2>4, <2>5
<1>5. handed' \subseteq Delivery => TypeOK'
  BY <1>1, <1>3 DEF IInv, TypeOK, environment
<1>6. ASSUME handed' \subseteq handed PROVE IInv'
  <2>1. HandedAreRecorded'
    BY <1>1, <1>6 DEF HandedAreRecorded, IInv, Keeps
  <2>2. handed' \subseteq Delivery
    BY <1>6 DEF IInv, TypeOK
  <2>3. QED
    BY <1>1, <1>3, <1>4, <1>5, <2>1, <2>2 DEF IInv
<1>7. QED
  BY <1>1, <1>3, <1>4, <1>5, <1>6

\* A handler that refuses changes no document.
LEMMA RefusePreserves ==
  ASSUME IInv, NEW i \in Instance, NEW op \in Op, Refuse(i, op), UNCHANGED <<environment, handed>>
  PROVE  IInv' /\ Keeps(stored, stored') /\ Acknowledges
<1>1. /\ threads' \in Thread
      /\ phase' \in [Op -> Phase] /\ waiting' \in [Op -> Instance \cup {None}]
      /\ \A o \in Op : phase'[o] = "acknowledged" => phase[o] = "acknowledged"
      /\ WaitsOpen' /\ Acknowledges
  BY ThreadEnds, Results DEF Refuse
<1>2. stored' = stored /\ copy' = copy /\ faults' = faults /\ handed' = handed
  BY DEF Refuse
<1>3. TypeOK' /\ HandedAreRecorded'
  BY <1>1, <1>2 DEF IInv, TypeOK, environment, HandedAreRecorded
<1>4. CampaignsKnown' /\ CopiesKnowCampaigns'
  BY <1>2 DEF IInv, CampaignsKnown, CopiesKnowCampaigns, CampaignsKnownIn
<1>5. AcknowledgedIsStored'
  BY <1>1, <1>2 DEF IInv, AcknowledgedIsStored, Posts, PostedEvent, EventsIn
<1>6. QED
  BY <1>1, <1>2, <1>3, <1>4, <1>5 DEF IInv, Keeps

-----------------------------------------------------------------------------
(* The handlers. *)

\* The documents the handlers make of a copy.
LEMMA DocUpdates ==
  ASSUME NEW doc \in Doc
  PROVE  /\ \A d \in Device, x \in Status : [doc EXCEPT !.enrollments[d] = x] \in Doc
         /\ \A d \in Device, x \in Heartbeat : [doc EXCEPT !.fleet[d] = x] \in Doc
         /\ \A s \in Save, v \in Nat : [doc EXCEPT !.saves[s] = v] \in Doc
         /\ \A k \in Key, op \in Op : [doc EXCEPT !.records[k] = op] \in Doc
         /\ \A op \in Op : [doc EXCEPT !.campaigns = @ \cup {op}] \in Doc
         /\ \A e \in Entry : [doc EXCEPT !.sync_queue = @ \cup {e}] \in Doc
         /\ \A e \in Entry : [doc EXCEPT !.logs = @ \cup {e}] \in Doc
<1>1. \A d \in Device, x \in Status : [doc EXCEPT !.enrollments[d] = x] \in Doc
  BY DEF Doc
<1>2. \A d \in Device, x \in Heartbeat : [doc EXCEPT !.fleet[d] = x] \in Doc
  BY DEF Doc
<1>3. \A s \in Save, v \in Nat : [doc EXCEPT !.saves[s] = v] \in Doc
  BY DEF Doc
<1>4. \A k \in Key, op \in Op : [doc EXCEPT !.records[k] = op] \in Doc
  BY DEF Doc
<1>5. \A op \in Op : [doc EXCEPT !.campaigns = @ \cup {op}] \in Doc
  BY DEF Doc
<1>6. \A e \in Entry : [doc EXCEPT !.sync_queue = @ \cup {e}] \in Doc
  BY DEF Doc
<1>7. \A e \in Entry : [doc EXCEPT !.logs = @ \cup {e}] \in Doc
  BY DEF Doc
<1>8. QED
  BY <1>1, <1>2, <1>3, <1>4, <1>5, <1>6, <1>7

\* A document that keeps the records and campaigns of one that knows its campaigns.
LEMMA SameCampaigns ==
  ASSUME NEW doc, NEW new, CampaignsKnownIn(doc),
         new.records = doc.records, new.campaigns = doc.campaigns
  PROVE  CampaignsKnownIn(new)
  BY DEF CampaignsKnownIn

\* Every handler but drain leaves the invariant true and drops nothing.
LEMMA HandlerPreserves ==
  ASSUME IInv, NEW i \in Instance, NEW op \in Op, Handle(i, op), ~SyncDrain(i, op)
  PROVE  IInv' /\ Keeps(stored, stored') /\ Acknowledges
<1> USE OpAssumption
<1>0. copy[i] \in Doc /\ CampaignsKnownIn(copy[i]) /\ now \in Nat
  BY DEF IInv, TypeOK, CopiesKnowCampaigns
<1>a. ASSUME NEW doc \in Doc, CampaignsKnownIn(doc),
             op \in Posts => PostedEvent(op) \in EventsIn(doc),
             Serve(i, op, doc), UNCHANGED <<environment, handed>>
      PROVE  IInv' /\ Keeps(stored, stored') /\ Acknowledges
  BY <1>a, ServePreserves
<1>1. CASE WriteRecord(i, op)
  <2> DEFINE doc == [copy[i] EXCEPT !.records[op.key] = op]
  <2>1. op.route = "record" /\ Serve(i, op, doc) /\ UNCHANGED <<environment, handed>>
    BY <1>1 DEF WriteRecord
  <2>2. doc \in Doc
    BY <1>0, <2>1, DocUpdates
  <2>3. CampaignsKnownIn(doc)
    BY <1>0, <2>1 DEF CampaignsKnownIn, Doc
  <2>4. op \notin Posts
    BY <2>1 DEF Posts
  <2> HIDE DEF doc
  <2>5. QED
    BY <1>a, <2>1, <2>2, <2>3, <2>4
<1>2. CASE EnrollmentSubmit(i, op)
  <2> DEFINE doc == [copy[i] EXCEPT !.enrollments[op.device] = "accepted_dev"]
  <2>1. op.route = "submit" /\ UNCHANGED <<environment, handed>>
    BY <1>2 DEF EnrollmentSubmit
  <2>2. Serve(i, op, doc) \/ Refuse(i, op)
    BY <1>2 DEF EnrollmentSubmit
  <2>3. doc \in Doc
    BY <1>0, <2>1, DocUpdates DEF Status
  <2>4. CampaignsKnownIn(doc)
    BY <1>0, SameCampaigns DEF Doc
  <2>5. op \notin Posts
    BY <2>1 DEF Posts
  <2> HIDE DEF doc
  <2>6. QED
    BY <1>a, <2>1, <2>2, <2>3, <2>4, <2>5, RefusePreserves
<1>3. CASE EnrollmentRevoke(i, op)
  <2> DEFINE doc == Revoked(copy[i], op.device)
  <2>1. op.route = "revoke" /\ UNCHANGED <<environment, handed>>
    BY <1>3 DEF EnrollmentRevoke
  <2>2. Serve(i, op, doc) \/ Refuse(i, op)
    BY <1>3 DEF EnrollmentRevoke
  <2>3. doc \in Doc
    <3>1. op.device \in Device
      BY <2>1
    <3>2. CASE copy[i].fleet[op.device] = None
      BY <1>0, <3>1, <3>2 DEF Revoked, Doc, Status
    <3>3. CASE copy[i].fleet[op.device] # None
      <4>1. copy[i].fleet[op.device] \in Heartbeat
        BY <1>0, <3>1, <3>3 DEF Doc
      <4>2. [copy[i].fleet[op.device] EXCEPT !.health = "revoked", !.revoked = TRUE] \in Heartbeat
        BY <4>1 DEF Heartbeat
      <4>3. QED
        BY <1>0, <3>1, <3>3, <4>2 DEF Revoked, Doc, Status
    <3>4. QED
      BY <3>2, <3>3
  <2>4. CampaignsKnownIn(doc)
    <3>1. doc.records = copy[i].records /\ doc.campaigns = copy[i].campaigns
      BY <1>0 DEF Doc, Revoked
    <3> HIDE DEF doc
    <3>2. QED
      BY <1>0, <3>1, SameCampaigns
  <2>5. op \notin Posts
    BY <2>1 DEF Posts
  <2> HIDE DEF doc
  <2>6. QED
    BY <1>a, <2>1, <2>2, <2>3, <2>4, <2>5, RefusePreserves
<1>4. CASE FleetHeartbeat(i, op)
  <2> DEFINE x == [health |-> "healthy", stale |-> FALSE, revoked |-> FALSE]
             doc == [copy[i] EXCEPT !.fleet[op.device] = x]
  <2>1. op.route = "heartbeat" /\ Serve(i, op, doc) /\ UNCHANGED <<environment, handed>>
    BY <1>4 DEF FleetHeartbeat
  <2>2. x \in Heartbeat
    BY DEF Heartbeat
  <2>3. doc \in Doc
    BY <1>0, <2>1, <2>2, DocUpdates
  <2>4. CampaignsKnownIn(doc)
    BY <1>0, SameCampaigns DEF Doc
  <2>5. op \notin Posts
    BY <2>1 DEF Posts
  <2> HIDE DEF doc
  <2>6. QED
    BY <1>a, <2>1, <2>3, <2>4, <2>5
<1>5. CASE FleetMarkStale(i, op)
  <2> DEFINE rec == copy[i].fleet[op.device]
             x == [health |-> "stale", stale |-> TRUE,
                   revoked |-> IF rec = None THEN FALSE ELSE rec.revoked]
             doc == [copy[i] EXCEPT !.fleet[op.device] = x]
  <2>1. op.route = "mark_stale" /\ Serve(i, op, doc) /\ UNCHANGED <<environment, handed>>
    BY <1>5 DEF FleetMarkStale
  <2>2. x \in Heartbeat
    <3>1. rec = None \/ rec \in Heartbeat
      BY <1>0, <2>1 DEF Doc
    <3>2. QED
      BY <3>1 DEF Heartbeat
  <2> HIDE DEF x
  <2>3. doc \in Doc
    BY <1>0, <2>1, <2>2, DocUpdates
  <2>4. CampaignsKnownIn(doc)
    BY <1>0, SameCampaigns DEF Doc
  <2>5. op \notin Posts
    BY <2>1 DEF Posts
  <2> HIDE DEF doc
  <2>6. QED
    BY <1>a, <2>1, <2>3, <2>4, <2>5
<1>6. CASE SavesPut(i, op)
  <2> DEFINE version == copy[i].saves[op.save]
             doc == [copy[i] EXCEPT !.saves[op.save] = NextVersion(version, op)]
  <2>1. op.route = "put" /\ UNCHANGED <<environment, handed>>
    BY <1>6 DEF SavesPut
  <2>2. Serve(i, op, doc) \/ Refuse(i, op)
    BY <1>6 DEF SavesPut
  <2>3. NextVersion(version, op) \in Nat
    <3>1. version = None \/ version \in Nat
      BY <1>0, <2>1 DEF Doc
    <3>2. op.version = None \/ op.version \in Nat
      BY <2>1
    <3>3. QED
      BY <3>1, <3>2 DEF NextVersion
  <2>4. doc \in Doc
    BY <1>0, <2>1, <2>3, DocUpdates
  <2>5. CampaignsKnownIn(doc)
    BY <1>0, SameCampaigns DEF Doc
  <2>6. op \notin Posts
    BY <2>1 DEF Posts
  <2> HIDE DEF doc
  <2>7. QED
    BY <1>a, <2>1, <2>2, <2>4, <2>5, <2>6, RefusePreserves
<1>7. CASE SyncEnqueue(i, op)
  <2> DEFINE e == [what |-> op.what, at |-> now]
             doc == [copy[i] EXCEPT !.sync_queue = @ \cup {e}]
  <2>1. op.route = "enqueue" /\ Serve(i, op, doc) /\ UNCHANGED <<environment, handed>>
    BY <1>7 DEF SyncEnqueue
  <2>2. e \in Entry
    BY <1>0, <2>1 DEF Entry
  <2>3. doc \in Doc
    BY <1>0, <2>2, DocUpdates
  <2>4. CampaignsKnownIn(doc)
    BY <1>0, SameCampaigns DEF Doc
  <2>5. PostedEvent(op) \in EventsIn(doc)
    <3>1. e \in doc.sync_queue /\ e.what = op.what
      BY <1>0 DEF Doc
    <3> HIDE DEF doc, e
    <3>2. QED
      BY <2>1, <3>1 DEF PostedEvent, EventsIn
  <2> HIDE DEF doc
  <2>6. QED
    BY <1>a, <2>1, <2>3, <2>4, <2>5
<1>8. CASE Log(i, op)
  <2> DEFINE e == [what |-> op.what, at |-> now]
             doc == [copy[i] EXCEPT !.logs = @ \cup {e}]
  <2>1. op.route = "log" /\ Serve(i, op, doc) /\ UNCHANGED <<environment, handed>>
    BY <1>8 DEF Log
  <2>2. e \in Entry
    BY <1>0, <2>1 DEF Entry
  <2>3. doc \in Doc
    BY <1>0, <2>2, DocUpdates
  <2>4. CampaignsKnownIn(doc)
    BY <1>0, SameCampaigns DEF Doc
  <2>5. PostedEvent(op) \in EventsIn(doc)
    <3>1. e \in doc.logs /\ e.what = op.what
      BY <1>0 DEF Doc
    <3> HIDE DEF doc, e
    <3>2. QED
      BY <2>1, <3>1 DEF PostedEvent, EventsIn
  <2> HIDE DEF doc
  <2>6. QED
    BY <1>a, <2>1, <2>3, <2>4, <2>5
<1>9. CASE OtaCampaign(i, op)
  <2> DEFINE doc == [copy[i] EXCEPT !.campaigns = @ \cup {op}, !.records[op.key] = op]
  <2>1. op.route = "ota_campaign" /\ Serve(i, op, doc) /\ UNCHANGED <<environment, handed>>
    BY <1>9 DEF OtaCampaign
  <2>2. doc \in Doc
    BY <1>0, <2>1 DEF Doc
  <2>3. CampaignsKnownIn(doc)
    BY <1>0, <2>1 DEF CampaignsKnownIn, Doc
  <2>4. op \notin Posts
    BY <2>1 DEF Posts
  <2> HIDE DEF doc
  <2>5. QED
    BY <1>a, <2>1, <2>2, <2>3, <2>4
<1>10. CASE RollbackCampaign(i, op)
  <2> DEFINE doc == [copy[i] EXCEPT !.campaigns = @ \cup {op}]
  <2>1. op.route = "rollback_campaign" /\ Serve(i, op, doc) /\ UNCHANGED <<environment, handed>>
    BY <1>10 DEF RollbackCampaign
  <2>2. doc \in Doc
    BY <1>0, DocUpdates
  <2>3. CampaignsKnownIn(doc)
    BY <1>0 DEF CampaignsKnownIn, Doc
  <2>4. op \notin Posts
    BY <2>1 DEF Posts
  <2> HIDE DEF doc
  <2>5. QED
    BY <1>a, <2>1, <2>2, <2>3, <2>4
<1>11. QED
  BY <1>1, <1>2, <1>3, <1>4, <1>5, <1>6, <1>7, <1>8, <1>9, <1>10 DEF Handle

\* Drain: what it hands out has just been stored as delivered.
LEMMA DrainPreserves ==
  ASSUME IInv, NEW i \in Instance, NEW op \in Op, SyncDrain(i, op)
  PROVE  IInv' /\ Keeps(stored, stored') /\ Acknowledges
<1> DEFINE Delivered(batch) == {[what |-> e.what, queued |-> e.at, at |-> now] : e \in batch}
           Drained(batch) == [copy[i] EXCEPT !.sync_queue = @ \ batch,
                                            !.sync_delivered = @ \cup Delivered(batch)]
<1>1. PICK batch \in SUBSET copy[i].sync_queue :
        /\ Serve(i, op, Drained(batch))
        /\ handed' = IF phase'[op] = "acknowledged" /\ phase[op] # "acknowledged"
                      THEN handed \cup Delivered(batch) ELSE handed
  BY DEF SyncDrain
<1>2. op.route = "drain" /\ UNCHANGED environment
  BY DEF SyncDrain
<1>3. copy[i] \in Doc /\ CampaignsKnownIn(copy[i]) /\ now \in Nat
  BY DEF IInv, TypeOK, CopiesKnowCampaigns
<1> DEFINE delivered == Delivered(batch)
           doc == Drained(batch)
<1>4. delivered \subseteq Delivery
  BY <1>3 DEF Doc, Entry, Delivery
<1> HIDE DEF Delivered, delivered
<1>5. doc \in Doc
  BY <1>3, <1>4 DEF Doc, delivered
<1>6. CampaignsKnownIn(doc)
  BY <1>3, SameCampaigns DEF Doc
<1>7. delivered \subseteq doc.sync_delivered
  BY <1>3 DEF Doc, delivered
<1>8. op \notin Posts
  BY <1>2 DEF Posts
<1>9. \/ handed' = handed
      \/ /\ handed' = handed \cup delivered
         /\ phase'[op] = "acknowledged" /\ phase[op] # "acknowledged"
  BY <1>1 DEF delivered
<1>10. Serve(i, op, doc)
  BY <1>1
<1> HIDE DEF Drained, doc
<1>11. /\ CampaignsKnown' /\ CopiesKnowCampaigns' /\ AcknowledgedIsStored'
       /\ handed' \subseteq Delivery => TypeOK'
       /\ WaitsOpen' /\ Acknowledges
       /\ Keeps(stored, stored')
  BY <1>2, <1>5, <1>6, <1>8, <1>10, ServePreserves
<1>12. handed' \subseteq Delivery
  BY <1>4, <1>9 DEF IInv, TypeOK
<1>13. HandedAreRecorded'
  <2>1. handed \subseteq stored'.sync_delivered
    BY <1>11 DEF IInv, HandedAreRecorded, Keeps
  <2>2. CASE phase'[op] = "acknowledged" /\ phase[op] # "acknowledged"
    <3>1. Persist(i, doc)
      <4>1. CASE PersistFails(i, doc) /\ EndThread(i, op, NoAnswer(op))
        BY <2>2, <4>1, ThreadEnds, Results
      <4>2. QED
        BY <1>10, <4>1 DEF Serve
    <3>2. Keeps(doc, stored')
      BY <3>1, MergeKeeps DEF Persist
    <3>3. QED
      BY <1>7, <1>9, <2>1, <3>2 DEF Keeps, HandedAreRecorded
  <2>3. QED
    BY <1>9, <2>1, <2>2 DEF HandedAreRecorded
<1>14. QED
  BY <1>11, <1>12, <1>13 DEF IInv

-----------------------------------------------------------------------------
(* The whole plane. *)

\* Each copy is reloaded or stays as it is.
Reloads == /\ copy' \in [Instance -> Doc]
           /\ \A j \in Instance : copy'[j] = stored \/ copy'[j] = copy[j]

\* A step that stores nothing: copies are reloaded from the document and no call
\* becomes acknowledged.
LEMMA ReloadPreserves ==
  ASSUME IInv, Reloads, stored' = stored, handed' = handed,
         threads' \in Thread, now' \in Nat, faults' \in Nat, phase' \in [Op -> Phase],
         waiting' \in [Op -> Instance \cup {None}],
         mode' \in {"online", "disconnected"}, outage' \in BOOLEAN,
         \A o \in Op : phase'[o] = "acknowledged" <=> phase[o] = "acknowledged",
         WaitsOpen'
  PROVE  IInv' /\ Keeps(stored, stored') /\ Acknowledges
<1>1. copy' \in [Instance -> Doc] /\ stored' = stored /\ handed' = handed
  BY DEF Reloads
<1>2. TypeOK' /\ HandedAreRecorded'
  BY <1>1 DEF IInv, TypeOK, HandedAreRecorded
<1>3. CampaignsKnown'
  BY <1>1 DEF IInv, CampaignsKnown, CampaignsKnownIn
<1>4. CopiesKnowCampaigns'
  <2>1. SUFFICES ASSUME NEW j \in Instance PROVE CampaignsKnownIn(copy'[j])
    BY DEF CopiesKnowCampaigns, CampaignsKnownIn
  <2>2. copy'[j] = stored \/ copy'[j] = copy[j]
    BY <2>1 DEF Reloads
  <2>3. QED
    BY <2>2 DEF IInv, CampaignsKnown, CopiesKnowCampaigns
<1>5. AcknowledgedIsStored'
  BY <1>1 DEF IInv, AcknowledgedIsStored, Posts, PostedEvent, EventsIn
<1>6. QED
  BY <1>1, <1>2, <1>3, <1>4, <1>5 DEF IInv, Keeps, Acknowledges

\* A request arrives at an instance.
LEMMA ArrivePreserves ==
  ASSUME IInv, NEW i \in Instance, NEW op \in Op, Send(i, op) \/ Resync(i, op)
  PROVE  IInv' /\ Keeps(stored, stored') /\ Acknowledges
<1>1. /\ copy' = [copy EXCEPT ![i] = stored]
      /\ threads' = [threads EXCEPT ![i][op] = @ + 1]
      /\ waiting' = [waiting EXCEPT ![op] = i]
      /\ \E open \in Open : phase' = [phase EXCEPT ![op] = open]
      /\ phase[op] # "acknowledged"
      /\ UNCHANGED <<stored, now, mode, outage, handed, faults>>
  BY DEF Send, Resync, Arrive, Open
<1>2. Reloads
  BY <1>1 DEF IInv, TypeOK, Reloads
<1>3. threads' \in Thread
  <2>1. threads[i] \in [Op -> Nat] /\ threads[i][op] + 1 \in Nat
    BY DEF IInv, TypeOK, Thread
  <2>2. threads' = [threads EXCEPT ![i] = [threads[i] EXCEPT ![op] = threads[i][op] + 1]]
    BY <1>1
  <2>3. QED
    BY <2>1, <2>2 DEF IInv, TypeOK, Thread
<1>4. /\ phase' \in [Op -> Phase] /\ waiting' \in [Op -> Instance \cup {None}]
      /\ \A o \in Op : phase'[o] = "acknowledged" <=> phase[o] = "acknowledged"
      /\ WaitsOpen'
  BY <1>1 DEF IInv, TypeOK, Phase, Open, WaitsOpen
<1>5. /\ now' \in Nat /\ faults' \in Nat
      /\ mode' \in {"online", "disconnected"} /\ outage' \in BOOLEAN
      /\ stored' = stored /\ handed' = handed
  BY <1>1 DEF IInv, TypeOK
<1>6. QED
  BY <1>2, <1>3, <1>4, <1>5, ReloadPreserves

\* The steps of the clients, the clock and the processes.
LEMMA OtherPreserves ==
  ASSUME IInv,
         \/ \E op \in Op : HoldCall(op) \/ TimeOut(op)
         \/ \E i \in Instance : Reload(i) \/ Restart(i)
         \/ SetMode \/ SimulateOutage \/ Tick
  PROVE  IInv' /\ Keeps(stored, stored') /\ Acknowledges
<1>1. ASSUME NEW op \in Op, HoldCall(op) \/ TimeOut(op) PROVE IInv' /\ Keeps(stored, stored') /\ Acknowledges
  <2>1. /\ \/ phase' = [phase EXCEPT ![op] = "held"] \/ phase' = [phase EXCEPT ![op] = NoAnswer(op)]
        /\ waiting' = waiting \/ waiting' = [waiting EXCEPT ![op] = None]
        /\ phase[op] # "acknowledged"
        /\ phase[op] \notin Open \/ waiting' = [waiting EXCEPT ![op] = None]
        /\ faults' = faults \/ faults' = faults + 1
        /\ UNCHANGED <<server, now, mode, outage>>
    BY <1>1 DEF HoldCall, TimeOut, Open
  <2>2. /\ phase' \in [Op -> Phase] /\ waiting' \in [Op -> Instance \cup {None}]
        /\ \A o \in Op : phase'[o] = "acknowledged" <=> phase[o] = "acknowledged"
        /\ WaitsOpen'
    <3>1. PICK p \in Phase \ Open : p # "acknowledged" /\ phase' = [phase EXCEPT ![op] = p]
      BY <2>1, Results DEF Phase, Open
    <3>2. /\ phase' \in [Op -> Phase]
          /\ \A o \in Op : phase'[o] = "acknowledged" <=> phase[o] = "acknowledged"
      BY <2>1, <3>1 DEF IInv, TypeOK
    <3>3. waiting' \in [Op -> Instance \cup {None}] /\ WaitsOpen'
      BY <2>1, <3>1 DEF IInv, TypeOK, WaitsOpen
    <3>4. QED
      BY <3>2, <3>3
  <2>3. /\ stored' = stored /\ handed' = handed
        /\ Reloads
        /\ now' \in Nat /\ faults' \in Nat /\ mode' \in {"online", "disconnected"}
        /\ outage' \in BOOLEAN /\ threads' \in Thread
    BY <2>1 DEF IInv, TypeOK, server, Reloads
  <2>4. QED
    BY <2>2, <2>3, ReloadPreserves
<1>2. ASSUME NEW i \in Instance, Reload(i) PROVE IInv' /\ Keeps(stored, stored') /\ Acknowledges
  <2>1. Reloads
    BY <1>2 DEF Reload, IInv, TypeOK, Reloads
  <2>2. /\ stored' = stored /\ handed' = handed
        /\ now' \in Nat /\ faults' \in Nat /\ mode' \in {"online", "disconnected"}
        /\ outage' \in BOOLEAN /\ threads' \in Thread
        /\ phase' \in [Op -> Phase] /\ waiting' \in [Op -> Instance \cup {None}]
        /\ \A o \in Op : phase'[o] = "acknowledged" <=> phase[o] = "acknowledged"
        /\ WaitsOpen'
    BY <1>2 DEF Reload, IInv, TypeOK, WaitsOpen
  <2>3. QED
    BY <2>1, <2>2, ReloadPreserves
<1>3. ASSUME NEW i \in Instance, Restart(i) PROVE IInv' /\ Keeps(stored, stored') /\ Acknowledges
  <2>1. Reloads
    BY <1>3 DEF Restart, IInv, TypeOK, Reloads
  <2>2. threads' \in Thread
    BY <1>3 DEF Restart, IInv, TypeOK, Thread
  <2>3. /\ phase' \in [Op -> Phase]
        /\ \A o \in Op : phase'[o] = "acknowledged" <=> phase[o] = "acknowledged"
    <3>1. phase' = [o \in Op |-> IF IsWaitedFor(i, o) THEN NoAnswer(o) ELSE phase[o]]
      BY <1>3 DEF Restart
    <3>2. \A o \in Op : NoAnswer(o) \in Phase /\ NoAnswer(o) # "acknowledged"
      BY Results
    <3>3. \A o \in Op : IsWaitedFor(i, o) => phase[o] # "acknowledged"
      BY OpAssumption DEF IsWaitedFor, IInv, WaitsOpen, Open
    <3>4. QED
      BY <3>1, <3>2, <3>3 DEF IInv, TypeOK
  <2>4. waiting' \in [Op -> Instance \cup {None}] /\ WaitsOpen'
    BY <1>3 DEF Restart, IInv, TypeOK, WaitsOpen
  <2>5. /\ stored' = stored /\ handed' = handed /\ now' \in Nat /\ faults' \in Nat
        /\ mode' \in {"online", "disconnected"} /\ outage' \in BOOLEAN
    BY <1>3 DEF Restart, IInv, TypeOK
  <2>6. QED
    BY <2>1, <2>2, <2>3, <2>4, <2>5, ReloadPreserves
<1>4. ASSUME SetMode \/ SimulateOutage \/ Tick PROVE IInv' /\ Keeps(stored, stored') /\ Acknowledges
  <2>1. /\ UNCHANGED <<server, phase, waiting, faults>>
        /\ mode' \in {"online", "disconnected"} /\ outage' \in BOOLEAN /\ now' \in Nat
    <3>1. mode \in {"online", "disconnected"} /\ outage \in BOOLEAN /\ now \in Nat
      BY DEF IInv, TypeOK
    <3>2. CASE SetMode
      BY <3>1, <3>2 DEF SetMode
    <3>3. CASE SimulateOutage
      BY <3>1, <3>3 DEF SimulateOutage
    <3>4. CASE Tick
      BY <3>1, <3>4 DEF Tick
    <3>5. QED
      BY <1>4, <3>2, <3>3, <3>4
  <2>2. /\ stored' = stored /\ handed' = handed
        /\ Reloads
        /\ faults' \in Nat /\ threads' \in Thread
        /\ phase' \in [Op -> Phase] /\ waiting' \in [Op -> Instance \cup {None}]
        /\ \A o \in Op : phase'[o] = "acknowledged" <=> phase[o] = "acknowledged"
        /\ WaitsOpen'
    BY <2>1 DEF IInv, TypeOK, server, WaitsOpen, Reloads
  <2>3. QED
    BY <2>1, <2>2, ReloadPreserves
<1>5. QED
  BY <1>1, <1>2, <1>3, <1>4

LEMMA InitEstablishes ==
  ASSUME Init PROVE IInv
<1>1. stored \in Doc /\ CampaignsKnownIn(stored)
  BY InitialDocAssumption DEF Init, CampaignsKnownIn
<1>2. TypeOK
  BY <1>1 DEF Init, TypeOK, Thread, Phase
<1>3. QED
  BY <1>1, <1>2 DEF Init, IInv, CampaignsKnown, CopiesKnowCampaigns, HandedAreRecorded,
                    AcknowledgedIsStored, Posts, WaitsOpen

LEMMA StepPreserves ==
  ASSUME IInv, [Next]_vars PROVE IInv' /\ Keeps(stored, stored') /\ Acknowledges
<1>1. CASE UNCHANGED vars
  BY <1>1 DEF vars, IInv, TypeOK, CampaignsKnown, CopiesKnowCampaigns, CampaignsKnownIn,
              HandedAreRecorded, AcknowledgedIsStored, Posts, PostedEvent, EventsIn, Keeps,
              WaitsOpen, Acknowledges
<1>2. CASE Next
  BY <1>2, HandlerPreserves, DrainPreserves, ArrivePreserves, OtherPreserves DEF Next
<1>3. QED
  BY <1>1, <1>2

\* The inductive invariant, for any number of instances and clients.
THEOREM Invariant == Spec => []IInv
<1>1. Init => IInv
  BY InitEstablishes
<1>2. IInv /\ [Next]_vars => IInv'
  BY StepPreserves
<1>3. QED
  BY <1>1, <1>2, PTL DEF Spec

\* The plane is well typed in every state.
THEOREM TypeCorrect == Spec => []TypeOK
<1>1. IInv => TypeOK
  BY DEF IInv
<1>2. QED
  BY <1>1, Invariant, PTL

\* The metadata of a channel never names an unknown campaign.
THEOREM CampaignsAlwaysKnown == Spec => []CampaignsKnown
<1>1. IInv => CampaignsKnown
  BY DEF IInv
<1>2. QED
  BY <1>1, Invariant, PTL

\* What drain handed out is recorded as delivered.
THEOREM HandedAlwaysRecorded == Spec => []HandedAreRecorded
<1>1. IInv => HandedAreRecorded
  BY DEF IInv
<1>2. QED
  BY <1>1, Invariant, PTL

\* The plane implements a durable event log.
THEOREM DurableLog == Spec => ImplementsEventLog
<1> DEFINE confirmed == {op \in Posts : phase[op] = "acknowledged"}
<1>1. Init => EventLogOfPlane!Init
  <2>1. SUFFICES ASSUME Init PROVE EventLogOfPlane!Init
    OBVIOUS
  <2>2. stored \in Doc
    BY <2>1, InitialDocAssumption DEF Init
  <2>3. EventsIn(stored) \subseteq {"enqueue", "log"} \X Content
    BY <2>2 DEF EventsIn, Doc, Entry, Delivery
  <2>4. confirmed = {}
    BY <2>1 DEF Init, Posts
  <2>5. QED
    BY <2>3, <2>4 DEF EventLogOfPlane!Init
<1>2. IInv /\ IInv' /\ [Next]_vars => [EventLogOfPlane!Next]_<<EventsIn(stored), confirmed>>
  <2>1. SUFFICES ASSUME IInv, IInv', [Next]_vars
                 PROVE  EventLogOfPlane!Next \/ UNCHANGED <<EventsIn(stored), confirmed>>
    OBVIOUS
  <2>2. Keeps(stored, stored') /\ Acknowledges
    BY <2>1, StepPreserves
  <2>3. /\ EventsIn(stored) \subseteq EventsIn(stored')
        /\ EventsIn(stored') \subseteq {"enqueue", "log"} \X Content
    <3>1. stored' \in Doc
      BY <2>1 DEF IInv, TypeOK
    <3>2. EventsIn(stored') \subseteq {"enqueue", "log"} \X Content
      BY <3>1 DEF EventsIn, Doc, Entry, Delivery
    <3>3. QED
      BY <2>2, <3>2, KeepsEvents
  <2>4. PICK new \in SUBSET ({"enqueue", "log"} \X Content) : EventsIn(stored') = EventsIn(stored) \cup new
    BY <2>3
  <2>5. CASE \E c \in Posts : phase[c] # "acknowledged" /\ phase'[c] = "acknowledged"
    <3>1. PICK c \in Posts : phase[c] # "acknowledged" /\ phase'[c] = "acknowledged"
      BY <2>5
    <3>2. confirmed' = confirmed \cup {c}
      BY <2>2, <3>1 DEF Acknowledges, Posts
    <3>3. PostedEvent(c) \in EventsIn(stored')
      BY <2>1, <3>1 DEF IInv, AcknowledgedIsStored, Posts, PostedEvent, EventsIn
    <3>4. EventLogOfPlane!Confirm(c)
      BY <2>4, <3>2, <3>3 DEF EventLogOfPlane!Confirm, PostedEvent, Posts, EventsIn
    <3>5. QED
      BY <3>1, <3>4 DEF EventLogOfPlane!Next
  <2>6. CASE ~\E c \in Posts : phase[c] # "acknowledged" /\ phase'[c] = "acknowledged"
    <3>1. confirmed' = confirmed
      BY <2>2, <2>6 DEF Acknowledges, Posts
    <3>2. EventLogOfPlane!Post
      BY <2>4, <3>1 DEF EventLogOfPlane!Post
    <3>3. QED
      BY <3>2 DEF EventLogOfPlane!Next
  <2>7. QED
    BY <2>5, <2>6
<1>3. QED
  BY <1>1, <1>2, Invariant, PTL DEF Spec, ImplementsEventLog, EventLogOfPlane!Spec

-----------------------------------------------------------------------------
\* A key that had a value has one.
KeysKept(old, new) ==
  /\ \A d \in Device : /\ old.enrollments[d] # None => new.enrollments[d] # None
                       /\ old.fleet[d] # None => new.fleet[d] # None
  /\ \A s \in Save : old.saves[s] # None => new.saves[s] # None
  /\ \A k \in Key : old.records[k] # None => new.records[k] # None

\* A merge changes values, never removes a key.
LEMMA MergeKeepsKeys ==
  ASSUME NEW a \in Doc, NEW b
  PROVE  KeysKept(a, MergeDocs(a, b))
  BY DEF KeysKept, MergeDocs, MergeKeys, Doc

\* A handler that answers with success has merged its copy into the stored document;
\* nothing else touches that.
LEMMA StoredIsMerged ==
  ASSUME [Next]_vars
  PROVE  stored' = stored \/ \E doc : stored' = MergeDocs(stored, doc)
<1>1. ASSUME NEW i, NEW op, NEW doc, Serve(i, op, doc)
      PROVE  stored' = stored \/ stored' = MergeDocs(stored, doc)
  BY <1>1 DEF Serve, Persist, PersistFails
<1>2. ASSUME NEW i, NEW op, Refuse(i, op) PROVE stored' = stored
  BY <1>2 DEF Refuse
<1>3. ASSUME NEW i, NEW op, Handle(i, op)
      PROVE  Refuse(i, op) \/ \E doc : Serve(i, op, doc)
  BY <1>3 DEF Handle, WriteRecord, EnrollmentSubmit, EnrollmentRevoke, FleetHeartbeat, FleetMarkStale,
              SavesPut, SyncEnqueue, SyncDrain, Log, OtaCampaign, RollbackCampaign
<1>4. ASSUME NEW i, NEW op, Send(i, op) \/ Resync(i, op) \/ HoldCall(op) \/ TimeOut(op)
      PROVE  stored' = stored
  BY <1>4 DEF Send, Resync, HoldCall, TimeOut, server
<1>5. ASSUME NEW i, Reload(i) \/ Restart(i) PROVE stored' = stored
  BY <1>5 DEF Reload, Restart
<1>6. CASE SetMode \/ SimulateOutage \/ Tick
  BY <1>6 DEF SetMode, SimulateOutage, Tick, server
<1>7. CASE UNCHANGED vars
  BY <1>7 DEF vars
<1>8. QED
  BY <1>1, <1>2, <1>3, <1>4, <1>5, <1>6, <1>7 DEF Next

\* _merge_docs: no write of any instance, however stale its copy, takes an entry out of a
\* list of the stored document or a key out of a section.
NothingErased == [][Keeps(stored, stored') /\ KeysKept(stored, stored')]_vars

\* For any number of instances with copies of any age, after drains, failed writes and
\* restarts, the stored document has every entry and key that it ever had.
THEOREM NothingEverErased == Spec => NothingErased
<1>1. TypeOK /\ [Next]_vars => [Keeps(stored, stored') /\ KeysKept(stored, stored')]_vars
  <2>1. SUFFICES ASSUME TypeOK, [Next]_vars PROVE Keeps(stored, stored') /\ KeysKept(stored, stored')
    OBVIOUS
  <2>2. CASE stored' = stored
    BY <2>2 DEF Keeps, KeysKept
  <2>3. CASE \E doc : stored' = MergeDocs(stored, doc)
    BY <2>1, <2>3, MergeKeeps, MergeKeepsKeys DEF TypeOK
  <2>4. QED
    BY <2>1, <2>2, <2>3, StoredIsMerged
<1>2. QED
  BY <1>1, TypeCorrect, PTL DEF Spec, NothingErased
=============================================================================

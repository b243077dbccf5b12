------------------------------ MODULE DevPlane ------------------------------
(***************************************************************************)
(* The cloud development plane: server instances over one SQLite document  *)
(* (cloud_dev_plane/store.py, server.py) and the clients that call them,   *)
(* hold calls during an outage and send them again (client.py).            *)
(*                                                                         *)
(* An instance keeps its own copy of the document.  A request makes it     *)
(* reload the copy; later, under the lock of the instance, the handler     *)
(* changes the copy and merges it into the stored document under a lock    *)
(* between processes.  Between the two the other instances may store.      *)
(*                                                                         *)
(* Lists of the document never hold an entry twice (the merge keeps one    *)
(* per fingerprint), so they are sets here; drain takes the first entries  *)
(* of the queue, here any entries of that number.                          *)
(***************************************************************************)
EXTENDS Integers, FiniteSets

CONSTANTS
  Instance,    \* the server processes
  Device, Save,
  Key,         \* subjects, lobbies and channels: one section, disjoint keys
  Content,     \* what a queued, telemetry or diagnostics entry says
  Op,          \* the calls clients make, each a record: its route and fields
  None,
  InitialDoc,  \* what the database may hold when the plane starts
  MaxNow, MaxCalls, MaxFaults   \* bounds of the model

-----------------------------------------------------------------------------
(* The document. *)

Status == {"accepted_dev", "revoked"}
Heartbeat == [health : {"healthy", "stale", "revoked"}, stale : BOOLEAN, revoked : BOOLEAN]
Entry == [what : Content, at : Nat]
Delivery == [what : Content, queued : Nat, at : Nat]

Doc ==
  [ enrollments    : [Device -> Status \cup {None}],
    fleet          : [Device -> Heartbeat \cup {None}],
    saves          : [Save -> Nat \cup {None}],    \* the version
    records        : [Key -> Op \cup {None}],
    campaigns      : SUBSET Op,
    sync_queue     : SUBSET Entry,
    sync_delivered : SUBSET Delivery,
    logs           : SUBSET Entry ]

\* A database that was just created.
EmptyDoc ==
  [ enrollments    |-> [d \in Device |-> None],
    fleet          |-> [d \in Device |-> None],
    saves          |-> [s \in Save |-> None],
    records        |-> [k \in Key |-> None],
    campaigns      |-> {},
    sync_queue     |-> {},
    sync_delivered |-> {},
    logs           |-> {} ]

\* A dictionary updated by another: a key of the second one wins.
MergeKeys(base, incoming) ==
  [k \in DOMAIN base |-> IF incoming[k] = None THEN base[k] ELSE incoming[k]]

\* Variants with a bug: a section of the writer replaces the stored one.
CampaignsReplaced(base, incoming) ==
  [incoming EXCEPT !.records = MergeKeys(base.records, incoming.records)]
DeliveriesReplaced(base, incoming) ==
  [incoming EXCEPT !.sync_queue = base.sync_queue \cup incoming.sync_queue]
LogsReplaced(base, incoming) ==
  [base EXCEPT !.logs = incoming.logs,
               !.sync_queue = base.sync_queue \cup incoming.sync_queue]

\* The two lists of sections in _merge_docs.
MergeDocs(base, incoming) ==
  [ enrollments    |-> MergeKeys(base.enrollments, incoming.enrollments),
    fleet          |-> MergeKeys(base.fleet, incoming.fleet),
    saves          |-> MergeKeys(base.saves, incoming.saves),
    records        |-> MergeKeys(base.records, incoming.records),
    campaigns      |-> base.campaigns \cup incoming.campaigns,
    sync_queue     |-> base.sync_queue \cup incoming.sync_queue,
    sync_delivered |-> base.sync_delivered \cup incoming.sync_delivered,
    logs           |-> base.logs \cup incoming.logs ]

\* The routes.  "record" stands for identity/register, matchmaking/publish and
\* ota/metadata, "log" for telemetry/emit, diagnostics/report and
\* diagnostics/request.  offline: a call the mode "disconnected" allows too.
Routes == {"record", "submit", "heartbeat", "mark_stale", "revoke", "put",
           "enqueue", "drain", "log", "ota_campaign", "rollback_campaign"}

ASSUME OpAssumption ==
  /\ None \notin Op /\ None \notin Status /\ None \notin Heartbeat
  /\ None \notin Instance /\ None \notin Nat
  /\ \A op \in Op :
       /\ op.route \in Routes /\ op.offline \in BOOLEAN
       /\ op.route \in {"record", "ota_campaign"} => op.key \in Key
       /\ op.route = "submit" => op.dev_token \in BOOLEAN
       /\ op.route \in {"submit", "heartbeat", "mark_stale", "revoke"} => op.device \in Device
       /\ op.route = "put" => /\ op.save \in Save
                              /\ op.expect \in Nat \cup {None}
                              /\ op.version \in Nat \cup {None}
       /\ op.route \in {"enqueue", "log"} => op.what \in Content
       /\ op.route = "drain" => op.limit \in Nat

ASSUME InitialDocAssumption == \A doc \in InitialDoc :
  /\ doc \in Doc
  /\ \A k \in Key : doc.records[k] # None /\ doc.records[k].route = "ota_campaign"
                      => doc.records[k] \in doc.campaigns

VARIABLES
  stored,    \* the document in the database
  copy,      \* each instance's copy of it (self.data)
  threads,   \* requests that each instance has reloaded for and not handled yet
  now,       \* the clock, in the seconds that utc_now_iso keeps
  phase,     \* each call, as its client sees it
  waiting,   \* the instance whose answer the client still waits for
  mode, outage,   \* the clients' mode, and whether they simulate an outage
  handed,    \* deliveries returned to a caller of drain
  faults     \* timeouts, failed writes and restarts so far

vars == <<stored, copy, threads, now, phase, waiting, mode, outage, handed, faults>>

Phase == {"new", "calling", "held", "resending", "acknowledged", "refused", "failed"}

Init ==
  /\ stored \in InitialDoc
  /\ copy = [i \in Instance |-> stored]
  /\ threads = [i \in Instance |-> [op \in Op |-> 0]]
  /\ now = 0
  /\ phase = [op \in Op |-> "new"]
  /\ waiting = [op \in Op |-> None]
  /\ mode = "online"
  /\ outage = FALSE
  /\ handed = {}
  /\ faults = 0

server == <<stored, copy, threads, handed>>

-----------------------------------------------------------------------------
(* The clients. *)

\* Which capabilities a mode has.
Allowed(op) == mode = "online" \/ op.offline

\* The request reaches instance i, which reloads before it serves.
Arrive(i, op) ==
  /\ copy' = [copy EXCEPT ![i] = stored]
  /\ threads' = [threads EXCEPT ![i][op] = @ + 1]
  /\ waiting' = [waiting EXCEPT ![op] = i]

\* A first call gets through.
Send(i, op) ==
  /\ phase[op] = "new" /\ Allowed(op) /\ ~outage
  /\ Cardinality({o \in Op : phase[o] # "new"}) < MaxCalls
  /\ Arrive(i, op)
  /\ phase' = [phase EXCEPT ![op] = "calling"]
  /\ UNCHANGED <<stored, now, mode, outage, handed, faults>>

\* Variant with a bug: resync gives a call up that got no answer.
GivenUp(op) == IF phase[op] = "calling" THEN "held" ELSE "refused"

\* What a client keeps of a call that got no answer: it holds the call; only a
\* first drain is reported to its caller instead.
NoAnswer(op) == IF op.route = "drain" /\ phase[op] = "calling" THEN "failed" ELSE "held"

\* A first call during a simulated outage, drain included.
HoldCall(op) ==
  /\ phase[op] = "new" /\ Allowed(op) /\ outage
  /\ Cardinality({o \in Op : phase[o] # "new"}) < MaxCalls
  /\ phase' = [phase EXCEPT ![op] = "held"]
  /\ UNCHANGED <<server, now, waiting, mode, outage, faults>>

\* resync sends what is held and allowed in the mode of now.
Resync(i, op) ==
  /\ phase[op] = "held" /\ Allowed(op) /\ ~outage
  /\ Arrive(i, op)
  /\ phase' = [phase EXCEPT ![op] = "resending"]
  /\ UNCHANGED <<stored, now, mode, outage, handed, faults>>

\* The answer does not come in time, or not at all: the request may be served
\* later all the same.
TimeOut(op) ==
  /\ phase[op] \in {"calling", "resending"} /\ faults < MaxFaults
  /\ phase' = [phase EXCEPT ![op] = NoAnswer(op)]
  /\ waiting' = [waiting EXCEPT ![op] = None]
  /\ faults' = faults + 1
  /\ UNCHANGED <<server, now, mode, outage>>

SetMode ==
  /\ mode' = IF mode = "online" THEN "disconnected" ELSE "online"
  /\ UNCHANGED <<server, now, phase, waiting, outage, faults>>

SimulateOutage ==
  /\ outage' = ~outage
  /\ UNCHANGED <<server, now, phase, waiting, mode, faults>>

Tick ==
  /\ now < MaxNow
  /\ now' = now + 1
  /\ UNCHANGED <<server, phase, waiting, mode, outage, faults>>
-----------------------------------------------------------------------------
(* The server: handlers. *)

\* The client waits for the answer of one of the threads of its call.
IsWaitedFor(i, op) == waiting[op] = i

\* Threads whose client has given up, or waits for another one.
Orphans(i, op) == threads[i][op] - (IF IsWaitedFor(i, op) THEN 1 ELSE 0)

\* How the answer changes a call: an error on resync keeps it held.
Answered(op, ok) ==
  CASE ok -> "acknowledged"
    [] ~ok /\ phase[op] = "resending" -> "held"
    [] OTHER -> "refused"

\* A thread ends: with an answer to its client, or nobody hears of it.
EndThread(i, op, result) ==
  /\ threads[i][op] > 0
  /\ threads' = [threads EXCEPT ![i][op] = @ - 1]
  /\ \/ /\ IsWaitedFor(i, op)
        /\ phase' = [phase EXCEPT ![op] = result]
        /\ waiting' = [waiting EXCEPT ![op] = None]
     \/ /\ Orphans(i, op) > 0
        /\ UNCHANGED <<phase, waiting>>

\* persist: the copy is merged into the stored document.
Persist(i, doc) ==
  /\ stored' = MergeDocs(stored, doc)
  /\ copy' = [copy EXCEPT ![i] = MergeDocs(stored, doc)]
  /\ UNCHANGED faults

\* The database refuses the write: what the handler changed stays in the copy,
\* merged already or not, until the next reload.
PersistFails(i, doc) ==
  /\ faults < MaxFaults
  /\ faults' = faults + 1
  /\ copy' \in {[copy EXCEPT ![i] = doc], [copy EXCEPT ![i] = MergeDocs(stored, doc)]}
  /\ UNCHANGED stored

\* A handler that changes the copy to doc.
Serve(i, op, doc) ==
  \/ Persist(i, doc) /\ EndThread(i, op, Answered(op, TRUE))
  \/ PersistFails(i, doc) /\ EndThread(i, op, NoAnswer(op))

\* A handler that answers with an error and changes nothing.
Refuse(i, op) ==
  /\ EndThread(i, op, Answered(op, FALSE))
  /\ UNCHANGED <<stored, copy, faults>>

environment == <<now, mode, outage>>

\* identity/register, matchmaking/publish, ota/metadata.
WriteRecord(i, op) ==
  /\ op.route = "record"
  /\ Serve(i, op, [copy[i] EXCEPT !.records[op.key] = op])
  /\ UNCHANGED <<environment, handed>>

EnrollmentSubmit(i, op) ==
  /\ op.route = "submit"
  /\ IF op.dev_token
       THEN Serve(i, op, [copy[i] EXCEPT !.enrollments[op.device] = "accepted_dev"])
       ELSE Refuse(i, op)
  /\ UNCHANGED <<environment, handed>>

\* Variant with a bug: a heartbeat record is made up for the device.
RevokedUnseen(doc, d) ==
  [doc EXCEPT !.enrollments[d] = "revoked",
              !.fleet[d] = [health |-> "revoked", revoked |-> TRUE]]

\* The enrollment and, when there is one, the heartbeat record.
Revoked(doc, d) ==
  [doc EXCEPT !.enrollments[d] = "revoked",
              !.fleet[d] = IF doc.fleet[d] = None THEN None
                           ELSE [doc.fleet[d] EXCEPT !.health = "revoked", !.revoked = TRUE]]

EnrollmentRevoke(i, op) ==
  /\ op.route = "revoke"
  /\ IF copy[i].enrollments[op.device] # None
       THEN Serve(i, op, Revoked(copy[i], op.device))
       ELSE Refuse(i, op)
  /\ UNCHANGED <<environment, handed>>

\* A heartbeat is a new record: marks of the old one are gone.
FleetHeartbeat(i, op) ==
  /\ op.route = "heartbeat"
  /\ Serve(i, op, [copy[i] EXCEPT !.fleet[op.device] =
                     [health |-> "healthy", stale |-> FALSE, revoked |-> FALSE]])
  /\ UNCHANGED <<environment, handed>>

FleetMarkStale(i, op) ==
  LET rec == copy[i].fleet[op.device]
  IN /\ op.route = "mark_stale"
     /\ Serve(i, op, [copy[i] EXCEPT !.fleet[op.device] =
                        [health |-> "stale", stale |-> TRUE,
                         revoked |-> IF rec = None THEN FALSE ELSE rec.revoked]])
     /\ UNCHANGED <<environment, handed>>

\* The version a put writes: the given one, else one more than the copy's.
NextVersion(version, op) ==
  CASE op.version # None -> op.version
    [] op.version = None /\ version = None -> 1
    [] OTHER -> version + 1

Conflict(version, op) == op.expect # None /\ version # None /\ version # op.expect

SavesPut(i, op) ==
  LET version == copy[i].saves[op.save]
  IN /\ op.route = "put"
     /\ IF Conflict(version, op)
          THEN Refuse(i, op)
          ELSE Serve(i, op, [copy[i] EXCEPT !.saves[op.save] = NextVersion(version, op)])
     /\ UNCHANGED <<environment, handed>>

SyncEnqueue(i, op) ==
  /\ op.route = "enqueue"
  /\ Serve(i, op, [copy[i] EXCEPT !.sync_queue = @ \cup {[what |-> op.what, at |-> now]}])
  /\ UNCHANGED <<environment, handed>>

\* A batch leaves the queue of the copy and is recorded as delivered; the
\* caller gets it with the answer.
SyncDrain(i, op) ==
  /\ op.route = "drain"
  /\ \E batch \in SUBSET copy[i].sync_queue :
       LET delivered == {[what |-> e.what, queued |-> e.at, at |-> now] : e \in batch}
           doc == [copy[i] EXCEPT !.sync_queue = @ \ batch, !.sync_delivered = @ \cup delivered]
       IN /\ \/ Cardinality(batch) = op.limit
             \/ batch = copy[i].sync_queue /\ Cardinality(batch) < op.limit
          /\ Serve(i, op, doc)
          /\ handed' = IF phase'[op] = "acknowledged" /\ phase[op] # "acknowledged"
                         THEN handed \cup delivered ELSE handed
  /\ UNCHANGED environment

\* telemetry/emit, diagnostics/report, diagnostics/request.
Log(i, op) ==
  /\ op.route = "log"
  /\ Serve(i, op, [copy[i] EXCEPT !.logs = @ \cup {[what |-> op.what, at |-> now]}])
  /\ UNCHANGED <<environment, handed>>

\* A campaign also becomes the metadata of its channel.
OtaCampaign(i, op) ==
  /\ op.route = "ota_campaign"
  /\ Serve(i, op, [copy[i] EXCEPT !.campaigns = @ \cup {op}, !.records[op.key] = op])
  /\ UNCHANGED <<environment, handed>>

RollbackCampaign(i, op) ==
  /\ op.route = "rollback_campaign"
  /\ Serve(i, op, [copy[i] EXCEPT !.campaigns = @ \cup {op}])
  /\ UNCHANGED <<environment, handed>>

\* Any other request, a GET for one, reloads the copy.
Reload(i) ==
  /\ copy' = [copy EXCEPT ![i] = stored]
  /\ UNCHANGED <<stored, threads, now, phase, waiting, mode, outage, handed, faults>>

\* The process dies and starts again from the database; its clients' calls
\* break off.
Restart(i) ==
  /\ faults < MaxFaults
  /\ faults' = faults + 1
  /\ copy' = [copy EXCEPT ![i] = stored]
  /\ threads' = [threads EXCEPT ![i] = [op \in Op |-> 0]]
  /\ phase' = [op \in Op |-> IF IsWaitedFor(i, op) THEN NoAnswer(op) ELSE phase[op]]
  /\ waiting' = [op \in Op |-> IF IsWaitedFor(i, op) THEN None ELSE waiting[op]]
  /\ UNCHANGED <<stored, now, mode, outage, handed>>

Handle(i, op) ==
  \/ WriteRecord(i, op) \/ EnrollmentSubmit(i, op) \/ EnrollmentRevoke(i, op)
  \/ FleetHeartbeat(i, op) \/ FleetMarkStale(i, op) \/ SavesPut(i, op)
  \/ SyncEnqueue(i, op) \/ SyncDrain(i, op) \/ Log(i, op)
  \/ OtaCampaign(i, op) \/ RollbackCampaign(i, op)

Next ==
  \/ \E i \in Instance, op \in Op : Send(i, op) \/ Resync(i, op) \/ Handle(i, op)
  \/ \E op \in Op : HoldCall(op) \/ TimeOut(op)
  \/ \E i \in Instance : Reload(i) \/ Restart(i)
  \/ SetMode \/ SimulateOutage \/ Tick

Spec == Init /\ [][Next]_vars

\* A thread runs on; resync is called again and again.
FairSpec ==
  /\ Spec
  /\ \A op \in Op : /\ \A i \in Instance : WF_vars(Handle(i, op))
                    /\ WF_vars(\E i \in Instance : Resync(i, op))
-----------------------------------------------------------------------------
(* Properties. *)

Thread == [Instance -> [Op -> Nat]]

TypeOK ==
  /\ stored \in Doc /\ copy \in [Instance -> Doc] /\ threads \in Thread
  /\ now \in Nat /\ faults \in Nat
  /\ phase \in [Op -> Phase] /\ waiting \in [Op -> Instance \cup {None}]
  /\ mode \in {"online", "disconnected"} /\ outage \in BOOLEAN
  /\ handed \subseteq Delivery

\* The metadata of a channel never names a campaign that the document does not
\* have: what one instance writes together is merged together.
CampaignsKnownIn(doc) == \A k \in Key :
  doc.records[k] # None /\ doc.records[k].route = "ota_campaign" => doc.records[k] \in doc.campaigns

CampaignsKnown == CampaignsKnownIn(stored)

\* What a caller of drain was given is recorded as delivered, whatever the other
\* instances store meanwhile.
HandedAreRecorded == handed \subseteq stored.sync_delivered

\* Queue, deliveries and logs together are a durable event log: an entry whose
\* client was told so is stored, and no merge of a stale copy ever drops one.
EventsIn(doc) ==
  {<<"enqueue", e.what>> : e \in doc.sync_queue \cup doc.sync_delivered}
    \cup {<<"log", e.what>> : e \in doc.logs}
Posts == {op \in Op : op.route \in {"enqueue", "log"}}
PostedEvent(op) == <<op.route, op.what>>
EventLogOfPlane == INSTANCE EventLog WITH
  Event <- {"enqueue", "log"} \X Content, Call <- Posts, EventOf <- PostedEvent,
  log <- EventsIn(stored), confirmed <- {op \in Posts : phase[op] = "acknowledged"}
ImplementsEventLog == EventLogOfPlane!Spec

\* When the outage is over and the mode allows everything, every held call is
\* delivered, one after a lost answer too, unless the server may refuse it.
CanBeRefused(op) == op.route \in {"put", "revoke", "submit"}
HeldCallsDelivered ==
  <>[](~outage /\ mode = "online") =>
    <>[](\A op \in Op : CanBeRefused(op) \/ phase[op] \in {"new", "acknowledged", "failed"})

\* Refuted: a revoked enrollment stays revoked until the device enrolls again.
RevocationSticks == [][\A d \in Device :
  stored.enrollments[d] = "revoked" /\ stored'.enrollments[d] # "revoked" =>
    \E i \in Instance, op \in Op : EnrollmentSubmit(i, op) /\ op.device = d]_vars
=============================================================================

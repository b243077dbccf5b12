# TLA+ models of the gunnchOS device OS

The repository is a digital simulation of a device operating system in Python: update
managers, service continuity, sync, packages, runtime services, fleet and connectivity logic,
and a large body of scripts that run them and record evidence. This directory holds TLA+
specifications of the parts whose behaviour is hard to test: state that survives crashes,
protocols whose calls may come in any order, and promises ("exactly once", "not silently booted",
"resume first") that take several steps to break.

How to run, inside this directory:

    tlc -workers 2 -config MCABUpdate.cfg MCABUpdate     # any module and one of its cfg files
    tlapm ABUpdate_proofs.tla                            # any *_proofs module

`PROJECT.json` lists the runs, the source lines of every definition, the mutants (bugs put into a
definition that the named property must catch), hazards, findings and theorems.

## 1. The system

### Parts, their state and operations

| Part | State | Operations | What makes it hard |
|---|---|---|---|
| A/B update manager, `release_engineering/ab_update.py` | one JSON file: two slots, active slot, anti-rollback floor, revoked keys, lost/wipe flags, user data | stage, recover, commit_boot, manual rollback, factory reset, recovery mode, revoke, lost device, remote wipe | the file is rewritten as a whole, in place; two operations write it twice; a process may die anywhere |
| OTA state machine, `ota_state_machine.py` | state, active slot, two slots, pending package, last error | check, download, verify, stage, apply, reboot, health check, rollback, reset | a decision made in the first call (target, anti-rollback) is used five calls later; any step may fail |
| Update recovery suite, `update_recovery_completeness.py` | an OTA machine | factory reset, interruptions, rollback scenarios | forces the machine to idle from any state |
| Service session, `service_continuity_execution/resume.py`, `models.py` | session object, checkpoint file, `.tmp` sibling | create, enqueue, commit, checkpoint, load, validate, resume once | three processes that follow each other and may die inside `checkpoint()`; token expiry; a hash that covers the content |
| Continuity controller, `controller.py`, `state_machine.py`, `adaptation.py` | ContinuityState, active bearer, adaptation mode (twice), checkpoint file | execute(TRANSITION, ADAPT, CACHE_ONLY, RECOVER, FAIL, MULTIPATH, RESUME, ...), ingest_and_decide, checkpoint_session | illegal events are dropped one by one while the call goes on |
| Bearer transition and multipath, `transition.py`, `multipath.py` | ledger of transitions, transfer ledger | execute_transition, send chunks | idempotence by ledger, rollback of a failed activation |
| Opportunistic sync queue, `sync.py` | queue, applied flags, ledger of idempotency keys, file | enqueue, plan_and_apply, persist, load | exactly-once over replayed opportunities and restarts; priority and budget |
| Continuity cache, `cache.py` | entries, usage, file | put, get, evict, quarantine | budget at its limit |
| Cloud plane, `cloud_dev_plane/` | one document in SQLite or JSON, a copy per server instance, a client's outbox | register, save with version check, sync enqueue and drain, resync | several instances merge their copies; clients send again |
| Offline sync, `offline_sync.py`, `platform/persistent_sync.py` | records with vector clocks, queue, pending and applied operations, file | put, delete, apply_remote, sync_from_peer, flush_to_peer, reload | concurrent edits, crash between peer and file |
| Learning OS packages, `learning_os/package_lifecycle.py`, `phase_xiv/packages/__init__.py` | store of signed releases, record of what is installed, a tree per version, the `current` link | publish and install, rollback, status, start | each of these is a file of its own; any process that asks for the status also moves the link |
| Platform packages, `platform/package_lifecycle.py` | installed files, manifest, registry | install, upgrade, uninstall | files and registry change one after the other |
| Runtime, `runtime/` | services, states, restart counts | start in dependency order, fault, restart, call; UpdaterService drives the OTA machine | restart budget, cascades |
| Fleet, connectivity orchestrator, identity, permissions, dock, shell, privacy | in-memory tables | single-step calls | mostly checks of one record |
| Network decision, prioritization, profiles, policies | none | pure functions | real-valued scores |
| Device lab, release engineering, validation campaigns, scripts | external processes, evidence files | | behaviour of QEMU and the file system |

### How they interact

- The platform coordinator stages and applies an update through the A/B manager and flushes the sync engine.
- UpdaterService (`runtime/adapters.py`) and the recovery suite drive the OTA machine; the A/B manager does not know it. The two are alternatives, with one abstract promise (`ImagePair`).
- The continuity controller owns a state machine, an adaptation controller, a transition ledger, a multipath transfer, a cache and a sync planner, and calls them from `execute()`. It shares the session file with whoever calls `checkpoint_session` and with later processes.
- The development plane's clients reach any of its server instances over HTTP; the instances share one SQLite document and nothing else. A thread of an instance reloads the document when the request arrives and takes the lock only later.
- A replica of the offline sync engine exchanges records with other replicas and flushes operations to a peer service; the coordinator's `flush_pending_sync` is a `sync_from_peer` with itself.
- Everything else is single-threaded within a process. Concurrency is therefore processes after one another, or side by side, on the same files, callers that issue calls in any order, and several server instances.

### What makes each part correct

Updates: the image that runs is never overwritten, never half-written and never older than the
floor; a failed or interrupted update changes nothing that runs; a lost device is wiped.
Sessions and sync: an operation is applied exactly once and none is forgotten, over crashes,
retries and replays; nothing altered is trusted. Controller: calls in any order leave it in a state
from which it can go on, and the service comes back when the bandwidth does. Development plane: what
was acknowledged is stored and survives every merge of a stale copy; what is held in an outage is
delivered. Replicas: equal vector clocks mean equal records, replicas that exchange agree, an edit
is not lost on its way to the peer. Packages: what was reported installed is recorded, built and stays, and is what runs unless a process that asks for the status has moved the link.

## 2. Modules

| Module | Models | Uses |
|---|---|---|
| `ImagePair` | what an A/B scheme promises: one running image, at most one spare | |
| `ABUpdate`, `ABUpdate_proofs`, `MCABUpdate` | the A/B update manager; implements `ImagePair` | `ImagePair` |
| `OtaStateMachine`, `_proofs` | the OTA machine and the suite's factory reset; implements `ImagePair` | `ImagePair` |
| `OtaTrial` | the OTA machine with a record of the slot an update started from (`MCOtaStateMachine` instantiates it) | `OtaStateMachine` |
| `ServiceSession` | a session as a value, and each function of `resume.py` on it | |
| `SessionFile` | the checkpoint file and the clock, which anyone may change or which goes on by itself | `ServiceSession` |
| `SessionResume`, `_proofs`, `MCSessionResume` | processes, crashes, the steps of `checkpoint()` | `SessionFile` |
| `ContinuityController`, `_proofs` | the controller, on the same sessions and file | `SessionFile` |
| `ContinuityRecovery`, `MCContinuityController` | the controller driven by a measured bandwidth | `ContinuityController` |
| `SyncPlanner`, `_proofs` | the sync queue | |
| `SyncArrivals`, `MCSyncPlanner` | the sync queue with items that never cease to come | `SyncPlanner` |
| `EventLog` | what a durable event log promises to those who post to it | |
| `DevPlane`, `_proofs`, `MCDevPlane` | the development plane: clients, server instances, document; implements `EventLog` | `EventLog` |
| `OfflineSync`, `_proofs`, `MCOfflineSync` | replicas with vector clocks and the peer they flush to | |
| `LearningPackages`, `_proofs`, `MCLearningPackages` | the package store, the trees and the link of the Learning OS | |

### ABUpdate

`slots`, `active_slot`, `anti_rollback_floor`, `revoked`, `device_lost`, `remote_wipe_requested`,
`recovery_mode` and `user_data` are the fields of the state file. `torn` says that the file does not
parse, `pc` which operation is between its two writes. Each operation is an action;
`stage_update` and `execute_remote_wipe`, which write twice, are two. `Crash` loses the process
between two writes and keeps the file of the first; `CrashDuringWrite` leaves a torn file, because
`_write` uses `Path.write_text`, which truncates. `commit_boot` has four actions, one per exit:
`BootSuccess`, `BootRetry`, `AutoRollback`, `BootExhausted`. Refused calls change nothing and are
no actions. The signature of an update is the Boolean `valid`.

Two callers are considered. `Spec` is any caller. `DocumentedSpec` is the caller the comments
describe: after a crash `recover_from_interrupted_update` runs before anything else, and an empty
slot does not come up. What holds only for the second is stated for the second.

### OtaStateMachine

One action per public call; `download`, `verify` and so on are also the only steps of
`run_happy_path`. A fault, a power cut or a bad package is `Fail`, possible in every step before
the reboot. `RollBack` is the body of `rollback`, reached from a bad health check or from a failed
update. `FactoryReset` is that of the recovery suite, which forces idle from any state.
Every property is stated for any caller and any order of calls, so for the recovery suite too,
which calls `factory_reset` with and without `preserve_ab_slots` and interrupts at every step. `OtaTrial`
adds the history variable `before`: the slot the device ran when `check_for_update` accepted the
update under way, to which a failed health check must return.

### ServiceSession, SessionFile and SessionResume

A session is a record: pending operations, how often each operation was committed, position,
expiry, whether it was resumed, whether its hash matches (`signed`), and the history variable
`genuine`: only the program wrote this content. `checkpoint()` is three steps: compute the hash
and truncate the temporary file (`Truncate`), write it (`Write`), rename it (`Replace`). A process
may die at each. `AlterFile` of `SessionFile` changes the file behind the program's back, which the
hash is there to notice; `Tick` lets time pass. Both the processes and the controller have them as steps. As in the scripts A, B and C of `prove_session_resume_a_b_c`, a process that
loads a session resumes it before it works on it, and stops if that is refused.

The model has one process at a time. `checkpoint()` always uses the same `.tmp` name and takes no
lock, so two processes at once are outside what the code supports.

### ContinuityController and ContinuityRecovery

`After(s, event)` is `_set_state`: the table of `state_machine.py`, with an illegal event dropped.
Each call of `execute` that changes state is an action and applies its events in order.
A call that raises is an action of its own: `MultipathRaises` (MULTIPATH over no paths divides by their
number after BEGIN_MULTIPATH) and `ResumeRaises` (RESUME of a checkpoint that is missing, is not JSON or cannot
be written again, after BEGIN_RESUME); `raised` remembers that the last call did. `checkpoint_session` writes whatever session
object the caller still holds: `Held` are all of them, of any age, also those from before a resume. `SessionGarbled` leaves
a checkpoint that does not parse.
The path a decision selects and the outcome of a bearer transition are free choices.
`mode` and `adaptation_mode` are the adaptation controller's mode and the controller's copy; the
number of samples is counted up to `Dwell`, beyond which it makes no difference. `Resume`
includes the checkpoint that `_do_resume` writes whether or not the session was accepted.
`ContinuityRecovery` adds the bandwidth, a caller that reports it with ADAPT, and
`ingest_and_decide`.

### SyncPlanner

An item has an id, class, size, priority and idempotency key; `applied` are the items with the
flag. The loop of `plan_and_apply` is described, not executed: `taken` is the set of candidates
for which, when their turn comes, the key is not in the ledger and the size fits (`Greedy`). This set is
unique for the order by priority and id, which `OnePlanAlways` proves; the bytes of a set are counted as a
cardinality, whose laws the library has. `sent` is history.
`SyncArrivals` lets items of the set `Recurring` come for ever, each time as a new item of the same kind:
`Retire` forgets one that was applied, which no later call can tell from keeping it, because its id and key are never used again.
`Restart` loads what was persisted. It assumes
what the repository's own script does: a process that applied items persists before it ends.

### DevPlane and EventLog

`stored` is the SQLite document, `copy[i]` the `data` of instance `i`, `threads[i][op]` the
requests that reloaded it and were not handled yet. `Send`, `Resync` and `Arrive` are the arrival of a
request; `Handle` is one of the route handlers under the instance's lock, which ends in `Persist`,
`PersistFails` or `Refuse`. Between an arrival and its handler any other instance may store, and any
other request may reload the copy again. `MergeDocs` is the merge by sections:
dictionaries are updated key by key with the writer's values, lists are a union by fingerprint. A
list without duplicates is modelled as a set; `drain` takes any entries of the right number, which
includes the first ones. A call is a record with its route and fields; routes that do the same to
another section share an action (`WriteRecord`, `Log`). Timestamps are whole seconds, as
`utc_now_iso` writes them, so equal entries of the same second are one entry.

A client's view of a call is `phase[op]`: held in an outage, calling, resending, acknowledged, refused. A call
that times out (`TimeOut`) leaves a thread behind that is served later all the same.

### OfflineSync

`store`, `pending_ops`, `applied_ops`, `idempotency_keys` and `policy` are what a replica keeps in its file;
the file is written whole at the end of each operation, so memory and file are one state,
except during `flush_to_peer`, which is one step per operation sent (`FlushOne`) and one for the
write (`EndFlush`). `Restart` loads the file, `Tear` leaves one that does not parse. A record is its
key, value, author, wall time, vector and version. `seen` is every record that was in some store: `ApplyRemote`
may bring any of them, late or again. A client's idempotency key is a bare name (`Request`), which a client may use again
for any put, of the same record or another; `put` and `flush_to_peer` then do what they do for a retry. `owed` are the operations no sync has dropped.

### LearningPackages

`payload` and `meta` are the store, `saved` and `installed` the record of the package manager on disk
and in memory, `tree` what is built for each version, `link` the `current` link. `pc` is the next
write of the call under way. `StartInstall`, `WriteMeta`, `RecordInstall`, `ClearTree`,
`WriteExecutable`, `CompleteTree`, `Unlink` and `Link` are `publish_and_install`; `Rollback` and
`Materialize` are `rollback`, which goes through the same install when the executable is missing.
`Crash` may come between any two of them, `Tear` while `payload.bin`, `META.json`, the record or the
executable is written. Another process that only asks for the status does what every start does, in steps of its own
(`OtherLoads`, `OtherUnlinks`, `OtherLinks`), between any steps of the first one, and may raise or die at each
(`OtherEnds`): `other` is its next step and the version it loaded. `reported`, `proven` and `strayed` are history;
`strayed` says that such a process left the link on a version that is not recorded, or left none.

## 3. Runs

| Run | Checks | Bounds | Distinct states |
|---|---|---|---|
| `ab_any_caller` | any order of operations and crashes: types, `OnlyActiveSlotMarkedActive`, `LostDeviceWipedOrPending`, `FloorNeverFalls`, `NoImageWhileLost` | two versions, counters 0 and 1, one key, two user data entries, 3 attempts, `boot_attempts` up to 4 | 704,566 |
| `ab_documented_caller` | `ActiveSlotIntact`, `FallbackIntact`, `ImplementsImagePair` | same | 337,970 |
| `ab_half_written` | refutes `NeverRunsHalfWrittenSlot` | same | |
| `ota_any_caller` | `PendingForOtherSlot`, `NoSecurityDowngrade`, `WayBackIntact`, `ImplementsImagePair`, for any order of calls | three versions, security versions 1 to 3 | 16,069 |
| `session_resume` | `ProcessesExactlyOnce`, `OnlyGenuineRuns`, `CheckpointsAreSigned`, `CheckpointsOnlyGrow` | two operations, lifetime 1, clock to 2, position to 1 | 417,876 |
| `continuity_controller` | `ReturnsSettled`, `ExactlyOnce`, `ResumeForgetsNothing`, `GoodBandwidthRecovers` | one path, one operation, four bandwidths, dwell 3, the thresholds of the code, tokens that expire at the next tick, clock to 1 | 178,944 |
| `sync_planner` | `ExactlyOnce`, `AppliedMeansSent`, `NoInversion`, `StarvedByArrivalsOnly` | five items that share keys and ids, one of them recurring, six opportunities | 2,358 |
| `dev_plane` | `CampaignsKnown`, `HandedAreRecorded`, `ImplementsEventLog` | two instances, a call of every kind, any two of them made, clock to 1, one fault, an empty and a used document | 316,544 |
| `dev_plane_resync` | `HeldCallsDelivered` | the calls a client makes through an outage, two made, two faults | 98,924 |
| `dev_plane_revoked` | refutes `RevocationSticks` | as `dev_plane` | |
| `offline_sync` | `VectorsIdentify`, `EditsKept`, `Converges` | two replicas, two keys, one value besides deletion, one wall time besides 0, one client key, two edits, one stray record, both policies | 1,008,300 |
| `learning_packages` | `ReportedIsWhole`, `ProvenVersionsKept` | two versions, channels dev and stable, three calls, two crashes, one other process at a time | 6,953,576 |

Every passing run but `dev_plane_resync` also checks `TypeOK` (`session_resume`: `ProcessTypeOK`; `ab_documented_caller` shares its state space with `ab_any_caller`).

Why the bounds are enough. Two slots are all there are; two versions tell the old image from a
new one; two counters tell a lower from a higher floor; attempts go past the limit of 3. Three
security versions allow an update, a further one and one too old. Two operations in a session are
needed for one that is committed and one that is pending; a clock of 2 with a lifetime of 1 lets a token
expire and a new one be made; for the controller a token that expires at the next tick does the same. The four bandwidths lie below the minimum, between minimum and
degrade, between degrade and recover, and above recover. The five items have every case
`plan_and_apply` tells apart: equal keys, equal ids, equal priorities, one that fits behind one that does not. The first
of them recurs: with one of its kind at every opportunity the second never fits, so an item does starve in this instance.
Two server instances with two calls between them give every pair of handlers in every interleaving
of arrival and service; the used document provides what earlier calls would have left; a third call adds no new
pair. One fault is enough for each kind of lost answer, `dev_plane_resync` has two so that a call sent again
can be lost again. Two edits make a pair of concurrent records or a chain, and the merges that
exchanges make come on top without a bound; the proofs cover any number of replicas and edits. Two record keys and one
client key make a put, a retry of it and a put of another record under the same key. Three
package calls reach an install, an update and the rollback of it; two crashes allow a crash during a recovery, and the
other process can come and go any number of times.

Symmetry is used only over user data entries and operations, which no definition tells apart, and
never with a liveness property. `boot_attempts`, `now` and `position` are bounded by constants named in the modules.
Deadlock checking is off for the runs of `DevPlane`, `OfflineSync` and `LearningPackages` only: calls, faults, edits and the clock are
bounded, and a file that is torn stops its process for good, so nothing may be left to do.

### What the refuted properties show

- `ab_half_written`: `manual_rollback` looks at version and status of the other slot, not at `in_progress`. After a crash in `stage_update` it makes the half-written slot active; the recovery that follows empties it.
- `dev_plane_revoked`: a revocation is a document like any other to the merge. An instance whose copy is from before it writes its own `accepted_dev` back when it stores anything at all, so a revoked device becomes accepted again without enrolling. The test `test_continuation_vi_fleet_lifecycle.py` asks a second store for the revocation and expects it there.

### Fairness

Safety is checked without fairness. Four properties need it.
`GoodBandwidthRecovers` assumes `WF(Report)`: the caller goes on reporting its measurement with
ADAPT, which `execute` accepts in every state. It does not hold for `ingest_and_decide` alone, which calls ADAPT only
below 200 kbps.
`HeldCallsDelivered` assumes that a thread that was started runs on (`WF(Handle)`) and that `resync` is called
again and again (`WF` of a resync of each held call, on some instance); the client's loop sends everything it holds each time. Its premise is that the
outage ends and the mode allows everything; calls the server may refuse for their content are left out. `Converges` assumes
that a flush goes on (`WF`) and that running replicas keep exchanging with each other (`SF(SyncFromPeer)`: an exchange is
impossible during a flush, and flushes may come again and again). Edits end because the model bounds them.
`StarvedByArrivalsOnly` assumes `WF(PlanAndApply(Plenty))`: opportunities with room for
any single item go on coming. The call is enabled in every state, so weak fairness says no more than that someone goes on making it.
That is not enough for an item to be sent: items that go before it may keep coming and take the room each time, as they do in
the run. The property therefore has the premise that from some time on no item that goes before this one arrives.

## 4. Proofs

All theorems hold for every value of the constants, under the assumptions named in the modules
(counters and lifetimes are numbers, `None` is no version, thresholds are ordered and the like), which TLC evaluates on every run.

| Module | Theorems | Argument |
|---|---|---|
| `ABUpdate_proofs` | `TypeCorrect`, `ActiveMarkCorrect`, `WipeNotForgotten`, `FloorMonotone`, `LostTakesNoImage`, `RunningImageIntact`, `FallbackImageIntact`, `ImagePairRefinement` | `WipeInv` adds that between the two writes of a wipe the data is gone already. `IntactInv` joins the two images with the active mark (a successful boot turns the slot so marked into a fallback, which must then be whole) and with the version of the slot being staged (the second write turns it into the spare). The refinement maps the running slot and a spare that counts as missing while it is in progress; every action is a step of `ImagePair` or leaves both images. |
| `OtaStateMachine_proofs` | `TypeCorrect`, `PendingForOtherSlotAlways`, `OnlyVerifiedInstalledAlways`, `NoSecurityDowngradeAlways`, `RunningSlotBoots`, `WayBackAlways`, `FailedTrialReturns`, `ImplementsPair` | `OtaInv` adds `PendingNotOlder`: the check made once in `check_for_update` is carried by the package, and after `apply` by the slot, up to the reboot. `BootsInv`: what runs is bootable, and so is what is about to run or to be returned to; no call takes the mark away. With it `WayBackIntact` is inductive, for any caller, and a failed health check ends on the very slot the update started from (`FailedTrialReturns`). The refinement is a step or a stutter of `ImagePair` for each action. |
| `SessionResume_proofs` | `TypeCorrect`, `CommittedOnce`, `GenuineOnly`, `SignedOnDisk`, `NeverForgets` | Lemmas first: each function of a session keeps it well formed and exactly-once, and forgets nothing. `Provenance`: on disk signed and genuine mean the same, what is loaded and signed is genuine, what is about to be renamed is what memory holds, and memory descends from the file. Without the last, `Replace` could forget. |
| `ContinuityController_proofs` | `ControllerTypeCorrect`, `OnlyRaisesInterrupt`, `NeverInTransition`, `ControllerCommittedOnce`, `ResumeNeverForgets`, `MeasuredImplementsController` | the event sequence of each call that returns maps every state to one that is not in progress, or leaves it, also when some of its events are dropped; only the two ways to raise stop on the way. That a session is exactly-once does not depend on its age, so stale ones that are checkpointed keep it; the rest are the session lemmas. The specification that the run checks, `MeasuredSpec`, implements `Spec` step by step, so all of this holds of it too. |
| `SyncPlanner_proofs` | `TypeCorrect`, `AppliedOnce`, `NothingWrittenOff`, `NeverOvertaken`, `OnePlanAlways` | `LedgerComplete` (what was ever applied is in the ledger of the process that runs) and `DiskOK` (what a restart would load); two items one call takes have different keys because the greedy set looks at the keys taken before. The queue is finite in every state (`Finite`), so that what is taken before an item has at least the bytes of what is taken before one of higher priority. That the loop has exactly one result is an induction over the candidates, done with the first and the last of a finite set in the order `Before` and a smallest counterexample. |
| `DevPlane_proofs` | `Invariant`, `TypeCorrect`, `CampaignsAlwaysKnown`, `HandedAlwaysRecorded`, `DurableLog`, `NothingEverErased` | `IInv` says of every copy, and not only of the stored document, that campaigns are known; `MergeDocs` preserves that because what one copy has together is merged together. A merge never takes an entry out of a list of the stored document, not even one that the writer has drained; so what was acknowledged stays, and a delivery is recorded before its answer goes out. `NothingEverErased` says the same of every list and key of the document. |
| `OfflineSync_proofs` | `Invariant`, `TypeCorrect`, `VectorsAlwaysIdentify`, `EditsAlwaysKept`, `NeverBackAlways`, `ExchangesAgree`, `ReplaysAddNothing` | With vector clocks: of all records of a key that were ever seen, a replica's own record has the largest count of that replica (`OwnCountIsLargest`, so that a tick is new everywhere), and every record has a writer such that whatever counts that write is the record itself or comes after it (`EveryRecordHasAWriter`). From these, records with equal vectors are equal and versions follow the vectors. For the flush: a replica's own keys are used for one operation each, a client's for any number, and for every key a replica takes for flushed the peer has an edit. From the invariant also: a step never takes a record back, and a replica that has exchanged has, for each record of the other one, that record or a later one, so that the exchange back makes both the same. This is the part of `Converges` that needs no fairness. |
| `LearningPackages_proofs` | `TypeCorrect`, `ReportedIsWholeAlways`, `ProvenVersionsKeptAlways`, `NestedInstallAcceptedAlways` | `FilesAgree`: a process works on what is recorded. `CallUnderWay` says which call may be at which step, and that from the record on it is the first one recorded. `NothingReportedYet`: while a tree is being built its version is not proven and nothing is reported; before a new install is linked its tree is whole. `Published`: what an install is about to record is what it has put into the store, which is why the one inside a rollback is not refused. `HalfLinked` and `LinkSettled`: between the two halves of a relink, and after it, the link is on what is recorded, or the other process has just removed it or led it astray. |

Every invariant and every safety property of the passing runs is stated by a theorem. Only model-checked: the four
liveness properties `GoodBandwidthRecovers`, `StarvedByArrivalsOnly`, `HeldCallsDelivered` and `Converges`, because the prover does
not do liveness under fairness. Some theorems state what no run checks: that the loop of `plan_and_apply` has one
result (`OnePlanAlways`), that the install inside a rollback is accepted (`NestedInstallAcceptedAlways`), that a controller never rests in a transition
(`NeverInTransition`), that what an OTA machine runs boots and that a failed trial returns (`RunningSlotBoots`, `FailedTrialReturns`), that only a verified version gets into a slot (`OnlyVerifiedInstalledAlways`), that the driven controller is a controller
(`MeasuredImplementsController`), and the four on the sync engine and the development plane that go beyond their runs:
`NeverBackAlways`, `ExchangesAgree`, `ReplaysAddNothing`, `NothingEverErased`.

## 5. Known limits and observations

Seen while modelling, without a run of their own. Updates and continuity:

- A torn A/B state file can be read by no operation, recovery included; only `init_device` helps, and it forgets everything.
- `manual_rollback` may return to a slot marked unbootable: it asks for a version and a status other than `corrupt_recovered` (the test `test_manual_rollback_requires_bootable_previous_slot` covers only the empty slot).
- `commit_boot` counts successful boots as attempts and nothing resets the count: a slot that came up twice is made unbootable by its first failed boot.
- The OTA machine's `rollback` asks whether the other slot is bootable, where its comment says "Prefer the other slot if it was previously successful" (`ota_state_machine.py:252`), and swaps the slots also after a failure before the reboot. That, and a factory reset during a health check or without `preserve_ab_slots`, can leave a running slot that never passed a health check; it boots all the same (`RunningSlotBoots`).
- RESUME refuses an altered session and then checkpoints it, which computes a new, matching hash; the next RESUME accepts it.
- RECOVER resets the controller's copy of the mode, not the adaptation's; the next ADAPT may show the reduced mode again.
- The controller never sends BANDWIDTH_RECOVER, so ADAPT alone does not leave DEGRADING; TRANSITION may commit a bearer while the state stays FAILED.
- MULTIPATH over no paths raises a `ZeroDivisionError` in the transfer and leaves MULTIPATH; RESUME of a checkpoint that is missing, does not parse or cannot be written raises and leaves RESUMING, from where only FAIL and RESUME lead on.
- `checkpoint_session` writes the session it is given: one kept from before a RESUME replaces what was committed since, and those operations wait again. Only RESUME itself, and a process that loads before it works, forget nothing.
- Items that go before another and never cease to come starve it: `plan_and_apply` knows no ageing.
- `plan_and_apply` does not persist. A process that dies before `persist()` applies the same keys again. The controller's planner lives in memory only.
- `UpdaterService` never resets the OTA machine, so a second `run_ota` after a commit raises; its `staged` flag is never cleared; its `rollback` reports success and changes no slot.

Development plane:

- `drain` takes a batch out of the copy's queue, and the merge with the stored document, which still has it, puts it back: the same entries are handed out again.
- `saves/put` compares `expect_version` with the copy; another instance may store in between, and the later writer wins although both expected the same version. A heartbeat replaces the record and with it the revoked mark.
- A persist that fails leaves the change in the copy, from where the next request that stores writes it, unless a reload comes first.
- A held call that the server answers with 404 or 409 stays in the outbox and is sent again for ever; a first drain that is lost is not held, and what it took is recorded as delivered without having been given to anyone. The outbox is in memory only.
- Equal telemetry entries of one second become one.

Offline sync:

- `sync_from_peer`, and the coordinator's `flush_pending_sync` with it, empties the queue although nothing in it was sent; `EditsKept` leaves those edits out.
- A key made for a put has no replica in it: two replicas that write a key for the first time in the same millisecond make the same key, and the peer drops the second. A client's key that is used again for a record that exists is taken for a retry, and for one that does not the put is stored and queued, but the flush sends only the first operation under the key and drops the other: the peer never sees that edit.
- The policy is written to the file but not loaded, so a replica of last-write-wins uses vector clocks after a restart. With last-write-wins and equal time and author, each side keeps its own record; the properties are therefore stated for vector clocks.
- A merge ticks the merging replica's clock, so replicas that merge the same pair each make a record that is concurrent with the other's; with three replicas this need not end. Fair exchange of two replicas does end (`Converges`).
- A file that was torn is not loaded by anything.

Learning OS packages:

- Installing the same version again records it as its own predecessor, so the rollback after that stays where it is; a second rollback goes forward again.
- A process that only asks for the status moves the link: one that loaded the record before an install puts `current` back on the old version after it, and one that dies between `unlink` and `symlink_to` leaves no link until the next start or call. `current_executable` falls back to the recorded version only where the link leads to no executable.
- A call that finds the link just made, or just removed, by another process raises although its install is recorded and built.
- An install is recorded before its tree is built: after a crash in between, the next process links the half-built version. The install tried again repairs it.
- An executable that a crash left half written is there, so a rollback to its version accepts it and reports success.
- A rollback asks only for an executable, so it accepts a tree without its last files; where there is none it publishes the default payload over the release in the store.
- An update from dev to stable cannot be rolled back: `channel_downgrade_denied` is raised and not caught.
- A crash while `payload.bin` is written makes `verify` fail until the release is published again.

Not modelled, and why: see `components` in `PROJECT.json`. In short: pure scoring and tables have
no behaviour over time; the device lab, image builders and evidence scripts are external processes
and files; cryptography is one Boolean.

The platform's own `PackageLifecycleManager` (`platform/package_lifecycle.py`) removes the old files, writes the new
ones, the manifest and the registry, one after the other, and nothing recovers from a crash in
between: `get` then returns the old record with new files, or with none, and the same version cannot be
installed again until it is uninstalled. There is no promise to state about it. The runtime supervisor starts its
services in one process in a fixed order and restarts each at most `max_restarts` times in its
life. Fleet operations, identity, permissions, dock, shell and privacy are tables in memory with
single-step checks.

## 6. Plan

Done: updates (`ABUpdate`, `OtaStateMachine`, `ImagePair`), continuity (`ServiceSession`,
`SessionResume`, `ContinuityController`, `ContinuityRecovery`), `SyncPlanner`, the development plane
(`DevPlane`, `EventLog`), `OfflineSync` and `LearningPackages`, all with their proofs.

What would come next:

1. The continuity cache (budget, expiry, quarantine, reload) and the transfer of chunks, composed with the controller.
2. `UpdaterService` on top of `OtaStateMachine`.

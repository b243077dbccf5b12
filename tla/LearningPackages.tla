-------------------------- MODULE LearningPackages --------------------------
(***************************************************************************)
(* Packages of the Learning OS: learning_os/package_lifecycle.py on top of *)
(* the package manager, phase_xiv/packages.  An install publishes a        *)
(* release to the store, records it as installed, builds the tree of its   *)
(* version and points the link "current" at it; a rollback records the     *)
(* release before and builds its tree only when the executable is missing. *)
(* Each file that is written is a step of its own: the process may die     *)
(* between any two, or while it writes one.  Meanwhile another process may *)
(* start, to ask for the status: it loads what is recorded and links it,   *)
(* in steps of its own.                                                    *)
(***************************************************************************)
EXTENDS Naturals, Sequences

CONSTANTS
  Version,
  Channel,    \* some of "dev", "beta", "stable"
  None,
  MaxCalls, MaxCrashes   \* bounds of the model

ASSUME ChannelAssumption == Channel \subseteq {"dev", "beta", "stable"}

Release == [version : Version, channel : Channel]

\* What an executable may be: the one given, the default one, or one marked
\* incompatible.
Content == {"given", "default", "incompatible"}

\* An executable that a crash has left half written.
Torn == "torn"

\* None is neither a content nor a version.
ASSUME NoneAssumption == None \notin Content \cup {Torn} /\ None \notin Version

VARIABLES
  payload,    \* payload[release]: the content in the store, or None
  meta,       \* meta[release]: the content that the signed META.json describes, or
              \* None where it cannot be read
  saved,      \* state.json: releases installed one after the other, latest first
  installed,  \* the same in the memory of the process
  torn,       \* state.json does not parse, and no process starts any more
  tree,       \* tree[version]: the executable and whether the rest is there, or None
  link,       \* the version that "current" points at, or None
  other,      \* the other process: its next step and the version it has loaded
  pc,         \* the next step of the call under way; "down" after a crash
  call,       \* the call under way, or the last one
  reported,   \* history: the call that has returned ok and was the last one
  strayed,    \* history: the other process has left the link on a version that is not
              \* the recorded one, or ended between its two steps, and nobody has linked
              \* what is recorded since
  proven,     \* history: what was reported installed of a version, until it is
              \* installed again
  calls, crashes

files == <<payload, meta, saved, torn, tree, link>>
history == <<reported, proven, calls, crashes>>
visit == <<other, strayed>>
vars == <<files, installed, pc, call, visit, history>>

NoTree == [exe |-> None, complete |-> FALSE, exists |-> FALSE]
EmptyTree == [NoTree EXCEPT !.exists = TRUE]
HasExecutable(v) == tree[v].exe # None

\* The other process does not run, or is at a step of __init__ with the version it
\* has loaded.
At(step, v) == [step |-> step, version |-> v]
Away == At("away", None)

\* op is what was asked for; nested: an install that a rollback makes.
Call(op, release, content, nested) ==
  [op |-> op, release |-> release, content |-> content, nested |-> nested]

Init ==
  /\ payload = [r \in Release |-> None] /\ meta = [r \in Release |-> None]
  /\ saved = <<>> /\ installed = <<>> /\ torn = FALSE
  /\ tree = [v \in Version |-> NoTree] /\ link = None
  /\ pc = "idle" /\ call = None
  /\ other = Away /\ strayed = FALSE
  /\ reported = None /\ proven = [v \in Version |-> None]
  /\ calls = 0 /\ crashes = 0

Current == Head(installed)

\* The release before; the record of a release keeps the one it replaced.
HasPrevious == Len(installed) > 1
Previous == installed[2]

\* The call returns; ok says whether it reports success.
Silent == UNCHANGED <<reported, proven>>
Return(ok) ==
  /\ pc' = "idle"
  /\ IF ok /\ call.op # "start"
       THEN /\ reported' = call
            /\ proven' = IF call.op = "install"
                           THEN [proven EXCEPT ![call.release.version] = call.content] ELSE proven
       ELSE Silent

-----------------------------------------------------------------------------
(* publish_and_install: the store. *)

\* publish writes payload.bin, then META.json.
StartInstall(release, content) ==
  /\ pc = "idle" /\ calls < MaxCalls
  /\ call' = Call("install", release, content, FALSE)
  /\ payload' = [payload EXCEPT ![release] = content]
  /\ pc' = "payload written"
  /\ reported' = None /\ proven' = [proven EXCEPT ![release.version] = None]
  /\ calls' = calls + 1
  /\ UNCHANGED <<meta, saved, installed, torn, tree, link, visit, crashes>>

WriteMeta ==
  /\ pc = "payload written"
  /\ meta' = [meta EXCEPT ![call.release] = call.content]
  /\ pc' = "published"
  /\ UNCHANGED <<payload, saved, installed, torn, tree, link, visit, call, history>>

\* verify, and no way from stable to dev.
MayInstall(release) ==
  /\ meta[release] # None /\ payload[release] = meta[release]
  /\ ~(installed # <<>> /\ Current.channel = "stable" /\ release.channel = "dev")

\* Variant with a bug: the channel of the new release is not recorded.
VersionRecorded(release) == <<[release EXCEPT !.channel = None]>> \o installed

\* The record of the release, which keeps the one before.
Recorded(release) == <<release>> \o installed

\* install of the package manager; a refusal is what publish_and_install reports.
RecordInstall ==
  /\ pc = "published"
  /\ IF MayInstall(call.release)
       THEN /\ installed' = Recorded(call.release) /\ saved' = installed'
            /\ pc' = "recorded" /\ Silent
       ELSE /\ UNCHANGED <<installed, saved>>
            /\ IF call.nested THEN pc' = "linking" /\ Silent ELSE Return(FALSE)
  /\ UNCHANGED <<payload, meta, torn, tree, link, visit, call, calls, crashes>>

-----------------------------------------------------------------------------
(* publish_and_install: the tree of the version. *)

ChangeTree(from, to, new) ==
  /\ pc = from
  /\ tree' = [tree EXCEPT ![call.release.version] = new]
  /\ pc' = to
  /\ UNCHANGED <<payload, meta, saved, installed, torn, link, visit, call, history>>

ClearTree == ChangeTree("recorded", "cleared", EmptyTree)
WriteExecutable == ChangeTree("cleared", "executable", [EmptyTree EXCEPT !.exe = call.content])

\* The mode of the executable, VERSION and INSTALLED.json.
CompleteTree ==
  ChangeTree("executable", "linking", [EmptyTree EXCEPT !.exe = call.content, !.complete = TRUE])

-----------------------------------------------------------------------------
(* _link_current. *)

\* Variant with a bug: the link that is there is left alone.
OnlyIfUnlinked == installed # <<>> /\ tree[Current.version].exists /\ link = None

\* The link is only changed when the tree of the recorded version is there.
CanLink == installed # <<>> /\ tree[Current.version].exists

\* A rollback links once more after the install that it made.
Linked == IF call.nested
            THEN pc' = "linking" /\ call' = [call EXCEPT !.nested = FALSE] /\ Silent
            ELSE call' = call /\ Return(TRUE)

\* The link is removed if it is there; where the other process does that first, the
\* call raises.
Unlink ==
  /\ pc = "linking"
  /\ \/ CanLink /\ link' = None /\ pc' = "unlinked" /\ UNCHANGED <<call, reported, proven>>
     \/ ~CanLink /\ link' = link /\ Linked
     \/ /\ CanLink /\ link = None /\ other.step = "unlinked"
        /\ UNCHANGED <<link, call>> /\ Return(FALSE)
  /\ UNCHANGED <<payload, meta, saved, installed, torn, tree, visit, calls, crashes>>

\* A link that the other process has made in between is an error.
Link ==
  /\ pc = "unlinked"
  /\ IF link = None THEN link' = Current.version /\ strayed' = FALSE /\ Linked
                    ELSE UNCHANGED <<link, strayed, call>> /\ Return(FALSE)
  /\ UNCHANGED <<payload, meta, saved, installed, torn, tree, other, calls, crashes>>

-----------------------------------------------------------------------------
(* rollback. *)

\* Variant with a bug: the tree is built in any case.
NeverMaterialized(release) == FALSE

\* The tree of the release is not built again when the executable is there.
Materialized(release) == HasExecutable(release.version)

\* The release before is installed from the store as it is there; if that is
\* refused the call raises, and nothing has changed.
Rollback ==
  /\ pc = "idle" /\ calls < MaxCalls /\ HasPrevious
  /\ calls' = calls + 1
  /\ IF MayInstall(Previous)
       THEN /\ installed' = Recorded(Previous) /\ saved' = installed'
            /\ pc' = "rolled back"
            /\ call' = Call("rollback", Previous, "default", FALSE)
            /\ reported' = None
       ELSE UNCHANGED <<installed, saved, pc, call, reported>>
  /\ UNCHANGED <<payload, meta, torn, tree, link, visit, proven, crashes>>

\* Without an executable it is published and installed again, with the default one.
Materialize ==
  /\ pc = "rolled back"
  /\ IF Materialized(call.release)
       THEN pc' = "linking" /\ UNCHANGED <<payload, call>>
       ELSE /\ payload' = [payload EXCEPT ![call.release] = call.content]
            /\ call' = [call EXCEPT !.nested = TRUE]
            /\ pc' = "payload written"
  /\ UNCHANGED <<meta, saved, installed, torn, tree, link, visit, history>>

-----------------------------------------------------------------------------
(* Crashes and the other process.                                          *)

Dies ==
  /\ pc # "down" /\ crashes < MaxCrashes
  /\ pc' = "down" /\ crashes' = crashes + 1
  /\ UNCHANGED <<saved, link, installed, call, visit, reported, proven, calls>>

Crash == Dies /\ UNCHANGED <<payload, meta, tree, torn>>

\* The process dies while it writes payload.bin, META.json, state.json or the executable.
Tear ==
  /\ Dies
  /\ \/ /\ pc = "payload written"
        /\ \/ payload' = [payload EXCEPT ![call.release] = None] /\ meta' = meta
           \/ meta' = [meta EXCEPT ![call.release] = None] /\ payload' = payload
        /\ UNCHANGED <<torn, tree>>
     \/ /\ pc \in {"published", "rolled back"}
        /\ torn' = TRUE /\ UNCHANGED <<payload, meta, tree>>
     \/ /\ pc = "cleared"
        /\ tree' = [tree EXCEPT ![call.release.version] = [EmptyTree EXCEPT !.exe = Torn]]
        /\ UNCHANGED <<payload, meta, torn>>

\* A new process loads what is recorded and links it.
Start ==
  /\ pc = "down" /\ ~torn
  /\ installed' = saved
  /\ call' = Call("start", None, None, FALSE)
  /\ pc' = "linking"
  /\ UNCHANGED <<files, visit, history>>

\* So does the other process.
OtherLoads ==
  /\ other = Away /\ ~torn /\ saved # <<>>
  /\ other' = At("loaded", Head(saved).version)
  /\ UNCHANGED <<link, strayed>>

OtherUnlinks ==
  /\ other.step = "loaded" /\ tree[other.version].exists
  /\ link' = None /\ other' = At("unlinked", other.version)
  /\ UNCHANGED strayed

OtherLinks ==
  /\ other.step = "unlinked" /\ link = None
  /\ link' = other.version /\ other' = Away
  /\ strayed' = (other.version # Head(saved).version)

\* It has nothing to link, raises because the link is there or gone, or dies.
OtherEnds ==
  /\ other # Away
  /\ other' = Away /\ link' = link
  /\ strayed' = (strayed \/ (other.step = "unlinked" /\ link = None))

Status ==
  /\ OtherLoads \/ OtherUnlinks \/ OtherLinks \/ OtherEnds
  /\ UNCHANGED <<payload, meta, saved, torn, tree, installed, pc, call, history>>

Next ==
  \/ \E release \in Release, content \in Content : StartInstall(release, content)
  \/ WriteMeta \/ RecordInstall
  \/ ClearTree \/ WriteExecutable \/ CompleteTree
  \/ Unlink \/ Link
  \/ Rollback \/ Materialize
  \/ Crash \/ Tear \/ Start \/ Status

Spec == Init /\ [][Next]_vars

-----------------------------------------------------------------------------
(* Properties. *)

Calls == [op : {"install", "rollback"}, release : Release, content : Content, nested : BOOLEAN]
           \cup {Call("start", None, None, FALSE)}

TypeOK ==
  /\ payload \in [Release -> Content \cup {None}] /\ meta \in [Release -> Content \cup {None}]
  /\ saved \in Seq(Release) /\ installed \in Seq(Release) /\ torn \in BOOLEAN
  /\ tree \in [Version -> [exe : Content \cup {Torn, None}, complete : BOOLEAN, exists : BOOLEAN]]
  /\ link \in Version \cup {None}
  /\ other \in [step : {"loaded", "unlinked"}, version : Version] \cup {Away}
  /\ strayed \in BOOLEAN
  /\ call \in Calls \cup {None} /\ reported \in Calls \cup {None}
  /\ proven \in [Version -> Content \cup {None}]

\* What a call has reported as done is recorded and there, whatever crashed before it
\* and whoever asks for the status: after an install the whole tree of what was asked
\* for, after a rollback an executable, be it one that a crash has torn.  The link is on
\* it, unless a process that asked for the status is between its two steps, or has
\* left the link on what it had loaded before, or died.
ReportedIsWhole == reported # None =>
  LET v == reported.release.version
  IN /\ saved # <<>> /\ Head(saved) = reported.release
     /\ pc = "idle" /\ ~strayed /\ other.step # "unlinked" => link = v
     /\ IF reported.op = "install"
          THEN tree[v] = [exe |-> reported.content, complete |-> TRUE, exists |-> TRUE]
          ELSE HasExecutable(v)

\* Once a version is installed, nothing but another install of that version touches
\* its tree, and the store keeps a release to install it again from: no rollback, no
\* crash and no start puts another executable in its place or publishes over it.
ProvenVersionsKept == \A v \in Version : proven[v] # None =>
  /\ tree[v] = [exe |-> proven[v], complete |-> TRUE, exists |-> TRUE]
  /\ \E release \in Release :
       release.version = v /\ payload[release] = proven[v] /\ meta[release] = proven[v]
=============================================================================

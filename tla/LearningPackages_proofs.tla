------------------------ MODULE LearningPackages_proofs ------------------------
(***************************************************************************)
(* Theorems about LearningPackages, for every set of versions and          *)
(* channels, and any number of calls and crashes.                          *)
(***************************************************************************)
EXTENDS LearningPackages, SequenceTheorems, TLAPS

-----------------------------------------------------------------------------
(* The inductive invariant: what the call under way has done so far.       *)

\* The steps that publish a release, record it and build its tree.
Building == {"payload written", "published", "recorded", "cleared", "executable"}
Linking == {"linking", "unlinked"}

Target == call.release.version
Tree == [exe : Content \cup {Torn, None}, complete : BOOLEAN, exists : BOOLEAN]
Whole(content) == [exe |-> content, complete |-> TRUE, exists |-> TRUE]
RecordedFirst(release) == saved # <<>> /\ Head(saved) = release

\* The process has loaded what is recorded; an executable is in a directory.
FilesAgree ==
  /\ installed = saved
  /\ \A v \in Version : tree[v].exe # None => tree[v].exists

\* Which call may be under way at which step.  Only a rollback nests an install,
\* and it leaves the record as the rollback made it.
CallUnderWay ==
  /\ pc \in Building \cup Linking \cup {"rolled back"} =>
       call \in Calls /\ (call.nested => call.op = "rollback")
  /\ pc \in Building => call.op = "install" \/ (call.op = "rollback" /\ call.nested)
  /\ pc = "rolled back" => call.op = "rollback" /\ ~call.nested
  /\ pc \in Building /\ call.nested => RecordedFirst(call.release)
  /\ pc \in {"recorded", "cleared", "executable", "rolled back"} => RecordedFirst(call.release)

\* What an install has published is what is in the store.
InStore(release, content) == payload[release] = content /\ meta[release] = content
Published ==
  /\ pc = "payload written" => payload[call.release] = call.content
  /\ pc \in Building \ {"payload written"} \/ (pc \in Linking /\ call.op = "install") =>
       InStore(call.release, call.content)

\* No tree is touched that is proven, and nothing is reported, until the call
\* has done what it will report.
NothingReportedYet ==
  /\ pc \in Building \cup {"rolled back"} => reported = None
  /\ pc \in Building => proven[Target] = None
  /\ pc \in Linking /\ call.op # "start" =>
       /\ reported = None
       /\ RecordedFirst(call.release)
       /\ HasExecutable(Target)
       /\ call.op = "install" \/ call.nested => tree[Target] = Whole(call.content)
  /\ reported # None =>
       /\ reported.op # "start"
       /\ pc \in {"idle", "down"} \/ (pc \in Linking /\ call.op = "start")

\* Between the two halves of a relink the link is gone, or another process has
\* made it.
HalfLinked == pc = "unlinked" =>
  /\ saved # <<>> /\ tree[Head(saved).version].exists
  /\ link = None \/ strayed \/ link = Head(saved).version

\* When a call that reports something has returned, the link is on what is recorded,
\* or another process has just removed it, or has left it astray.
LinkSettled == reported # None /\ pc = "idle" =>
  \/ strayed \/ link = Head(saved).version
  \/ other.step = "unlinked" /\ link = None

Inv ==
  /\ TypeOK /\ FilesAgree /\ CallUnderWay /\ Published /\ NothingReportedYet /\ HalfLinked
  /\ LinkSettled /\ ReportedIsWhole /\ ProvenVersionsKept

-----------------------------------------------------------------------------
(* Calls, records and trees.                                               *)

\* What a call that was not a start carries.
LEMMA CallFields ==
  ASSUME NEW c \in Calls, c.op # "start"
  PROVE  /\ c.op \in {"install", "rollback"}
         /\ c.release \in Release /\ c.release.version \in Version
         /\ c.content \in Content
  BY DEF Calls, Call, Release

\* A rollback changes whether its call is nested, and nothing else of it.
LEMMA NestedCall ==
  ASSUME NEW c \in Calls, c.op = "rollback"
  PROVE  /\ [c EXCEPT !.nested = TRUE] \in Calls /\ [c EXCEPT !.nested = FALSE] \in Calls
         /\ \A d \in {[c EXCEPT !.nested = TRUE], [c EXCEPT !.nested = FALSE]} :
              d.op = c.op /\ d.release = c.release /\ d.content = c.content
         /\ [c EXCEPT !.nested = TRUE].nested = TRUE
         /\ [c EXCEPT !.nested = FALSE].nested = FALSE
<1>1. c \in [op : {"install", "rollback"}, release : Release, content : Content,
            nested : BOOLEAN]
  BY DEF Calls, Call
<1> QED  BY <1>1 DEF Calls

\* The record of a release is put before the others.
LEMMA RecordedRelease ==
  ASSUME installed \in Seq(Release), NEW release \in Release
  PROVE  /\ Recorded(release) \in Seq(Release)
         /\ Recorded(release) # <<>>
         /\ Head(Recorded(release)) = release
<1>1. <<release>> \in Seq(Release)
  OBVIOUS
<1>2. /\ Recorded(release) \in Seq(Release)
      /\ Len(Recorded(release)) = 1 + Len(installed)
      /\ Recorded(release)[1] = release
  BY <1>1, ConcatProperties DEF Recorded
<1>3. Recorded(release) # <<>>
  BY <1>2, LenProperties, EmptySeq
<1>4. Head(Recorded(release)) = Recorded(release)[1]
  OBVIOUS
<1> QED  BY <1>2, <1>3, <1>4

\* The trees that an install builds one after the other.
LEMMA BuiltTrees ==
  ASSUME NEW content \in Content
  PROVE  /\ EmptyTree \in Tree /\ EmptyTree.exists = TRUE
         /\ [EmptyTree EXCEPT !.exe = content] \in Tree
         /\ [EmptyTree EXCEPT !.exe = content].exists = TRUE
         /\ [EmptyTree EXCEPT !.exe = content, !.complete = TRUE] = Whole(content)
         /\ Whole(content) \in Tree /\ Whole(content).exists = TRUE
         /\ Whole(content).exe = content
<1>1. EmptyTree \in Tree /\ EmptyTree.exists = TRUE
  BY DEF EmptyTree, NoTree, Tree
<1> DEFINE t == [EmptyTree EXCEPT !.exe = content, !.complete = TRUE]
<1>2. t \in Tree /\ t.exe = content /\ t.complete = TRUE /\ t.exists = TRUE
  BY <1>1 DEF Tree
<1> HIDE DEF t
<1>3. t = Whole(content)
  BY <1>2 DEF Tree, Whole
<1> QED  BY <1>1, <1>2, <1>3 DEF Tree, Whole, t

\* What is recorded is a release.
LEMMA SavedRelease ==
  ASSUME TypeOK, saved # <<>>
  PROVE  Head(saved) \in Release /\ Head(saved).version \in Version
<1>1. Head(saved) \in Release
  BY HeadTailProperties DEF TypeOK
<1> QED  BY <1>1 DEF Release

\* What is proven stays so where neither its tree nor its releases change.
LEMMA StillKept ==
  ASSUME ProvenVersionsKept,
         \A v \in Version : proven'[v] # None => proven'[v] = proven[v] /\ tree'[v] = tree[v],
         \A r \in Release : proven'[r.version] # None =>
           payload'[r] = payload[r] /\ meta'[r] = meta[r]
  PROVE  ProvenVersionsKept'
<1> SUFFICES ASSUME NEW v \in Version, proven'[v] # None
             PROVE  /\ tree'[v] = [exe |-> proven'[v], complete |-> TRUE, exists |-> TRUE]
                    /\ \E r \in Release : r.version = v /\ payload'[r] = proven'[v]
                                          /\ meta'[r] = proven'[v]
  BY DEF ProvenVersionsKept
<1>1. /\ tree[v] = [exe |-> proven[v], complete |-> TRUE, exists |-> TRUE]
      /\ \E r \in Release : r.version = v /\ payload[r] = proven[v] /\ meta[r] = proven[v]
      /\ proven'[v] = proven[v] /\ tree'[v] = tree[v]
  BY DEF ProvenVersionsKept
<1>2. PICK r \in Release : r.version = v /\ payload[r] = proven[v] /\ meta[r] = proven[v]
  BY <1>1
<1>3. payload'[r] = payload[r] /\ meta'[r] = meta[r]
  BY <1>2
<1> QED  BY <1>1, <1>2, <1>3

-----------------------------------------------------------------------------
(* The initial state, and the steps that only the call under way sees.     *)

\* Nothing is recorded, linked or reported at first.
LEMMA InitInv == Init => Inv
<1> SUFFICES ASSUME Init PROVE Inv
  OBVIOUS
<1>1. TypeOK
  BY EmptySeq DEF Init, TypeOK, NoTree
<1>2. \A v \in Version : tree[v].exe = None
  BY DEF Init, NoTree
<1>3. pc = "idle" /\ call = None /\ reported = None /\ installed = saved
      /\ \A v \in Version : proven[v] = None
  BY DEF Init
<1> QED
  BY <1>1, <1>2, <1>3
     DEF Inv, FilesAgree, CallUnderWay, Published, NothingReportedYet, HalfLinked,
         LinkSettled, InStore, ReportedIsWhole, ProvenVersionsKept, Building, Linking

\* publish of a new install.
LEMMA StartInstallStep ==
  ASSUME Inv, NEW release \in Release, NEW content \in Content, StartInstall(release, content)
  PROVE  Inv'
<1> DEFINE c == Call("install", release, content, FALSE)
<1>1. c \in Calls /\ c.op = "install" /\ c.release = release /\ c.nested = FALSE
  BY DEF Call, Calls
<1>0. release.version \in Version
  BY DEF Release
<1> HIDE DEF c
<1>2. /\ call' = c /\ pc' = "payload written" /\ reported' = None
      /\ payload' = [payload EXCEPT ![release] = content]
      /\ proven' = [proven EXCEPT ![release.version] = None]
      /\ UNCHANGED <<meta, saved, installed, torn, tree, link, other, strayed>>
  BY DEF StartInstall, visit, c
<1>3. TypeOK'
  BY <1>0, <1>1, <1>2 DEF Inv, TypeOK
<1>4. proven'[release.version] = None
      /\ \A v \in Version : v # release.version => proven'[v] = proven[v]
  BY <1>0, <1>2 DEF Inv, TypeOK
<1>5. payload'[release] = content /\ \A r \in Release : r # release => payload'[r] = payload[r]
  BY <1>2 DEF Inv, TypeOK
<1>6. CallUnderWay' /\ Published' /\ HalfLinked' /\ LinkSettled' /\ NothingReportedYet'
  <2>1. c.content = content
    BY DEF c, Call
  <2> QED
    BY <1>1, <1>2, <1>4, <1>5, <2>1
       DEF CallUnderWay, Published, NothingReportedYet, HalfLinked, LinkSettled, Building,
           Linking, Target
<1>7. ProvenVersionsKept'
  BY <1>2, <1>4, <1>5, StillKept DEF Inv, Release
<1>8. FilesAgree' /\ ReportedIsWhole'
  BY <1>2 DEF Inv, FilesAgree, ReportedIsWhole
<1> QED  BY <1>3, <1>6, <1>7, <1>8 DEF Inv

\* META.json of the call under way.
LEMMA WriteMetaStep ==
  ASSUME Inv, WriteMeta
  PROVE  Inv'
<1>1. /\ pc = "payload written" /\ pc' = "published"
      /\ meta' = [meta EXCEPT ![call.release] = call.content]
      /\ UNCHANGED <<payload, saved, installed, torn, tree, link, other, strayed, call,
                   reported, proven>>
  BY DEF WriteMeta, history, visit
<1>2. call \in Calls /\ call.op # "start"
  BY <1>1 DEF Inv, CallUnderWay, Building
<1>3. call.release \in Release /\ call.content \in Content
  BY <1>2, CallFields
<1>4. TypeOK'
  BY <1>1, <1>3 DEF Inv, TypeOK
<1>5. /\ meta'[call.release] = call.content
      /\ \A r \in Release : r # call.release => meta'[r] = meta[r]
  BY <1>1, <1>3 DEF Inv, TypeOK
<1>6. reported = None /\ proven[Target] = None
  BY <1>1 DEF Inv, NothingReportedYet, Building
<1>7. ProvenVersionsKept'
  BY <1>1, <1>5, <1>6, StillKept DEF Inv, Target
<1>8. CallUnderWay' /\ Published' /\ NothingReportedYet'
  BY <1>1, <1>5, <1>6
     DEF Inv, CallUnderWay, Published, InStore, NothingReportedYet, Building, Linking, Target,
         RecordedFirst
<1>9. FilesAgree' /\ HalfLinked' /\ LinkSettled' /\ ReportedIsWhole'
  BY <1>1, <1>6 DEF Inv, FilesAgree, HalfLinked, LinkSettled, ReportedIsWhole
<1> QED  BY <1>4, <1>7, <1>8, <1>9 DEF Inv

\* install of the package manager.  The one a rollback makes is not refused.
LEMMA RecordInstallStep ==
  ASSUME Inv, RecordInstall
  PROVE  Inv'
<1>0. /\ pc = "published"
      /\ UNCHANGED <<payload, meta, torn, tree, link, other, strayed, call,
                   reported, proven>>
  BY DEF RecordInstall, visit, Silent, Return
<1>1. /\ call \in Calls /\ call.op # "start" /\ reported = None /\ proven[Target] = None
      /\ (call.nested => call.op = "rollback")
      /\ (call.op = "install" \/ (call.op = "rollback" /\ call.nested))
  BY <1>0 DEF Inv, CallUnderWay, NothingReportedYet, Building
<1>2. call.release \in Release /\ call.content \in Content
  BY <1>1, CallFields
<1>3. CASE MayInstall(call.release)
  <2>1. installed' = Recorded(call.release) /\ saved' = installed' /\ pc' = "recorded"
    BY <1>3 DEF RecordInstall
  <2>2. saved' \in Seq(Release) /\ saved' # <<>> /\ Head(saved') = call.release
    BY <1>2, <2>1, RecordedRelease DEF Inv, TypeOK
  <2>3. TypeOK'
    BY <1>0, <2>1, <2>2 DEF Inv, TypeOK
  <2> QED
    BY <1>0, <1>1, <2>1, <2>2, <2>3
       DEF Inv, FilesAgree, CallUnderWay, Published, NothingReportedYet, HalfLinked,
         LinkSettled, InStore, ReportedIsWhole, ProvenVersionsKept, Building, Linking, Target,
         RecordedFirst
<1>4. CASE ~MayInstall(call.release) /\ call.nested
  <2>1. /\ payload[call.release] = call.content /\ meta[call.release] = call.content
        /\ installed # <<>> => Current = call.release
    BY <1>0, <1>1, <1>4
       DEF Inv, Published, InStore, CallUnderWay, RecordedFirst, Building, Current, FilesAgree
  <2>2. MayInstall(call.release)
    BY <1>2, <2>1, NoneAssumption DEF MayInstall
  <2> QED  BY <1>4, <2>2
<1>5. CASE ~MayInstall(call.release) /\ ~call.nested
  <2>1. pc' = "idle" /\ UNCHANGED <<installed, saved>>
    BY <1>5 DEF RecordInstall, Return
  <2>2. TypeOK'
    BY <1>0, <2>1 DEF Inv, TypeOK
  <2> QED
    BY <1>0, <1>1, <2>1, <2>2
       DEF Inv, FilesAgree, CallUnderWay, Published, NothingReportedYet, HalfLinked,
         LinkSettled, InStore, ReportedIsWhole, ProvenVersionsKept, Building, Linking
<1> QED  BY <1>3, <1>4, <1>5

\* The steps that build a tree, which is of no proven version.
LEMMA ChangeTreeStep ==
  ASSUME Inv,
         \/ ClearTree
         \/ WriteExecutable
         \/ CompleteTree
  PROVE  Inv'
<1>0. /\ pc \in {"recorded", "cleared", "executable"}
      /\ UNCHANGED <<payload, meta, saved, installed, torn, link, other, strayed, call,
                   reported, proven>>
  BY DEF ClearTree, WriteExecutable, CompleteTree, ChangeTree, history, visit
<1>1. /\ call \in Calls /\ call.op # "start" /\ reported = None /\ proven[Target] = None
      /\ (call.nested => call.op = "rollback") /\ RecordedFirst(call.release)
      /\ (call.op = "install" \/ (call.op = "rollback" /\ call.nested))
  BY <1>0 DEF Inv, CallUnderWay, NothingReportedYet, Building
<1>2. call.content \in Content /\ Target \in Version
  BY <1>1, CallFields DEF Target
<1>3. PICK t \in Tree :
        /\ tree' = [tree EXCEPT ![Target] = t] /\ t.exists = TRUE
        /\ pc' \in {"cleared", "executable"} \/ (pc' = "linking" /\ t = Whole(call.content))
  <2>1. CASE ClearTree
    BY <1>2, <2>1, BuiltTrees DEF ClearTree, ChangeTree, Target
  <2>2. CASE WriteExecutable
    BY <1>2, <2>2, BuiltTrees DEF WriteExecutable, ChangeTree, Target
  <2>3. CASE CompleteTree
    BY <1>2, <2>3, BuiltTrees DEF CompleteTree, ChangeTree, Target
  <2> QED  BY <2>1, <2>2, <2>3
<1>4. /\ tree'[Target] = t
      /\ \A v \in Version : v # Target => tree'[v] = tree[v]
  BY <1>2, <1>3 DEF Inv, TypeOK
<1>5. TypeOK'
  BY <1>0, <1>2, <1>3 DEF Inv, TypeOK, Tree
<1>6. FilesAgree' /\ ReportedIsWhole' /\ ProvenVersionsKept'
  <2>1. ProvenVersionsKept'
    BY <1>0, <1>1, <1>4, StillKept DEF Inv
  <2> QED  BY <1>0, <1>1, <1>3, <1>4, <2>1 DEF Inv, FilesAgree, ReportedIsWhole
<1>7. CallUnderWay' /\ Published' /\ HalfLinked' /\ LinkSettled'
  BY <1>0, <1>1, <1>3
     DEF Inv, CallUnderWay, Published, HalfLinked, LinkSettled, InStore, Building, Linking,
         RecordedFirst
<1>8. NothingReportedYet'
  <2>1. Target' = Target
    BY <1>0 DEF Target
  <2>2. pc' = "linking" => t = Whole(call.content) /\ t.exe # None
    BY <1>2, <1>3, BuiltTrees, NoneAssumption
  <2>3. tree'[Target'] = t
    BY <1>4, <2>1
  <2> QED
    BY <1>0, <1>1, <1>3, <2>1, <2>2, <2>3
       DEF NothingReportedYet, Building, Linking, RecordedFirst, HasExecutable
<1> QED  BY <1>5, <1>6, <1>7, <1>8 DEF Inv

-----------------------------------------------------------------------------
(* The steps that move the link.                                           *)

\* A call that is to report something, or a report that still holds, has a tree
\* to link.
LEMMA TreeToLink ==
  ASSUME Inv, pc \in Linking, ~CanLink
  PROVE  call.op = "start" /\ reported = None
<1>1. installed = saved
  BY DEF Inv, FilesAgree
<1>2. saved # <<>> => Head(saved).version \in Version
  BY SavedRelease DEF Inv
<1>3. saved # <<>> => ~HasExecutable(Head(saved).version)
  BY <1>1, <1>2 DEF CanLink, Current, Inv, FilesAgree, HasExecutable
<1>4. call.op = "start"
  BY <1>3 DEF Inv, NothingReportedYet, RecordedFirst, Target
<1>5. ASSUME reported # None
      PROVE  FALSE
  <2>1. reported \in Calls /\ reported.op # "start"
    BY <1>5 DEF Inv, TypeOK, NothingReportedYet
  <2>2. reported.content \in Content
    BY <2>1, CallFields
  <2>3. saved # <<>> /\ HasExecutable(Head(saved).version)
    BY <1>5, <2>2, NoneAssumption DEF Inv, ReportedIsWhole, HasExecutable
  <2> QED  BY <1>3, <2>3
<1> QED  BY <1>4, <1>5

\* The call has linked what is recorded: a nested one is continued, any other
\* returns, and reports what it has done.
LEMMA LinkedStep ==
  ASSUME Inv, pc \in Linking, Linked,
         UNCHANGED <<payload, meta, saved, installed, torn, tree, other>>,
         saved # <<>>, link' = Head(saved).version, strayed' = FALSE
  PROVE  Inv'
<1>0. /\ call \in Calls /\ (call.nested => call.op = "rollback")
      /\ Head(saved).version \in Version
  BY SavedRelease DEF Inv, CallUnderWay
<1>1. CASE call.nested
  <2> DEFINE c == [call EXCEPT !.nested = FALSE]
  <2>1. c \in Calls /\ c.op = "rollback" /\ c.release = call.release /\ c.nested = FALSE
    BY <1>0, <1>1, NestedCall
  <2> HIDE DEF c
  <2>2. pc' = "linking" /\ call' = c /\ UNCHANGED <<reported, proven>>
    BY <1>1 DEF Linked, Silent, c
  <2>3. TypeOK'
    BY <1>0, <2>1, <2>2 DEF Inv, TypeOK
  <2>4. /\ reported = None /\ call.op # "start" /\ RecordedFirst(call.release)
        /\ HasExecutable(Target)
    BY <1>0, <1>1 DEF Inv, NothingReportedYet
  <2>5. Target' = Target
    BY <2>1, <2>2 DEF Target
  <2>6. CallUnderWay' /\ Published' /\ HalfLinked' /\ LinkSettled'
    BY <2>1, <2>2, <2>4
       DEF CallUnderWay, Published, HalfLinked, LinkSettled, Building, Linking
  <2>7. NothingReportedYet'
    BY <1>1, <2>1, <2>2, <2>4, <2>5
       DEF NothingReportedYet, Building, Linking, RecordedFirst, HasExecutable
  <2>8. FilesAgree' /\ ReportedIsWhole' /\ ProvenVersionsKept'
    BY <2>2, <2>4 DEF Inv, FilesAgree, ReportedIsWhole, ProvenVersionsKept
  <2> QED  BY <2>3, <2>6, <2>7, <2>8 DEF Inv
<1>2. CASE ~call.nested /\ call.op = "start"
  <2>1. pc' = "idle" /\ call' = call /\ UNCHANGED <<reported, proven>>
    BY <1>2 DEF Linked, Return, Silent
  <2>2. TypeOK'
    BY <1>0, <2>1 DEF Inv, TypeOK
  <2> QED
    BY <2>1, <2>2
       DEF Inv, FilesAgree, CallUnderWay, Published, NothingReportedYet, HalfLinked,
           LinkSettled, ReportedIsWhole, ProvenVersionsKept, Building, Linking, HasExecutable
<1>3. CASE ~call.nested /\ call.op # "start"
  <2>1. /\ pc' = "idle" /\ call' = call /\ reported' = call
        /\ proven' = IF call.op = "install" THEN [proven EXCEPT ![Target] = call.content]
                                            ELSE proven
    BY <1>3 DEF Linked, Return, Target
  <2>2. /\ call.op \in {"install", "rollback"} /\ call.content \in Content
        /\ call.release \in Release /\ Target \in Version
    BY <1>0, <1>3, CallFields DEF Target
  <2>3. /\ RecordedFirst(call.release) /\ HasExecutable(Target)
        /\ call.op = "install" =>
             tree[Target] = Whole(call.content) /\ InStore(call.release, call.content)
    BY <1>3 DEF Inv, NothingReportedYet, Published
  <2>4. TypeOK'
    BY <1>0, <2>1, <2>2 DEF Inv, TypeOK
  <2>5. ReportedIsWhole' /\ LinkSettled'
    BY <2>1, <2>2, <2>3
       DEF ReportedIsWhole, LinkSettled, RecordedFirst, HasExecutable, Target, Whole
  <2>6. ProvenVersionsKept'
    BY <2>1, <2>2, <2>3 DEF Inv, ProvenVersionsKept, InStore, Whole, Target, TypeOK
  <2>7. CallUnderWay' /\ Published' /\ HalfLinked' /\ NothingReportedYet'
    BY <1>3, <2>1 DEF CallUnderWay, Published, NothingReportedYet, HalfLinked, Building, Linking
  <2> QED  BY <2>4, <2>5, <2>6, <2>7 DEF Inv, FilesAgree
<1> QED  BY <1>1, <1>2, <1>3

\* The call returns without a report; the link is as it was.  What was reported
\* before, if it was a start that returns, still holds.
LEMMA ReturnedStep ==
  ASSUME Inv, pc \in Linking, pc' = "idle",
         UNCHANGED <<payload, meta, saved, installed, torn, tree, link, visit, call,
                     reported, proven>>,
         reported # None =>
           strayed \/ link = Head(saved).version \/ (other.step = "unlinked" /\ link = None)
  PROVE  Inv'
<1>1. UNCHANGED <<other, strayed>>
  BY DEF visit
<1>2. TypeOK'
  BY <1>1 DEF Inv, TypeOK
<1>3. FilesAgree' /\ CallUnderWay' /\ Published' /\ HalfLinked' /\ LinkSettled'
  BY <1>1 DEF Inv, FilesAgree, CallUnderWay, Published, HalfLinked, LinkSettled, Building, Linking
<1>4. NothingReportedYet'
  BY DEF Inv, NothingReportedYet, Building, Linking
<1>5. ReportedIsWhole'
  BY <1>1 DEF Inv, ReportedIsWhole, HasExecutable
<1>6. ProvenVersionsKept'
  BY DEF Inv, ProvenVersionsKept
<1> QED  BY <1>2, <1>3, <1>4, <1>5, <1>6 DEF Inv

\* The first half of a relink, or all of it where there is no tree to link or the
\* other process was faster.
LEMMA UnlinkStep ==
  ASSUME Inv, Unlink
  PROVE  Inv'
<1>0. /\ pc = "linking" /\ pc \in Linking /\ call \in Calls
      /\ UNCHANGED <<payload, meta, saved, installed, torn, tree, visit>>
  BY DEF Unlink, Inv, CallUnderWay, Linking
<1>1. CASE CanLink /\ pc' = "unlinked"
  <2>1. link' = None /\ UNCHANGED <<other, strayed, call,
                   reported, proven>>
    BY <1>0, <1>1 DEF Unlink, Return, visit
  <2>2. saved # <<>> /\ tree[Head(saved).version].exists
    BY <1>1 DEF CanLink, Current, Inv, FilesAgree
  <2>3. TypeOK'
    BY <1>0, <2>1 DEF Inv, TypeOK
  <2>4. FilesAgree' /\ CallUnderWay' /\ Published' /\ HalfLinked' /\ LinkSettled'
    BY <1>0, <1>1, <2>1, <2>2
       DEF Inv, FilesAgree, CallUnderWay, Published, HalfLinked,
         LinkSettled, InStore,   Building, Linking
  <2>5. NothingReportedYet' /\ ReportedIsWhole'
    BY <1>0, <1>1, <2>1
       DEF Inv, NothingReportedYet, ReportedIsWhole, Building, Linking, Target, RecordedFirst,
           HasExecutable
  <2>6. ProvenVersionsKept'
    BY <1>0, <2>1 DEF Inv, ProvenVersionsKept
  <2> QED  BY <2>3, <2>4, <2>5, <2>6 DEF Inv
<1>2. CASE ~CanLink
  <2>1. call.op = "start" /\ reported = None
    BY <1>0, <1>2, TreeToLink
  <2>2. ~call.nested
    BY <1>0, <2>1 DEF Inv, CallUnderWay
  <2>3. link' = link /\ call' = call /\ pc' = "idle" /\ UNCHANGED <<reported, proven>>
    BY <1>2, <2>1, <2>2 DEF Unlink, Linked, Return, Silent
  <2> QED  BY <1>0, <2>1, <2>3, ReturnedStep
<1>3. CASE CanLink /\ pc' # "unlinked"
  <2>1. /\ link = None /\ other.step = "unlinked"
        /\ pc' = "idle" /\ UNCHANGED <<link, call, reported, proven>>
    BY <1>3 DEF Unlink, Return, Silent
  <2> QED  BY <1>0, <2>1, ReturnedStep
<1> QED  BY <1>1, <1>2, <1>3

\* The second half, which fails where another process has made the link.
LEMMA LinkStep ==
  ASSUME Inv, Link
  PROVE  Inv'
<1>0. /\ pc = "unlinked" /\ call \in Calls /\ pc \in Linking
      /\ UNCHANGED <<payload, meta, saved, installed, torn, tree, other>>
  BY DEF Link, Inv, CallUnderWay, Linking
<1>1. /\ saved # <<>> /\ installed = saved
      /\ link = None \/ strayed \/ link = Head(saved).version
  BY <1>0 DEF Inv, HalfLinked, FilesAgree
<1>2. CASE link = None
  BY <1>0, <1>1, <1>2, LinkedStep DEF Link, Current
<1>3. CASE link # None
  <2>1. link' = link /\ call' = call /\ pc' = "idle" /\ UNCHANGED <<strayed, reported, proven>>
    BY <1>3 DEF Link, Return, Silent
  <2> QED  BY <1>0, <1>1, <1>3, <2>1, ReturnedStep DEF visit
<1> QED  BY <1>2, <1>3

-----------------------------------------------------------------------------
(* Rollbacks, crashes and other processes.                                 *)

\* A rollback records the release before, or changes nothing.
LEMMA RollbackStep ==
  ASSUME Inv, Rollback
  PROVE  Inv'
<1>0. /\ pc = "idle" /\ HasPrevious /\ installed \in Seq(Release)
      /\ UNCHANGED <<payload, meta, torn, tree, link, other, strayed, proven>>
  BY DEF Rollback, visit, Inv, TypeOK
<1>1. CASE MayInstall(Previous)
  <2>1. Previous \in Release
    BY <1>0, ElementOfSeq, LenProperties DEF HasPrevious, Previous
  <2> DEFINE c == Call("rollback", Previous, "default", FALSE)
  <2>2. c \in Calls /\ c.op = "rollback" /\ c.release = Previous /\ c.nested = FALSE
    BY <2>1 DEF Call, Calls, Content
  <2> HIDE DEF c
  <2>3. /\ installed' = Recorded(Previous) /\ saved' = installed' /\ pc' = "rolled back"
        /\ call' = c /\ reported' = None
    BY <1>1 DEF Rollback, c
  <2>4. saved' \in Seq(Release) /\ saved' # <<>> /\ Head(saved') = Previous
    BY <1>0, <2>1, <2>3, RecordedRelease
  <2>5. TypeOK'
    BY <1>0, <2>2, <2>3, <2>4 DEF Inv, TypeOK
  <2> QED
    BY <1>0, <2>2, <2>3, <2>4, <2>5
       DEF Inv, FilesAgree, CallUnderWay, Published, NothingReportedYet, HalfLinked,
         LinkSettled, InStore, ReportedIsWhole, ProvenVersionsKept, Building, Linking, RecordedFirst
<1>2. CASE ~MayInstall(Previous)
  <2>1. UNCHANGED <<installed, saved, pc, call, reported>>
    BY <1>2 DEF Rollback
  <2> QED
    BY <1>0, <2>1
       DEF Inv, TypeOK, FilesAgree, CallUnderWay, Published, NothingReportedYet, HalfLinked,
         LinkSettled, InStore, ReportedIsWhole, ProvenVersionsKept, Building, Linking, HasExecutable
<1> QED  BY <1>1, <1>2

\* A release without an executable is published again: it is no proven one.
LEMMA MaterializeStep ==
  ASSUME Inv, Materialize
  PROVE  Inv'
<1>0. /\ pc = "rolled back" /\ reported = None
      /\ UNCHANGED <<meta, saved, installed, torn, tree, link, other, strayed, reported, proven>>
  BY DEF Materialize, history, visit, Inv, NothingReportedYet
<1>1. /\ call \in Calls /\ call.op = "rollback" /\ ~call.nested /\ RecordedFirst(call.release)
  BY <1>0 DEF Inv, CallUnderWay
<1>2. call.release \in Release /\ Target \in Version /\ call.content \in Content
  BY <1>1, CallFields DEF Target
<1>3. CASE Materialized(call.release)
  <2>1. pc' = "linking" /\ UNCHANGED <<payload, call>> /\ HasExecutable(Target)
    BY <1>3 DEF Materialize, Materialized, Target
  <2>2. TypeOK'
    BY <1>0, <2>1 DEF Inv, TypeOK
  <2>3. ProvenVersionsKept'
    BY <1>0, <2>1, StillKept DEF Inv
  <2>4. CallUnderWay' /\ Published' /\ NothingReportedYet'
    BY <1>0, <1>1, <2>1
       DEF CallUnderWay, Published, NothingReportedYet, Building, Linking, RecordedFirst,
           HasExecutable, Target
  <2>5. FilesAgree' /\ HalfLinked' /\ LinkSettled' /\ ReportedIsWhole'
    BY <1>0, <2>1 DEF Inv, FilesAgree, HalfLinked, LinkSettled, ReportedIsWhole
  <2> QED  BY <2>2, <2>3, <2>4, <2>5 DEF Inv
<1>4. CASE ~Materialized(call.release)
  <2> DEFINE c == [call EXCEPT !.nested = TRUE]
  <2>1. /\ c \in Calls /\ c.op = "rollback" /\ c.release = call.release
        /\ c.content = call.content /\ c.nested = TRUE
    BY <1>1, NestedCall
  <2> HIDE DEF c
  <2>2. /\ payload' = [payload EXCEPT ![call.release] = call.content]
        /\ call' = c /\ pc' = "payload written"
    BY <1>4 DEF Materialize, c
  <2>3. TypeOK'
    BY <1>0, <1>2, <2>1, <2>2 DEF Inv, TypeOK
  <2>4. /\ payload'[call.release] = call.content
        /\ \A r \in Release : r # call.release => payload'[r] = payload[r]
    BY <1>2, <2>2 DEF Inv, TypeOK
  <2>5. proven[Target] = None
    <3>1. tree[Target].exe = None
      BY <1>4 DEF Materialized, HasExecutable, Target
    <3>2. proven[Target] # None => tree[Target] = Whole(proven[Target])
      BY <1>2 DEF Inv, ProvenVersionsKept, Whole
    <3>3. Whole(proven[Target]).exe = proven[Target]
      BY DEF Whole
    <3> QED  BY <3>1, <3>2, <3>3
  <2>6. Target' = Target
    BY <2>1, <2>2 DEF Target
  <2>7. CallUnderWay' /\ Published' /\ HalfLinked' /\ LinkSettled'
    BY <1>0, <1>1, <2>1, <2>2, <2>4
       DEF CallUnderWay, Published, HalfLinked, LinkSettled, InStore, Building, Linking,
           RecordedFirst
  <2>8. NothingReportedYet'
    BY <1>0, <2>2, <2>5, <2>6 DEF NothingReportedYet, Building, Linking
  <2>9. FilesAgree' /\ ReportedIsWhole' /\ ProvenVersionsKept'
    <3>1. ProvenVersionsKept'
      BY <1>0, <2>4, <2>5, StillKept DEF Inv, Target
    <3> QED  BY <1>0, <3>1 DEF Inv, FilesAgree, ReportedIsWhole
  <2> QED  BY <2>3, <2>7, <2>8, <2>9 DEF Inv
<1> QED  BY <1>3, <1>4

\* What a process that dies has half written is of a version that is not proven.
LEMMA TornFiles ==
  ASSUME Inv, Crash \/ Tear
  PROVE  /\ payload' \in [Release -> Content \cup {None}]
         /\ meta' \in [Release -> Content \cup {None}]
         /\ torn' \in BOOLEAN /\ tree' \in [Version -> Tree]
         /\ \A v \in Version : tree'[v].exe # None => tree'[v].exists
         /\ \A v \in Version : proven[v] # None \/ reported # None => tree'[v] = tree[v]
         /\ \A r \in Release : proven[r.version] # None =>
              payload'[r] = payload[r] /\ meta'[r] = meta[r]
<1>0. /\ payload \in [Release -> Content \cup {None}] /\ meta \in [Release -> Content \cup {None}]
      /\ torn \in BOOLEAN /\ tree \in [Version -> Tree]
      /\ \A v \in Version : tree[v].exe # None => tree[v].exists
  BY DEF Inv, TypeOK, FilesAgree, Tree
<1>1. CASE UNCHANGED <<payload, meta, tree, torn>>
  BY <1>0, <1>1
<1>2. CASE Tear /\ pc \in {"published", "rolled back"}
  BY <1>0, <1>2 DEF Tear
<1>3. CASE Tear /\ pc \in {"payload written", "cleared"}
  <2>1. /\ reported = None /\ proven[Target] = None
        /\ call.release \in Release /\ Target \in Version
    BY <1>3, CallFields DEF Inv, CallUnderWay, NothingReportedYet, Building, Target
  <2>2. CASE pc = "payload written"
    <3>1. /\ UNCHANGED <<torn, tree>>
          /\ \/ payload' = [payload EXCEPT ![call.release] = None] /\ meta' = meta
             \/ meta' = [meta EXCEPT ![call.release] = None] /\ payload' = payload
      BY <1>3, <2>2 DEF Tear
    <3> QED  BY <1>0, <2>1, <3>1 DEF Target
  <2>3. CASE pc = "cleared"
    <3> DEFINE t == [EmptyTree EXCEPT !.exe = Torn]
    <3>1. t \in Tree /\ t.exists = TRUE
      BY DEF EmptyTree, NoTree, Tree
    <3> HIDE DEF t
    <3>2. tree' = [tree EXCEPT ![Target] = t] /\ UNCHANGED <<payload, meta, torn>>
      BY <1>3, <2>3 DEF Tear, Target, t
    <3> QED  BY <1>0, <2>1, <3>1, <3>2
  <2> QED  BY <1>3, <2>2, <2>3
<1> QED  BY <1>1, <1>2, <1>3 DEF Crash, Tear

\* The process dies, between two writes or in the middle of one.
LEMMA CrashStep ==
  ASSUME Inv, Crash \/ Tear
  PROVE  Inv'
<1>1. /\ pc' = "down"
      /\ UNCHANGED <<saved, link, installed, other, strayed, call,
                   reported, proven>>
  BY DEF Crash, Tear, Dies, visit
<1>2. TypeOK'
  BY <1>1, TornFiles DEF Inv, TypeOK, Tree
<1>3. FilesAgree'
  BY <1>1, TornFiles DEF Inv, FilesAgree
<1>4. CallUnderWay' /\ Published' /\ HalfLinked' /\ LinkSettled' /\ NothingReportedYet'
  BY <1>1
     DEF Inv, CallUnderWay, Published, HalfLinked, LinkSettled, NothingReportedYet,
         Building, Linking
<1>5. ReportedIsWhole'
  <2> SUFFICES ASSUME reported # None PROVE ReportedIsWhole'
    BY <1>1 DEF ReportedIsWhole
  <2>1. reported.release.version \in Version
    BY CallFields DEF Inv, TypeOK, NothingReportedYet
  <2>2. tree'[reported.release.version] = tree[reported.release.version]
    BY <2>1, TornFiles
  <2> QED  BY <1>1, <2>2 DEF Inv, ReportedIsWhole, HasExecutable
<1>6. ProvenVersionsKept'
  BY <1>1, TornFiles, StillKept DEF Inv
<1> QED  BY <1>2, <1>3, <1>4, <1>5, <1>6 DEF Inv

\* A new process has nothing to report, and what was reported before holds.
LEMMA StartStep ==
  ASSUME Inv, Start
  PROVE  Inv'
<1> DEFINE c == Call("start", None, None, FALSE)
<1>1. c \in Calls /\ c.op = "start" /\ c.nested = FALSE
  BY DEF Calls, Call
<1> HIDE DEF c
<1>2. /\ pc = "down" /\ pc' = "linking" /\ call' = c /\ installed' = saved
      /\ UNCHANGED <<payload, meta, saved, torn, tree, link, other, strayed, reported, proven>>
  BY DEF Start, files, history, visit, c
<1>3. TypeOK'
  BY <1>1, <1>2 DEF Inv, TypeOK
<1> QED
  BY <1>1, <1>2, <1>3
     DEF Inv, FilesAgree, CallUnderWay, Published, NothingReportedYet, HalfLinked,
         LinkSettled, InStore, ReportedIsWhole, ProvenVersionsKept, Building, Linking, HasExecutable

\* The other process touches the link only, and where it puts that on a version
\* that is not recorded it is marked.
LEMMA StatusStep ==
  ASSUME Inv, Status
  PROVE  Inv'
<1>1. UNCHANGED <<payload, meta, saved, torn, tree, installed, pc, call, reported, proven>>
  BY DEF Status, history
<1>2. saved # <<>> => Head(saved).version \in Version
  BY SavedRelease DEF Inv
<1>3. reported # None => saved # <<>> /\ Head(saved) = reported.release
  BY DEF Inv, ReportedIsWhole
<1>4. /\ link' \in Version \cup {None} /\ strayed' \in BOOLEAN
      /\ other' \in [step : {"loaded", "unlinked"}, version : Version] \cup {Away}
  <2>0. /\ other \in [step : {"loaded", "unlinked"}, version : Version] \cup {Away}
        /\ link \in Version \cup {None} /\ strayed \in BOOLEAN /\ Away.step = "away"
    BY DEF Inv, TypeOK, Away, At
  <2>1. CASE OtherLoads
    BY <1>2, <2>0, <2>1 DEF OtherLoads, At
  <2>2. CASE OtherUnlinks
    BY <2>0, <2>2 DEF OtherUnlinks, At
  <2>3. CASE OtherLinks
    <3>1. strayed' \in BOOLEAN
      BY <2>3 DEF OtherLinks
    <3> QED  BY <2>0, <2>3, <3>1 DEF OtherLinks
  <2>4. CASE OtherEnds
    <3>1. strayed' \in BOOLEAN
      BY <2>4 DEF OtherEnds
    <3> QED  BY <2>0, <2>4, <3>1 DEF OtherEnds
  <2> QED  BY <2>1, <2>2, <2>3, <2>4 DEF Status
<1>5. /\ HalfLinked' /\ LinkSettled'
      /\ reported # None /\ pc = "idle" /\ ~strayed' /\ other'.step # "unlinked" =>
           link' = reported.release.version
  <2>1. CASE OtherLoads
    BY <1>1, <1>3, <2>1
       DEF OtherLoads, Inv, HalfLinked, LinkSettled, ReportedIsWhole, At, Away
  <2>2. CASE OtherUnlinks
    BY <1>1, <2>2 DEF OtherUnlinks, Inv, HalfLinked, LinkSettled, At
  <2>3. CASE OtherLinks
    BY <1>1, <1>3, <2>3 DEF OtherLinks, Inv, HalfLinked, LinkSettled, Away, At
  <2>4. CASE OtherEnds
    BY <1>1, <1>3, <2>4 DEF OtherEnds, Inv, HalfLinked, LinkSettled, ReportedIsWhole, Away, At
  <2> QED  BY <2>1, <2>2, <2>3, <2>4 DEF Status
<1>6. TypeOK'
  BY <1>1, <1>4 DEF Inv, TypeOK
<1>7. ReportedIsWhole'
  BY <1>1, <1>5 DEF Inv, ReportedIsWhole, HasExecutable
<1>8. FilesAgree' /\ CallUnderWay' /\ Published'
  BY <1>1 DEF Inv, FilesAgree, CallUnderWay, Published, InStore, RecordedFirst
<1>9. NothingReportedYet'
  BY <1>1 DEF Inv, NothingReportedYet, RecordedFirst, HasExecutable, Target
<1>10. ProvenVersionsKept'
  BY <1>1 DEF Inv, ProvenVersionsKept
<1> QED  BY <1>5, <1>6, <1>7, <1>8, <1>9, <1>10 DEF Inv

-----------------------------------------------------------------------------
\* Every step keeps the invariant.
LEMMA NextInv == Inv /\ [Next]_vars => Inv'
<1> SUFFICES ASSUME Inv, [Next]_vars PROVE Inv'
  OBVIOUS
<1>1. CASE UNCHANGED vars
  <2>1. UNCHANGED <<payload, meta, saved, torn, tree, link, other, strayed, installed, pc, call,
                 reported, proven>>
    BY <1>1 DEF vars, files, visit, history
  <2>2. TypeOK'  BY <2>1 DEF Inv, TypeOK
  <2>3. FilesAgree' /\ Published' /\ HalfLinked' /\ LinkSettled'
    BY <2>1 DEF Inv, FilesAgree, Published, HalfLinked, LinkSettled, InStore
  <2>4. CallUnderWay'  BY <2>1 DEF Inv, CallUnderWay, RecordedFirst
  <2>5. NothingReportedYet'
    BY <2>1 DEF Inv, NothingReportedYet, RecordedFirst, HasExecutable, Target
  <2>6. ReportedIsWhole' /\ ProvenVersionsKept'
    BY <2>1 DEF Inv, ReportedIsWhole, ProvenVersionsKept, HasExecutable
  <2> QED  BY <2>2, <2>3, <2>4, <2>5, <2>6 DEF Inv
<1> QED
  BY <1>1, StartInstallStep, WriteMetaStep, RecordInstallStep, ChangeTreeStep, UnlinkStep,
     LinkStep, RollbackStep, MaterializeStep, CrashStep, StartStep, StatusStep
     DEF Next

\* The invariant holds in every reachable state.
LEMMA Invariance == Spec => []Inv
  BY InitInv, NextInv, PTL DEF Spec

\* package_lifecycle.py and packages/__init__.py: what is stored, recorded, built
\* and linked is well typed, whatever crashed.
THEOREM TypeCorrect == Spec => []TypeOK
<1>1. Inv => TypeOK  BY DEF Inv
<1> QED  BY <1>1, Invariance, PTL

\* publish_and_install and rollback: what a call has reported is recorded and there,
\* whatever crashed before it and whoever asks for the status.  The link is on it
\* unless such a process is between its two steps, or has left the link astray.
THEOREM ReportedIsWholeAlways == Spec => []ReportedIsWhole
<1>1. Inv => ReportedIsWhole  BY DEF Inv
<1> QED  BY <1>1, Invariance, PTL

\* rollback: the tree of a version that was reported installed stays as it is, and the
\* store keeps a release of it, until that version is installed again.
THEOREM ProvenVersionsKeptAlways == Spec => []ProvenVersionsKept
<1>1. Inv => ProvenVersionsKept  BY DEF Inv
<1> QED  BY <1>1, Invariance, PTL

\* rollback does not look at what the install that it makes returns: it is never
\* refused.
NestedInstallAccepted == pc = "published" /\ call.nested => MayInstall(call.release)

\* package_lifecycle.py, rollback: the release it materializes is accepted by the
\* package manager, with what it has just published in the store.
THEOREM NestedInstallAcceptedAlways == Spec => []NestedInstallAccepted
<1>1. Inv => NestedInstallAccepted
  <2> SUFFICES ASSUME Inv, pc = "published", call.nested PROVE MayInstall(call.release)
    BY DEF NestedInstallAccepted
  <2>1. /\ call \in Calls /\ call.op = "rollback" /\ RecordedFirst(call.release)
        /\ payload[call.release] = call.content /\ meta[call.release] = call.content
    BY DEF Inv, CallUnderWay, Published, InStore, Building
  <2>2. call.content \in Content
    BY <2>1, CallFields
  <2>3. Current = call.release
    BY <2>1 DEF Current, Inv, FilesAgree, RecordedFirst
  <2> QED  BY <2>1, <2>2, <2>3, NoneAssumption DEF MayInstall
<1> QED  BY <1>1, Invariance, PTL
=============================================================================

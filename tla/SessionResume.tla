---------------------------- MODULE SessionResume ----------------------------
(***************************************************************************)
(* Checkpoint and resume across processes (resume.py), as its scripts A, B *)
(* and C use them: one process at a time creates the session or loads the  *)
(* checkpoint, resumes it first, works on it, checkpoints it, and may die  *)
(* at any point, inside checkpoint() too.                                  *)
(***************************************************************************)
EXTENDS SessionFile

VARIABLES
  tmp,   \* the .tmp sibling of the checkpoint
  mem,   \* the session object of the running process, or None
  pc     \* what the process is doing

process_vars == <<now, disk, tmp, mem, pc>>

ProcessInit == now = 0 /\ disk = None /\ tmp = None /\ mem = None /\ pc = "off"

\* Process A.  It starts a session where none can be read.
Create ==
  /\ pc = "off" /\ disk \notin Session
  /\ mem' = Fresh(now)
  /\ pc' = "run"
  /\ UNCHANGED <<now, disk, tmp>>

\* load_checkpoint checks nothing.
Load ==
  /\ pc = "off" /\ disk \in Session
  /\ mem' = disk
  /\ pc' = "loaded"
  /\ UNCHANGED <<now, disk, tmp>>

\* "Resume first (integrity)": the scripts assert that it worked, or die.
ResumeFirst(right_token) ==
  /\ pc \in {"loaded", "run"}
  /\ IF Valid(mem, now, right_token) /\ ~Replays(mem)
     THEN mem' = Resumed(mem) /\ pc' = "run"
     ELSE mem' = None /\ pc' = "off"
  /\ UNCHANGED <<now, disk, tmp>>

Work ==
  /\ pc = "run"
  /\ \/ \E o \in Ops : mem' \in {Enqueued(mem, o), MarkCommitted(mem, o)}
     \/ mem.position < MaxPosition /\ mem' = Advanced(mem)
  /\ UNCHANGED <<now, disk, tmp, pc>>

\* Variant with a bug: the checkpoint file itself is opened for writing.
OpenInPlace == disk' = Unreadable /\ UNCHANGED tmp
OpenTmp == tmp' = Unreadable /\ UNCHANGED disk

\* checkpoint(): sign, truncate the temporary file, ...
Truncate ==
  /\ pc = "run"
  /\ mem' = Signed(mem)
  /\ OpenTmp
  /\ pc' = "truncated"
  /\ UNCHANGED now

\* ... write it, ...
Write ==
  /\ pc = "truncated"
  /\ tmp' = mem
  /\ pc' = "written"
  /\ UNCHANGED <<now, disk, mem>>

\* ... and rename it over the checkpoint.
Replace ==
  /\ pc = "written"
  /\ disk' = tmp
  /\ tmp' = None
  /\ pc' = "run"
  /\ UNCHANGED <<now, mem>>

\* The process exits or dies.
Crash ==
  /\ pc # "off"
  /\ mem' = None
  /\ pc' = "off"
  /\ UNCHANGED <<now, disk, tmp>>

FileAltered == AlterFile /\ UNCHANGED <<tmp, mem, pc>>

ClockTick == Tick /\ UNCHANGED <<tmp, mem, pc>>

ProcessNext ==
  \/ Create
  \/ Load
  \/ \E right_token \in BOOLEAN : ResumeFirst(right_token)
  \/ Work
  \/ Truncate
  \/ Write
  \/ Replace
  \/ Crash
  \/ FileAltered
  \/ ClockTick

ProcessSpec == ProcessInit /\ [][ProcessNext]_process_vars

-----------------------------------------------------------------------------
\* Type invariant.  The checkpoint itself is never unreadable: a crash inside
\* checkpoint() leaves the old one or the new one.
ProcessTypeOK ==
  /\ now \in Nat
  /\ disk \in Session \cup {None}
  /\ tmp \in Session \cup {None, Unreadable}
  /\ mem \in Session \cup {None}
  /\ pc \in {"off", "loaded", "run", "truncated", "written"}
  /\ pc = "off" <=> mem = None

\* SESSION_RESUME_EXACTLY_ONCE: in memory and on disk no operation is committed
\* twice and none waits to be committed again, whatever crashed and resumed.
ProcessesExactlyOnce ==
  \A s \in {disk, tmp, mem} : s \in Session /\ s.genuine => Once(s)

\* No process works on a session whose file was tampered with.
OnlyGenuineRuns == pc \in {"run", "truncated", "written"} => mem.genuine

\* A checkpoint the program wrote passes validate_checkpoint for the next
\* process until its token expires.
CheckpointsAreSigned == disk \in Session /\ disk.genuine => disk.signed

\* No crash or restart loses a checkpointed operation or progress: a checkpoint
\* is only ever replaced by one that holds everything it held.
CheckpointsOnlyGrow ==
  [][(disk \in Session /\ disk.genuine)
       => (disk' \in Session /\ ((disk').genuine => Keeps(disk, disk')))]_process_vars
=============================================================================

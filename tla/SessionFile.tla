----------------------------- MODULE SessionFile -----------------------------
(***************************************************************************)
(* The checkpoint of a session (resume.py, checkpoint and load_checkpoint) *)
(* and the clock that its token expires by, as the processes that resume   *)
(* from it and the ContinuityController both have them.                    *)
(***************************************************************************)
EXTENDS ServiceSession

CONSTANTS
  None,         \* no file
  Unreadable,   \* a file that is not JSON
  MaxNow,       \* bound on the clock
  MaxPosition   \* bound on logical_position

ASSUME NoneAssumption == None \notin Session /\ Unreadable \notin Session

VARIABLES
  disk,  \* the checkpoint file
  now

\* Something else changes the file.
AlterFile ==
  /\ disk \in Session
  /\ disk' \in Altered(disk, 0 .. MaxPosition)
  /\ UNCHANGED now

Tick ==
  /\ now < MaxNow
  /\ now' = now + 1
  /\ UNCHANGED disk
=============================================================================

----------------------------- MODULE ImagePair -----------------------------
(***************************************************************************)
(* What an A/B update scheme promises, without slots, counters or crashes: *)
(* a device runs one image and keeps at most one spare.  An update         *)
(* replaces the spare, never the running image; a boot or a rollback may   *)
(* only exchange the two.  ABUpdate and OtaStateMachine implement it.      *)
(***************************************************************************)
CONSTANTS Images, Initial, None

VARIABLES running, spare

\* A device with factory images: the initial one runs, the spare is any or none.
Factory(run, other) == run = Initial /\ other \in Images \cup {None}

Init == Factory(running, spare)

\* The spare is being overwritten, or is found damaged.
DropSpare == spare' = None /\ UNCHANGED running

InstallSpare == spare' \in Images /\ UNCHANGED running

\* The device comes up on the spare and keeps the old image as the new spare.
Exchange == spare # None /\ running' = spare /\ spare' = running

Reset == Factory(running', spare')

Next == DropSpare \/ InstallSpare \/ Exchange \/ Reset

Spec == Init /\ [][Next]_<<running, spare>>
=============================================================================

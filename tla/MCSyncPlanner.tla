---------------------------- MODULE MCSyncPlanner ----------------------------
(* Instance of SyncArrivals for TLC. *)
EXTENDS SyncArrivals

Item(id, class, size, priority, key) ==
  [id |-> id, class |-> class, size |-> size, priority |-> priority, key |-> key]

\* Two items share a key, two an id.
MCItems ==
  {Item(1, "EMERGENCY", 1, 100, "alarm"), Item(2, "COMMUNICATION", 2, 90, "mail"),
   Item(3, "LEARNING", 2, 70, "mail"), Item(4, "LEARNING", 2, 70, "lesson"),
   Item(4, "BACKGROUND", 1, 10, "photo")}

\* With one of the first kind at every opportunity there is never room for the second.
MCRecurring == {i \in MCItems : i.id = 1}

MCPlenty ==
  [allowed |-> TrafficClass, floor |-> 0, budget |-> 2,
   trusted |-> TRUE, metered |-> FALSE, low_battery |-> FALSE, local_peer |-> FALSE]

MCOpportunities ==
  {MCPlenty, [MCPlenty EXCEPT !.budget = 4], [MCPlenty EXCEPT !.budget = 1, !.metered = TRUE],
   [MCPlenty EXCEPT !.low_battery = TRUE], [MCPlenty EXCEPT !.local_peer = TRUE],
   [MCPlenty EXCEPT !.trusted = FALSE, !.floor = 80]}
=============================================================================

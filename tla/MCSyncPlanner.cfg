\* Endless arrivals, restarts, replayed opportunities, keys and ids that occur twice.
CONSTANTS
  Items <- MCItems
  Opportunities <- MCOpportunities
  Plenty <- MCPlenty
  Recurring <- MCRecurring
  None = None
SPECIFICATION ArrivingSpec
INVARIANTS
  TypeOK
  ExactlyOnce
  AppliedMeansSent
PROPERTIES
  NoInversion
  StarvedByArrivalsOnly

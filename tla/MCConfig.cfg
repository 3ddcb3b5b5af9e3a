SPECIFICATION FairSpec

CONSTANTS
  Admins = {a1, a2}
  Urls = {"empty", "elsewhere"}
  MaxSaves = 3
  MaxFaults = 1

INVARIANTS
  AppliedMeansPersisted

PROPERTIES
  OnlyNewerReplaces
  GivenIsApplied
  RescanIsDone

CHECK_DEADLOCK FALSE

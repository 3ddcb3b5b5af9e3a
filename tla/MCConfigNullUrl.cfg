SPECIFICATION FairSpec

CONSTANTS
  Admins = {a1}
  Urls = {"null", "empty"}
  MaxSaves = 1
  MaxFaults = 0

PROPERTIES
  ConfirmedIsApplied

CHECK_DEADLOCK FALSE

SPECIFICATION Spec
CONSTANTS
  s1 = s1
  s2 = s2
  s3 = s3
  Servers <- MCServers
  StartVersions = {0, 1, 2, 3, 5, 7}
  LegacyStatuses = {"active", "backlog", "in_review", "unknown"}
SYMMETRY MCSymmetry
INVARIANTS
  VersionSound
  ServingHasSchema
  RowsConverted
  AloneSucceeds
CHECK_DEADLOCK FALSE

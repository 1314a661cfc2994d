SPECIFICATION Spec
CONSTANTS
  MaxRevision = 4
  Limit <- MCLimit
CHECK_DEADLOCK FALSE
PROPERTIES
  DeletesWithinLimits
  DeletesOnlyApproved

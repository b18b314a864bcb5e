\* Two requests at a time on a list of three rows.
CONSTANTS
  Callers = {c1, c2}
  Rows <- RowIds
  Listed = 3
  Places = {0, 1, 2, 3, 9}
  MaxRequests = 2
  MaxFaults = 2
SPECIFICATION Spec
INVARIANTS AsAsked FailsOnlyWhenRaced
PROPERTIES OrderKept Answered
CHECK_DEADLOCK FALSE

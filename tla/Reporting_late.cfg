\* One process, one comment POST that times out and lands after the run was resumed.
SPECIFICATION Spec
CONSTANTS
  Workers = {w1}
  Sessions = {s1}
  Approvals = {p1}
  MaxFaults = 1
  Late = {"comment"}
  None = None
PROPERTY CommentOnce
CHECK_DEADLOCK FALSE

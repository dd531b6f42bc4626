\* One reporting process that fails, dies and resumes; two transition approvals.
SPECIFICATION Spec
CONSTANTS
  Workers = {w1}
  Sessions = {s1}
  Approvals = {p1, p2}
  MaxFaults = 2
  Late = {}
  None = None
INVARIANT OutcomeIsKnown
PROPERTIES
  CommentOnce
  ReportingCompletes
CHECK_DEADLOCK FALSE

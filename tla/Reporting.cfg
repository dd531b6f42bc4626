\* Two processes report the same run, and two approve_transition() calls race; both kinds of
\* POST may land late.
SPECIFICATION Spec
CONSTANTS
  Workers = {w1, w2}
  Sessions = {s1, s2}
  Approvals = {p1}
  MaxFaults = 2
  Late = {"comment", "move"}
  None = None
INVARIANTS
  TypeOK
  SuccessIsReported
  MovesAtMostOnce
CHECK_DEADLOCK FALSE

\* Two processes publish and resume the same run, and two approve() calls race.
\* GitHub refuses a second pull request for a branch; timed-out POSTs may land late.
SPECIFICATION Spec
CONSTANTS
  Workers = {w1, w2}
  Sessions = {s1, s2}
  Approvals = {p1}
  Titles = {t1, t2}
  MaxFaults = 2
  LateLanding = TRUE
  RejectsDuplicates = TRUE
  None = None
INVARIANTS
  TypeOK
  RemoteWorkIsApproved
  OutboxMatchesRun
CHECK_DEADLOCK FALSE

\* Two approve() calls for one approval, one publish() between the read and the write of the second.
SPECIFICATION Spec
CONSTANTS
  Workers = {w1}
  Sessions = {s1, s2}
  Approvals = {p1}
  Titles = {t1}
  MaxFaults = 0
  LateLanding = FALSE
  RejectsDuplicates = TRUE
  None = None
PROPERTY
  ConsumedStaysConsumed
CHECK_DEADLOCK FALSE

\* One worker and one approver: nothing but find_pr keeps a retry from opening a second
\* pull request, and an intent is carried to its end.
SPECIFICATION Spec
CONSTANTS
  Workers = {w1}
  Sessions = {s1}
  Approvals = {p1, p2}
  Titles = {t1, t2}
  MaxFaults = 3
  LateLanding = FALSE
  RejectsDuplicates = FALSE
  None = None
PROPERTIES
  PullRequestOnce
  IntentIsCompleted
CHECK_DEADLOCK FALSE

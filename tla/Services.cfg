\* Planning: two processes, two stories, one exception or death.  Export: two exporters,
\* three events.  Paging: four comments.  Window: five rounds, two of them mandatory.
\* Skills: one skill, two processes, two changes by others.
SPECIFICATION Spec
CONSTANTS
  Procs = {p, q}
  Stories = {s, t}
  Evidence = {e}
  MaxFaults = 1
  None = None
  MaxEvents = 3
  BatchSize = 2
  PageSize = 2
  MaxComments = 4
  Sizes = {1, 2, 4}
  Available = 5
  RetainGroups = 2
  MaxTurns = 6
  SkillIds = {k}
  Contents = {c, d}
  Signers = {own, other}
  Tools = {search}
  BuiltIn = {patch}
  MaxChanges = 2
INVARIANTS
  TypeOK
  StoryStaysBound
  NoEventIsLost
  NoCommentIsMissed
  RequestShowsNewestRounds
  SkillStaysPinned
PROPERTIES
  PlanningGetsThrough
\* When all events are exported or a session has ended there is nothing left to do.
CHECK_DEADLOCK FALSE

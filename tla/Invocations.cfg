\* Two processes, three sessions of one turn with two tool calls, one of them
\* an invocation; one recovery; a ledger of two items that remembers one update.
SPECIFICATION Spec
SYMMETRY Symmetry
CONSTANTS
  Procs = {p, q}
  Contents = {a, b}
  MaxItems = 2
  MaxHistory = 1
  MaxTurns = 1
  MaxTools = 2
  MaxInvocations = 1
  MaxSessions = 3
  MaxRecoveries = 1
  None = None
INVARIANTS
  TypeOK
  EffectsHappenOnce
  OneRunnerAtATime
  RecordsTellTheTruth
  SuccessIsInTheLedger
PROPERTIES
  ImplementsInvocationLife
\* A cancelled run whose sessions have ended has nothing left to do.
CHECK_DEADLOCK FALSE

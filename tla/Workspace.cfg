\* Two processes, two mutations, three exceptions or deaths anywhere.
SPECIFICATION Spec
CONSTANTS
  Procs = {p, q}
  Mutations = {m, n}
  MaxFaults = 3
  Profile = Profile
  None = None
INVARIANTS
  TypeOK
  TreeMatchesLog
  ReadsOneTree
PROPERTIES
  ImplementsVersionedTree
  CancelFreezesTheTree
  MutationsGetThrough

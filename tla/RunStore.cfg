SPECIFICATION Spec
CONSTANTS
  Clients = {c1, c2}
  MaxTransitions = 9
INVARIANTS
  TypeOK
  RecordsAgree
PROPERTIES
  LifecycleSpec
  CommitsAgainstTheVisitRead

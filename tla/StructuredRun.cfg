SPECIFICATION Spec
CONSTANTS
  Legs <- MCLegs
  Plans <- MCPlans
INVARIANTS
  TypeOK
  PermitsMatchLeases
  WorkIsNeverLost
  VerdictStands
  ScopesCloseInsideOut
  OutcomeMatchesControl
PROPERTIES
  ImplementsLifecycle
  ControlledRunEnds

SPECIFICATION Spec
CONSTANTS
  Given <- MixedTargets
  Scopes <- SomeScopes
  Answers <- SomeAnswers
INVARIANTS
  TypeOK
  ScopeRespected
  OrderKeptNothingLost
  EveryTargetResolved
  HintsFollowLookups

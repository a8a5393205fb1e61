SPECIFICATION Spec
CONSTANTS
  Given <- RepeatedTargets
  Scopes <- NoScope
  Answers <- FixedAnswers
INVARIANTS
  NoTargetTwice

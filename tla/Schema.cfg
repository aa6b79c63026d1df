SPECIFICATION Spec
INVARIANTS
  VerdictTells

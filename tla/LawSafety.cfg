SPECIFICATION Spec
INVARIANTS
  BitExactLawsHold
  RealOnlyLawsFail

SPECIFICATION Spec
CONSTANTS
  Examples <- MCExamples
  VerifiableThreshold = 25
  EnterpriseThreshold = 50
INVARIANTS EnterpriseFallFails

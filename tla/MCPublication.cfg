SPECIFICATION PubSpec
CONSTANTS
  Examples <- MCExamples
  VerifiableThreshold = 25
  EnterpriseThreshold = 50
  MaxPieces = 6
INVARIANT GateSound
PROPERTY PublishedIsMeasured

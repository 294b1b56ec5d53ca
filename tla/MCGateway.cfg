SPECIFICATION FairSpec
CONSTANTS
    r1 = r1
    r2 = r2
    Requests <- MCRequests
    MaxConcurrent = 1
    Jobs <- MCJobs
    GuardrailConfigured = TRUE
    VerifierConfigured = TRUE
INVARIANTS
    SlotAccounting
    ClearedBeforeInference
    AuditPaired
    OutcomeMatchesResponse
    IncorrectNeverServed
    ClimbBounded
PROPERTIES
    Answered
    AdmissionSpec

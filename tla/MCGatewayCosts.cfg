SPECIFICATION Spec
CONSTANTS
    r1 = r1
    r2 = r2
    Requests <- MCRequests
    MaxConcurrent = 1
    Jobs <- MCJobsWithPolicy
    GuardrailConfigured = TRUE
    VerifierConfigured = TRUE
INVARIANT RetryCostsAttributed

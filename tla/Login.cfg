SPECIFICATION Spec
CONSTANTS
    Workers = {w1, w2}
    Nobody = Nobody
    NoRow = NoRow
    MfaEnabled = TRUE
    MaxAttempts = 2
    Resend = 1
    Expiry = 2
    MfaTtl = 2
    MaxTime = 2
    MaxCodes = 2
SYMMETRY Interchangeable
INVARIANTS LocksAfterFailedAttempts AdmitsOnce AdministratorsPassedMfa

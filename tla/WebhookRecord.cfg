\* Three copies of the payload at work at once, and four attempts at it.
SPECIFICATION WebhookSpec
CONSTANTS
    Workers = {w1, w2, w3}
    MaxAttempts = 4
SYMMETRY Interchangeable
INVARIANTS
    OneDispatcher
PROPERTY ProcessedIsFinal
\* The provider gives up after its last retry.
CHECK_DEADLOCK FALSE

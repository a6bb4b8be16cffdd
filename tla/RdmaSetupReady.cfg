SPECIFICATION Spec
CONSTANTS
    MaxCandidates = 2
    Rates = {2, 4}
    ReadyTimeouts = TRUE
INVARIANT ActivationAgrees
CHECK_DEADLOCK FALSE

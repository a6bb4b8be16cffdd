SPECIFICATION Spec
CONSTANTS
    MaxCandidates = 2
    Rates = {2, 4}
    ReadyTimeouts = FALSE
INVARIANT BatchStaysOnSSH
CHECK_DEADLOCK FALSE

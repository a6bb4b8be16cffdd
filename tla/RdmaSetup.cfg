SPECIFICATION FairSpec
CONSTANTS
    MaxCandidates = 2
    Rates = {2, 4}
    ReadyTimeouts = FALSE
INVARIANTS TypeOK ActivationAgrees RailsAgree CleanFallback RequiredHonoured
PROPERTY SetupEnds
CHECK_DEADLOCK FALSE

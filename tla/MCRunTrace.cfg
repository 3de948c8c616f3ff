CONSTANTS
    Traces <- MCTraces
    QLen = 3
    MaxEarly = 1
    MaxInterrupt = 1
    Signals = {sigint, sigtstp}
    Handlers = {sigint_handler, sigtstp_handler}
    Careless = {sigtstp_handler}
    MaxCalls = 3
    MaxSignals = 3
    Inputs <- MCInputs
    MAXLINE_TSH = 9
    MAXARGS = 3
SPECIFICATION MCSpec
CHECK_DEADLOCK FALSE
INVARIANTS TraceCompletes NextMeansIdle SyncPaired WrapperUnnoticed ParsedAsTyped
PROPERTIES ForwardedToChild RunEndsClean

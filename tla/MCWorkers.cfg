SPECIFICATION WorkersFairSpec
INVARIANT StoppedIsQuiet
PROPERTY StopReturns
CHECK_DEADLOCK FALSE

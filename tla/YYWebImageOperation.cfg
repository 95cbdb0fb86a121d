\* Two operations that are started without a queue, so that they may be deallocated.
CONSTANTS
    Op = {o1, o2}
    Options = {{"ShowNetworkActivity", "IgnoreFailedURL"},
               {"ShowNetworkActivity", "AllowBackgroundTask", "IgnoreDiskCache"},
               {"UseNSURLCache", "AllowBackgroundTask"}}
    Queued = FALSE
SPECIFICATION FairSpec
INVARIANTS TypeOK CompletesOnce FinishedAfterStart TaskIsOwned NeverUndercounts
    IndicatorFollowsCount
PROPERTIES OnlyCancelledAfterCancel EveryRequestEnds
\* All operations end.
CHECK_DEADLOCK FALSE

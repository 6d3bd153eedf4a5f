SPECIFICATION FairSpec
CONSTANTS
    Contexts = {c1, c2}
    Client = client
    Subscriptions = {stop}
    StreamSub = stop
    MaxCalls = 2
INVARIANTS FinishIsLast AnsweredOnce CancelReachesSubtree QueueOutlivesStream
PROPERTIES CallSpec StopShutsDown
CHECK_DEADLOCK FALSE

SPECIFICATION FairSpec
CONSTANTS
    p1 = p1  h1 = h1  h2 = h2  m1 = m1  m2 = m2  k1 = k1  s1 = s1
    Publishers <- OnePublisher
    Handlers <- TwoHandlers
    Middlewares <- TwoMiddlewares
    Keys <- OneKey
    All = All
    Sources <- OneSource
    NoSource = NoSource
    HandlerTimeout = TRUE
    MaxSubs = 2
    MaxChain = 2
    MaxChanges = 1
    MaxOverlap = 1
INVARIANTS
    DeliveredOnce
PROPERTIES
    ReachesSubscribers
    InOrder
    PublishReturns

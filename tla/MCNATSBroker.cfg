SPECIFICATION FairSpec
CONSTANTS
    Topics <- MCTopics
    Rules <- MCRules
    RuleTopic <- MCRuleTopic
    RuleList <- ThreeRules
    Main = main
    Library = library
    Waiter = waiter
    MaxDrops = 2
INVARIANTS
    TypeOK
    SubscriptionsRestored
    RecordedIsLive
    IsConnectedTruthful
PROPERTIES
    CloseReturns
    RecoversEventually

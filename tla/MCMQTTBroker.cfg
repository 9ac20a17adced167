SPECIFICATION FairSpec
CONSTANTS
    Topics <- MCTopics
    Rules <- MCRules
    RuleTopic <- MCRuleTopic
    Handlers = {h1, h2}
    Main = main
    RuleList <- TwoRules
    MaxDrops = 2
    MaxRefusals = 1
INVARIANTS
    TypeOK
    SubscriptionsRecovered
    LoneLoadRestores
PROPERTIES
    RecoversEventually
    RefusalHasCause

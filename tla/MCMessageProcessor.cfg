SPECIFICATION FairSpec
CONSTANTS
    Topics <- MCTopics
    Rules <- MCRules
    RuleTopic <- MCRuleTopic
    Fields <- MCFields
    Scalars <- MCScalars
    Payloads <- AllPayloads
    Malformed = Malformed
    Null = Null
    FiresOn <- MCFiresOn
    Produces <- MCProduces
    Actions <- MCActions
    Callers = {p1, p2}
    Loaders = {l1}
    Objects = {m1, m2}
    NoObject = NoObject
    RuleLists <- TwoLists
    MaxCalls = 2
INVARIANTS
    TypeOK
    ExclusiveOwnership
    PoolIsClean
    PoolBalance
    RepliesAreVerdicts
    OneRuleSet
    LoadsComplete
PROPERTIES
    ImplementsAtomic
    CallsReturn
CHECK_DEADLOCK FALSE

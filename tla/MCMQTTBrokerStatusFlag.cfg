SPECIFICATION Spec
CONSTANTS
    Topics <- MCTopics
    Rules <- MCRules
    RuleTopic <- MCRuleTopic
    Handlers = {h1, h2}
    Main = main
    RuleList <- OneRule
    MaxDrops = 1
    MaxRefusals = 0
INVARIANTS
    StatusFlagTruthful

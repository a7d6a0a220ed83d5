SPECIFICATION Spec
CONSTANTS
    g1 = g1
    g2 = g2
    NoTask = NoTask
    Groups <- MCGroups
    NumMessages = 2
    Settings <- UnorderedSmartRandom
    MaxTime = 2
PROPERTIES
    DocumentedCooldown

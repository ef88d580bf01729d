\* Every line of up to four elements, for preferences of up to two aliases, and every text of up to six items.
SPECIFICATION Spec
CONSTANTS
    Texts <- MCTexts
    MaxRead = 1
CHECK_DEADLOCK FALSE
INVARIANTS NothingIsMisread RefusesOnlyMalformed PlansAreRunnable FlowsAlongTheLine ExpandsByFirstAlias

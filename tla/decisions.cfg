SPECIFICATION Spec
CONSTANTS
    Headlines <- FewHeadlines
    Markets <- FewMarkets
    Pool <- FewContracts
    Accounts <- FewAccounts
    Counts = {0, 7, 8}
    SomeStructures <- FewStructures
    Prices = {0, 1, 2, 3, 4, 5, 6, 7, 8, 9, 10, 11, 12, 13, 14, 15, 16, 17, 18, 19, 20, 21, 22, 23, 24, 25, 26}
    SomeFeatures <- FewFeatures
    SomeContracts <- QuotedContracts
    SomeObservations <- FewObservations
    SomeVolatilities <- FewVolatilities
    SomeProtections <- FewProtections
    SomeCurves <- FewCurves
    SomeEvents <- FewEvents
    SomeWindows <- FewWindows
INVARIANTS
    TypeOK
    ApprovedIsBounded
    PayoffBounds
    MirrorImage
    BetterQuoteStaysEligible
    WorseningNeverRelaxes
    DrawdownMatches
    NoLookAhead
CHECK_DEADLOCK FALSE

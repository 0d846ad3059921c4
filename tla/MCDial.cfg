\* Dial in three configurations (see MCDial.tla); a completed dial stops.
SPECIFICATION Spec
CHECK_DEADLOCK FALSE
INVARIANT TypeOK
INVARIANT TableMatchesResult
INVARIANT ClientConnHasServerPeer
INVARIANT CookieWithinRenewalInterval
PROPERTY DialReturns
PROPERTY OnlyReturnedConnSurvives

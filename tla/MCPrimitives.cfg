\* A behaviour exercises one component, and the codecs stop after one call.
SPECIFICATION Spec
CHECK_DEADLOCK FALSE
INVARIANT TypeOK
INVARIANT GuessRecoversWindow
INVARIANT GuessInRange
INVARIANT AckRoundTrip
INVARIANT DecodedAckWellFormed
INVARIANT VarintRoundTrip
INVARIANT FrameRoundTrip
INVARIANT HandshakeAgrees
INVARIANT ResponderAuthenticated
INVARIANT InitiatorAuthenticated
INVARIANT SmoothedKeepsSample
INVARIANT LatestNotBelowMin
INVARIANT SmoothedWithinMeasured
PROPERTY ClearRunCorrect
PROPERTY ByteStreamRefined

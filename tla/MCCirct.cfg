CONSTANT Conversions <- MCConversions
SPECIFICATION CirctSpec
INVARIANTS TypeOK WalkDecidesLoops VerdictJustified FollowsDesign ReadyForAiger
PROPERTY Terminates

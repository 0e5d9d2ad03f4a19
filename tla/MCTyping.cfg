SPECIFICATION Spec
CONSTANT Alphabets <- MCAlphabets
INVARIANT DrawsTheLine
INVARIANT NothingLeftOut
INVARIANT QuotingIsExact
PROPERTY TokensSettle
CHECK_DEADLOCK FALSE

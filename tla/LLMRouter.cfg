SPECIFICATION FairSpec
CONSTANTS
  Calls = {c1, c2}
  Providers = {groq, mock}
  Mock = mock
  Fallback = mock
  End = End
  Broken = Broken
  MaxParts = 2
  MaxChanges = 1
INVARIANT AnswerIsRight
PROPERTY CallsEnd
CHECK_DEADLOCK FALSE

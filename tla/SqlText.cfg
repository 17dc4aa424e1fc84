SPECIFICATION Spec
CONSTANTS
  Jobs <- MCJobs
  Alphabets <- MCAlphabets
  MaxText = 20
INVARIANTS KeyKeepsTokens HintsObeyed FormKeepsTokens
PROPERTIES ScanEnds
CHECK_DEADLOCK FALSE

SPECIFICATION FairSpec
CONSTANTS
  None = None
  Exact = 100
  AcceptScore = 96
  ReviewScore = 68
  MinimumMargin = 15
  Titles = {t1, t2}
  Searches = {t1, t2}
  Key <- OneSpelling
  Wordless = {}
  Overlong = {}
  Responses <- SomeResponses
  Answers <- SomeAnswers
  MaxCandidates = 3
  MaxLabels = 2
  Locales = {en}
  MaxConcurrency = 2
  Callers = {1, 2}
  Interval = 1
  Backoff = 1
  RetryAfters = {5}
  MaxRetryAfter = 1
  MaxAttempts = 2
  MaxAhead = 1
INVARIANTS TypeOK SlotsApart FailureExplained CachedNotAsked AcceptedBefore
PROPERTY PoolEnds

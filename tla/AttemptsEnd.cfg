SPECIFICATION FairSpec
CONSTANTS
  Retry = 2
  Contracts <- TextMarkdownAndJson
  Answers <- GoodAndBad
  MaxCancels = 2
INVARIANTS
  NoAgentLeft
  VerdictIsJust
PROPERTIES
  FeedbackFollowsAnswers
  VisitEnds
CHECK_DEADLOCK FALSE

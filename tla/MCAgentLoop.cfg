SPECIFICATION Spec
CONSTANTS
  Cases <- MCCases
  MaxChoices = 2
  MaxQueries = 2
  MaxEvents = 3
INVARIANTS AnswersMatchReplies NothingLost
PROPERTY QueriesEnd
CHECK_DEADLOCK FALSE

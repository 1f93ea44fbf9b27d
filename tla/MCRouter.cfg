CONSTANTS
  Unit <- MCUnit
  Name <- MCName
  Word <- MCWord
  Sender <- MCSender
  TopicName <- MCTopicName
  Ids <- MCIds
  MaxParam = 2
  MaxUser = 2
  MaxServer = 2
  MaxCmd = 3
  MaxPush = 2
  MaxAll = 5
  NULL = NULL
SPECIFICATION FairSpec
CHECK_DEADLOCK FALSE
INVARIANT CommandsKept
INVARIANT AnswerNames
PROPERTY UserIsLive
INVARIANT FindRight
 

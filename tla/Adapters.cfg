CONSTANTS
  hello = hello
  bye = bye
  Texts = {hello, bye}
  Words <- WordCounts
  Limits = {0, 5}
  UsageCounts = {0, 1, 2}
  MaxMessages = 3
  MaxParts = 2
  MaxInputs = 3
  NULL = NULL
SPECIFICATION Spec
INVARIANTS
  TypeOK
  ConversationReachesUpstream
  AnswerIsReply
  EmbeddingsMatchInputs
CHECK_DEADLOCK FALSE

CONSTANTS
  None = None
  Torn = Torn
  l1 = l1
  l2 = l2
  t1 = t1
  t2 = t2
  Threads = {t1, t2}
  Lines = {l1, l2}
  Answers <- MCAnswers
  Puts <- MCPuts
  Summaries <- MCSummaries
  Replies <- MCReplies
  MaxAttempts = 2
  MaxTurns = 2
  MaxVersions = 2
  MaxWrites = 1
  MaxCrashes = 1
SPECIFICATION Spec
SYMMETRY Symmetric
INVARIANTS
  ReviewedIsComplete
  CandidateIsFresh
  TornOnlyByRace
  NoInventedLines
PROPERTIES
  ConversationGrows
CHECK_DEADLOCK FALSE

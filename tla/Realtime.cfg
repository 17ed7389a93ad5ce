SPECIFICATION FairSpec
CONSTANTS
  player = player
  list = list
  NoTopic = NoTopic
  NoSession = NoSession
  Topics <- MCTopics
  Rank <- MCRank
  Lists <- MCLists
  Acked <- MCLists
  Silent <- MCSilent
  Notices <- MCNotices
  Writers = {w1}
  Sessions = {s1}
  MaxChanges = 2
  MaxRequests = 1
  MaxFaults = 1
INVARIANTS TypeOK StaleForAReason
CHECK_DEADLOCK FALSE
PROPERTIES Converges ImplementsTopicFeed

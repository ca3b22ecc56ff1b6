CONSTANTS
  x = x
  y = y
  r = r
  Threads <- MCThreads
  Lists = {"recv"}
  Stacks = {"recv", "send"}
  Rounds <- MCRounds
  Programs <- MCPrograms
  MaxTimed = 1
  Cap = 2
  MaxSpins = 1
SPECIFICATION FairSpec
INVARIANTS TypeOK NoLostWakeup PublishedStays
PROPERTIES IsFeed DeliversItsMessage LagIsExact ReceiversReturn

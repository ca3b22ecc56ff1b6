CONSTANTS
  x = x
  y = y
  r = r
  Threads <- MCThreads
  Lists = {"recv"}
  Stacks = {"recv", "send"}
  Rounds <- MCRounds
  Programs <- MCPrograms
  MaxTimed = 1
SPECIFICATION FairSpec
INVARIANTS TypeOK NewsComesWithValue NoLostWakeup
PROPERTIES OkMeansChange WaitersReturn

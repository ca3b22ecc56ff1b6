CONSTANTS
  x = x
  r = r
  s = s
  Threads <- MCThreads
  Lists = {"recv"}
  Stacks = {"recv", "send"}
  Rounds <- MCRounds
  Programs <- MCPrograms
  MaxTimed = 1
SPECIFICATION FairSpec
INVARIANTS TypeOK NoFalseDisconnect NoLostWakeup
PROPERTIES KeepsPromise ReceiversReturn

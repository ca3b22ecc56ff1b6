CONSTANTS
  x = x
  y = y
  r = r
  Threads <- MCThreads
  Lists = {"recv"}
  Stacks = {"recv", "send"}
  Rounds <- MCRounds
  Programs <- MCPrograms
  MaxTimed = 1
SPECIFICATION Spec
INVARIANT DeliveredOrGivenBack

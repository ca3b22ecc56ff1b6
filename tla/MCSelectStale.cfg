CONSTANTS
  a = a
  b = b
  s = s
  p = p
  NoChan = NoChan
  Threads <- MCThreads
  Uses <- MCUses
  Chans <- MCChans
  Lists <- MCChans
  Stacks <- MCStacks
  Rounds <- MCRounds
  Handles <- MCHandles
  Offspring <- MCOffspring
  Flavourings <- MCFlavours
  Arms <- MCArms
  Stock <- MCStock
  MaxItems <- MCMaxItems
  MaxTaken <- MCMaxTaken
  Cap = 2
  MaxSpurious = 0
  MaxTimed = 1
SPECIFICATION SelectingSpec
INVARIANTS SoleReceiverCompletes

CONSTANTS
  a = a
  s1 = s1
  s2 = s2
  p = p
  NoChan = NoChan
  Threads <- MCThreads
  Uses <- MCUses
  Chans <- MCChans
  Lists <- MCChans
  Stacks <- MCStacks
  Rounds <- MCRounds
  Handles <- MCHandles
  Offspring <- MCOffspring
  Flavourings <- MCFlavours
  Arms <- MCArms
  Stock <- MCStock
  MaxItems <- MCMaxItems
  MaxTaken <- MCStock
  Cap = 2
  MaxSpurious = 0
  MaxTimed = 0
SPECIFICATION SelectingSpec
INVARIANTS DisconnectWakes

CONSTANTS
  ch = ch
  s1 = s1
  s2 = s2
  r1 = r1
  r2 = r2
  NoChan = NoChan
  Threads <- MCThreads
  Uses <- MCUses
  Chans <- MCChans
  Lists <- MCChans
  Stacks <- MCStacks
  Rounds <- MCRounds
  Handles <- MCHandles
  Offspring <- MCOffspring
  Flavourings <- MpmcFlavours
  Stock <- MCStock
  MaxItems <- MCMaxItems
  MaxTaken <- MCMaxTaken
  Cap = 2
  MaxSpurious = 0
SPECIFICATION Spec
INVARIANTS NobodySleepsBesideAnItem

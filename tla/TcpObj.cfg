CONSTANTS
  IoThreads = {a, b}
  Main = main
  Free = free
  MaxEvents = 3
SPECIFICATION FairSpec
INVARIANT QueueInv
PROPERTIES ImplementsQueue EventsRun

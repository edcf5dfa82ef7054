SPECIFICATION FairSweepSpec
CONSTANTS
  a = a
  b = b
  c = c
  Main = Main
  Callers = {Main}
  Tasks <- MCTasks
  NoTask = NoTask
  worker_count = 2
  MaxHosts = 3
  HostLists <- MCHostLists
INVARIANT QuietWhenOver
PROPERTIES ImplementsStages DiscoveryEnds

SPECIFICATION FairSpec
CONSTANTS
  Hosts = {"h1", "h2"}
  Tables <- MCTables
  Packets <- MCPackets
  if_index = 1
  listen_window = 5
  kCapturePollSlice = 2
INVARIANTS OneObservationPerStation ResolvedAtTheEnd ListensInWindow RefusalReported
PROPERTIES ObservationsOnlyGrow DiscoveryEnds

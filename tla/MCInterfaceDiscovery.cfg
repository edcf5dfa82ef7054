SPECIFICATION LinkSpec
CONSTANTS
  Width = 8
  min_prefix = 4
  Histories <- MCHistories
  MarkedNames <- MCMarkedNames
  Hints = {"", "Ethernet"}
  InitialSize = 3
INVARIANTS SelectsTheLink GivesUpOnlyWhileGrowing OnlyTheLinkIsSwept EveryHostOnce
PROPERTY SelectionEnds

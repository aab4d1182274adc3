\* Safety and termination of the graph engine over every small graph.
CONSTANTS
  NoEdge = NoEdge
  Graphs <- AllGraphs
SPECIFICATION FairSpec
INVARIANTS
  OnlyRoutedNodesRun
  NoNodeOutlivesTheResult
  CompletedLeavesNothingBehind
PROPERTIES
  SettledForGood
  NothingStartsAfterStop
  SourcesComeFirst
  WorkflowCloses
CHECK_DEADLOCK FALSE

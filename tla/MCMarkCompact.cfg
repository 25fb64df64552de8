SPECIFICATION CollectSpec
CONSTANTS
  Tags <- MCTags
  ObjectSize <- MCObjectSize
  RefSlots <- MCRefSlots
  Stacks <- MCStacks
  Trackers <- MCTrackers
  FrameCells <- MCFrameCells
  RootCells <- MCRootCells
  StacksHead <- MCStacksHead
  TrackersHead <- MCTrackersHead
  InitialHeaps <- MCInitialHeaps
INVARIANTS
  CollectionSound
  GraphPreserved
  Compacted
  TrackersWeak

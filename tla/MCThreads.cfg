SPECIFICATION SpecAny
CONSTANTS
  Flit = {f1, f2}
  NoFlit = NoFlit
  Size = 3
  MaxBatch = 3
INVARIANTS GuardsHold LoadedIntact ObservedOccupancyIsReal ThreadsInStep EpochEndsInOrder
PROPERTIES FifoSpec

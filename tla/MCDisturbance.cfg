SPECIFICATION Spec
CONSTANTS
  b1 = b1
  r1 = r1
  Banks = {b1}
  Ranks = {r1}
  RankOf <- MCRankOf
  RowCount = 3
  Span = 2
  Anchor <- MCAnchor
  CellSeq <- MCCellSeq
  blast <- MCBlast
  Target <- MCTarget
  KnownHc <- MCKnownHc
  SampledHc <- MCSampledHc
  Gain <- MCGain
  MAX_FLIPPED_BITS_PER_ROW = 2
  Dwells = {0, 2}
  tRH <- MCtRH
  Window = 2
  Chunks <- MCChunks
  Engines <- MCEngines
  Data = {"all_ones", "mixed"}
  Requested <- MCRequested
  Written <- MCWritten
  MaxExposure = 3
INVARIANTS
  TypeOK
  OverlayConsistent
  OracleProtects
PROPERTIES
  FlipsPersist
  Refires

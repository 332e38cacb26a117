CONSTANTS
  Absent = Absent
  BitXor <- MCBitXor
  Configs <- MCConfigs
  Infos <- MCInfos
  BAND_CANDIDATES <- MCBands
  SecretOffsets = {0, 1, 3, 7}
  FAR_ROW_MARGIN = 4
  RESERVED_KNOWN_ROW = 2
  SAMPLED_MARGIN = 5
SPECIFICATION Spec
INVARIANTS TypeOK WindowIsTrue AddressesRoundTrip SecretStaysHidden

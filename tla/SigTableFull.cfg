SPECIFICATION TableSpec
CONSTANTS
  Signatures = {2, 5, 6, 9, 13}
  SigSlots = 4
  GenLimit = 4
  MaxNames = 5
PROPERTY NotingEnds

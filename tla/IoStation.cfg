SPECIFICATION StationSpec
CONSTANTS
  ByteBits = 2
  EsiCatalog <- MCEsiCatalog
  Variants <- MCVariants
  FixedSizes = {4, 8}
  Declarations <- MCDeclarations
  Stations <- MCStations
  Payloads <- MCPayloads
  AnalogValues <- MCAnalogValues
  MaxWrites = 1
  MaxInputs = 2
  MaxStationLosses = 1
INVARIANTS
  ImagesAgree
  StationMatches
PROPERTIES
  AnswerIsExact
CHECK_DEADLOCK FALSE

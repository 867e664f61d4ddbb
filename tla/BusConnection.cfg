SPECIFICATION Spec
CONSTANTS
  Slaves <- TwoSlaves
  Products = {"as", "st", "old"}
  Objects = {"word", "position", "limit"}
  Configured <- MCConfigured
  Catalog <- MCCatalog
  Required <- MCRequired
  Mapping <- MCMapping
  OtherMapping <- MCOther
  Modes = {"csp", "pv"}
  DefaultMode = "csp"
  StableCycles = 2
  MaxLosses = 1
INVARIANTS
  OperationalIsConfigured
  NoOldCommand
  AttemptIsSound
PROPERTIES
  AttemptEnds

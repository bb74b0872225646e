SPECIFICATION Spec
CONSTANTS
  seed1 = seed1
  seed2 = seed2
  simulate = simulate
  qa = qa
  Scripts <- MCScripts
  Casts <- MCCasts
  Kind <- MCKind
  SeedTopology <- MCSeedTopology
  SeedShift = "T1"
  SeedRows <- MCSeedRows
  SimTopology <- MCSimTopology
  Catalog <- MCCatalog
  CatalogSorted <- MCCatalogSorted
  SmokeDrafts <- MCSmokeDrafts
  AllDrafts <- MCAllDrafts
  Start <- MCStart
  MaxTroubles = 1
INVARIANTS
  NoDuplicates
  PassMeansStored
PROPERTIES
  BootstrapsConverge
CHECK_DEADLOCK FALSE

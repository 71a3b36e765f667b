SPECIFICATION FairSpec
CONSTANTS
  Paths <- TwoPaths
  MaxArchives = 3
  MaxVersion = 6
  MaxCommands = 2
  Settings <- All
INVARIANTS StoreSound LossWindow PreservedMeansPreserved ReportsTrue
PROPERTIES BothSidesEnd

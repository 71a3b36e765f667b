SPECIFICATION Spec
CONSTANTS
  Paths <- TwoPaths
  MaxArchives = 3
  MaxVersion = 6
  MaxCommands = 2
  Settings <- LocalLoser
INVARIANT NothingDiscarded

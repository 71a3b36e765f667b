SPECIFICATION FairSpec
CONSTANTS
  Settings <- AllSettings
  MaxTyped = 3
  MaxSaves = 1
  MaxArtifacts = 1
  MaxFailures = 1
CHECK_DEADLOCK FALSE
INVARIANTS InputAccounted PromptDiscipline BarriersHold
PROPERTIES OutputFlows

SPECIFICATION Spec
CONSTANTS
  Settings <- MoshOnly
  MaxTyped = 2
  MaxSaves = 1
  MaxArtifacts = 0
  MaxFailures = 0
CHECK_DEADLOCK FALSE
INVARIANTS PromptCommandsObserveSaves

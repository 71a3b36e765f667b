SPECIFICATION FairSpec
CONSTANTS
  MaxAttempts = 3
  MaxWire = 1
  Extra = {"jq"}
  Settings <- All
INVARIANTS UndisturbedSucceeds SuccessIsReal CompletedIsTrue HostSound
PROPERTIES AttemptsReturn

SPECIFICATION StreamsSpec
CONSTANTS
  MaxStream <- StreamBounds
  MaxChunk = 4
CHECK_DEADLOCK FALSE
INVARIANTS StreamsAgree

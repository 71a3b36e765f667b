----------------------------- MODULE MCAlgorithms -----------------------------
EXTENDS TerminalStreams
StreamBounds == [m \in Machines |-> CASE m \in {"markers", "notice"} -> 6 [] m = "paste" -> 7 [] OTHER -> 4]
=============================================================================

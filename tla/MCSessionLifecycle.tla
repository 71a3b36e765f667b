--------------------------- MODULE MCSessionLifecycle ---------------------------
EXTENDS SessionLifecycle, TLC
CONSTANTS s1, s2, a1, a2, a3, h1, h2, e1, e2
OneHost == [p \in Procs |-> h1]
TwoHosts == [p \in Procs |-> IF p = s2 THEN h2 ELSE h1]
OneEndpoint == [a \in Admins |-> e1]
NewEndpoint == [a \in Admins |-> IF a = a1 THEN e1 ELSE e2]
SameIgnores == [s \in Sessions |-> 1]
OwnIgnores == [s \in Sessions |-> IF s = s1 THEN 1 ELSE 2]
Stop == [a \in Admins |-> "stop"]
Clean == [a \in Admins |-> "clean"]
CleanStop == [a \in Admins |-> IF a = a1 THEN "clean" ELSE "stop"]
CleanRemove == [a \in Admins |-> IF a = a1 THEN "clean" ELSE "remove"]
HostCommands == [a \in Admins |-> IF a = a1 THEN "removeForce" ELSE IF a = a2 THEN "add" ELSE "sync"]
=============================================================================

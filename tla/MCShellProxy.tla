----------------------------- MODULE MCShellProxy -----------------------------
EXTENDS ShellProxy
Auto == [wanted |-> "auto", scope |-> "host", bridge |-> FALSE, client |-> FALSE, server |-> FALSE,
         typed |-> 3, saves |-> 1, artifacts |-> 0, failures |-> 0]
Blocked == [Auto EXCEPT !.saves = 0, !.failures = 1]
SSH == [Auto EXCEPT !.wanted = "ssh", !.scope = "remote", !.typed = 2, !.artifacts = 1, !.failures = 1]
Mosh == [wanted |-> "mosh", scope |-> "host", bridge |-> TRUE, client |-> TRUE, server |-> TRUE,
         typed |-> 2, saves |-> 1, artifacts |-> 1, failures |-> 1]
NoServer == [Mosh EXCEPT !.server = FALSE]
AllSettings == {Auto, Blocked, SSH, Mosh, NoServer}
MoshOnly == {[Mosh EXCEPT !.artifacts = 0, !.failures = 0]}
LongInput == {[Auto EXCEPT !.typed = 4]}
=============================================================================

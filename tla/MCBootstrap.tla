------------------------------ MODULE MCBootstrap ------------------------------
EXTENDS Bootstrap

\* Hosts: a bare one, one an old client prepared, one that was prepared fully.
Bare == [tools |-> {}, python |-> FALSE, pip |-> FALSE, version |-> "none", wrapper |-> FALSE,
         checked |-> FALSE, dest |-> "none", current |-> "none", daemon |-> FALSE, group |-> FALSE,
         dpkg |-> "whole"]
Old == [Bare EXCEPT !.tools = {"cc", "python3", "python3-venv"}, !.python = TRUE, !.pip = TRUE,
                    !.version = "old", !.dest = "broken", !.dpkg = "interrupted"]
Ready == [Old EXCEPT !.version = "pinned", !.checked = TRUE, !.dpkg = "whole"]

Base == [manager |-> "apt", root |-> FALSE, sudo |-> TRUE, service |-> "systemd", immutable |-> FALSE,
         musl |-> FALSE, fit |-> TRUE, start |-> Bare, wants |-> {}, system |-> {}, pip |-> FALSE,
         noSudo |-> FALSE, accept |-> FALSE, modes |-> {"yes"}, attempts |-> 2, limit |-> 1]

\* Hosts that bootstrap prepares; with two faults and a third attempt where
\* resuming is hard.
Prepared ==
  {[Base EXCEPT !.start = [Bare EXCEPT !.tools = {"cc"}], !.modes = {"wizard"}],
   [Base EXCEPT !.start = Old, !.modes = {"wizard"}, !.limit = 2],
   [Base EXCEPT !.start = Old, !.wants = {"pwndbg"}, !.pip = TRUE],
   [Base EXCEPT !.start = Ready, !.wants = {"docker"}, !.modes = {"wizard"}],
   [Base EXCEPT !.start = Ready, !.wants = {"docker"}, !.accept = TRUE, !.service = "openrc"],
   [Base EXCEPT !.manager = "dnf", !.root = TRUE, !.start = [Ready EXCEPT !.dpkg = "whole"],
                !.wants = {"docker", "patching"}],
   [Base EXCEPT !.manager = "zypper", !.system = {"jq"}],
   [Base EXCEPT !.manager = "nix", !.noSudo = TRUE, !.sudo = FALSE]}
\* Hosts on which it must stop, or fail honestly.
Refused ==
  {[Base EXCEPT !.fit = FALSE, !.modes = {"preview", "wizard"}],
   [Base EXCEPT !.musl = TRUE, !.start = Old, !.wants = {"pwndbg"}],
   [Base EXCEPT !.immutable = TRUE, !.modes = {"wizard"}],
   [Base EXCEPT !.manager = "unknown", !.system = {"jq"}],
   [Base EXCEPT !.noSudo = TRUE, !.start = Ready, !.wants = {"patching", "docker"}],
   [Base EXCEPT !.noSudo = TRUE, !.start = Old, !.wants = {"pwndbg"}, !.attempts = 3, !.limit = 2],
   [Base EXCEPT !.sudo = FALSE],
   [Base EXCEPT !.start = Ready, !.wants = {"docker"}],
   [Base EXCEPT !.start = Ready, !.wants = {"docker"}, !.accept = TRUE, !.service = "runit"],
   [Base EXCEPT !.manager = "yum", !.start = Ready, !.wants = {"patching"}],
   [Base EXCEPT !.start = [Bare EXCEPT !.tools = {"cc", "python3"}]],
   [Base EXCEPT !.manager = "nix", !.noSudo = TRUE, !.start = Ready, !.wants = {"docker"}, !.accept = TRUE]}
All == Prepared \cup Refused

\* The hosts of the refuted statements.
Debian == {[Base EXCEPT !.start = [Bare EXCEPT !.tools = {"cc", "python3"}]]}
RootDocker == {[Base EXCEPT !.manager = "dnf", !.root = TRUE, !.start = Ready, !.wants = {"docker"}]}
OldWizard == {[Base EXCEPT !.start = Old, !.wants = {"pwndbg"}, !.modes = {"wizard"}, !.limit = 2]}
BrokenVenv ==
  {[Base EXCEPT !.start = [Old EXCEPT !.current = "old", !.wrapper = TRUE, !.pip = FALSE], !.wants = {"pwndbg"}]}
NixDocker ==
  {[Base EXCEPT !.manager = "nix", !.noSudo = TRUE, !.start = Ready, !.wants = {"docker"}, !.accept = TRUE]}
=============================================================================

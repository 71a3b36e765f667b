----------------------------- MODULE BootstrapPlan -----------------------------
(***************************************************************************)
(* The pure half of host bootstrap (internal/bootstrap): the component     *)
(* catalog, the resolution of a recipe and BuildPlan, which turns a host   *)
(* inventory into the exact steps to run and the reasons not to run any.   *)
(*                                                                         *)
(* "core" stands for core and gdb, "patching" for every optional component *)
(* that is a set of tools (tracing, pane-network, mosh, podman).  Packages *)
(* are named after the tools they provide.  An inventory is                *)
(*   [manager, root, sudo, service, immutable, musl, fit, tools, version,  *)
(*    pwndbg, group]                                                       *)
(* where "fit" is the conjunction of the checks on OS, home, disk and      *)
(* inodes and "version" the pwntools version of the managed environment;   *)
(* a recipe is [components, system, pip], options are [noSudo, accept].    *)
(***************************************************************************)
EXTENDS Naturals, Sequences, FiniteSets, SequencesExt

Managers == {"apt", "dnf", "yum", "pacman", "zypper", "apk", "xbps", "emerge", "nix", "unknown"}
Components == {"core", "python", "pwntools", "patching", "pwndbg", "docker"}
Mandatory == {"core", "python", "pwntools"}

Dependencies(id) ==
  CASE id \in {"python", "patching"} -> {"core"}
    [] id = "pwntools" -> {"python", "core"}
    [] id = "pwndbg" -> {"core", "python"}
    [] OTHER -> {}

\* Components installed by the system's package manager, and their tools.
Privileged == {"core", "python", "patching", "docker"}
Tools(id) ==
  CASE id = "core" -> {"cc"}
    [] id = "python" -> {"python3"}
    [] id = "patching" -> {"patchelf", "checksec"}
    [] id = "docker" -> {"docker"}
    [] OTHER -> {}

Packages(id, manager) ==
  CASE id = "python" /\ manager = "apt" -> {"python3", "python3-venv"}
    [] id = "patching" /\ manager = "yum" -> {"patchelf"}
    [] OTHER -> Tools(id)

\* Every package the catalog names.
Cataloged == {"python3-pwntools"} \cup UNION {UNION {Packages(id, m) : m \in Managers} : id \in Components}

\* What ResolveRecipe selects: the mandatory components and the requested ones,
\* closed under dependencies; it refuses to leave out what the result needs.
Resolved(wanted) ==
  LET start == Mandatory \cup wanted
      closed(S) == \A id \in S : Dependencies(id) \subseteq S
  IN CHOOSE S \in SUBSET Components :
       /\ start \subseteq S /\ closed(S)
       /\ \A T \in SUBSET S : start \subseteq T /\ closed(T) => T = S
Resolvable(wanted, without) ==
  without \cap Mandatory = {} /\ without \cap Resolved(wanted \ without) = {}

ComponentHealthy(inv, id) ==
  CASE id = "pwntools" -> inv.version = "pinned"
    [] id = "pwndbg" -> inv.pwndbg
    [] id = "docker" -> "docker" \in inv.tools /\ (inv.root \/ inv.group)
    [] OTHER -> Tools(id) \subseteq inv.tools

-----------------------------------------------------------------------------
(* The state of an action: skip when healthy, else one of these.           *)

Unsupported(inv, id) ==
  \/ id = "pwndbg" /\ inv.musl
  \/ /\ ~ComponentHealthy(inv, id) /\ id \in Privileged
     /\ \/ inv.immutable /\ inv.manager # "nix"
        \/ inv.manager = "unknown"
Repair(inv, id) ==
  id = "pwntools" /\ ~ComponentHealthy(inv, id) /\ inv.version # "none"
Install(inv, id) ==
  ~ComponentHealthy(inv, id) /\ ~Unsupported(inv, id) /\ ~Repair(inv, id)

\* On apt a missing pwntools brings the distribution's as well.
PlannedPackages(inv, recipe, options) ==
  LET installed == {id \in recipe.components : Install(inv, id)}
  IN (UNION {Packages(id, inv.manager) : id \in installed \cap Privileged})
     \cup (IF "pwntools" \in installed /\ inv.manager = "apt" /\ ~options.noSudo
           THEN {"python3-pwntools"} ELSE {})
     \cup recipe.system

PackageSteps(manager) ==
  (IF manager = "apt" THEN <<"packages-repair", "packages-refresh">>
   ELSE IF manager = "zypper" THEN <<"packages-refresh">> ELSE <<>>)
  \o <<"packages-install">>

PwntoolsSteps(pip) ==
  <<"pwntools-venv", "pwntools-base">>
  \o (IF pip THEN <<"pip-extra">> ELSE <<>>)
  \o <<"pip-check", "pwntools-verify">>

\* Mutant of DockerSetupSteps: the group first, then the daemon.
DockerSetupStepsGroupFirst(inv) ==
  (IF inv.root THEN <<>> ELSE <<"docker-group">>)
  \o (IF inv.service = "openrc" THEN <<"docker-enable", "docker-service">> ELSE <<"docker-service">>)
DockerSetupSteps(inv) ==
  (CASE inv.service = "openrc" -> <<"docker-enable", "docker-service">>
     [] inv.service \in {"systemd", "sysv"} -> <<"docker-service">>
     [] OTHER -> <<>>)
  \o (IF inv.root THEN <<>> ELSE <<"docker-group">>)

\* The steps that run under sudo.
Sudo(step, manager) ==
  \/ step \in {"packages-repair", "packages-refresh", "docker-enable", "docker-service", "docker-group"}
  \/ step = "packages-install" /\ manager # "nix"
FilterUserSteps(steps, manager) ==
  LET result[i \in 0..Len(steps)] ==
        IF i = 0 THEN <<>>
        ELSE IF Sudo(steps[i], manager) THEN result[i - 1] ELSE Append(result[i - 1], steps[i])
  IN result[Len(steps)]
HasSudoSteps(steps, manager) == \E i \in DOMAIN steps : Sudo(steps[i], manager)

\* Docker is selected and not usable: the daemon and the group need setting up.
DockerPending(inv, recipe) == "docker" \in recipe.components /\ ~ComponentHealthy(inv, "docker")

Steps(inv, recipe, options) ==
  LET packages == IF PlannedPackages(inv, recipe, options) # {} /\ inv.manager # "unknown"
                  THEN PackageSteps(inv.manager) ELSE <<>>
      pwntools == IF ~ComponentHealthy(inv, "pwntools") \/ recipe.pip
                  THEN PwntoolsSteps(recipe.pip) ELSE <<>>
      pwndbg == IF "pwndbg" \in recipe.components /\ ~inv.pwndbg /\ ~inv.musl
                THEN <<"pwndbg-install">> ELSE <<>>
      docker == IF DockerPending(inv, recipe) /\ (inv.root \/ options.accept)
                THEN DockerSetupSteps(inv) ELSE <<>>
      all == packages \o pwntools \o pwndbg \o docker
  IN IF options.noSudo THEN FilterUserSteps(all, inv.manager) ELSE all

Blockers(inv, recipe, options) ==
  LET says(reason, condition) == IF condition THEN {reason} ELSE {}
      steps == Steps(inv, recipe, options)
  IN says("host", ~inv.fit)
     \cup says("unsupported", \E id \in recipe.components : Unsupported(inv, id))
     \cup says("manager", PlannedPackages(inv, recipe, options) # {} /\ inv.manager = "unknown")
     \cup says("service", DockerPending(inv, recipe) /\ inv.service \in {"unknown", "runit"})
     \cup says("risk", DockerPending(inv, recipe) /\ ~inv.root /\ ~options.accept)
     \cup says("no-sudo", options.noSudo /\ inv.manager # "nix"
                 /\ (recipe.system # {} \/ \E id \in recipe.components \cap Privileged : Install(inv, id)))
     \cup says("sudo", ~inv.root /\ inv.manager # "nix" /\ ~inv.sudo /\ HasSudoSteps(steps, inv.manager))

BuildPlan(inv, recipe, options) ==
  [steps |-> Steps(inv, recipe, options), blockers |-> Blockers(inv, recipe, options),
   packages |-> PlannedPackages(inv, recipe, options)]

\* What the postflight check finds wanting.
Unhealthy(inv, recipe) ==
  {id \in recipe.components : Install(inv, id) \/ Repair(inv, id)}
=============================================================================

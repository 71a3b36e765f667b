------------------------------- MODULE Bootstrap -------------------------------
(***************************************************************************)
(* Host bootstrap as it runs: the command inventories the host, resolves a *)
(* plan, has it confirmed, sends its steps to the agent over one SSH PTY,  *)
(* follows the agent's events and verifies the host afterwards; after a    *)
(* failure the wizard offers a retry, and the user may run the command     *)
(* again (hostBootstrap of internal/cli/root.go, RunResult of              *)
(* internal/bootstrap, bootstrapCommand of internal/agent).                *)
(*                                                                         *)
(* Any step may fail or be interrupted half-way, and an agent whose client *)
(* lost the connection goes on until its host notices: a later attempt     *)
(* then finds a half-prepared host, and maybe another agent working on it. *)
(* What a step does to the host (apt, venv, pip, docker) is external.      *)
(***************************************************************************)
EXTENDS BootstrapPlan

CONSTANTS
  MaxAttempts,  \* bound on the attempts (runs and retries)
  MaxWire,      \* bound on the events in the terminal's buffer, then the agent waits
  Extra,        \* packages that recipes name beyond the catalog's
  Settings      \* the scenarios: host, recipe, options, modes, faults

Attempts == 1..MaxAttempts
Software == Cataloged \cup Extra

\* A remote account: the tools in its path, the managed environment (python, pip, version, wrapper,
\* checked), the versions of pwndbg (dest, current), docker (daemon, group) and the package database.
Host == [tools : SUBSET Software, python : BOOLEAN, pip : BOOLEAN, version : {"none", "old", "pinned"},
         wrapper : BOOLEAN, checked : BOOLEAN, dest : {"none", "broken", "whole"},
         current : {"none", "old", "pinned"}, daemon : BOOLEAN, group : BOOLEAN,
         dpkg : {"whole", "interrupted"}]
Setting == [manager : Managers, root : BOOLEAN, sudo : BOOLEAN,
            service : {"systemd", "openrc", "sysv", "runit", "unknown"}, immutable : BOOLEAN,
            musl : BOOLEAN, fit : BOOLEAN, start : Host, wants : SUBSET Components,
            system : SUBSET Software, pip : BOOLEAN, noSudo : BOOLEAN, accept : BOOLEAN,
            modes : SUBSET {"preview", "yes", "wizard"}, attempts : Attempts, limit : Nat]

\* A host is one that bootstrap has prepared, or nobody: its active pwndbg is whole, and only
\* apt leaves an interrupted database.
ASSUME BootstrapAssumption ==
  /\ MaxAttempts \in Nat /\ MaxWire \in Nat \ {0} /\ Settings \subseteq Setting
  /\ \A s \in Settings :
       /\ Resolvable(s.wants, {})
       /\ s.start.current = "pinned" => s.start.dest = "whole"
       /\ s.start.dpkg = "interrupted" => s.manager = "apt"

VARIABLES
  setting,
  budget,    \* faults that may still occur
  host,      \* the remote account and system
  client,    \* the command the user runs
  agents,    \* agents[n]: the agent of attempt n
  wire       \* events the agent of the current attempt wrote, not yet read

vars == <<setting, budget, host, client, agents, wire>>

Spend == budget > 0 /\ budget' = budget - 1

\* The pwntools version the environment's python reports: its own, or the
\* distribution's through --system-site-packages.
Version(h) ==
  IF ~h.python THEN "none"
  ELSE IF h.version # "none" THEN h.version
  ELSE IF "python3-pwntools" \in h.tools THEN "old" ELSE "none"

ActivePwndbg(h) == h.current = "old" \/ (h.current = "pinned" /\ h.dest = "whole")

\* Inspect: one read-only script.
Inspect ==
  [manager |-> setting.manager, root |-> setting.root, sudo |-> setting.sudo,
   service |-> setting.service, immutable |-> setting.immutable, musl |-> setting.musl,
   fit |-> setting.fit, tools |-> host.tools, version |-> Version(host),
   pwndbg |-> ActivePwndbg(host), group |-> host.group]

Recipe == [components |-> Resolved(setting.wants), system |-> setting.system, pip |-> setting.pip]
Options(c) == [noSudo |-> setting.noSudo, accept |-> c.consent]
PlanOf(c) == BuildPlan(c.inv, Recipe, Options(c))

Idle(a) == a.stage \in {"none", "ended"}
Alive == {n \in Attempts : ~Idle(agents[n])}
Current == agents[client.n]

NoAgent == [stage |-> "none", steps |-> <<>>, packages |-> {}, next |-> 1, attached |-> FALSE, ok |-> FALSE]

Init ==
  /\ setting \in Settings
  /\ budget = setting.limit
  /\ host = setting.start
  /\ client = [pc |-> "idle", n |-> 0, mode |-> "yes", inv |-> Inspect, consent |-> setting.accept, accepted |-> setting.accept,
               reviewed |-> {}, completed |-> <<>>, pending |-> <<>>, auth |-> FALSE,
               missed |-> FALSE, clean |-> TRUE, outcome |-> "none"]
  /\ agents = [n \in Attempts |-> NoAgent]
  /\ wire = <<>>

-----------------------------------------------------------------------------
(* The command up to the apply.                                            *)

\* Faults of this attempt excuse its failure.
Blamed(c) == [c EXCEPT !.clean = FALSE]

NewAttempt(c) ==
  [c EXCEPT !.n = @ + 1, !.inv = Inspect, !.completed = <<>>, !.pending = <<>>, !.auth = FALSE,
            !.missed = FALSE, !.clean = Alive = {}, !.outcome = "none"]

\* The command starts and inventories the host.
Begin ==
  /\ client.pc = "idle" /\ client.n < setting.attempts
  /\ \E mode \in setting.modes :
       client' = [NewAttempt(client) EXCEPT !.pc = "confirm", !.mode = mode,
                    !.consent = setting.accept, !.reviewed = {}]
  /\ UNCHANGED <<setting, budget, host, agents, wire>>

\* The wizard asks about the docker group, shows the plan and asks to apply it;
\* --yes applies what it resolves; a preview only prints it.
RiskAsked == "docker" \in Recipe.components /\ ~setting.root /\ ~client.consent

Confirm ==
  /\ client.pc = "confirm"
  /\ LET asked == client.mode = "wizard" /\ RiskAsked
         answered == [client EXCEPT !.consent = @ \/ asked, !.accepted = @ \/ asked]
         shown == [answered EXCEPT !.reviewed = ToSet(PlanOf(answered).steps)]
     IN \/ client.mode # "preview" /\ client' = [shown EXCEPT !.pc = "deploy"]
        \/ client.mode = "preview" /\ client' = [shown EXCEPT !.pc = "idle", !.outcome = "previewed"]
        \/ client.mode = "wizard" /\ client' = [client EXCEPT !.pc = "idle", !.outcome = "cancelled"]
  /\ UNCHANGED <<setting, budget, host, agents, wire>>

\* The agent is deployed only for a plan that will run.
Runs(plan) == plan.blockers = {} /\ plan.steps # <<>>

Deploy ==
  /\ client.pc = "deploy"
  /\ \/ client' = [client EXCEPT !.pc = "apply"] /\ UNCHANGED budget
     \/ /\ Runs(PlanOf(client)) /\ Spend
        /\ client' = [Blamed(client) EXCEPT !.pc = "idle", !.outcome = "failed"]
  /\ UNCHANGED <<setting, host, agents, wire>>

\* Where RunResult's outcome leads: the wizard offers a retry after an error.
Return(c, outcome) ==
  [c EXCEPT !.outcome = outcome,
            !.pc = IF outcome # "ok" /\ c.mode = "wizard" THEN "choice" ELSE "idle"]

ApplyRefused ==
  /\ client.pc = "apply" /\ PlanOf(client).blockers # {}
  /\ client' = Return(client, "blocked")
  /\ UNCHANGED <<setting, budget, host, agents, wire>>

ApplyNothing ==
  /\ client.pc = "apply" /\ PlanOf(client).blockers = {} /\ PlanOf(client).steps = <<>>
  /\ client' = Return(client, "ok")
  /\ UNCHANGED <<setting, budget, host, agents, wire>>

\* The steps are sent as one request; the agent authenticates sudo first.
Authenticated(plan) == ~setting.root /\ HasSudoSteps(plan.steps, setting.manager)
Apply ==
  /\ client.pc = "apply" /\ Runs(PlanOf(client))
  /\ LET plan == PlanOf(client)
     IN /\ client' = [client EXCEPT !.pc = "running", !.pending = plan.steps]
        /\ agents' = [agents EXCEPT ![client.n] =
             [NoAgent EXCEPT !.steps = plan.steps, !.packages = plan.packages, !.attached = TRUE,
                             !.stage = IF Authenticated(plan) THEN "auth" ELSE "next"]]
        /\ wire' = IF Authenticated(plan) THEN <<[type |-> "auth", step |-> "auth"]>> ELSE <<>>
  /\ UNCHANGED <<setting, budget, host>>

-----------------------------------------------------------------------------
(* The agent and what its steps do to the host.                            *)

Emit(n, type, step) ==
  IF agents[n].attached
  THEN Len(wire) < MaxWire /\ wire' = Append(wire, [type |-> type, step |-> step])
  ELSE UNCHANGED wire
Step(n) == agents[n].steps[agents[n].next]

\* What a step needs to succeed.
Works(step, h) ==
  CASE step = "packages-install" -> h.dpkg = "whole"
    [] step = "pwntools-venv" ->
         "python3" \in h.tools /\ (setting.manager = "apt" => "python3-venv" \in h.tools)
    [] step \in {"pwntools-base", "pip-extra", "pip-check"} -> h.python /\ h.pip
    [] step = "pwntools-verify" -> Version(h) = "pinned"
    [] step = "pwndbg-install" -> h.python
    [] step \in {"docker-enable", "docker-service", "docker-group"} -> "docker" \in h.tools
    [] OTHER -> TRUE

\* What a completed step has done.
Performed(step, packages, h) ==
  CASE step = "packages-install" -> [h EXCEPT !.tools = @ \cup packages]
    [] step = "packages-repair" -> [h EXCEPT !.dpkg = "whole"]
    [] step = "pwntools-venv" -> [h EXCEPT !.python = TRUE, !.pip = TRUE]
    [] step = "pwntools-base" -> [h EXCEPT !.version = "pinned", !.pip = TRUE, !.checked = FALSE]
    [] step = "pip-check" -> [h EXCEPT !.checked = TRUE]
    [] step = "pwndbg-install" -> [h EXCEPT !.dest = "whole", !.current = "pinned", !.wrapper = TRUE]
    [] step \in {"docker-enable", "docker-service"} -> [h EXCEPT !.daemon = TRUE]
    [] step = "docker-group" -> [h EXCEPT !.group = TRUE]
    [] OTHER -> h

\* Mutant of Begun: the link is switched before the new version is complete.
BegunLinksFirst(step, packages, h) ==
  IF step = "pwndbg-install" THEN {h, [h EXCEPT !.current = "pinned"]} ELSE {h}

PartlyInstalled(packages, h) ==
  LET databases == IF setting.manager = "apt" THEN {"whole", "interrupted"} ELSE {h.dpkg}
  IN UNION {{[h EXCEPT !.tools = @ \cup some, !.dpkg = d] : some \in SUBSET packages} : d \in databases}

\* What a step that failed or was interrupted may have done.
Begun(step, packages, h) ==
  CASE step = "packages-install" -> PartlyInstalled(packages, h)
    [] step = "pwntools-venv" -> {h, [h EXCEPT !.python = TRUE]}
    [] step = "pwntools-base" ->
         {h, [h EXCEPT !.pip = FALSE, !.checked = FALSE], [h EXCEPT !.version = "none", !.checked = FALSE],
          [h EXCEPT !.version = "pinned", !.checked = FALSE]}
    [] step = "pwndbg-install" ->
         LET cleared == [h EXCEPT !.dest = IF @ = "broken" THEN "none" ELSE @]
             moved == [h EXCEPT !.dest = "whole"]
         IN {h, cleared, moved, [moved EXCEPT !.current = "pinned"]}
    [] OTHER -> {h, Performed(step, packages, h)}

\* sudo -v on the PTY; without the terminal there is nobody to answer it.
Authenticate(n) ==
  /\ agents[n].stage = "auth"
  /\ \/ /\ agents[n].attached
        /\ agents' = [agents EXCEPT ![n].stage = "next"] /\ UNCHANGED <<budget, client>>
     \/ /\ agents[n].attached /\ Spend
        /\ agents' = [agents EXCEPT ![n].stage = "ended"] /\ client' = Blamed(client)
  /\ UNCHANGED <<setting, host, wire>>

StepStarts(n) ==
  /\ agents[n].stage = "next" /\ agents[n].next <= Len(agents[n].steps)
  /\ agents' = [agents EXCEPT ![n].stage = IF Step(n) = "pwntools-venv" THEN "checking" ELSE "doing"]
  /\ Emit(n, "start", Step(n))
  /\ UNCHANGED <<setting, budget, host, client>>

Finished(n) ==
  /\ agents' = [agents EXCEPT ![n].stage = "next", ![n].next = @ + 1]
  /\ Emit(n, "done", Step(n))

\* Mutant of VenvChecks: only the environment's python is tested.
VenvChecksPython(n) ==
  /\ agents[n].stage = "checking"
  /\ IF host.python
     THEN Finished(n) /\ UNCHANGED host
     ELSE /\ host' = [host EXCEPT !.version = "none"]
          /\ agents' = [agents EXCEPT ![n].stage = "doing"] /\ UNCHANGED wire
  /\ UNCHANGED <<setting, budget, client>>

\* The environment is made anew unless its python and its pip are there.
VenvChecks(n) ==
  /\ agents[n].stage = "checking"
  /\ IF host.python /\ host.pip
     THEN Finished(n) /\ UNCHANGED host
     ELSE /\ host' = [host EXCEPT !.python = FALSE, !.pip = FALSE, !.version = "none",
                                  !.wrapper = FALSE, !.checked = FALSE]
          /\ agents' = [agents EXCEPT ![n].stage = "doing"] /\ UNCHANGED wire
  /\ UNCHANGED <<setting, budget, client>>

StepDone(n) ==
  /\ agents[n].stage = "doing" /\ Works(Step(n), host)
  /\ host' = Performed(Step(n), agents[n].packages, host)
  /\ Finished(n)
  /\ UNCHANGED <<setting, budget, client>>

\* A step fails: the agent reports it and runs no further step.
StepFails(n) ==
  /\ agents[n].stage = "doing"
  /\ \/ ~Works(Step(n), host) /\ UNCHANGED <<budget, client>>
     \/ Works(Step(n), host) /\ Spend /\ client' = Blamed(client)
  /\ host' \in Begun(Step(n), agents[n].packages, host)
  /\ agents' = [agents EXCEPT ![n].stage = "ended"]
  /\ Emit(n, "failed", Step(n))
  /\ UNCHANGED setting

AgentEnds(n) ==
  /\ agents[n].stage = "next" /\ agents[n].next > Len(agents[n].steps)
  /\ agents' = [agents EXCEPT ![n].stage = "ended", ![n].ok = TRUE]
  /\ UNCHANGED <<setting, budget, host, client, wire>>

\* The host notices the lost connection: the terminal hangs up, the step in
\* progress is interrupted and no other is run.
HangUp(n) ==
  /\ ~agents[n].attached /\ ~Idle(agents[n])
  /\ host' \in IF agents[n].stage = "doing" THEN Begun(Step(n), agents[n].packages, host) ELSE {host}
  /\ agents' = [agents EXCEPT ![n].stage = "ended"]
  /\ UNCHANGED <<setting, budget, client, wire>>

-----------------------------------------------------------------------------
(* The command while the agent works and afterwards.                       *)

\* Mutant of Handled: the end of a step is taken for its success.
HandledByEnd(c, event) ==
  CASE event.type = "auth" -> [c EXCEPT !.auth = TRUE]
    [] event.type = "start" -> [c EXCEPT !.auth = FALSE]
    [] OTHER -> [c EXCEPT !.completed = Append(@, event.step),
                          !.pending = RemoveFirst(@, event.step)]
Handled(c, event) ==
  CASE event.type = "auth" -> [c EXCEPT !.auth = TRUE]
    [] event.type = "start" -> [c EXCEPT !.auth = FALSE]
    [] event.type = "done" -> [c EXCEPT !.completed = Append(@, event.step),
                                        !.pending = RemoveFirst(@, event.step)]
    [] OTHER -> c

\* One event of the stream.  During sudo authentication a line that arrives in
\* two reads is shown piecewise and its event lost; otherwise it is buffered.
Follow ==
  /\ client.pc = "running" /\ wire # <<>>
  /\ wire' = Tail(wire)
  /\ \/ client' = Handled(client, Head(wire))
     \/ client.auth /\ client' = [client EXCEPT !.missed = TRUE]
  /\ UNCHANGED <<setting, budget, host, agents>>

\* Mutant of Returned: the command waits for the last event, not for ssh.
ReturnedByEvents ==
  /\ client.pc = "running" /\ wire = <<>> /\ Current.stage = "ended"
  /\ Current.ok => client.pending = <<>>
  /\ client' = IF Current.ok THEN [client EXCEPT !.pc = "postflight"] ELSE Return(client, "failed")
  /\ UNCHANGED <<setting, budget, host, agents, wire>>
Returned ==
  /\ client.pc = "running" /\ wire = <<>> /\ Current.stage = "ended"
  /\ client' = IF Current.ok THEN [client EXCEPT !.pc = "postflight"] ELSE Return(client, "failed")
  /\ UNCHANGED <<setting, budget, host, agents, wire>>

\* The connection is lost, or the command interrupted: the agent is left behind.
Sever ==
  /\ client.pc = "running" /\ Spend
  /\ client' = Return(Blamed(client), "failed")
  /\ agents' = [agents EXCEPT ![client.n].attached = FALSE]
  /\ wire' = <<>>
  /\ UNCHANGED <<setting, host>>

Postflight ==
  /\ client.pc = "postflight"
  /\ \/ /\ client' = Return(client, IF Unhealthy(Inspect, Recipe) = {} THEN "ok" ELSE "failed")
        /\ UNCHANGED budget
     \/ Spend /\ client' = Return(Blamed(client), "failed")
  /\ UNCHANGED <<setting, host, agents, wire>>

\* The retry inventories the host anew and plans from what it finds.
Retry ==
  /\ client.pc = "choice" /\ client.n < setting.attempts
  /\ client' = [NewAttempt(client) EXCEPT !.pc = "apply"]
  /\ UNCHANGED <<setting, budget, host, agents, wire>>

Leave ==
  /\ client.pc = "choice"
  /\ client' = [client EXCEPT !.pc = "idle"]
  /\ UNCHANGED <<setting, budget, host, agents, wire>>

\* Nothing is left to do, or nothing happens (AttemptsReturn excludes it for ever).
Over ==
  /\ \/ client.pc = "idle" /\ client.n = setting.attempts /\ Alive = {}
     \/ client.pc = "running"
  /\ UNCHANGED vars

Agent(n) ==
  \/ Authenticate(n) \/ StepStarts(n) \/ VenvChecks(n) \/ StepDone(n)
  \/ StepFails(n) \/ AgentEnds(n) \/ HangUp(n)
Command ==
  \/ Confirm \/ Deploy \/ ApplyRefused \/ ApplyNothing \/ Apply
  \/ Follow \/ Returned \/ Sever \/ Postflight
Next == Begin \/ Retry \/ Leave \/ Command \/ (\E n \in Attempts : Agent(n)) \/ Over

Spec == Init /\ [][Next]_vars

\* The agent and ssh make progress; the user and the faults need not act.
FairSpec ==
  /\ Spec /\ WF_vars(Follow) /\ WF_vars(Returned)
  /\ \A n \in Attempts : WF_vars(Agent(n))

-----------------------------------------------------------------------------
TypeOK ==
  /\ budget \in 0..setting.limit
  /\ {host.python, host.pip, host.wrapper, host.checked, host.daemon, host.group} \subseteq BOOLEAN
  /\ host.version \in {"none", "old", "pinned"} /\ host.dpkg \in {"whole", "interrupted"}
  /\ host.dest \in {"none", "broken", "whole"} /\ host.current \in {"none", "old", "pinned"}
  /\ client.pc \in {"idle", "confirm", "deploy", "apply", "running", "postflight", "choice"}
  /\ client.n \in 0..MaxAttempts
  /\ client.outcome \in {"none", "previewed", "cancelled", "blocked", "failed", "ok"}
  /\ \A n \in Attempts :
       /\ agents[n].stage \in {"none", "auth", "next", "checking", "doing", "ended"}
       /\ agents[n].next \in 1..(Len(agents[n].steps) + 1)
       /\ agents[n].attached /\ ~Idle(agents[n]) => n = client.n
       /\ agents[n].stage \in {"checking", "doing"} => agents[n].next <= Len(agents[n].steps)

Wants(id) == id \in Recipe.components
Docker == Wants("docker") /\ ~setting.start.group

\* The catalog can provide what the recipe wants on this host: every tool the
\* health check asks for has a package, and --no-sudo leaves no privileged step.
Preparable ==
  /\ \A id \in Recipe.components : Tools(id) \subseteq Packages(id, setting.manager) \cup setting.start.tools
  /\ ~(Docker /\ setting.manager = "nix" /\ ~setting.root)

\* A Debian python without its venv package: the health check takes it for whole.
VenvStarved ==
  setting.manager = "apt" /\ "python3" \in host.tools /\ "python3-venv" \notin host.tools

\* Whatever earlier attempts left behind, an attempt that nothing disturbs and
\* no other agent accompanies does not fail: rerunning the recipe resumes it
\* (bootstrap.go: "rerun the same recipe to resume").
ResumeSucceeds == client.outcome = "failed" /\ Preparable => ~client.clean
UndisturbedSucceeds == ~VenvStarved => ResumeSucceeds

\* A command that reports success leaves a host with every tool of the recipe,
\* the pinned pwntools, an active pwndbg and, for an ordinary user, a docker
\* group whose daemon was enabled before.
OkayMeansReady ==
  client.outcome = "ok" /\ client.clean =>
    /\ \A id \in Recipe.components : Tools(id) \subseteq host.tools
    /\ Version(host) = "pinned" /\ (Wants("pwndbg") => ActivePwndbg(host))
    /\ Docker /\ ~setting.root => host.group /\ host.daemon

\* After a success the same recipe has nothing left to do but its extra pip
\* requirements.
OkayMeansSettled ==
  client.outcome = "ok" /\ client.clean =>
    Steps(Inspect, [Recipe EXCEPT !.pip = FALSE, !.system = {}], Options(client)) = <<>>
SuccessIsReal == OkayMeansReady /\ OkayMeansSettled

\* What the command reports as completed was done, in the order of the plan, the
\* rest is reported as pending, and with every event read the report is exact.
InOrder(s, steps) ==
  \A i, j \in DOMAIN s : i < j => \E k, l \in DOMAIN steps : k < l /\ steps[k] = s[i] /\ steps[l] = s[j]
CompletedIsTrue ==
  client.pc = "running" \/ client.outcome = "failed" =>
    LET done == SubSeq(Current.steps, 1, Current.next - 1)
    IN /\ ToSet(client.completed) \subseteq ToSet(done)
       /\ ToSet(client.pending) = ToSet(Current.steps) \ ToSet(client.completed)
       /\ InOrder(client.completed, Current.steps) /\ InOrder(client.pending, Current.steps)
       /\ client.outcome = "failed" /\ Current.attached /\ ~client.missed => client.completed = done

\* Nobody joins the root-equivalent docker group without having accepted it.
GroupNeedsConsent == host.group /\ ~setting.start.group => client.accepted

\* Under --no-sudo nothing that belongs to the system changes.
UserOwnedOnly ==
  setting.noSudo =>
    /\ <<host.daemon, host.group, host.dpkg>> = <<setting.start.daemon, setting.start.group, setting.start.dpkg>>
    /\ setting.manager # "nix" => host.tools = setting.start.tools

\* The active pwndbg version is one that was extracted completely.
ActivePwndbgWorks == host.current = "pinned" => host.dest = "whole"

\* What holds of the host throughout, whoever is interrupted where.
HostSound == TypeOK /\ GroupNeedsConsent /\ UserOwnedOnly /\ ActivePwndbgWorks

\* A command returns from its agent, whatever became of its events.
AttemptsReturn == client.pc = "running" ~> client.pc # "running"

-----------------------------------------------------------------------------
(* Statements of the documentation that the code does not keep on every    *)
(* host: TLC refutes each of them (README.md, "Further disagreements").    *)

\* The daemon of a selected docker is enabled, for root as well.
OkayMeansDaemon == client.outcome = "ok" /\ client.clean /\ Docker => host.daemon

\* Pwndbg is exposed as a wrapper in the pwn environment.
OkayMeansWrapper == client.outcome = "ok" /\ client.clean /\ Wants("pwndbg") => host.wrapper

\* The environment has passed pip check.
OkayMeansChecked == client.outcome = "ok" /\ client.clean => host.checked

\* The wizard's user has reviewed every step that runs under sudo.
RetryReviewed ==
  client.pc = "running" /\ client.mode = "wizard" =>
    \A i \in DOMAIN Current.steps :
      Sudo(Current.steps[i], setting.manager) => Current.steps[i] \in client.reviewed

\* Under --no-sudo a privileged component that is missing is named before
\* anything is changed.
NoSudoNamed == client.pc = "running" /\ setting.noSudo => Preparable
=============================================================================

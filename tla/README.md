# A verification project for pwnbridge

pwnbridge runs exploit-development commands on a remote Linux host while the
files, the editor and the terminal stay on a Mac. This directory models the
parts of it whose correctness depends on the order in which several processes
act, checks the models with TLC and proves the most important facts about them
with TLAPS.

## The system

| part | source | state it keeps | operations | what is hard |
|---|---|---|---|---|
| Debugger broker (Mac) | `internal/broker/broker.go` | request table, open times, connections, slots, lifecycle context | accept, open, pane-started, exited, cancel, ping, barrier, close | one goroutine per connection; sends, barriers and provider calls outside the mutex; shutdown at any point |
| pwntools-terminal wrapper (remote) | `internal/agent/agent.go` `terminalWrapper` | its connection | open, cancel on a signal, wait for the verdict | signals and disconnects at any point |
| Pane helper (Mac) | `broker.RunPane` | its connection, the ssh child | report start, run ssh, report exit, hold a failure | cancellation racing exit; a hold that waits for a user |
| Terminal providers (Mac) | `internal/terminal/provider` | none | detect, select, open, close a pane | a command cut off by its context after it had its effect |
| Session lifecycle | `internal/cli/root.go` `startSession`, `Close`, `stop`, `clean` | session record, lease, broker, SSH master | start, barrier, close, stop, clean | cross-process locks, leases and files read before they are locked |
| Synchronization | `internal/syncer` | the Mutagen session identifier and fingerprint | prepare, ensure, resume, flush, pause, terminate | an external daemon; a failure between two of its commands |
| Workspace state | `internal/workspace` | one JSON state file per workspace, bindings, locks | resolve, load, save, lock | read without lock, written under one |
| Conflict resolution | `internal/cli/root.go` `resolveCommand`, `cli/remote_recovery.go`, `internal/recovery` | archives, manifests, tombstones | archive the loser, remove it, restore, prune | edits between two steps; crashes |
| Shell proxy | `internal/shell`, `agent.shellCommand` | pending input, prompt flag, paste state | input, prompt, barrier | input that races the prompt |
| SSH transport | `internal/transport` | control masters, forwards, deployed agents | start, share, stop, deploy, prune | several sessions share one master and one agent directory |
| Container runtime | `internal/runtime` | containers by session id | ensure, execute, stop | half-started containers |
| Host registry | `internal/cli/host_*.go`, `global_config.go` | configured hosts, default, bindings | add, use, default, remove | two locks, checks before effects |
| Bootstrap | `internal/bootstrap` | the plan of steps and their outcome | plan, execute, verify | a failing step in the middle |
| Configuration, protocol, file helpers, diagnostics, support | the rest of `internal/` | none shared | parse, validate, encode, write atomically, report | atomic replacement under crashes |

How they interact: a *session* owns one broker, one SSH master and one lease. A
pwntools script on the remote host starts the *wrapper*, which reaches the
broker over a reverse SSH forward; the broker runs the synchronization barrier,
asks the *provider* to open a pane, and the pane runs the *helper*, which dials
the broker again and runs `ssh` for the debugger. The broker connects the two
connections by request id, tells the wrapper how the debugger ended, and closes
or keeps the pane. Sessions of different processes meet only in files (session
records, leases, workspace state) under advisory locks, in the Mutagen daemon
and in the shared SSH master.

## Modules

| module | what it is |
|---|---|
| `Broker` | the broker with its wrappers, pane helpers, panes, provider and shutdown |
| `PaneLedger` | the abstract specification of what the broker promises about panes and answers |
| `MCBroker` | the instances TLC checks |
| `BrokerProofs` | types, the inductive invariant `Ownership` and what follows from it |
| `LedgerProofs` | connection slots, wrappers that wait, what `close()` leaves, and the refinement of `PaneLedger` |
| `SessionLifecycle` | the processes of one Mac that share a project: sessions, `stop`, `clean`, `host add`, `host remove`, `sync` |
| `HostUse` | the abstract specification of who may use a host when |
| `MCSessionLifecycle` | the instances TLC checks |
| `SessionProofs` | types, the inductive invariant `HostUseInv`, what follows from it, the refinement of `HostUse`, and what becomes of the remote root and the saved state |
| `ShellProxy` | the interactive shell: the proxy's two goroutines, the remote bash with its hooks, and the choice between SSH and Mosh |
| `ShellProofs` | types, and the three safety properties of the shell |
| `TerminalStreams` | the byte-stream machines of the shell against what they mean |
| `RecoveryCatalog` | the recovery store on disk: archives, manifests, digests, selections, what a power loss leaves |
| `ConflictRecovery` | `sync resolve`, the agent's `recovery-stream`, and `sync recovery verify, restore, prune` over that store |
| `RecoveryProofs` | what resolutions keep, what the catalogue says, what commands report |
| `LossProofs` | what a removal may discard |
| `Transport` | SSH masters, reverse forwards and relays, agent deployment and pruning |
| `TransportProofs` | types, and the four safety properties of masters, brokers and agents |
| `BootstrapPlan` | recipes, components and `BuildPlan`, as operators |
| `Bootstrap` | preparing a host: the command, its agents, the host, faults and retries |
| `BootstrapProofs` | types and the host, what a report says, what success means, when an attempt fails |
| `MCShellProxy`, `MCAlgorithms`, `MCConflictRecovery`, `MCTransport`, `MCBootstrap` | the instances TLC checks |

### Broker

A wrapper `w` stands for one `pwntools-terminal` process, for the `*request`
that `handleWrapper` allocates for it, and for the pane opened on its behalf.
It has up to two connections, `W(w)` (the wrapper's) and `P(w)` (its pane
helper's); `Q(q)` are other connections: pings, barriers, unauthenticated or
silent peers, and a bare `exited`.

| code | model |
|---|---|
| `Broker.requests` | `requests` (id to request, `None` when absent) |
| `len(openTimes)` | `opens`; how many old entries have left the minute is chosen freely |
| `connectionSlots` | `slots` |
| the goroutine of a connection | `handler[c]`, its program counter; `victim[c]`, `verdict[c]` are its locals after the unlock in `finish`, `cancel` and `fail` |
| `request.pane`, `request.provider/handle` | `attached`, `handle` |
| sockets | `link[c]`; what was sent is in `replies`, `toHelper`, `exitMsg`, `cancelSent` |
| `close()` | `lifecycle`: up, cancelled (context), detached (table emptied), hungup (sockets closed), closed; `doomed` is its snapshot of requests |
| pane and helper processes | `pane`, `helper` |

`fate` and `closeCalls` are history variables: who answers for a pane, and how
often `Provider.Close` was called for it. `stray`, `aborted` and `suppressed` are
what `Open` itself did about a pane it reports as failed: nothing (its id was not
known), closed it, or tried to close it under the context that had ended.
`PaneOwned` is about every open pane and says of the first and the last of these
what is true: they are orphaned, and no wrapper was told that they are open.

An action is one critical section or one blocking call. `Register` is the first
critical section of `handleWrapper`, `Barrier` the `BeforeOpen` callback,
`OpenCreates`, `OpenIdentified`, `OpenReturns` and `OpenAborts` the inside of
`Provider.Open` (a terminal may create the pane and still fail), `LateClose`
the close of a pane whose request is gone, `Take` the critical section that
`finish`, `cancel` and `fail` share, `Notify` the sends after it and
`ClosePane` the provider call after those. Three kinds of provider are
distinguished: Zellij (which polls after it knows the id), providers whose
`Close` removes the pane, and window providers whose `Close` only deletes a
launcher file. A Zellij tab is opened without polling and behaves like the
second kind.

Left out: message contents and validation (an unauthenticated peer is a probe),
`Start` (the model begins with both listeners up), layout and titles, provider
detection, a custom provider that returns an empty handle id.

### PaneLedger

A pane is acquired once and released once, a request is answered at most once,
and once the broker is shut nothing is held and nothing changes.
`Broker!ImplementsLedger` maps `fate`, `replies` and `lifecycle` to it.

### SessionLifecycle

One project, several hosts, one Mutagen daemon. A member of `Sessions` is a
`pwnbridge shell` or `run` process, a member of `Admins` another command
(`Kind`); each goes through its command once. They interact through files, locks
and Mutagen only.

| code | model |
|---|---|
| `config.toml` hosts | `config[h]`, the record (destination and root) of a host |
| `workspace.State` on disk | `stored[h]`: identifier, fingerprint, remote retention |
| `projectContext` | `view[p]`: the state and host record a process loaded, which it never reads again |
| Mutagen's sessions | `sync[h][i]`: unused, running, paused, gone; created in the order 1, 2, ... |
| remote workspace root | `remote[h]`, the endpoints on which it exists |
| `host-lifecycle/*.lock`, workspace lock, `*.json.lease` | `hostLock`, `wsLock`, `lease`: who holds the flock |
| `sessions/*.json` | `record` |
| a scan of that directory | `todo`, `found`, `probing`: entries left, live ones, the lease just acquired to test it |
| SIGTERM | `signalled` |

An action is one Mutagen command, one remote command, one file operation or one
lock acquisition. `Load` is `loadProject`, `LockHost` the lifecycle lock with
the check of the configuration under it, `SkipEntry` ... `DropStale` the three
scans (`liveSessions`, `hasOtherLease`, `readActiveSessionIDs`), `EnsureSync` to
`SaveState` is `ensureSync` with `Prepare` and `Ensure` inlined, `TakeLease` and
`Publish` the end of `startSession`, `EnterBarrier`/`Resume`/`Flush` every
`a.barrier`, `Finish` to `DropLease` `activeSession.Close`. `Quit` is a return
from any point: the deferred calls give back every lock, and the same happens
in the kernel when a process is killed (`Crash`). A process that is killed while
it scans therefore also gives back the lease it was testing.

`Faults` says what may fail: Mutagen commands, remote commands, state writes
(which may have replaced the file before they fail), the deadline of `stop`, and
somebody deleting the remote root or terminating the Mutagen session. `MaxSyncs`
bounds the Mutagen sessions ever created; `create` fails beyond it.

Left out: bindings and the default host, recovery roots and container runtimes
in `host remove`, corrupt session records, several projects on one host, the
shared SSH master (module `Transport`), the broker (module `Broker`; here
it only answers or does not answer a ping), a second barrier running at the
same time inside one session (the workspace lock serialises them).

### HostUse

A session becomes visible only on a configured host on which no `stop` or `clean`
is past its wait; such a command gets there, and a host is retired, only while
no session uses the host. `SessionLifecycle!ImplementsHostUse` maps published
records with a held lease, the commands in `Work`, and `config` to it.

### ShellProxy and TerminalStreams

One `pwnbridge shell` with one remote bash. A byte is its position in what the
user has typed, so that the properties can say what became of each; a paste
delimiter counts as one byte.

| code | model |
|---|---|
| `shellTransport` (root.go) | `Transport(s)`, `Select`; its result is `transport` |
| `inputController` | `atPrompt`, `syncing`, `pending`, `paste`; every critical section of its mutex is one action |
| the keyboard and the output goroutine of `Proxy.Run` | `pc["in"]`, `pc["out"]`, their Enter in `newline`, what `Prompt` replays in `replay` |
| the PTY | `tty` (to bash), `output` (from it) |
| bash, its rc file (agent.go `writeBashRC`) | `bash`, `trap` (the DEBUG trap is set), `insertion` (readline is in a bracketed paste), `line` |
| the workspaces | `saves`/`remoteSaves`, `artifacts`/`localArtifacts`: what was made at one end and has reached the other |

`Input(t)` is `inputController.Input` up to where it unlocks for the barrier,
`BarrierBefore`, `Release` and `Refuse` what follows; both goroutines execute
it, because `Prompt` replays held input from the output goroutine.
`ReadMarker`, `BarrierAfter`, `AtPrompt`, `Display` are the output goroutine at
a prompt marker. `HookBefore`, `HookAfter`, `HookReturns` are the DEBUG and
prompt hooks over Mosh; they follow bash's rules (`extdebug` makes functions
inherit the trap, a trap that clears itself is spent), checked against bash 5.2.
`delivered`, `refused`, `released`, `ran`, `shown`, `settled`, `early` are history.

`TerminalStreams` holds the four byte machines: `MarkerParser`, the filter of
Mosh's exit notice, `bracketedPasteTracker` and `echoPredictor`, fed in chunks
of every size and compared with definitions that see the stream whole. Markers
and delimiters are short words that, like the real ones, start with a letter
they contain nowhere else.

Left out: raw mode, window sizes and signals of the terminal, the text of
diagnostics, and how bash edits a line.

### RecoveryCatalog and ConflictRecovery

The losing copy of a conflict is copied to an archive on the Mac, recorded in
its manifest, and removed. A file's content is the number of the user's change
that wrote it; a directory has two files; an object has an identity (`inode`)
so that replacing it differs from editing it. The workspace lock lets one of
the commands run at a time; users, Mutagen and the agents run beside it.

| code | model |
|---|---|
| the two workspaces | `content[e][p]`; `conflicted` is what Mutagen reports |
| the recovery root | `store[n]`: where archive `n` is now and would be after a power loss (`place`, `durable`), its copies, those synced, the manifest's entries, those synced, empty parents |
| `resolveCommand`, `ResolveBarrier`, `recovery.Copy`, `RecordSummary`, `VerifyAndRemove` | `Preflight` ... `ResolveBarrier`, one action per file read, durable write or removal |
| `recovery-stream` (agent.go), `backupRemoteLoser` | `agent[k]`, a process that outlives its command: its two readings, the stream `wire`, the acknowledgement, the removal |
| `ExtractArchive` | `ExtractOpens`, `ExtractWrites`, `ExtractEnds`, `ExtractTruncated` |
| `PruneArchives`, tombstones | `PruneSelect` ... `PruneEnds`: rename, sync, remove, sync, roll back; a removal that is cut short leaves part of the tree (`PartlyRemoved`) |
| restore, verify | `RestoreFinds` ... `VerifyEnds` |
| a kill, a power loss, a full disk, a cut connection, a cancelled context, rot on the disk | `Crash`, `PowerLoss`, the failing alternatives, `Cut`, `Cancel`, `Rots`, each at most once |

`lost` is the history of what removals discarded with no durable backup of it:
the change that arrived and when the code last looked.

Left out: tar headers, modes, links and special files (one of two kinds of
object), the order of the manifest, interactive questions, the size limits.

### Transport

A client is one process: a session (`startSession` and `Close`), a preview
(`sync diff` and `sync resolve`, with a private master) or a stop (the end of
`stop` and `clean`). OpenSSH and the remote account are external, modelled from
how the client uses them.

| code | model |
|---|---|
| the control path of the workspace | `socket`, the master it leads to; `severed` are live masters whose path was removed |
| the startup lock | `startup` |
| `Master` | `spec`, `address`, `pidFile` (its fields), `via`, `channel` |
| private masters | `private[c]`, with one that never answers |
| `~/.local/share/pwnbridge/agents` | `store` with `newer`, the order of their modification, `bin`, `uploads[c]`, `doomed[c]` (what a prune is about to remove) |
| sshd's forwards, socat | `forwards`, `relays` |

`StartSharedControlMaster`, `PrepareAgent`, `DeployAgent`, `pruneAgents`,
`ConfigureBroker` with its fallbacks, `Master.close` and
`StopSharedControlMaster` are one action per
ssh command, with three outcomes each: done, failed, and done with the answer
lost. The faults (a cut command, a cancelled context, a lost connection, a
master killed or hanging, a killed client, an upgrade in between) share a
budget. Starts are not serialised by the lifecycle lock here (which allows more
than the code does), and `stop` starts only when no session uses the workspace:
that is `SessionLifecycle!StoppedMeansQuiet`. A master's two-minute timer is any
time without a channel. `trouble` marks clients that lost an answer: an ssh that
is cancelled or cut may have done its work, and no client can tell.

### BootstrapPlan and Bootstrap

`BootstrapPlan` is `catalog.go`, the resolution of a recipe and `BuildPlan`: which packages
and steps a host of a given kind needs. `Bootstrap` is the command on one host,
up to three attempts of it: `Begin` inspects and plans, `Confirm` is the
wizard's review, `Deploy`, `Apply` start an agent on the host, `Follow` reads an
event, `Returned` is the end of the agent's session, `Postflight` inspects
again; `StepStarts`, `VenvChecks`, `StepDone`, `StepFails` are the agent. A step
that fails or is killed has had part of its effect (`Begun`): packages without
their configuration, an unpacked directory without a link to it, a group without
its daemon. When the connection is lost the agent may go on, beside the agent of
the next attempt. Packages are named after the tools they provide; `Extra` are
those that only a recipe names.

Left out: saving recipes, progress lines, the shell-script fallback for hosts no
agent runs on, a connection that stalls without ending.

## Runs

| run | question | bounds |
|---|---|---|
| `broker_races` | every interleaving of one request, one stray connection and shutdown; safety invariants, the inductive invariant of the proofs and the refinement of `PaneLedger` | 1 wrapper, 1 probe, 2 slots for 3 connections, Zellij, failures held |
| `broker_live` | Close returns; a closed pane ends its wrapper; after shutdown helpers end, except one that holds a failed debugger in an open pane | 1 wrapper, closable provider whose `Close` may fail, failures held |
| `session_races` | leases and locks keep working sessions visible, and stop and clean alone | 2 sessions with different options, a clean with or without `--remote` and a `stop`, one session may be killed, stop's deadline may pass, the Mutagen session may be terminated by hand, 3 Mutagen sessions, no pause on idle (the next two runs have it) |
| `session_faults` | the saved state names what sessions use; what clears the retention mark; a signalled session ends; lifecycle locks are released | 2 sessions, a clean with or without `--remote` that may be killed, every Mutagen, remote and disk failure |
| `session_hosts` | the processes implement `HostUse`, by the invariant `HostUseInv` | a session on each of 2 hosts (one may be killed), `host remove --force`, `host add`, `sync`, 2 endpoints; stop and clean are in the two runs above |
| `shell_races` | input is neither lost nor repeated, held commands see saves, prompts follow artifacts, `Run` returns | 5 configurations: predicting and plain SSH, Mosh, Mosh without its server, a failing barrier; 2 or 3 typed bytes, 1 save, 1 artifact, 1 failure |
| `shell_mosh` | (violation) the DEBUG trap is spent before the command | Mosh, 2 bytes, 1 save |
| `algorithms` | the byte machines against what they mean | every stream of 4 to 7 bytes over 4 or 5 letters, in every division into reads of up to 4 |
| `recovery_faults` | visible archives are whole, but one whose stale tombstone a prune was removing; what a removal discards without a backup came after its last look; every report is true; agents and commands end | 95 scenarios of one or two commands on 2 paths (a file and a directory), 0 to 2 edits, 0 to 2 older archives, each fault once, alone or in pairs |
| `recovery_local_edit` | (violation) an edit after the local copy is discarded | 1 edit |
| `transport` | agents are whole; what a client that lost no answer uploaded, forwarded or published is reclaimed; no client ends the master of another's foreground command | 8 scenarios of up to 3 clients, 3 shared masters, 3 agent versions, 1 fault of any kind, 1 unused agent kept |
| `bootstrap` | a rerun resumes, success means ready, reports are true, consent and `--no-sudo` are kept | 20 hosts and recipes, 2 attempts with 1 fault, or 3 with 2 where resuming is hard |

One wrapper is enough for the races of `finish`, `cancel`, `fail`, the late
close and `close()`, because they all work on one request; the stray connection
adds a competing `exited` and uses up slots. Two wrappers are what it takes to
reach the pane, rate and connection limits and to let the end of one request
meet the life of another: `OwnershipHolds` proves the safety results for any
number of them.

For the sessions, two of them and one or two other commands are enough to put
every pair of critical sections against each other while a third process holds
or waits for a lock; a session with other options is what it takes to replace a
Mutagen session, a killed one to leave a stale lease.

Three bytes are a command typed ahead of the one that runs, or a paste of one
newline; the controller treats bytes one at a time and forgets a line once it is
delivered. A recovery command works on one path after another, and what a second
path adds is that the first already has an entry or a copy; a third archive adds
nothing to two of which one is kept. The agent keeps two unused versions, the
instance one, so that a third version is enough to have one removed.

Deadlock is checked except in the broker, the shell and the algorithms, where
the system ends (`CHECK_DEADLOCK FALSE`); elsewhere a disjunct of `Next`
(`Terminated`, `Over`) is the only way to stop.

### Fairness

Goroutines run (`WF` on every handler's steps and on `close()`): every blocking
call they make has a deadline (handshake, provider open and close) or is ended
by the cancelled lifecycle context or a closed socket; the exception, a flock that
`a.barrier` takes without a context inside `BeforeOpen`, is assumed to be released. The helper's steps that
need no user are fair, and so is a wrapper's reaction to a verdict, an end of
stream or its own deadline. Nothing is assumed of users, debuggers, signals or
new connections.

In `SessionLifecycle` a process that holds what it needs goes on (`WF` on
`Step`), a flock is granted to a waiter that keeps asking while it is released
again and again (`SF` on `Waiting`; the kernel queues waiters), and a session
that was signalled, whose context is cancelled, does not take barriers for ever
(`SF` on `Finish` once `signalled`). Nothing is assumed of when users start or
end commands, nor of the lifecycle lock's waiters.

In `ShellProxy` the output goroutine runs (`WF`): its reads and its barriers, which
have a deadline, are all it waits for. In `ConflictRecovery` the running command and
each agent are scheduled; reads of a stream end because the peer sends, ends or
the connection is cut. In `Transport` a client goes on with its next ssh command
(each has a timeout or ends with its context). In `Bootstrap` the agent, and the
command that follows it, make progress. Users, faults and Mutagen owe nothing.

## Proofs

Every theorem is about all values of the constants that the named assumptions
of its modules allow: any number of processes, wrappers, hosts, masters, paths
and commands. A theorem that needs more says so as a hypothesis, and the reason
is given here. An invariant of a proof was first checked by TLC on the run of its
module.

### Broker (`BrokerProofs`, `LedgerProofs`)

* `TypeCorrect`: `Spec => []TypeOK`, one lemma per group of actions.
* `OwnershipHolds`: `Ownership` is inductive relative to `TypeOK`. HeldOwned,
  CloseAtMostOnce and OneVerdict are not inductive by themselves: that a second
  `Provider.Close` cannot happen depends on a request being either in the table
  (`TableSound`), in the snapshot of `close()` (`DoomedSound`) or with exactly
  one goroutine (`OneWorker`), on where its opener stands when it has a handle
  (`HandleSound`), and on the account of its pane (`PaneAccount`); that it is
  answered once, on nobody answering it before it is removed (`Unanswered`).
  The two workhorses are `BenignKeeps` (a step that moves goroutines but takes
  nothing) and `TakeKeeps` (the critical section that removes a request); the
  actions that change an owner have a lemma each.
* `ClosedAtMostOnce`, `AnsweredOnce`: consequences.
* `PanesOwned`: with `PaneFates`, a second inductive invariant (`FatesMove`): a pane
  that is open has a fate, the handle of an `Open` that failed is never stored, and
  only a wrapper whose pane has a stored handle is told "opened". The part of
  `Ownership` it needs is `HeldOwned`.
* `SlotsBalanced`: `SlotsInv`, which adds to `SlotsBalance` that the goroutines
  that hold a slot are finitely many (there may be infinitely many connections);
  a step takes or gives back the slot of one connection, and the cardinality
  follows.
* `NobodyForgotten`: in words of its own, whoever `Waits` is `Attended`. A step
  may end one way of being attended only by starting another: `Take` removes the
  request and leaves the taker with it (`victim`), `Notify` answers, `close()`
  detaches and then hangs up. `Ownership` gives that the table, the snapshot and
  the goroutines do not speak of each other's requests.
* `ClosedBrokerIsQuiet`: `Shutdown` (sockets that were shut stay shut; once
  `close()` has returned no goroutine runs and its snapshot is empty), with
  `Ownership` for what the requests owe.
* `LedgerImplemented`: `Spec => ImplementsLedger`, an acquisition for
  `OpenCreates`, a release for `ClosePane` and its like, an answer for `Notify`,
  a stutter for the rest; `CloseWait` is the ledger's shutdown, for which it
  must be true that no pane is still owed.

These assume `ConstantsAssumption`. `SlotsBalanced` and `TypeCorrect` need nothing more;
the others also assume `UniqueIds`: the ids the wrappers draw (128 random bits) differ. The assumption is needed: `fail`, `finish`
and `cancel` go by id, and with two wrappers sharing one id TLC finds a failed
barrier of the first removing the request of the second.

### Sessions (`SessionProofs`)

* `SessionTypeCorrect`: `Spec => []TypeOK`, one lemma per action.
* `HostUseInvariant`: `HostUseInv` is inductive relative to `TypeOK`. That a
  session joins only where nobody is at work follows from what its processes
  hold (`HostHeld`: a start, a scan, a wait and the work after it hold the
  lifecycle lock; `Started`: a record is published and withdrawn under the
  lease), and that stop, clean and host remove miss nobody from what their scans
  have seen (`Seen`, `ProbesOther`: no process ever tests the lease of a live
  session, nor its own); `Placed` tells which command a process is. `Follows`
  says when a step that only moves a process keeps all of it (`GotoKeeps`);
  returning and being killed are one lemma (`QuitKeeps`); every step that takes a
  lock, publishes a record or scans has its own.
* `LeasesGuardRecords`, `StopFindsAll`: its consequences.
* `HostUseImplemented`: `Spec => HU!Spec`. The same lemmas show that each step
  is one of `HostUse`: `Publish` is `Join`, `Unpublish` and a session's return
  `Leave`, the end of a scan or a wait `Begin`, a command's return `End`,
  `AddHost` `Register`, `RemoveHost` `Retire`, the rest stutter.
* `WorkStaysOnRecord`: `RecordInv`. A session past `SaveState` has its identifier
  and its retention mark on disk, because whoever could write them back without
  (a clean, another start) either holds the lifecycle lock the session started
  under or, by `StoppedMeansQuiet`, works while no session does.
* `RootsAreKept`: `RootKept`, from the same quiet. Its hypothesis is that nobody
  deletes the remote root by hand (`"loseRoot" \notin Faults`).
* `RetentionStaysHonest` (an action property): a process knows the endpoint its host
  had when it loaded the project, and a clean that saves without `--remote` writes
  back the mark it loaded, so it clears one only if a session set it after that; one
  with `--remote` has removed the root it knows. The property names that exception;
  `MarkStandsForRoot` does not, and TLC refutes it (see "Further disagreements").

The others assume `LifecycleAssumption` only: any set of faults, kills anywhere.

### Shell (`ShellProofs`)

* `ShellTypeCorrect`: `TypeInv`, which is `TypeOK` in the words a proof can use,
  one lemma per action.
* `InputIsAccounted`: `PlacesInv`. A byte is in one place: delivered, held, in the
  replay, with a goroutine, or refused; each place holds it once, together
  they are what was read. `newline` may be the same Enter in both goroutines only
  when it is none.
* `BarriersKeepTheirPromise`: `SavesInv` follows an Enter from its barrier to the
  line that ran; `ArtifactsInv` follows a prompt from bash to the screen. Over SSH
  the marker travels in front of the prompt and the barrier runs between the two
  (`PromptIsBehind`); over Mosh the barrier runs in the hook, before the prompt
  is written.
* `PromptIsDisciplined`: `TurnInv`, for a user who types at a displayed prompt only.
  One of four turns (`Away`, `After`, `At`, `Held`) is the controller's, and what
  the goroutines (`EnterTurn`), the screen (`OutputTurn`) and bash (`BashTurn`)
  may be doing follows from it. The delicate part is `InStep`: what readline
  takes for a bracketed paste, at the first byte it has not read, agrees with
  what the controller's tracker saw of the whole input, so that bash submits a
  line exactly at the Enter for which a barrier ran.

### Transport (`TransportProofs`)

* `TransportTypeCorrect`.
* `MastersOutliveUsers` (an action property): `SharedInv`. One client at a time
  starts a master, at a free path (`StartupInv`); a stop runs while no session
  of the workspace does (`StopInv`, the guard that `SessionLifecycle` proves); a
  live master without a control path is one whose path was replaced
  (`UpMeansReachable`).
* `NothingIsLeftBehind`, `BrokersAreReachable`: `SessionInv`. Every forward, and
  every relay whose address is published, is one its session knows of and will
  cancel, or an answer about it was lost (`ForwardsInv`, `RelaysInv`); an address
  that is published is backed by the forward and relay it names (`AddressInv`).
  Killed clients and those in `trouble` are excepted, and so is a relay that was
  not ready in time: its script exits with socat running and no `RelayPIDFile`
  (transport.go:535-540), the session goes on to its next choice, and nobody ends it.
  `MastersOutliveUsers` is about foreground channels, which a Mosh session has none of.
* `AgentsAreUsable`: `AgentInv`. What a client verified or installed is in the
  store, or another version's pruning took it: its own never does.

They assume `TransportAssumption`.

### Recovery (`RecoveryProofs`)

The control of commands and agents comes first: where each script position is
(`CommandInv`, `LocalsInv`), what users and Mutagen may do (`EndsInv`: versions
never pass `MaxVersion`), and what an agent's phases mean (`AgentsInv`).

* `PreservedIsPreserved`: `PreservedInv`. An agent that may remove has an
  acknowledgement, and one that is acknowledged has a client that reports
  nothing weaker than "uncertain".
* `ReportsAreTrue`: of a prune, `PruneInv` and `ReportInv` keep what each status
  says of the archive's place, `CondemnedInv` that no other archive moved; of a
  restore, `RestoreInv`: what was delivered was digested twice and is whole; of a
  verification, `VerifyInv`: a damage that was there at the beginning stays
  (`Damaged`) and is met before the end.
* `StoreIsSound`: `SoundInv`, every archive that is visible, or would be after a
  power loss (`Exposed`), names only copies that are whole, synced and equal to
  what the manifest says. For the archive being filled that is `FillInv`: a copy is
  recorded after its files and directories were synced and digested (`DigestInv`),
  and what arrives from the remote host is whole when its trailer agrees (`StreamInv`:
  `WireOK` relates what was extracted, what is on the wire and where the agent
  stands). For the ones being pruned it is `TombstoneInv`: the renaming is durable
  before the tree is touched.

`StoreSound` has one exception, in `halved`: an archive whose tree a prune has begun
to remove as a stale tombstone while its renaming was not on the disk (a kill or a
disk error left it so), which a power loss brings back half there. `HalvedStep` shows
that nothing but `CleanTombstone` makes an archive one of these. No scenario is
left out for it, in the proof or in the run; `HiddenBeforeReclaimed`, the statement
without the exception, is refuted (see "Further disagreements"). The
theorems of both modules assume `RecoveryAssumption` and `CatalogAssumption`: finitely many paths,
none of which is the sentinel `"nobody"`, and bounds with room for the archives and
versions that the commands and edits of a scenario make.

What a reader of a file sees follows its open handle: a file rewritten in place during
the read is noticed (`Changed`), one that was replaced or removed by its path is read to
its end from the old object (`Displaced`), and the last `Lstat` before the removal is what
notices it. A directory that is moved away whole while it is read is treated as if it had
moved after the reading.

### What removals lose (`LossProofs`)

`OnlyTheWindowLoses` follows the arrival time of every file of a losing side from
the last look at it to its removal. `Window` says that a step only brings files that
arrive later than the clock, or takes some away; so what was looked at is still what
is there, unless it came later (`StaysLooked`).

* The local loser: `WindowInv`, the copy, and later the recorded digest, is of what
  was at the path but for what came since the copy was begun; `FiledInv`, the
  copy is durable, recorded and catalogued before the removal.
* The remote loser: `SeenInv` and `RereadInv`, what the agent read again is what
  is there but for what came since, and equals what it read first; `StreamedInv`,
  what the client wrote and recorded is what the agent read first (`Agrees`
  follows it along the wire); `BackupInv`, while an agent is committed to its removal a
  visible, durable, synced and catalogued archive has that record.

The last one is where the commands meet: the agent outlives a killed client. Its
backup survives power losses (`PowerSpares`), later resolutions (`HoldKept`) and
prunes, because the newest archive is never selected (`LastSpared`) and the backup is the
newest unless another resolution has begun. The hypothesis `NoLatePrune` leaves out
the scripts in which a prune follows a resolution that follows one for the local side:
there the loss is real (see "Further disagreements"). All scripts of `Recovery`'s
runs satisfy it.

### Bootstrap (`BootstrapProofs`)

`BootstrapAssumption` says that the scenarios are members of `Setting`, that their
recipes resolve, that the pwndbg that is active at the beginning is whole (as
bootstrap leaves it) and that only apt leaves an interrupted package database. The
recipe, the host, the package manager, the extra packages (`Extra`), the number of
attempts, faults and buffered events are arbitrary.

* Plans: the steps have a place (`Rank`), every plan is a rising sequence of them,
  and which ones it has is a condition each (`StepsShape`). `filterUserSteps` is a
  `SelectSeq`, which the library defines by recursion: `RoundsKeep` follows its loop
  by induction over the set of the rounds for which the claim holds.
* `BootstrapHostSound`: `ControlInv`. An agent that is attached, or of an attempt
  nothing disturbed, is the running attempt's; an agent's plan is legal (no step
  under sudo with `--no-sudo`, the group only with consent and behind its daemon); and
  what a step, complete, interrupted or beside another agent's, makes of the host
  (`HostMoves`) keeps `HostInv`.
* `BootstrapCompletedIsTrue`: `ReportInv`. What the command has heard (`Heard`) and
  what is on the way (`Unheard`) are the ends of the agent's steps, in the plan's
  order; when every event was read, all of them (`Exact`).
* `BootstrapSuccessIsReal` and `BootstrapUndisturbedSucceeds`: `CleanInv`. In an
  attempt nothing disturbs every step that has ended has its effect (`Effects`) and
  none takes away what another did or what was healthy before (`Keeps`), though
  rebuilding the environment takes away most of it; a step fails only for want of the
  Debian venv package. So after the last step everything is healthy, if the host can be prepared
  (`PreparedIsHealthy`), and a host on which everything is healthy needs no step
  (`HealthyIsSettled`). The hypotheses of the two properties, an undisturbed attempt,
  `Preparable` and not `VenvStarved`, are theirs, not the theorems': with the last one gone
  TLC refutes `ResumeSucceeds` (see "Further disagreements").

### Only model-checked

* The liveness properties: the prover has no rule for fairness.
* `TerminalStreams`: it compares recursive operators.


## Findings

Each is a run TLC ends with a counterexample to what the documentation says.

1. `PromptCommandsObserveSaves` (architecture.md:204, configuration.md:300-302):
   over Mosh the trap that is to synchronize before the next command fires for
   the `return` of the function that sets it (agent.go:953-954), runs its barrier
   while the prompt is being prepared, and clears itself (942). The next command
   starts without a barrier.
2. `NothingDiscarded` (architecture.md:27-28): with `--prefer remote` the local
   loser is copied, the copy recorded, and whatever is at the path then removed
   (root.go:1539), an edit saved in between included. The agent compares before
   it removes a remote loser; `LossWindow` says what that leaves.

### Further disagreements

The modules also define these properties. No run is kept for them; put one of
them alone in a copy of the named configuration, with these constants, to see it
refuted. "Races" stands for `SessionRaces` with `Sessions = {s1, s2}`,
`Admins = {}`, `Bridged = {s1, s2}`, `Ignores <- SameIgnores`, `Frail = {}`,
`Faults = {"mutagen"}`; "Cleans" for `SessionRaces` with `Sessions = {s1}`,
`Admins = {a1, a2}`, `Frail = {}`, `Faults = {"remote"}`.

| property | configuration | what happens |
|---|---|---|
| `CleanupNotSuppressed` (audit-log.md:246-248) | `BrokerRaces` | `Zellij.Open` cleans up with the context that was just cancelled |
| `KeepPolicy` (terminal-providers.md:42) | `BrokerRaces`, `CloseOnSuccess = FALSE` | a debugger that exits before `Open` returns has its pane closed although `close_on_success` is off |
| `PaneLimit` (security.md:77) | `BrokerRaces`, `Wrappers` and `Ids` `{w1, w2}`, `Probes = {}`, `MaxConnections = 3`, `Provider = "closable"` | the cap counts requests in the table, not panes |
| `HeldHelpersEnd` (broker.go:691-693) | `BrokerLive` | a held pane does not watch the broker connection and outlives the session when its pane is not closed; with `Provider = "window"`, whose `Close` never closes one, always |
| `ManualCloseReachesWrapper` (pwntools.md:99) | `BrokerLive` | a pane closed before its helper has dialled never cancels the wrapper |
| `OneSync` (README.md:278-279) | Races | a first start that fails after `sync create` leaves a Mutagen session whose identifier was never saved |
| `IdentityOnce` (architecture.md:139-140) | Races | the state is read before the lock that is to serialise identity initialisation: two first starts create two Mutagen sessions |
| `PauseOnlyWhenLast`, `IdleIsPaused` (configuration.md:183) | Races | the "final lease" is looked for without a lock: synchronization is paused under a session that just started, or by neither of two that close together |
| `CleanTerminates` (README.md:327) | Cleans, `Admins = {a1}`, `Kind <- Clean`, `Faults = {}` | clean acts on, and writes back, a state it loaded before it waited for the lifecycle lock |
| `CleanCanRerun` (troubleshooting.md:453-454) | Cleans, `Kind <- Clean` | clean terminates first and saves last, and cannot get past a Mutagen session that is gone |
| `MarkStandsForRoot` (architecture.md:126) | `SessionFaults` | a clean without `--remote` writes back the state it loaded before the session whose root it is set the mark |
| `RetiredRootGone` (README.md:328-329) | Cleans, `Kind <- CleanRemove` | clean writes back a retention mark it loaded too early, and host remove forgets the remote root |
| `CommandsObserveSaves` (README.md:15-17) | `ShellRaces`, `Settings <- LongInput`, `MaxTyped = 4` | an Enter typed ahead while a program runs is passed through, and the command it starts sees no barrier |
| `InputOrder` (architecture.md:199) | the same | bytes held behind an Enter are replayed at the prompt, behind bytes typed later |
| `UnverifiedRestoreWhole` (architecture.md:156-157) | `RecoveryFaults` | what an interrupted first copy left is listed as an entry of the old layout, without a digest, and restored torn (recovery.go:716-721, 768) |
| `KeepLastKeepsBackups` (README.md:318-320) | `RecoveryFaults` | such a leftover counts as the newest archive, and the last real backup is pruned |
| `HiddenBeforeReclaimed` (recovery.go:445-447) | `RecoveryFaults`, `Settings <- StalePrune` | a kill or a disk error leaves a tombstone whose renaming is not durable; the next prune removes its tree, and a power loss during that brings back a visible archive without its copies |
| `LossWindow` (architecture.md:27-28) | `RecoveryFaults`, `Settings <- LatePrune`, `MaxCommands = 3`, `MaxVersion = 7` | an agent whose client was killed behind its acknowledgement lingers while a later command prunes its archive, and then removes the loser without a backup |
| `OpenKeepsBroker` (transport.go:563) | `Transport`, `Settings <- Idle` | over Mosh no channel keeps the shared master alive; its timer ends it and the broker's forward with it |
| `CleanupCancelsForward` (architecture.md:276) | `Transport`, `Settings <- Sharing` | a session whose master's path was replaced cannot reach it to cancel its forward |
| `OpenKeepsAgent` (architecture.md:314) | `Transport`, `Settings <- Mixed` | another version's pruning removes the agent of an open session that runs no agent process at that moment |
| `ResumeSucceeds` (bootstrap.go:203) | `Bootstrap`, `Settings <- Debian` | a Debian python without its venv package counts as healthy, and no attempt installs it |
| `OkayMeansDaemon` (planner.go:270-283) | `Bootstrap`, `Settings <- RootDocker` | for root docker is healthy as soon as the program is there: after an attempt that failed behind its packages no plan enables the daemon |
| `OkayMeansWrapper` (pwntools.md:116-117) | `Bootstrap`, `Settings <- BrokenVenv` | rebuilding the environment removes the pwndbg wrapper of a pwndbg that is healthy |
| `OkayMeansChecked` (security.md:302) | `Bootstrap`, `Settings <- OldWizard` | an attempt that fails at `pip check` leaves an environment the next one takes for healthy |
| `RetryReviewed` (installation.md:170-171) | `Bootstrap`, `Settings <- OldWizard` | a retry applies the plan it builds anew, which the user has not seen |
| `NoSudoNamed` (troubleshooting.md:206) | `Bootstrap`, `Settings <- NixDocker` | nix counts as unprivileged, so the preflight lets docker through; `filterUserSteps` then drops its group step, and only the postflight, after the other steps have run, finds docker unready |

Smaller things met while modelling, for which no property was written:

* A failed copy of a nested path leaves its empty parent directories in the
  archive, where they are listed as an entry of the old layout.
* If the user deletes the loser, or makes it equal to the winner, during a
  resolution, Mutagen settles the conflict, and the removal takes the winner's
  propagated copy.
* A file edited at a restore's destination between the copy and its second
  digest is removed with the mismatch (recovery.go:905-911).
* The directory entry of a project's recovery root is never synced, and a prune
  whose rollback fails to sync may be undone by a power loss.
* A cancelled `ssh -O forward` that was already sent, a relay script that is cut off or
  times out and a cancelled `mktemp` each leave what they made; a master that hangs
  blocks `-O check` without a deadline (transport.go:381).
* With yum, `patching` maps to patchelf only. An inventory reports the pinned
  version for any installed pwndbg, so none is ever upgraded. An event line that
  two reads divide during the sudo dialogue is lost.

## Not modelled

Configuration, the wire protocol, portable recipes, version and paths are parsing
and validation of data, with hardly any control to check. Diagnostics and support
reports only read. The subprocess helper is pure I/O. The terminal user
interface of bootstrap is modelled by what its user decides, not by its screens.
Of the agent, `exec`, `cleanup`, snapshots and the remote tmux panes are left;
of the CLI, `runtime reset`, the default host and project bindings.

## Plan

In order of importance:

1. `Runtime`: containers by session id, half-started and left behind.
2. Atomic file replacement under crashes, as the disk of `SessionLifecycle`.
3. Project bindings and the default host against `host remove`.

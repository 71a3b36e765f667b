------------------------------- MODULE Transport -------------------------------
(***************************************************************************)
(* The SSH side of pwnbridge (internal/transport): the control master that *)
(* the sessions of a workspace share, the reverse forward each of them     *)
(* adds to it for its debugger broker, the private masters of previews and *)
(* recovery commands, and the content-addressed agent that every client    *)
(* installs on the remote account and prunes there.                        *)
(*                                                                         *)
(* A client is one pwnbridge process: a "session" (startSession and Close  *)
(* of internal/cli/root.go), a "preview" (startAgentControl of             *)
(* internal/cli/conflict_diff.go) or a "stop" (the end of stop and clean). *)
(* OpenSSH and the remote account are external: what a master does is      *)
(* modelled from how the client uses it.  Remote commands may fail or lose *)
(* their answer, contexts may be cancelled, masters may end and clients    *)
(* may be killed: each such fault is taken from a budget.                  *)
(***************************************************************************)
EXTENDS Integers, Sequences, FiniteSets

CONSTANTS
  Clients,     \* the processes
  Digests,     \* agent executables, named by their SHA-256
  Kept,        \* unused agents that pruning keeps (2 in the code)
  MaxMasters,  \* bound on the shared masters ever started
  Settings,    \* the scenarios: who runs, what is installed, which faults occur how often
  None

ASSUME TransportAssumption ==
  /\ Kept \in Nat /\ MaxMasters \in Nat
  /\ None \notin Digests \cup Clients \cup {"stream", "tcp", "relay"}
  /\ None \notin 1..MaxMasters
  /\ \A s \in Settings :
       /\ s.kind \in [Clients -> {"session", "preview", "stop", "absent"}]
       /\ s.carries \in [Clients -> Digests] /\ s.limit \in Nat
       /\ s.installed \in Seq(Digests)       \* newest first
       /\ \A i, j \in DOMAIN s.installed : s.installed[i] = s.installed[j] => i = j
       /\ s.damaged \subseteq {s.installed[i] : i \in DOMAIN s.installed}
       /\ {s.stream, s.tcp, s.socat, s.mosh, s.container} \subseteq BOOLEAN

VARIABLES
  setting, budget,
  pc,         \* pc[c]: the next call of client c
  cancelled,  \* clients whose context has ended
  startup,    \* holder of the startup lock of the shared control directory
  socket,     \* the master whose socket is at the shared control path, or None
  master,     \* master[m]: "none", "up" or "gone"
  severed,    \* live masters whose path somebody removed
  forwards,   \* reverse forwards: [on |-> master, client, kind]
  channel,    \* channel[c]: the master the foreground channel of c uses
  spec,       \* spec[c]: Master.ForwardSpec, the kind of forward or None
  address,    \* address[c]: Master.BrokerAddress
  pidFile,    \* clients with a RelayPIDFile
  relays,     \* clients whose socat relay runs on the host
  via,        \* via[c]: the master c's forward was added to
  private,    \* private[c]: the process of a private master
  store,      \* agent directories on the host
  newer,      \* their order: <<d, e>> when d's was modified after e's
  bin,        \* bin[d]: what the executable of digest d contains
  uploads,    \* uploads[c]: the temporary upload of c, or None
  running,    \* running[c]: the agent executable c runs on the host
  doomed,     \* doomed[c]: what the pruning script of c is about to remove
  pruned,     \* digests removed by a client that carries another one
  deployed,   \* clients whose DeployAgent succeeded
  trouble     \* clients that lost the answer of a command

control == <<startup, socket, master, severed, forwards, channel, via>>
broker == <<spec, address, pidFile, relays>>
host == <<store, newer, bin, uploads, running, doomed, pruned, deployed>>
vars == <<setting, budget, pc, cancelled, control, broker, private, host, trouble>>

Masters == 1..MaxMasters
Kind(c) == setting.kind[c]
Digest(c) == setting.carries[c]
Goto(c, l) == pc' = [pc EXCEPT ![c] = l]
Spend(f) == f \in setting.faults /\ budget > 0 /\ budget' = budget - 1

\* The master that answers on the shared control path.
Reachable == IF socket # None /\ master[socket] = "up" THEN socket ELSE None

(***************************************************************************)
(* A command under the client's context: it runs and answers, it runs and  *)
(* its answer is lost, or it does not run.                                 *)
(***************************************************************************)
Answered(c) == c \notin cancelled /\ UNCHANGED <<budget, cancelled, trouble>>
Lost(c) ==
  /\ c \notin cancelled
  /\ \/ Spend("cut") /\ UNCHANGED cancelled
     \/ Spend("cancel") /\ cancelled' = cancelled \cup {c}
  /\ trouble' = trouble \cup {c}
Unsent(c) ==
  /\ \/ c \in cancelled /\ UNCHANGED budget
     \/ c \notin cancelled /\ Spend("cut")
  /\ UNCHANGED <<cancelled, trouble>>

\* A command of a cleanup: its context is its own, only the network can fail it.
Cleaned(c) == UNCHANGED <<budget, cancelled, trouble>>
NotCleaned(c) ==
  Spend("cut") /\ trouble' = trouble \cup {c} /\ UNCHANGED cancelled

\* Where a failing client goes once it has a master.
Abort(c) == IF Kind(c) = "session" THEN "killRelay" ELSE "exit"

Init ==
  /\ setting \in Settings
  /\ budget = setting.limit
  /\ pc = [c \in Clients |-> IF Kind(c) = "absent" THEN "done" ELSE "idle"]
  /\ cancelled = {} /\ trouble = {}
  /\ startup = None /\ socket = None /\ severed = {} /\ forwards = {}
  /\ master = [m \in Masters |-> "none"]
  /\ channel = [c \in Clients |-> None] /\ via = [c \in Clients |-> None]
  /\ spec = [c \in Clients |-> None] /\ address = [c \in Clients |-> None]
  /\ pidFile = {} /\ relays = {}
  /\ private = [c \in Clients |-> "none"]
  /\ store = {setting.installed[i] : i \in DOMAIN setting.installed}
  /\ newer = {p \in store \X store : \E i, j \in DOMAIN setting.installed :
                i < j /\ p = <<setting.installed[i], setting.installed[j]>>}
  /\ bin = [d \in Digests |-> IF d \in setting.damaged THEN "partial"
                              ELSE IF d \in store THEN d ELSE None]
  /\ uploads = [c \in Clients |-> None] /\ running = [c \in Clients |-> None]
  /\ doomed = [c \in Clients |-> {}] /\ pruned = {} /\ deployed = {}

(***************************************************************************)
(* Clients begin.  stop and clean close the shared master while no session *)
(* of the host starts or runs and keep new ones out                        *)
(* (SessionLifecycle!StoppedMeansQuiet).                                   *)
(***************************************************************************)
Stopping == \E c \in Clients : pc[c] = "stopShared"
Quiet == \A c \in Clients : Kind(c) = "session" => pc[c] \in {"idle", "done", "dead"}

Begin(c) ==
  /\ pc[c] = "idle"
  /\ \/ Kind(c) = "session" /\ ~Stopping /\ Goto(c, "startup")
     \/ Kind(c) = "preview" /\ Goto(c, "spawn")
     \/ Kind(c) = "stop" /\ Quiet /\ ~Stopping /\ Goto(c, "stopShared")
  /\ UNCHANGED <<setting, budget, cancelled, control, broker, private, host, trouble>>

\* The user interrupts the command, or the parallel synchronization fails.
Cancel(c) ==
  /\ Spend("cancel") /\ c \notin cancelled /\ Kind(c) # "absent"
  /\ pc[c] \notin {"idle", "open", "done", "dead"}
  /\ cancelled' = cancelled \cup {c}
  /\ UNCHANGED <<setting, pc, control, broker, private, host, trouble>>

(***************************************************************************)
(* StartSharedControlMaster.                                               *)
(***************************************************************************)
\* Mutant of LockStartup: the startup lock is not taken.
LockStartupFree(c) ==
  /\ pc[c] = "startup" /\ startup' = startup /\ Goto(c, "check")
  /\ UNCHANGED <<setting, budget, cancelled, socket, master, severed, forwards, channel, via,
                 broker, private, host, trouble>>
LockStartup(c) ==
  /\ pc[c] = "startup" /\ startup = None
  /\ startup' = c /\ Goto(c, "check")
  /\ UNCHANGED <<setting, budget, cancelled, socket, master, severed, forwards, channel, via,
                 broker, private, host, trouble>>

\* controlMasterRunning under the client's context: a cancelled check says no.
Check(c) ==
  /\ pc[c] = "check"
  /\ \/ /\ c \notin cancelled /\ Reachable # None
        /\ startup' = None /\ Goto(c, "verify") /\ UNCHANGED <<budget, cancelled>>
     \/ /\ \/ (c \in cancelled \/ Reachable = None) /\ UNCHANGED <<budget, cancelled>>
           \/ c \notin cancelled /\ Spend("cancel") /\ cancelled' = cancelled \cup {c}
        /\ Goto(c, "stat") /\ UNCHANGED startup
  /\ UNCHANGED <<setting, socket, master, severed, forwards, channel, via, broker, private, host, trouble>>

Stat(c) ==
  /\ pc[c] = "stat"
  /\ Goto(c, IF socket = None THEN "launch" ELSE "unlink")
  /\ UNCHANGED <<setting, budget, cancelled, control, broker, private, host, trouble>>

\* The socket is taken for stale and removed; it may have gone in the meantime.
Unlink(c) ==
  /\ pc[c] = "unlink"
  /\ \/ /\ socket # None /\ socket' = None
        /\ severed' = severed \cup ({Reachable} \ {None})
        /\ Goto(c, "launch") /\ UNCHANGED startup
     \/ /\ socket = None
        /\ Goto(c, "done") /\ startup' = None /\ UNCHANGED <<socket, severed>>
  /\ UNCHANGED <<setting, budget, cancelled, master, forwards, channel, via, broker, private, host, trouble>>

\* ssh -M -N -f: a second master on an existing path runs without multiplexing.
Launched(m) ==
  /\ master[m] = "none" /\ \A n \in 1..(m - 1) : master[n] # "none"
  /\ master' = [master EXCEPT ![m] = "up"]
  /\ socket' = IF socket = None THEN m ELSE socket
Launch(c) ==
  /\ pc[c] = "launch"
  /\ \/ /\ Answered(c) /\ (\E m \in Masters : Launched(m))
        /\ Goto(c, "ready") /\ UNCHANGED startup
     \/ /\ Lost(c) /\ (\E m \in Masters : Launched(m))
        /\ Goto(c, "done") /\ startup' = None
     \/ /\ Unsent(c)
        /\ Goto(c, "done") /\ startup' = None /\ UNCHANGED <<master, socket>>
  /\ UNCHANGED <<setting, severed, forwards, channel, via, broker, private, host>>

Ready(c) ==
  /\ pc[c] = "ready"
  /\ Goto(c, IF c \in cancelled \/ Reachable = None THEN "done" ELSE "verify")
  /\ startup' = None
  /\ UNCHANGED <<setting, budget, cancelled, socket, master, severed, forwards, channel, via,
                 broker, private, host, trouble>>

\* StopSharedControlMaster: an unreachable master's socket is left with an error.
StopShared(c) ==
  /\ pc[c] = "stopShared" /\ Goto(c, "done")
  /\ \/ /\ (Answered(c) \/ Lost(c)) /\ Reachable # None
        /\ master' = [master EXCEPT ![socket] = "gone"] /\ socket' = None
        /\ forwards' = {f \in forwards : f.on # socket}
     \/ /\ \/ Reachable = None /\ UNCHANGED <<budget, cancelled, trouble>>
           \/ Unsent(c)
        /\ UNCHANGED <<master, socket, forwards>>
  /\ UNCHANGED <<setting, startup, severed, channel, via, broker, private, host>>

(***************************************************************************)
(* PrepareAgent and DeployAgent.                                           *)
(***************************************************************************)
Present(c) == bin[Digest(c)] = Digest(c)

\* One channel verifies the cached agent's digest and then executes it.
Verify(c) ==
  /\ pc[c] = "verify"
  /\ \/ Answered(c) /\ Goto(c, IF Present(c) THEN "probe" ELSE "present")
     \/ Unsent(c) /\ Goto(c, Abort(c))
  /\ UNCHANGED <<setting, control, broker, private, host>>

Probe(c) ==
  /\ pc[c] \in {"probe", "reprobe"}
  /\ \/ Answered(c) /\ Goto(c, IF bin[Digest(c)] # None THEN "mkdir" ELSE Abort(c))
     \/ Unsent(c) /\ Goto(c, Abort(c))
  /\ UNCHANGED <<setting, control, broker, private, host>>

\* A deployment that finds its agent installed returns at once; every error of
\* the check means "not present".  (The platform probe before it only reads.)
FindPresent(c) ==
  /\ pc[c] = "present"
  /\ \/ /\ Answered(c) /\ Present(c) /\ deployed' = deployed \cup {c}
        /\ Goto(c, IF Kind(c) = "session" THEN "reprobe" ELSE "use")
     \/ /\ (Answered(c) /\ ~Present(c)) \/ Unsent(c)
        /\ Goto(c, "mktemp") /\ UNCHANGED deployed
  /\ UNCHANGED <<setting, control, broker, private, store, newer, bin, uploads, running, doomed, pruned>>

\* mkdir -p of the agent's directory and mktemp of the upload.
Touched(d) ==
  /\ store' = store \cup {d}
  /\ newer' = {p \in newer : d \notin {p[1], p[2]}} \cup ({d} \X (store \ {d}))
Reserve(c) ==
  /\ IF Digest(c) \in store THEN UNCHANGED <<store, newer>> ELSE Touched(Digest(c))
  /\ uploads' = [uploads EXCEPT ![c] = "empty"]
MakeTemp(c) ==
  /\ pc[c] = "mktemp"
  /\ \/ Answered(c) /\ Reserve(c) /\ Goto(c, "upload")
     \/ Lost(c) /\ Reserve(c) /\ Goto(c, Abort(c))
     \/ Unsent(c) /\ Goto(c, Abort(c)) /\ UNCHANGED <<store, newer, uploads>>
  /\ UNCHANGED <<setting, control, broker, private, bin, running, doomed, pruned, deployed>>

\* scp reads the asset again: it may have been replaced since it was hashed.
Upload(c) ==
  /\ pc[c] = "upload"
  /\ \/ /\ Answered(c) /\ Goto(c, "install")
        /\ uploads' = [uploads EXCEPT ![c] = Digest(c)]
     \/ /\ c \notin cancelled /\ Spend("upgrade") /\ UNCHANGED <<cancelled, trouble>>
        /\ Goto(c, "install")
        /\ \E d \in Digests \ {Digest(c)} : uploads' = [uploads EXCEPT ![c] = d]
     \/ /\ Lost(c) /\ Goto(c, "reclaim")
        /\ uploads' = [uploads EXCEPT ![c] = "partial"]
     \/ Unsent(c) /\ Goto(c, "reclaim") /\ UNCHANGED uploads
  /\ UNCHANGED <<setting, control, broker, private, store, newer, bin, running, doomed, pruned, deployed>>

\* The script hashes the upload on the host and moves it over the agent.
\* Mutant of Verified: the hash of the upload is not compared.
VerifiedBlindly(c) == Digest(c) \in store
Verified(c) == uploads[c] = Digest(c) /\ Digest(c) \in store
Place(c) ==
  /\ bin' = [bin EXCEPT ![Digest(c)] = uploads[c]]
  /\ Touched(Digest(c))
  /\ uploads' = [uploads EXCEPT ![c] = None]
Install(c) ==
  /\ pc[c] = "install"
  /\ \/ /\ Verified(c) /\ Place(c)
        /\ \/ Answered(c) /\ Goto(c, "look")
           \/ Lost(c) /\ Goto(c, "reclaim")
     \/ /\ (Answered(c) /\ ~Verified(c)) \/ Unsent(c)
        /\ Goto(c, "reclaim") /\ UNCHANGED <<bin, store, newer, uploads>>
  /\ UNCHANGED <<setting, control, broker, private, running, doomed, pruned, deployed>>

\* pruneAgents: the script notes the running executables and lists the
\* directories, newest first; then it removes all but its own, the running ones
\* and the newest Kept others, also when its client has been killed.  Its outcome
\* is ignored.
Prunable(c) == {d \in store : d # Digest(c) /\ \A o \in Clients : running[o] # d}
Surplus(c) ==
  {d \in Prunable(c) : Cardinality({e \in Prunable(c) : <<e, d>> \in newer}) >= Kept}
PruneLooks(c) ==
  /\ pc[c] = "look"
  /\ \/ /\ Answered(c) \/ Lost(c)
        /\ doomed' = [doomed EXCEPT ![c] = Surplus(c)]
        /\ Goto(c, "remove") /\ UNCHANGED deployed
     \/ /\ Unsent(c) /\ deployed' = deployed \cup {c}
        /\ Goto(c, "reclaim") /\ UNCHANGED doomed
  /\ UNCHANGED <<setting, control, broker, private, store, newer, bin, uploads, running, pruned>>

PruneRemoves(c) ==
  /\ pc[c] = "remove" \/ (pc[c] = "dead" /\ doomed[c] # {})
  /\ store' = store \ doomed[c]
  /\ newer' = {p \in newer : p[1] \notin doomed[c] /\ p[2] \notin doomed[c]}
  /\ bin' = [d \in Digests |-> IF d \in doomed[c] THEN None ELSE bin[d]]
  /\ pruned' = pruned \cup doomed[c] /\ doomed' = [doomed EXCEPT ![c] = {}]
  /\ deployed' = deployed \cup {c}
  /\ Goto(c, IF pc[c] = "dead" THEN "dead" ELSE "reclaim")
  /\ UNCHANGED <<setting, budget, cancelled, control, broker, private, uploads, running, trouble>>

\* The deferred rm of the upload runs under a context of its own.
\* Mutant of Reclaim: it runs under the client's context.
ReclaimUnderContext(c) ==
  /\ pc[c] = "reclaim"
  /\ \/ c \notin cancelled /\ Cleaned(c) /\ uploads' = [uploads EXCEPT ![c] = None]
     \/ c \in cancelled /\ UNCHANGED <<uploads, budget, cancelled, trouble>>
  /\ Goto(c, IF c \notin deployed THEN Abort(c)
             ELSE IF Kind(c) = "session" THEN "reprobe" ELSE "use")
  /\ UNCHANGED <<setting, control, broker, private, store, newer, bin, running, doomed, pruned, deployed>>
Reclaim(c) ==
  /\ pc[c] = "reclaim"
  /\ \/ Cleaned(c) /\ uploads' = [uploads EXCEPT ![c] = None]
     \/ NotCleaned(c) /\ UNCHANGED uploads
  /\ Goto(c, IF c \notin deployed THEN Abort(c)
             ELSE IF Kind(c) = "session" THEN "reprobe" ELSE "use")
  /\ UNCHANGED <<setting, control, broker, private, store, newer, bin, running, doomed, pruned, deployed>>

(***************************************************************************)
(* ConfigureBroker and the session's start: the stream forward, the TCP    *)
(* fallback, the socat relay, the verification of the whole path.          *)
(***************************************************************************)
\* The session's directory on the host.
MakeSessionDir(c) ==
  /\ pc[c] = "mkdir"
  /\ \/ Answered(c) /\ Goto(c, "forward")
     \/ Unsent(c) /\ Goto(c, "killRelay")
  /\ UNCHANGED <<setting, control, broker, private, host>>

\* ssh -O forward, answered by the master on the path if the server allows it.
Allowed(k) == IF k = "stream" THEN setting.stream ELSE setting.tcp
AddForward(c, k) ==
  /\ Reachable # None /\ Allowed(k)
  /\ forwards' = forwards \cup {[on |-> Reachable, client |-> c, kind |-> k]}
Forward(c) ==
  /\ pc[c] = "forward"
  /\ \/ /\ Answered(c) /\ AddForward(c, "stream")
        /\ via' = [via EXCEPT ![c] = Reachable]
        /\ spec' = [spec EXCEPT ![c] = "stream"] /\ address' = [address EXCEPT ![c] = "stream"]
        /\ Goto(c, "ping")
     \/ /\ \/ Lost(c) /\ AddForward(c, "stream")
           \/ /\ (Answered(c) /\ (Reachable = None \/ ~Allowed("stream"))) \/ Unsent(c)
              /\ UNCHANGED forwards
        /\ Goto(c, "fallback") /\ UNCHANGED <<via, spec, address>>
  /\ UNCHANGED <<setting, startup, socket, master, severed, channel, pidFile, relays, private, host>>

\* Without a forward the session goes on without host panes.
Fallback(c) ==
  /\ pc[c] = "fallback"
  /\ \/ /\ Answered(c) /\ AddForward(c, "tcp")
        /\ via' = [via EXCEPT ![c] = Reachable]
        /\ spec' = [spec EXCEPT ![c] = "tcp"] /\ address' = [address EXCEPT ![c] = "tcp"]
        /\ Goto(c, "relay")
     \/ /\ \/ Lost(c) /\ AddForward(c, "tcp")
           \/ /\ (Answered(c) /\ (Reachable = None \/ ~Allowed("tcp"))) \/ Unsent(c)
              /\ UNCHANGED forwards
        /\ Goto(c, "publish") /\ UNCHANGED <<via, spec, address>>
  /\ UNCHANGED <<setting, startup, socket, master, severed, channel, pidFile, relays, private, host>>

\* The relay script: no socat, a relay that answers, one that ends at once, or one that is
\* not ready within the two seconds the script gives it and goes on without being recorded;
\* the answer may also be lost.  Containers need the relay.
StartRelay(c) ==
  /\ pc[c] = "relay"
  /\ \/ /\ Answered(c) /\ setting.socat
        /\ relays' = relays \cup {c} /\ pidFile' = pidFile \cup {c}
        /\ address' = [address EXCEPT ![c] = "relay"] /\ Goto(c, "ping")
     \/ /\ \/ ((Answered(c) /\ ~setting.socat) \/ Unsent(c)) /\ UNCHANGED relays
           \/ Answered(c) /\ setting.socat /\ relays' \in {relays, relays \cup {c}}
           \/ Lost(c) /\ setting.socat /\ relays' = relays \cup {c}
        /\ address' = [address EXCEPT ![c] = IF setting.container THEN None ELSE "tcp"]
        /\ Goto(c, IF setting.container THEN "publish" ELSE "ping") /\ UNCHANGED pidFile
  /\ UNCHANGED <<setting, control, spec, private, host>>

\* The agent's broker-ping goes the way a debugger will.
Carried(c) ==
  /\ \E f \in forwards : f.client = c /\ f.kind = (IF address[c] = "stream" THEN "stream" ELSE "tcp")
  /\ address[c] = "relay" => c \in relays
Ping(c) ==
  /\ pc[c] = "ping"
  /\ \/ Answered(c) /\ bin[Digest(c)] # None /\ Carried(c) /\ Goto(c, "publish")
     \/ /\ (Answered(c) /\ ~(bin[Digest(c)] # None /\ Carried(c))) \/ Unsent(c)
        /\ Goto(c, "killRelay")
  /\ UNCHANGED <<setting, control, broker, private, host>>

\* The record is written and the foreground command started; Mosh leaves no channel.
Publish(c) ==
  /\ pc[c] = "publish" /\ Goto(c, "open")
  /\ channel' = [channel EXCEPT ![c] = IF setting.mosh THEN None ELSE Reachable]
  /\ UNCHANGED <<setting, budget, cancelled, startup, socket, master, severed, forwards, via,
                 broker, private, host, trouble>>

(***************************************************************************)
(* activeSession.Close and Master.Close.                                   *)
(***************************************************************************)
\* The foreground command ends; then the agent's cleanup, whose failure is only reported.
Finish(c) ==
  /\ pc[c] = "open" /\ Goto(c, "killRelay")
  /\ channel' = [channel EXCEPT ![c] = None]
  /\ UNCHANGED <<setting, budget, cancelled, startup, socket, master, severed, forwards, via,
                 broker, private, host, trouble>>

KillRelay(c) ==
  /\ pc[c] = "killRelay" /\ Goto(c, "cancelForward")
  /\ \/ c \notin pidFile /\ Cleaned(c) /\ UNCHANGED <<pidFile, relays>>
     \/ /\ c \in pidFile /\ Cleaned(c)
        /\ relays' = relays \ {c} /\ pidFile' = pidFile \ {c}
     \/ c \in pidFile /\ NotCleaned(c) /\ UNCHANGED <<pidFile, relays>>
  /\ UNCHANGED <<setting, control, spec, address, private, host>>

\* Mutant of CancelForward: the shared master is told to exit like a private one.
CancelForwardByExit(c) ==
  /\ pc[c] = "cancelForward" /\ Goto(c, "done")
  /\ \/ /\ spec[c] # None /\ Reachable # None /\ Cleaned(c)
        /\ master' = [master EXCEPT ![socket] = "gone"] /\ socket' = None
        /\ forwards' = {f \in forwards : f.on # socket}
     \/ (spec[c] = None \/ Reachable = None) /\ Cleaned(c) /\ UNCHANGED <<master, socket, forwards>>
  /\ UNCHANGED <<setting, startup, severed, channel, via, broker, private, host>>

\* A shared master loses the exact forward only.
CancelForward(c) ==
  /\ pc[c] = "cancelForward" /\ Goto(c, "done")
  /\ \/ /\ Cleaned(c)
        /\ forwards' = forwards \ {[on |-> Reachable, client |-> c, kind |-> spec[c]]}
     \/ spec[c] # None /\ NotCleaned(c) /\ UNCHANGED forwards
  /\ UNCHANGED <<setting, startup, socket, master, severed, channel, via, broker, private, host>>

(***************************************************************************)
(* StartControlMaster and Close of a private master.                       *)
(***************************************************************************)
Spawn(c) ==
  /\ pc[c] = "spawn"
  /\ private' = [private EXCEPT ![c] = "up"] /\ Goto(c, "wait")
  /\ UNCHANGED <<setting, budget, cancelled, control, broker, host, trouble>>

\* The process exits at any time, or it does not leave when it is told to.
PrivateFails(c) ==
  /\ private[c] = "up" /\ pc[c] \notin {"done", "dead"}
  /\ \/ Spend("disconnect") /\ private' = [private EXCEPT ![c] = "gone"]
     \/ pc[c] = "exit" /\ Spend("hang") /\ private' = [private EXCEPT ![c] = "hung"]
  /\ UNCHANGED <<setting, pc, cancelled, control, broker, host, trouble>>

\* Ready when a check answers; otherwise the process has exited, the context has
\* ended or ten seconds have passed.
WaitReady(c) ==
  /\ pc[c] = "wait"
  /\ \/ private[c] = "gone" /\ Goto(c, "done")
     \/ private[c] # "gone" /\ Goto(c, "exit")
     \/ private[c] # "gone" /\ c \notin cancelled /\ Goto(c, "present")
  /\ UNCHANGED <<setting, budget, cancelled, control, broker, private, host, trouble>>

\* The preview runs the agent, which keeps its executable in use.
Use(c) ==
  /\ pc[c] = "use"
  /\ \/ /\ running[c] = None /\ Answered(c) /\ bin[Digest(c)] # None
        /\ running' = [running EXCEPT ![c] = Digest(c)] /\ UNCHANGED pc
     \/ /\ running[c] # None /\ UNCHANGED <<budget, cancelled, trouble>>
        /\ running' = [running EXCEPT ![c] = None] /\ Goto(c, "exit")
     \/ /\ running[c] = None
        /\ (Answered(c) /\ bin[Digest(c)] = None) \/ Unsent(c)
        /\ Goto(c, "exit") /\ UNCHANGED running
  /\ UNCHANGED <<setting, control, broker, private, store, newer, bin, uploads, doomed, pruned, deployed>>

\* ssh -O exit within five seconds, SIGINT and a second, SIGKILL and two seconds.
ExitPrivate(c) ==
  /\ pc[c] = "exit" /\ Goto(c, "interrupt")
  /\ private' = [private EXCEPT ![c] = IF @ = "up" THEN "gone" ELSE @]
  /\ UNCHANGED <<setting, budget, cancelled, control, broker, host, trouble>>
\* Mutant of InterruptPrivate: the wait for the process has no limit.
InterruptPrivateForEver(c) ==
  /\ pc[c] = "interrupt" /\ private[c] = "gone" /\ Goto(c, "done")
  /\ UNCHANGED <<setting, budget, cancelled, control, broker, private, host, trouble>>
InterruptPrivate(c) ==
  /\ pc[c] = "interrupt" /\ Goto(c, "done")
  /\ private' = [private EXCEPT ![c] = "gone"]
  /\ UNCHANGED <<setting, budget, cancelled, control, broker, host, trouble>>

(***************************************************************************)
(* Masters and clients end.                                                *)
(***************************************************************************)
\* A master that exits removes the path it was started with, whoever listens there.
Exits(m) ==
  /\ master' = [master EXCEPT ![m] = "gone"]
  /\ forwards' = {f \in forwards : f.on # m}
  /\ channel' = [c \in Clients |-> IF channel[c] = m THEN None ELSE channel[c]]
  /\ socket' = None
  /\ severed' = severed \cup ({Reachable} \ {None, m})

\* ControlPersist: two minutes without a channel.
Expire(m) ==
  /\ master[m] = "up" /\ \A c \in Clients : channel[c] # m
  /\ Exits(m)
  /\ UNCHANGED <<setting, budget, pc, cancelled, startup, via, broker, private, host, trouble>>

\* Three unanswered keep-alives, or a signal that leaves the socket behind.
MasterLost(m) ==
  /\ master[m] = "up"
  /\ \/ Spend("disconnect") /\ Exits(m)
     \/ /\ Spend("killMaster")
        /\ master' = [master EXCEPT ![m] = "gone"]
        /\ forwards' = {f \in forwards : f.on # m}
        /\ channel' = [c \in Clients |-> IF channel[c] = m THEN None ELSE channel[c]]
        /\ UNCHANGED <<socket, severed>>
  /\ UNCHANGED <<setting, pc, cancelled, startup, via, broker, private, host, trouble>>

\* A killed client gives up the lock it holds and nothing else.
Killed(c) ==
  /\ Spend("kill") /\ pc[c] \notin {"idle", "done", "dead"}
  /\ Goto(c, "dead")
  /\ startup' = IF startup = c THEN None ELSE startup
  /\ channel' = [channel EXCEPT ![c] = None]
  /\ running' = [running EXCEPT ![c] = None]
  /\ UNCHANGED <<setting, cancelled, socket, master, severed, forwards, via, broker, private,
                 store, newer, bin, uploads, doomed, pruned, deployed, trouble>>

(***************************************************************************)
(* The specification.                                                      *)
(***************************************************************************)
Connects(c) ==
  LockStartup(c) \/ Check(c) \/ Stat(c) \/ Unlink(c) \/ Launch(c) \/ Ready(c) \/ StopShared(c)
Deploys(c) ==
  Verify(c) \/ Probe(c) \/ FindPresent(c) \/ MakeTemp(c) \/ Upload(c) \/ Install(c)
    \/ PruneLooks(c) \/ PruneRemoves(c) \/ Reclaim(c)
Configures(c) ==
  MakeSessionDir(c) \/ Forward(c) \/ Fallback(c) \/ StartRelay(c) \/ Ping(c) \/ Publish(c)
Closes(c) == KillRelay(c) \/ CancelForward(c) \/ ExitPrivate(c) \/ InterruptPrivate(c)
Previews(c) == Spawn(c) \/ WaitReady(c) \/ Use(c)

Steps(c) == Connects(c) \/ Deploys(c) \/ Configures(c) \/ Closes(c) \/ Previews(c)

\* Every client is done or waits for its master's process to leave.
Over == (\A c \in Clients : pc[c] \in {"done", "dead", "interrupt"}) /\ UNCHANGED vars

Next ==
  \/ \E c \in Clients : Begin(c) \/ Steps(c) \/ Finish(c) \/ Cancel(c) \/ Killed(c) \/ PrivateFails(c)
  \/ \E m \in Masters : Expire(m) \/ MasterLost(m)
  \/ Over

Spec == Init /\ [][Next]_vars
FairSpec == Spec /\ \A c \in Clients : WF_vars(Steps(c))

(***************************************************************************)
(* Properties.                                                             *)
(***************************************************************************)
SessionSteps ==
  {"startup", "check", "stat", "unlink", "launch", "ready", "verify", "probe", "present", "mktemp",
   "upload", "install", "look", "remove", "reclaim", "reprobe", "mkdir", "forward", "fallback",
   "relay", "ping", "publish", "open", "killRelay", "cancelForward"}
TypeOK ==
  /\ setting \in Settings /\ budget \in 0..setting.limit
  /\ pc \in [Clients -> SessionSteps \cup {"idle", "done", "dead", "stopShared", "spawn", "wait",
                                           "use", "exit", "interrupt"}]
  /\ cancelled \subseteq Clients /\ trouble \subseteq Clients
  /\ startup \in Clients \cup {None}
  /\ socket \in Masters \cup {None} /\ severed \subseteq Masters
  /\ master \in [Masters -> {"none", "up", "gone"}]
  /\ forwards \subseteq [on : Masters, client : Clients, kind : {"stream", "tcp"}]
  /\ channel \in [Clients -> Masters \cup {None}] /\ via \in [Clients -> Masters \cup {None}]
  /\ spec \in [Clients -> {None, "stream", "tcp"}]
  /\ address \in [Clients -> {None, "stream", "tcp", "relay"}]
  /\ pidFile \subseteq relays /\ relays \subseteq Clients
  /\ private \in [Clients -> {"none", "up", "hung", "gone"}]
  /\ store \subseteq Digests /\ newer \subseteq store \X store
  /\ \A d, e \in store : <<d, e>> \in newer <=> d # e /\ <<e, d>> \notin newer
  /\ bin \in [Digests -> Digests \cup {None, "partial"}]
  /\ uploads \in [Clients -> Digests \cup {None, "empty", "partial"}]
  /\ running \in [Clients -> Digests \cup {None}]
  /\ doomed \in [Clients -> SUBSET Digests] /\ pruned \subseteq Digests /\ deployed \subseteq Clients

(***************************************************************************)
(* An executable at a content-addressed path has that content, whatever    *)
(* uploads were cut off, replaced or done twice at the same time; only     *)
(* what was damaged before may still be so (DeployAgent).                  *)
(***************************************************************************)
AgentsWhole ==
  \A d \in Digests : bin[d] \in {None, d} \/ (d \in setting.damaged /\ bin[d] = "partial")

(***************************************************************************)
(* From the end of its preparation a client finds its own agent on the     *)
(* host, unless another version's pruning removed it (PrepareAgent).       *)
(***************************************************************************)
Prepared(c) ==
  pc[c] \in {"mkdir", "forward", "fallback", "relay", "ping", "publish", "open", "reprobe", "use"}
AgentStays ==
  \A c \in Clients : Prepared(c) => Present(c) \/ (bin[Digest(c)] = None /\ Digest(c) \in pruned)
AgentsUsable == AgentsWhole /\ AgentStays

(***************************************************************************)
(* A client that was not killed and lost no answer has left no upload on   *)
(* the host when its deployment is over, also when it was cancelled (the   *)
(* deferred rm of DeployAgent).                                            *)
(***************************************************************************)
UploadsReclaimed ==
  \A c \in Clients :
    uploads[c] # None => \/ pc[c] \in {"upload", "install", "look", "remove", "reclaim", "dead"}
                         \/ c \in trouble

(***************************************************************************)
(* A client that was not killed and lost no answer has, when it is done,   *)
(* left neither its forward on a master that answers nor, on the host, the *)
(* relay whose address it published (Master.close).  Two exceptions: a     *)
(* master whose path was removed cannot be told, and a relay that was not  *)
(* ready in time has no RelayPIDFile, so nobody ends it                    *)
(* (transport.go:535-540).                                                 *)
(***************************************************************************)
ForwardsReclaimed ==
  \A c \in Clients : pc[c] = "done" /\ c \notin trouble =>
    /\ address[c] = "relay" => c \notin relays
    /\ \A f \in forwards : f.client = c => f.on \in severed
NothingLeftBehind == UploadsReclaimed /\ ForwardsReclaimed

(***************************************************************************)
(* At most one shared master lives whose path nobody removed, and the      *)
(* shared path leads to it ("Startup is serialized across processes",      *)
(* StartSharedControlMaster).                                              *)
(***************************************************************************)
UpMeansReachable ==
  \A m \in Masters : master[m] = "up" => socket = m \/ m \in severed

(***************************************************************************)
(* While a session is open, the forward its published address needs is     *)
(* there as long as the master that carries it, and so is the relay        *)
(* (startSession's order of forward, ping and record).                     *)
(***************************************************************************)
PublishedBrokerWorks ==
  \A c \in Clients : pc[c] = "open" /\ address[c] # None =>
    /\ master[via[c]] = "up" => Carried(c)
    /\ address[c] = "relay" => c \in relays
BrokersReachable == TypeOK /\ UpMeansReachable /\ PublishedBrokerWorks

(***************************************************************************)
(* No step of a client ends the master over which another session's        *)
(* foreground command runs (Shared in Master.close; stop works alone).  A  *)
(* Mosh session has no such channel: what happens to the master of its     *)
(* broker is OpenKeepsBroker, which fails.                                 *)
(***************************************************************************)
MasterOutlivesUsers ==
  [][\A m \in Masters : master[m] = "up" /\ master'[m] = "gone" /\ budget' = budget =>
       \A c \in Clients : pc[c] = "open" => channel[c] # m]_vars

(***************************************************************************)
(* A client that started gets its session open, finishes or is killed, and *)
(* one that closes finishes, also when its private master does not leave.  *)
(***************************************************************************)
Settled(c) == pc[c] \in {"open", "done", "dead"}
ClientsSettle == []<>(\A c \in Clients : pc[c] = "idle" \/ Settled(c))

(***************************************************************************)
(* What documents and comments say, and TLC refutes.                       *)
(***************************************************************************)
\* "SSH remains alive beside Mosh for synchronization, cleanup, and
\* debugger-broker forwarding" (transport.go:563): an open session keeps its broker.
OpenKeepsBroker ==
  [][\A c \in Clients : pc[c] = "open" /\ pc'[c] = "open" /\ address[c] # None /\ Carried(c)
       /\ budget' = budget => \E f \in forwards' : f.client = c]_vars
\* "cleanup cancels the exact forward it created" (architecture.md:276).
CleanupCancelsForward ==
  \A c \in Clients : pc[c] = "done" /\ c \notin trouble => \A f \in forwards : f.client # c
\* "Old unused agents are pruned" (architecture.md:314): an open session's agent stays.
OpenKeepsAgent == \A c \in Clients : pc[c] = "open" => Present(c)
=============================================================================

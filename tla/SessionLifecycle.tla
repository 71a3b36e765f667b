--------------------------- MODULE SessionLifecycle ---------------------------
(***************************************************************************)
(* The pwnbridge processes of one Mac that share a project                 *)
(* (internal/cli/root.go, internal/cli/host_remove.go, internal/syncer,    *)
(* internal/workspace): `shell' and `run' sessions, and the commands       *)
(* `stop', `clean', `host remove', `host add' and `sync flush|pause|resume'*)
(*                                                                         *)
(* They meet in files and in Mutagen only: the global configuration, the   *)
(* workspace state of the project on each host, the session records, and   *)
(* three kinds of flock: the lifecycle lock of a host, the lock of a       *)
(* workspace and the lease of a session.  One action is one Mutagen call,  *)
(* one file operation or one lock acquisition, so every interleaving of    *)
(* the processes is explored; a process may be killed between any two.     *)
(***************************************************************************)
EXTENDS Integers, FiniteSets

CONSTANTS
  Sessions,      \* `shell' and `run' processes
  Admins,        \* the other commands
  Kind,          \* which command each of the Admins is
  Hosts,
  HostOf,        \* the host each process selected
  Endpoints,     \* host records (destination, workspace root)
  EndpointOf,    \* the record a `host add' writes
  Ignores,       \* the synchronization options each session was started with
  Bridged,       \* sessions with a local debugger broker
  PauseOnIdle,   \* sync.pause_on_idle
  Frail,         \* bound: processes that may be killed
  Faults,        \* what else may go wrong: Mutagen calls, remote calls, saving the state,
                 \* stop's deadline, somebody deleting the remote root or Mutagen's session
  MaxSyncs,      \* bound: Mutagen sessions ever created per workspace
  None           \* nil, ""

Procs == Sessions \cup Admins
SyncIds == 1..MaxSyncs

Stopping == {"stop", "clean"}   \* they stop the sessions first
Removing == {"remove", "removeForce"}

ASSUME LifecycleAssumption ==
  /\ Sessions \cap Admins = {}
  /\ None \notin Procs \cup Endpoints \cup SyncIds
  /\ Kind \in [Admins -> Stopping \cup Removing \cup {"sync", "add"}]
  /\ HostOf \in [Procs -> Hosts]
  /\ EndpointOf \in [Admins -> Endpoints]
  /\ Bridged \subseteq Sessions
  /\ PauseOnIdle \in BOOLEAN
  /\ Frail \subseteq Procs
  /\ Faults \subseteq {"mutagen", "remote", "disk", "timeout", "loseRoot", "loseSync"}
  /\ MaxSyncs \in Nat \ {0}

VARIABLES
  config,     \* Config.Hosts: the record of each host, None when there is none
  stored,     \* the saved workspace.State of the project on each host
  remote,     \* the endpoints on which the remote workspace root exists
  sync,       \* Mutagen's sessions of the project on each host
  hostLock,   \* who holds host-lifecycle/<host>.lock
  wsLock,     \* who holds the workspace lock
  lease,      \* who holds sessions/<id>.json.lease
  record,     \* sessions/<id>.json exists
  pc,         \* where each process is
  view,       \* projectContext: the state and host record a process loaded
  todo,       \* session records a directory scan has still to look at
  found,      \* live sessions a scan found
  probing,    \* the lease a scan has just acquired
  signalled   \* sessions that were sent SIGTERM

durable == <<config, stored, remote, sync>>
locks   == <<hostLock, wsLock, lease>>
scanner == <<todo, found, probing>>
vars == <<durable, locks, record, pc, view, scanner, signalled>>

Start == {"scan", "master", "resume", "flush", "replace", "replaceFlush", "terminate",
          "create", "firstResume", "firstFlush", "save", "agent", "leased"}
Live  == {"running", "barrier", "barrierFlush"}
Close == {"closing", "final", "finalFlush", "others", "idleScan", "pause", "unpublish", "release"}
Work  == {"quiet", "stopBarrier", "stopFlush", "stopPause", "rm", "saveKept", "saveGone"}
Ended == {"done", "failed", "dead"}
PC == {"idle", "loaded"} \cup Start \cup Live \cup Close \cup Work \cup Ended
        \cup {"wait", "cliBarrier", "cliFlush"}

H(p) == HostOf[p]
KindOf(p) == IF p \in Sessions THEN "session" ELSE Kind[p]

\* syncer.Fingerprint: a session's sync options and the destination it loaded.
Fingerprint(s) == <<view[s].endpoint, Ignores[s]>>

Fingerprints == {None} \cup ((Endpoints \cup {None}) \X {Ignores[s] : s \in Sessions})
State == [id : SyncIds \cup {None},
          fp : Fingerprints,
          retained : BOOLEAN]
View == [id : SyncIds \cup {None},
         fp : Fingerprints,
         retained : BOOLEAN,
         endpoint : Endpoints \cup {None}]
NoState == [id |-> None, fp |-> None, retained |-> FALSE]
NoView  == [id |-> None, fp |-> None, retained |-> FALSE, endpoint |-> None]

Init ==
  /\ config \in [Hosts -> Endpoints]
  /\ stored = [h \in Hosts |-> NoState]
  /\ remote = [h \in Hosts |-> {}]
  /\ sync = [h \in Hosts |-> [i \in SyncIds |-> "unused"]]
  /\ hostLock = [h \in Hosts |-> None]
  /\ wsLock = [h \in Hosts |-> None]
  /\ lease = [s \in Sessions |-> None]
  /\ record = [s \in Sessions |-> FALSE]
  /\ pc = [p \in Procs |-> "idle"]
  /\ view = [p \in Procs |-> NoView]
  /\ todo = [p \in Procs |-> {}]
  /\ found = [p \in Procs |-> {}]
  /\ probing = [p \in Procs |-> None]
  /\ signalled = [s \in Sessions |-> FALSE]

-----------------------------------------------------------------------------
(* Building blocks.                                                        *)

Goto(p, where) == pc' = [pc EXCEPT ![p] = where]
Dropped(lock, p) == [x \in DOMAIN lock |-> IF lock[x] = p THEN None ELSE lock[x]]

\* A process returns from its command: the deferred calls, or the kernel when it is
\* killed, give back every flock it holds.
Quit(p, how) ==
  /\ Goto(p, how)
  /\ hostLock' = Dropped(hostLock, p)
  /\ wsLock' = Dropped(wsLock, p)
  /\ lease' = Dropped(lease, p)
  /\ todo' = [todo EXCEPT ![p] = {}]
  /\ found' = [found EXCEPT ![p] = {}]
  /\ probing' = [probing EXCEPT ![p] = None]

\* The critical section of a.barrier or ensureSync is left.
LeaveWorkspace(p, where) ==
  /\ Goto(p, where)
  /\ wsLock' = [wsLock EXCEPT ![H(p)] = None]
  /\ UNCHANGED <<hostLock, lease, scanner>>

\* A step failed: a barrier of a running session only blocks execution, a failed final
\* barrier is reported, anything else ends the command.
GiveUp(p) ==
  CASE pc[p] \in {"barrier", "barrierFlush"} -> LeaveWorkspace(p, "running")
    [] pc[p] \in {"final", "finalFlush"}     -> LeaveWorkspace(p, "unpublish")
    [] OTHER                                 -> Quit(p, "failed")

\* The remote root the process means is there.
RootOf(p) == view[p].endpoint \in remote[H(p)]
WithoutRoot(p) == [remote EXCEPT ![H(p)] = @ \ {view[p].endpoint}]

\* What Mutagen knows of the session the process names.
SyncState(p) == IF view[p].id = None THEN "unused" ELSE sync[H(p)][view[p].id]
Missing(p) == SyncState(p) \in {"unused", "gone"}
SetSync(p, st) == sync' = [sync EXCEPT ![H(p)][view[p].id] = st]

Forget(p) == view' = [view EXCEPT ![p].id = None, ![p].fp = None]

-----------------------------------------------------------------------------
(* Loading the project, locking the host.                                  *)

\* loadProject: nothing is locked yet.
Load(p) ==
  /\ pc[p] = "idle" /\ KindOf(p) \notin Removing \cup {"add"}
  /\ \/ /\ config[H(p)] # None
        /\ view' = [view EXCEPT ![p] =
             [id |-> stored[H(p)].id, fp |-> stored[H(p)].fp,
              retained |-> stored[H(p)].retained, endpoint |-> config[H(p)]]]
        /\ Goto(p, "loaded")
     \/ /\ config[H(p)] = None
        /\ Goto(p, "failed")
        /\ UNCHANGED view
  /\ UNCHANGED <<durable, locks, record, scanner, signalled>>

NeedsHost(p) ==
  \/ pc[p] = "loaded" /\ KindOf(p) \in Stopping \cup {"session"}
  \/ pc[p] = "idle" /\ KindOf(p) \in Removing

\* Mutants of LockHost: stop and clean take no lifecycle lock; startSession does not look at the
\* configuration again.
LockHostFree(p) ==
  /\ NeedsHost(p) /\ (hostLock[H(p)] = None \/ p \in Admins)
  /\ KindOf(p) = "session" => config[H(p)] = view[p].endpoint
  /\ hostLock' = IF p \in Admins THEN hostLock ELSE [hostLock EXCEPT ![H(p)] = p]
  /\ Goto(p, "scan")
  /\ todo' = [todo EXCEPT ![p] = {s \in Sessions : record[s]}]
  /\ UNCHANGED <<durable, record, view, wsLock, lease, found, probing, signalled>>

LockHostBlindly(p) ==
  /\ NeedsHost(p) /\ hostLock[H(p)] = None
  /\ hostLock' = [hostLock EXCEPT ![H(p)] = p]
  /\ Goto(p, "scan")
  /\ todo' = [todo EXCEPT ![p] = {s \in Sessions : record[s]}]
  /\ UNCHANGED <<durable, record, view, wsLock, lease, found, probing, signalled>>

\* startSession checks under the lock that its host record is still the configured one;
\* host remove that the host exists.  Both, and stop and clean, then read the directory
\* of session records.
LockHost(p) ==
  /\ NeedsHost(p) /\ hostLock[H(p)] = None
  /\ \/ /\ KindOf(p) \in Removing \cup {"session"} => config[H(p)] # None
        /\ KindOf(p) = "session" => config[H(p)] = view[p].endpoint
        /\ hostLock' = [hostLock EXCEPT ![H(p)] = p]
        /\ Goto(p, "scan")
        /\ todo' = [todo EXCEPT ![p] = {s \in Sessions : record[s]}]
        /\ UNCHANGED <<wsLock, lease, found, probing>>
     \/ /\ \/ KindOf(p) = "session" /\ config[H(p)] # view[p].endpoint
           \/ KindOf(p) \in Removing /\ config[H(p)] = None
        /\ Quit(p, "failed")
  /\ UNCHANGED <<durable, record, view, signalled>>

-----------------------------------------------------------------------------
(* Scanning the session records: liveSessions, hasOtherLease and           *)
(* readActiveSessionIDs.  A lease that can be acquired marks a record as   *)
(* stale, but the scan holds it for a moment itself.                       *)

Scanning(p) == pc[p] \in {"scan", "idleScan"} /\ probing[p] = None

SkipEntry(p, s) ==
  /\ Scanning(p) /\ s \in todo[p]
  /\ \/ ~record[s]
     \/ pc[p] = "idleScan" /\ s = p
     \/ KindOf(p) \in Removing /\ record[s] /\ lease[s] = s /\ H(s) # H(p)
  /\ todo' = [todo EXCEPT ![p] = @ \ {s}]
  /\ UNCHANGED <<durable, locks, record, pc, view, found, probing, signalled>>

\* The record vanished before host remove could read it, the owner of a held lease is gone, or its
\* broker does not answer because it is already closed.
RefuseEntry(p, s) ==
  /\ Scanning(p) /\ pc[p] = "scan" /\ s \in todo[p]
  /\ \/ KindOf(p) \in Removing /\ ~record[s]
     \/ record[s] /\ lease[s] \notin {None, s} /\ pc[s] = "dead"
     \/ record[s] /\ lease[s] = s /\ KindOf(p) \notin Removing /\ s \in Bridged /\ pc[s] \in Close
  /\ Quit(p, "failed")
  /\ UNCHANGED <<durable, record, view, signalled>>

CountEntry(p, s) ==
  /\ Scanning(p) /\ pc[p] = "scan" /\ s \in todo[p]
  /\ record[s] /\ lease[s] = s
  /\ IF KindOf(p) \in Removing THEN H(s) = H(p) ELSE s \in Bridged => pc[s] \notin Close
  /\ todo' = [todo EXCEPT ![p] = @ \ {s}]
  /\ found' = [found EXCEPT ![p] = @ \cup {s}]
  /\ UNCHANGED <<durable, locks, record, pc, view, probing, signalled>>

\* hasOtherLease reads the directory of session records.
ReadRecords(p) ==
  /\ pc[p] = "others"
  /\ Goto(p, "idleScan")
  /\ todo' = [todo EXCEPT ![p] = {s \in Sessions : record[s]}]
  /\ UNCHANGED <<durable, locks, record, view, found, probing, signalled>>

\* It stops at the first lease that is held, by whomever.
OtherLease(p, s) ==
  /\ Scanning(p) /\ pc[p] = "idleScan" /\ s \in todo[p] \ {p}
  /\ record[s] /\ lease[s] # None
  /\ Goto(p, "unpublish")
  /\ todo' = [todo EXCEPT ![p] = {}]
  /\ UNCHANGED <<durable, locks, record, view, found, probing, signalled>>

ProbeLease(p, s) ==
  /\ Scanning(p) /\ s \in todo[p] /\ record[s] /\ lease[s] = None
  /\ lease' = [lease EXCEPT ![s] = p]
  /\ probing' = [probing EXCEPT ![p] = s]
  /\ UNCHANGED <<durable, hostLock, wsLock, record, pc, view, todo, found, signalled>>

\* removeStaleSession; host remove only takes note.
DropStale(p) ==
  /\ probing[p] # None
  /\ lease' = [lease EXCEPT ![probing[p]] = None]
  /\ IF KindOf(p) \in Removing THEN UNCHANGED record
                               ELSE record' = [record EXCEPT ![probing[p]] = FALSE]
  /\ todo' = [todo EXCEPT ![p] = @ \ {probing[p]}]
  /\ probing' = [probing EXCEPT ![p] = None]
  /\ UNCHANGED <<durable, hostLock, wsLock, pc, view, found, signalled>>

ScanOver(p) == Scanning(p) /\ todo[p] = {}

\* startSession only wanted the errors; stop and clean signal what they found;
\* hasOtherLease found nobody.
AfterScan(p) ==
  /\ ScanOver(p) /\ KindOf(p) \notin Removing
  /\ LET stops == KindOf(p) \in Stopping /\ found[p] # {}
     IN /\ Goto(p, IF KindOf(p) = "session" THEN IF pc[p] = "idleScan" THEN "pause" ELSE "master"
                   ELSE IF stops THEN "wait" ELSE "quiet")
        /\ signalled' = [s \in Sessions |-> signalled[s] \/ (stops /\ s \in found[p])]
        /\ found' = IF stops THEN found ELSE [found EXCEPT ![p] = {}]
  /\ UNCHANGED <<durable, locks, record, view, todo, probing>>

\* hostRemovalGuard, then the configuration is written.  --force overrides what the
\* workspace state retains, never a live session.
RemoveHost(p) ==
  /\ ScanOver(p) /\ KindOf(p) \in Removing
  /\ LET retains == stored[H(p)].retained \/ stored[H(p)].id # None
     IN IF found[p] = {} /\ (retains => KindOf(p) = "removeForce")
        THEN config' = [config EXCEPT ![H(p)] = None] /\ Quit(p, "done")
        ELSE UNCHANGED config /\ Quit(p, "failed")
  /\ UNCHANGED <<stored, remote, sync, record, view, signalled>>

-----------------------------------------------------------------------------
(* Mutagen calls.                                                          *)

\* Where each caller goes when `sync resume' succeeded.
AfterResume == [resume |-> "flush", replace |-> "replaceFlush", firstResume |-> "firstFlush",
                barrier |-> "barrierFlush", final |-> "finalFlush",
                stopBarrier |-> "stopFlush", cliBarrier |-> "cliFlush"]

\* Only a definite missing-session answer makes Prepare (and Ensure, which replaces a
\* session whose options changed) create a new one.
Resume(p) ==
  /\ pc[p] \in DOMAIN AfterResume
  /\ \/ /\ ~Missing(p)
        /\ SetSync(p, "running")
        /\ Goto(p, AfterResume[pc[p]])
        /\ UNCHANGED <<view, locks, scanner>>
     \/ /\ Missing(p) /\ pc[p] \in {"resume", "replace"}
        /\ Forget(p)
        /\ Goto(p, "create")
        /\ UNCHANGED <<sync, locks, scanner>>
     \/ /\ (Missing(p) /\ pc[p] \notin {"resume", "replace"}) \/ "mutagen" \in Faults
        /\ GiveUp(p)
        /\ UNCHANGED <<sync, view>>
  /\ UNCHANGED <<config, stored, remote, record, signalled>>

\* Mutagen.Barrier: `sync flush' and the inspection of the session.  It fails on a
\* session that is paused, missing or unhealthy.
AfterFlush(p) ==
  CASE pc[p] \in {"flush", "firstFlush"} -> "save"
    [] pc[p] = "replaceFlush"            -> "terminate"
    [] pc[p] = "barrierFlush"            -> "running"
    [] pc[p] = "finalFlush"              -> IF PauseOnIdle THEN "others" ELSE "unpublish"
    [] pc[p] = "stopFlush"               -> "stopPause"
    [] pc[p] = "cliFlush"                -> "done"

Flush(p) ==
  /\ pc[p] \in {"flush", "firstFlush", "replaceFlush", "barrierFlush", "finalFlush",
                "stopFlush", "cliFlush"}
  /\ \/ /\ SyncState(p) = "running"
        /\ Goto(p, AfterFlush(p))
        /\ wsLock' = IF pc[p] \in {"flush", "firstFlush", "replaceFlush"} THEN wsLock
                     ELSE [wsLock EXCEPT ![H(p)] = None]
        /\ UNCHANGED <<view, hostLock, lease, scanner>>
     \/ /\ pc[p] = "flush" /\ Missing(p)
        /\ Forget(p)
        /\ Goto(p, "create")
        /\ UNCHANGED <<locks, scanner>>
     \/ /\ SyncState(p) = "paused" \/ (Missing(p) /\ pc[p] # "flush") \/ "mutagen" \in Faults
        /\ GiveUp(p)
        /\ UNCHANGED view
  /\ UNCHANGED <<durable, record, signalled>>

\* `sync pause'.  A closing session reports a failure and goes on closing.
Pause(p) ==
  LET after(how) == IF pc[p] = "pause" THEN Goto(p, "unpublish") /\ UNCHANGED <<locks, scanner>>
                                       ELSE Quit(p, how)
  IN /\ pc[p] \in {"pause", "stopPause"} \/ (pc[p] = "loaded" /\ KindOf(p) = "sync")
     /\ \/ /\ ~Missing(p)
           /\ SetSync(p, "paused")
           /\ after("done")
        \/ /\ Missing(p) \/ "mutagen" \in Faults
           /\ UNCHANGED sync
           /\ after("failed")
     /\ UNCHANGED <<config, stored, remote, record, view, signalled>>

-----------------------------------------------------------------------------
(* startSession.                                                           *)

\* ensureSync takes the workspace lock and checks the remote root: it creates one unless
\* the state it loaded names a synchronization session.
EnsureSync(s) ==
  /\ pc[s] = "master" /\ wsLock[H(s)] = None
  /\ \/ /\ view[s].id # None => RootOf(s)
        /\ remote' = [remote EXCEPT ![H(s)] = @ \cup {view[s].endpoint}]
        /\ wsLock' = [wsLock EXCEPT ![H(s)] = s]
        /\ Goto(s, IF view[s].id = None THEN "create"
                   ELSE IF view[s].fp = Fingerprint(s) THEN "resume" ELSE "replace")
        /\ UNCHANGED <<hostLock, lease, scanner>>
     \/ /\ (view[s].id # None /\ ~RootOf(s)) \/ "remote" \in Faults
        /\ Quit(s, "failed")
        /\ UNCHANGED remote
  /\ UNCHANGED <<config, stored, sync, record, view, signalled>>

\* Ensure terminates a flushed session whose options changed.
ReplaceSync(s) ==
  /\ pc[s] = "terminate"
  /\ \/ /\ ~Missing(s)
        /\ SetSync(s, "gone")
        /\ Forget(s)
        /\ Goto(s, "create")
        /\ UNCHANGED <<locks, scanner>>
     \/ /\ Missing(s) \/ "mutagen" \in Faults
        /\ Quit(s, "failed")
        /\ UNCHANGED <<sync, view>>
  /\ UNCHANGED <<config, stored, remote, record, signalled>>

\* `sync create'.  It may fail, also after the session exists (its identifier cannot be
\* discovered).  Bound: MaxSyncs sessions.
CreateSync(s) ==
  /\ pc[s] = "create"
  /\ \/ \E i \in SyncIds :
          /\ sync[H(s)][i] = "unused" /\ \A j \in 1..(i - 1) : sync[H(s)][j] # "unused"
          /\ sync' = [sync EXCEPT ![H(s)][i] = "running"]
          /\ \/ /\ view' = [view EXCEPT ![s].id = i, ![s].fp = Fingerprint(s)]
                /\ Goto(s, "firstResume")
                /\ UNCHANGED <<locks, scanner>>
             \/ "mutagen" \in Faults /\ Quit(s, "failed") /\ UNCHANGED view
     \/ /\ "mutagen" \in Faults \/ \A i \in SyncIds : sync[H(s)][i] # "unused"
        /\ Quit(s, "failed")
        /\ UNCHANGED <<sync, view>>
  /\ UNCHANGED <<config, stored, remote, record, signalled>>

\* Mutant of SaveState: the state is saved as it was loaded, without the retention mark.
SaveStateUnmarked(s) ==
  /\ pc[s] = "save"
  /\ stored' = [stored EXCEPT ![H(s)] =
       [id |-> view[s].id, fp |-> view[s].fp, retained |-> view[s].retained]]
  /\ LeaveWorkspace(s, "agent")
  /\ UNCHANGED <<config, remote, sync, record, view, signalled>>

\* Only now is the identifier saved, and the workspace lock released.  A write that
\* fails may have replaced the file.
SaveState(s) ==
  /\ pc[s] = "save"
  /\ view' = [view EXCEPT ![s].retained = TRUE]
  /\ LET saved == [stored EXCEPT ![H(s)] =
                     [id |-> view[s].id, fp |-> view[s].fp, retained |-> TRUE]]
     IN \/ stored' = saved /\ LeaveWorkspace(s, "agent")
        \/ "disk" \in Faults /\ stored' \in {stored, saved} /\ Quit(s, "failed")
  /\ UNCHANGED <<config, remote, sync, record, signalled>>

\* Mutant of TakeLease: the lease file is created and not locked.
TakeLeaseUnlocked(s) ==
  /\ pc[s] = "agent"
  /\ Goto(s, "leased")
  /\ UNCHANGED <<durable, locks, record, view, scanner, signalled>>

\* The agent is deployed, the broker runs, the lease is taken.
TakeLease(s) ==
  /\ pc[s] = "agent"
  /\ \/ /\ lease[s] = None
        /\ lease' = [lease EXCEPT ![s] = s]
        /\ Goto(s, "leased")
        /\ UNCHANGED <<hostLock, wsLock, scanner>>
     \/ "remote" \in Faults /\ Quit(s, "failed")
  /\ UNCHANGED <<durable, record, view, signalled>>

\* Mutant of Publish: the lifecycle lock is kept until the session ends.
PublishLocked(s) ==
  /\ pc[s] = "leased"
  /\ record' = [record EXCEPT ![s] = TRUE]
  /\ Goto(s, "running")
  /\ UNCHANGED <<durable, locks, view, scanner, signalled>>

\* The broker answered through the tunnel: the record is published and the host lock
\* released.
Publish(s) ==
  /\ pc[s] = "leased"
  /\ \/ /\ record' = [record EXCEPT ![s] = TRUE]
        /\ hostLock' = [hostLock EXCEPT ![H(s)] = None]
        /\ Goto(s, "running")
        /\ UNCHANGED <<wsLock, lease, scanner>>
     \/ /\ "remote" \in Faults
        /\ Quit(s, "failed")
        /\ UNCHANGED record
  /\ UNCHANGED <<durable, view, signalled>>

-----------------------------------------------------------------------------
(* A session at work, and activeSession.Close.                             *)

\* A prompt, a command or a debugger request; Close; stop; `sync flush'.
EnterBarrier(p) ==
  /\ wsLock[H(p)] = None
  /\ \/ pc[p] = "running" /\ Goto(p, "barrier")
     \/ pc[p] = "closing" /\ Goto(p, "final")
     \/ pc[p] = "quiet" /\ KindOf(p) = "stop" /\ view[p].id # None /\ Goto(p, "stopBarrier")
     \/ pc[p] = "loaded" /\ KindOf(p) = "sync" /\ Goto(p, "cliBarrier")
  /\ wsLock' = [wsLock EXCEPT ![H(p)] = p]
  /\ UNCHANGED <<durable, hostLock, lease, record, view, scanner, signalled>>

\* Mutant of Finish: the signal does not reach the command.
FinishUnsignalled(s) ==
  /\ pc[s] = "running" /\ ~signalled[s]
  /\ Goto(s, "closing")
  /\ UNCHANGED <<durable, locks, record, view, scanner, signalled>>

\* The command ended or the session was signalled: the broker is closed and the remote
\* side cleaned up.
Finish(s) ==
  /\ pc[s] = "running"
  /\ Goto(s, "closing")
  /\ UNCHANGED <<durable, locks, record, view, scanner, signalled>>

Unpublish(s) ==
  /\ pc[s] = "unpublish"
  /\ record' = [record EXCEPT ![s] = FALSE]
  /\ Goto(s, "release")
  /\ UNCHANGED <<durable, locks, view, scanner, signalled>>

DropLease(s) ==
  /\ pc[s] = "release"
  /\ Quit(s, "done")
  /\ UNCHANGED <<durable, record, view, signalled>>

-----------------------------------------------------------------------------
(* stop, clean, and the commands that need no session.                     *)

\* Mutant of SessionsGone: the sessions are signalled and not waited for.
SessionsGoneUnseen(a) ==
  /\ pc[a] = "wait"
  /\ Goto(a, "quiet")
  /\ found' = [found EXCEPT ![a] = {}]
  /\ UNCHANGED <<durable, locks, record, view, todo, probing, signalled>>

\* stopActiveSessions waits for the records to go; its deadline passes only when a
\* session is stuck or was killed.
SessionsGone(a) ==
  /\ pc[a] = "wait"
  /\ \/ /\ \A s \in found[a] : ~record[s]
        /\ Goto(a, "quiet")
        /\ found' = [found EXCEPT ![a] = {}]
        /\ UNCHANGED <<locks, todo, probing>>
     \/ "timeout" \in Faults /\ (\E s \in found[a] : record[s]) /\ Quit(a, "failed")
  /\ UNCHANGED <<durable, record, view, signalled>>

StopWithoutSync(a) ==
  /\ pc[a] = "quiet" /\ KindOf(a) = "stop" /\ view[a].id = None
  /\ Quit(a, "failed")
  /\ UNCHANGED <<durable, record, view, signalled>>

\* clean terminates the session named by the state it loaded, if any.
CleanSync(a) ==
  /\ pc[a] = "quiet" /\ KindOf(a) = "clean"
  /\ \/ /\ view[a].id = None
        /\ Goto(a, "rm")
        /\ UNCHANGED <<sync, locks, scanner>>
     \/ /\ ~Missing(a)
        /\ SetSync(a, "gone")
        /\ Goto(a, "rm")
        /\ UNCHANGED <<locks, scanner>>
     \/ /\ view[a].id # None /\ (Missing(a) \/ "mutagen" \in Faults)
        /\ Quit(a, "failed")
        /\ UNCHANGED sync
  /\ UNCHANGED <<config, stored, remote, record, view, signalled>>

\* Mutant of RemoveRoot: an `rm -rf' that failed goes unnoticed.
RemoveRootUnchecked(a) ==
  /\ pc[a] = "rm"
  /\ \/ remote' \in {remote, WithoutRoot(a)} /\ Goto(a, "saveGone")
     \/ UNCHANGED remote /\ Goto(a, "saveKept")
  /\ UNCHANGED <<config, stored, sync, record, view, signalled, locks, scanner>>

\* With --remote, `rm -rf' of the root; then the shared SSH master is stopped: either may
\* fail.  Nothing before depends on --remote, so a clean with it and one without are one
\* process that chooses here.
RemoveRoot(a) ==
  /\ pc[a] = "rm"
  /\ \/ remote' = WithoutRoot(a) /\ Goto(a, "saveGone") /\ UNCHANGED <<locks, scanner>>
     \/ UNCHANGED remote /\ Goto(a, "saveKept") /\ UNCHANGED <<locks, scanner>>
     \/ "remote" \in Faults /\ remote' \in {remote, WithoutRoot(a)} /\ Quit(a, "failed")
  /\ UNCHANGED <<config, stored, sync, record, view, signalled>>

\* saveCleanedWorkspace: the rest of the state is the one clean loaded.  When saving
\* that the root is gone fails, the root is marked retained again.
SaveCleaned(a) ==
  /\ pc[a] \in {"saveKept", "saveGone"}
  /\ LET cleaned(kept) == [stored EXCEPT ![H(a)] = [id |-> None, fp |-> None, retained |-> kept]]
         keeps == pc[a] = "saveKept" /\ view[a].retained
     IN \/ stored' = cleaned(keeps) /\ Quit(a, "done")
        \/ /\ "disk" \in Faults
           /\ \/ stored' \in {stored, cleaned(keeps)}
              \/ pc[a] = "saveGone" /\ stored' = cleaned(TRUE)
           /\ Quit(a, "failed")
  /\ UNCHANGED <<config, remote, sync, record, view, signalled>>

\* host add takes no lifecycle lock; without --replace it fails when the host exists.
AddHost(a) ==
  /\ pc[a] = "idle" /\ KindOf(a) = "add"
  /\ \/ config' = [config EXCEPT ![H(a)] = EndpointOf[a]] /\ Quit(a, "done")
     \/ config[H(a)] # None /\ UNCHANGED config /\ Quit(a, "failed")
  /\ UNCHANGED <<stored, remote, sync, record, view, signalled>>

SyncResume(a) ==
  /\ pc[a] = "loaded" /\ KindOf(a) = "sync"
  /\ \/ ~Missing(a) /\ SetSync(a, "running") /\ Quit(a, "done")
     \/ (Missing(a) \/ "mutagen" \in Faults) /\ UNCHANGED sync /\ Quit(a, "failed")
  /\ UNCHANGED <<config, stored, remote, record, view, signalled>>

-----------------------------------------------------------------------------
(* What the environment may do.                                            *)

Crash(p) ==
  /\ p \in Frail /\ pc[p] \notin Ended \cup {"idle"}
  /\ Quit(p, "dead")
  /\ UNCHANGED <<durable, record, view, signalled>>

RootVanishes(h) ==
  /\ "loseRoot" \in Faults /\ remote[h] # {}
  /\ remote' = [remote EXCEPT ![h] = {}]
  /\ UNCHANGED <<config, stored, sync, locks, record, pc, view, scanner, signalled>>

Alive(h) == {i \in SyncIds : sync[h][i] \in {"running", "paused"}}

SyncVanishes(h) ==
  /\ "loseSync" \in Faults
  /\ \E i \in Alive(h) : sync' = [sync EXCEPT ![h][i] = "gone"]
  /\ UNCHANGED <<config, stored, remote, locks, record, pc, view, scanner, signalled>>

Scan(p) ==
  \/ \E s \in Sessions :
       SkipEntry(p, s) \/ RefuseEntry(p, s) \/ CountEntry(p, s) \/ OtherLease(p, s) \/ ProbeLease(p, s)
  \/ ReadRecords(p) \/ DropStale(p) \/ AfterScan(p) \/ RemoveHost(p)
Mutagen(p) == Resume(p) \/ Flush(p) \/ Pause(p)
SessionStep(s) ==
  \/ EnsureSync(s) \/ ReplaceSync(s) \/ CreateSync(s) \/ SaveState(s) \/ TakeLease(s) \/ Publish(s)
  \/ Unpublish(s) \/ DropLease(s)
AdminStep(a) ==
  \/ SessionsGone(a) \/ StopWithoutSync(a) \/ CleanSync(a) \/ RemoveRoot(a) \/ SaveCleaned(a)
  \/ SyncResume(a)

\* What a process does on its own once it holds the locks it needs.
Step(p) == Scan(p) \/ Mutagen(p) \/ (p \in Sessions /\ SessionStep(p)) \/ (p \in Admins /\ AdminStep(p))

Terminated ==
  /\ \A p \in Procs : pc[p] \in Ended
  /\ UNCHANGED vars

Next ==
  \/ \E p \in Procs : Step(p) \/ Load(p) \/ LockHost(p) \/ EnterBarrier(p) \/ Crash(p)
  \/ \E s \in Sessions : Finish(s)
  \/ \E a \in Admins : AddHost(a)
  \/ \E h \in Hosts : RootVanishes(h) \/ SyncVanishes(h)
  \/ Terminated

Spec == Init /\ [][Next]_vars

\* flock serves its waiters, and a session that was signalled stops taking barriers
\* before long.  Users start and end commands when they please.
Waiting(p) == (EnterBarrier(p) /\ pc[p] # "running") \/ (p \in Sessions /\ EnsureSync(p))
Fairness ==
  /\ \A p \in Procs : WF_vars(Step(p)) /\ SF_vars(Waiting(p))
  /\ \A s \in Sessions : SF_vars(Finish(s) /\ signalled[s])

FairSpec == Spec /\ Fairness

-----------------------------------------------------------------------------
(* Properties.                                                             *)

\* The type of every variable.
TypeOK ==
  /\ config \in [Hosts -> Endpoints \cup {None}]
  /\ stored \in [Hosts -> State]
  /\ remote \in [Hosts -> SUBSET (Endpoints \cup {None})]
  /\ sync \in [Hosts -> [SyncIds -> {"unused", "running", "paused", "gone"}]]
  /\ hostLock \in [Hosts -> Procs \cup {None}]
  /\ wsLock \in [Hosts -> Procs \cup {None}]
  /\ lease \in [Sessions -> Procs \cup {None}]
  /\ record \in [Sessions -> BOOLEAN]
  /\ pc \in [Procs -> PC]
  /\ view \in [Procs -> View]
  /\ todo \in [Procs -> SUBSET Sessions]
  /\ found \in [Procs -> SUBSET Sessions]
  /\ probing \in [Procs -> Sessions \cup {None}]
  /\ signalled \in [Sessions -> BOOLEAN]

\* Sessions whose record other processes rely on (root.go publishes it last and removes
\* it before the lease).
AtWork(s) == pc[s] \in Live \cup (Close \ {"release"})

\* Nobody takes the record or the lease of a session at work for stale, however many
\* scans run at once: stop, clean and host remove can always find it.
LeaseGuardsRecord == \A s \in Sessions : AtWork(s) => record[s] /\ lease[s] = s

\* Once stop or clean has seen the sessions go, and until it returns, no session of the
\* host starts, runs or still flushes (architecture.md: stop `pauses only after the
\* final lease exits').
StoppedMeansQuiet ==
  \A a \in Admins : pc[a] \in Work =>
    \A s \in Sessions : H(s) = H(a) => pc[s] \notin Start /\ ~AtWork(s)

\* The remote root of a session at work is there: clean --remote never deletes the
\* directory a command runs in.
RootInUse == \A s \in Sessions : AtWork(s) => RootOf(s)

\* A workspace in which a session is at work is on record with its synchronization session
\* and its remote root, whatever failed and whoever cleans: if the session dies now, host
\* remove, stop and clean still know what there is (architecture.md, the catalog).
WorkIsRecorded ==
  \A s \in Sessions : AtWork(s) => stored[H(s)].retained /\ stored[H(s)].id # None

\* The retention mark of a workspace goes only with the remote root it stands for: with the
\* save of a `clean --remote' that has removed the root of the host record it loaded, also
\* when calls and writes fail, commands are killed and sessions start meanwhile.  The one
\* exception is a plain `clean', which writes back the state it loaded before it waited for
\* the lifecycle lock (root.go:911): one that loaded it before a session marked the root
\* takes the mark away and leaves the root.  (A host that `host add --replace' moved may have
\* another root, at its other destination, of which the mark says nothing.)
RetentionHonest ==
  [][\A h \in Hosts : stored[h].retained /\ ~stored'[h].retained =>
       \E a \in Admins : H(a) = h /\ \/ pc[a] = "saveGone" /\ ~RootOf(a)
                                     \/ pc[a] = "saveKept" /\ ~view[a].retained]_vars

\* Seen from the host configuration and the leases, the processes do what HostUse says.
Configured == {h \in Hosts : config[h] # None}
LiveSessions == {s \in Sessions : record[s] /\ lease[s] = s}
HU == INSTANCE HostUse WITH configured <- Configured, live <- LiveSessions,
                            atWork <- {a \in Admins : pc[a] \in Work}
ImplementsHostUse == HU!Spec

\* Why that is so, as an inductive invariant.  A starting session, a scan of stop, clean or
\* host remove, a wait and the work after it hold the lifecycle lock of their host...
HoldsHost(p) == pc[p] \in Start \cup Work \cup {"wait"}
HostHeld == \A p \in Procs : HoldsHost(p) => hostLock[H(p)] = p

\* ... every process is somewhere in its own command...
Places(p) ==
  IF p \in Sessions THEN {"idle", "loaded"} \cup Start \cup Live \cup Close \cup Ended
  ELSE CASE Kind[p] \in Stopping -> {"idle", "loaded", "scan", "wait"} \cup Work \cup Ended
         [] Kind[p] \in Removing -> {"idle", "scan"} \cup Ended
         [] OTHER -> {"idle", "loaded", "cliBarrier", "cliFlush"} \cup Ended
Placed == \A p \in Procs : pc[p] \in Places(p)

\* ... a session starts on a configured host, publishes its record under its lease and
\* keeps both until it is done...
Started == \A s \in Sessions :
  /\ pc[s] \in Start => config[H(s)] # None
  /\ pc[s] \in {"leased"} \cup Live \cup Close => lease[s] = s
  /\ AtWork(s) => record[s]
  /\ pc[s] \in {"idle", "loaded"} \cup Start => ~record[s]

\* ... a lease that is being tested belongs to nobody else...
ProbesOther == \A p \in Procs :
  probing[p] # None => probing[p] # p /\ lease[probing[p]] = p

\* ... and a scan has seen, or has still to see, every live session of the host.
Seen == \A a \in Admins : \A s \in LiveSessions : H(s) = H(a) =>
  /\ pc[a] = "scan" => s \in todo[a] \cup found[a]
  /\ pc[a] = "wait" => s \in found[a]
  /\ pc[a] \notin Work

HostUseInv == HostHeld /\ Placed /\ Started /\ ProbesOther /\ Seen

\* A signalled session gets out of the way: its record goes, so stop and clean end.
\* (A signal is never taken back: this is signalled[s] ~> ~record[s].)
SignalledEnds == \A s \in Sessions : []<>(signalled[s] => ~record[s])

\* Nobody keeps the lifecycle lock of a host, nor waits for a session that needs it.
HostLockReleased == \A h \in Hosts : []<>(hostLock[h] = None)

\* README.md: `Pwnbridge uses one isolated Mutagen two-way-safe session per local
\* project/host identity.'
OneSync == \A h \in Hosts : Cardinality(Alive(h)) <= 1

\* architecture.md: `A cross-process file lock serializes barriers and identity
\* initialization.'  A process that creates a session does it for a workspace whose saved
\* state names none.
IdentityOnce ==
  [][\A s \in Sessions : pc[s] = "create" /\ sync' # sync => stored[H(s)].id \notin Alive(H(s))]_vars

\* configuration.md: with pause_on_idle `the final session lease flushes and pauses
\* Mutagen': a closing session pauses it only when no other session is using it...
PauseOnlyWhenLast ==
  [][\A s \in Sessions : pc[s] = "pause" /\ sync' # sync =>
       \A t \in Sessions \ {s} : H(t) = H(s) => pc[t] \notin Live \cup (Start \ {"scan", "master"})]_vars

\* ... and the last one does pause it.
IdleIsPaused ==
  (PauseOnIdle /\ \A s \in Sessions : pc[s] = "done") =>
    \A h \in Hosts, i \in SyncIds : sync[h][i] # "running"

\* README.md: `pwnbridge clean terminates Mutagen metadata': when it reports success no
\* Mutagen session of the workspace is left.
CleanTerminates ==
  [][\A a \in Admins : pc[a] \in {"saveKept", "saveGone"} /\ pc'[a] = "done" => Alive(H(a)) = {}]_vars

\* troubleshooting.md: `If a cleanup command fails due to network loss, neither workspace
\* is treated as disposable; reconnect and rerun it.'  A clean that reads the current
\* state gets past the Mutagen session, whatever an earlier clean left behind.
CleanCanRerun ==
  [][\A a \in Admins : KindOf(a) = "clean" /\ pc[a] = "quiet" /\ pc'[a] = "failed"
       => view[a].id # stored[H(a)].id]_vars

\* architecture.md: `only successful clean --remote --yes clears remote retention': the
\* exception of RetentionHonest does not happen.
MarkStandsForRoot ==
  [][\A h \in Hosts : stored[h].retained /\ ~stored'[h].retained => remote[h] = {}]_vars

\* README.md: after clean `a small local lifecycle record remains so host retirement
\* cannot forget the retained remote root': without --force a host is removed only when
\* no remote root is left on it.
RetiredRootGone ==
  [][\A a \in Admins : KindOf(a) = "remove" /\ config[H(a)] # None /\ config'[H(a)] = None
       => remote[H(a)] = {}]_vars
=============================================================================

---------------------------- MODULE ConflictRecovery ----------------------------
(***************************************************************************)
(* The commands that move the losing side of a conflict into the recovery  *)
(* store and that read and prune it: `sync resolve' (cli/root.go), its     *)
(* remote half `recovery-stream' (agent.go, cli/remote_recovery.go), and   *)
(* `sync recovery verify | restore | prune' (cli/recovery.go) over         *)
(* internal/recovery.                                                      *)
(*                                                                         *)
(* The workspace lock lets one of these commands run at a time; beside it  *)
(* run the users who edit the files in conflict, Mutagen, and the agent    *)
(* processes of this and of earlier commands.  An action is one file read, *)
(* one message, one durable write or one removal.                          *)
(***************************************************************************)
EXTENDS RecoveryCatalog

CONSTANTS Settings, MaxCommands

Endpoints == {"local", "remote"}
Commands == {"prefer local", "prefer remote", "prune", "restore", "verify"}
FaultKinds == {"crash", "power", "disk", "cut", "cancel", "rot"}

Setting == [script : UNION {[1..n -> Commands] : n \in 1..MaxCommands},   \* what the user runs, in order
            kind : [Paths -> Kinds], nested : SUBSET Paths, conflicts : SUBSET Paths,
            old : 0..MaxArchives,          \* archives of earlier resolutions
            keep : 1..MaxArchives,         \* --keep-last
            edited : Endpoints,            \* the side the user edits meanwhile,
            edits : 0..MaxVersion,         \* bound: and how often
            faults : SUBSET FaultKinds]    \* bound: each strikes at most once

ASSUME RecoveryAssumption ==
  /\ Settings \subseteq Setting /\ MaxCommands \in Nat \ {0} /\ "nobody" \notin Paths
  /\ \A s \in Settings : /\ 3 + s.edits + Cardinality(s.conflicts) <= MaxVersion
                         /\ s.old + Cardinality({i \in DOMAIN s.script : s.script[i] \in
                              {"prefer local", "prefer remote"}}) <= MaxArchives

Nobody == "nobody"
NoObject == [inode |-> 0, kind |-> "none", files |-> <<>>]
Objects == [inode : 0..MaxVersion, kind : Kinds, files : UNION {[1..n -> Bytes] : n \in 0..Files}]
AsCopy(o) == [kind |-> o.kind, files |-> o.files]
Exists(o) == o # NoObject

VARIABLES
  setting,
  content,      \* the two endpoints: content[e][p], an object or NoObject
  conflicted,   \* paths Mutagen reports in conflict
  clock,        \* the latest change at an endpoint; a version is the change that wrote it
  edits,        \* edits so far
  store,        \* the recovery store
  used,         \* archives ever begun: their names are times, and never come back
  command,      \* commands started
  pc, todo, archive, open, since, digest, chosen,   \* the locals of the running command
  agent,        \* the recovery-stream process of each command
  struck,       \* faults that struck
  cancelled,    \* the command whose context is cancelled
  restored,     \* what `restore' has put at its destination
  outcome,      \* how each command ended
  status,       \* what `prune' reported for each archive
  checked,      \* what `verify' reported for each entry
  condemned,    \* history: archives a confirmed prune selected
  halved,       \* history: tombstones a later prune began to remove while their renaming was not durable
  spoilt,       \* history: entries that were rotten when `verify' began
  lost          \* history: files removed from an endpoint and not in the store

locals    == <<pc, todo, archive, open, since, digest, chosen>>
ends      == <<content, conflicted, clock, edits>>
disk      == <<store, used>>
faults    == <<struck, cancelled>>
reports   == <<restored, outcome, status, checked>>
histories == <<condemned, halved, spoilt, lost>>
vars == <<setting, ends, disk, command, locals, agent, faults, reports, histories>>

NoSource == [path |-> Nobody, inode |-> 0, version |-> 0]
Idle == [phase |-> "none", path |-> Nobody, seen |-> NoObject, again |-> 0, first |-> <<>>, read |-> <<>>,
         open |-> NoSource, since |-> 0, wire |-> <<>>, ack |-> "none", link |-> "up", removed |-> FALSE]

NoStatus == [n \in 1..MaxArchives |-> "none"]

OldCopy(kind) == [kind |-> kind, files |-> [i \in 1..FilesOf(kind) |-> 3]]
OldArchive(s) ==
  LET whole == [p \in Paths |-> IF p \in s.conflicts THEN OldCopy(s.kind[p]) ELSE NoCopy]
  IN  [place |-> "visible", durable |-> "visible", winner |-> "local", copy |-> whole,
       synced |-> s.conflicts, entry |-> whole, filed |-> s.conflicts, parents |-> s.conflicts]

Init ==
  /\ setting \in Settings
  /\ content = [e \in Endpoints |-> [p \in Paths |->
       IF p \in setting.conflicts
       THEN [inode |-> 0, kind |-> setting.kind[p],
             files |-> [i \in 1..FilesOf(setting.kind[p]) |-> IF e = "local" THEN 1 ELSE 2]]
       ELSE NoObject]]
  /\ conflicted = setting.conflicts
  /\ clock = 3 /\ edits = 0
  /\ store = [n \in 1..MaxArchives |-> IF n <= setting.old THEN OldArchive(setting) ELSE Unused]
  /\ used = setting.old
  /\ command = 0
  /\ pc = "idle" /\ todo = <<>> /\ archive = 0 /\ open = NoSource /\ since = 0 /\ digest = NoCopy
  /\ chosen = {}
  /\ agent = [k \in 1..MaxCommands |-> Idle]
  /\ struck = {} /\ cancelled = 0
  /\ restored = NoCopy /\ outcome = [k \in 1..MaxCommands |-> "none"]
  /\ status = NoStatus /\ checked = {}
  /\ condemned = {} /\ halved = {} /\ spoilt = {} /\ lost = {}

-----------------------------------------------------------------------------
(* The users and Mutagen (external).                                       *)

\* A file is rewritten in place, or the path gets another object (a save by rename; a directory is
\* emptied for it), or none.
Edited(o) ==
  {[o EXCEPT !.files[i] = clock + 1] : i \in 1..Len(o.files)}
  \cup {[o EXCEPT !.inode = clock + 1, !.files = [i \in 1..Len(o.files) |-> clock + 1]], NoObject}

Edit(p) ==
  /\ edits < setting.edits /\ p \in conflicted /\ Exists(content[setting.edited][p])
  /\ clock' = clock + 1 /\ edits' = edits + 1
  /\ \E o \in Edited(content[setting.edited][p]) : content' = [content EXCEPT ![setting.edited][p] = o]
  /\ UNCHANGED <<setting, conflicted, disk, command, locals, agent, faults, reports, histories>>

\* Mutagen, two-way-safe: a deletion yields to a modification, equal contents are no conflict;
\* what was agreed once and is then removed on one side is removed on the other.
Settled(p) == \/ ~Exists(content["local"][p]) \/ ~Exists(content["remote"][p])
              \/ AsCopy(content["local"][p]) = AsCopy(content["remote"][p])
Other(e) == IF e = "local" THEN "remote" ELSE "local"
Received(o) == IF Exists(o) THEN [o EXCEPT !.inode = clock + 1] ELSE o
Propagated(paths) ==
  [e \in Endpoints |-> [p \in Paths |->
     IF p \in paths /\ ~Exists(content[e][p]) THEN Received(content[Other(e)][p]) ELSE content[e][p]]]

Propagate(p) ==
  /\ p \in conflicted /\ Settled(p)
  /\ conflicted' = conflicted \ {p} /\ clock' = clock + 1
  /\ content' = Propagated({p})
  /\ UNCHANGED <<setting, edits, disk, command, locals, agent, faults, reports, histories>>

PropagateRemoval(p) ==
  /\ p \in setting.conflicts \ conflicted
  /\ \E e \in Endpoints : Exists(content[e][p]) /\ ~Exists(content[Other(e)][p])
  /\ content' = [content EXCEPT !["local"][p] = NoObject, !["remote"][p] = NoObject]
  /\ UNCHANGED <<setting, conflicted, clock, edits, disk, command, locals, agent, faults, reports, histories>>

-----------------------------------------------------------------------------
(* Commands: beginning, end, cancellation.                                 *)

Kind == setting.script[command]
Prefer == IF Kind = "prefer local" THEN "local" ELSE "remote"
Path == Head(todo)
Source == content["local"][Path]
Kept == store[archive]                 \* the archive this resolution fills
Copied == Kept.copy[Path]
Set(n, a) == store' = [store EXCEPT ![n] = a]

Finish(result) ==
  /\ pc' = "idle" /\ todo' = <<>> /\ archive' = 0 /\ open' = NoSource /\ since' = 0
  /\ digest' = NoCopy /\ chosen' = {}
  /\ outcome' = [outcome EXCEPT ![command] = result]

Goto(label) == pc' = label /\ UNCHANGED outcome
Keeping == UNCHANGED <<todo, archive, open, since, digest, chosen>>

Orders(S) == {s \in UNION {[1..n -> S] : n \in 1..Cardinality(S)} :
                \A i, j \in DOMAIN s : s[i] = s[j] => i = j}

Start ==
  /\ pc = "idle" /\ command < Len(setting.script)
  /\ command' = command + 1
  /\ pc' = CASE setting.script[command'] \in {"prefer local", "prefer remote"} -> "preflight"
             [] setting.script[command'] = "prune" -> "select"
             [] setting.script[command'] = "restore" -> "find"
             [] setting.script[command'] = "verify" -> "enumerate"
  /\ status' = NoStatus /\ checked' = {} /\ restored' = NoCopy /\ spoilt' = {}
  /\ UNCHANGED <<setting, ends, disk, todo, archive, open, since, digest, chosen, agent, faults,
                 outcome, condemned, halved, lost>>

\* Ctrl-C: the context of the command ends.
Cancel ==
  /\ "cancel" \in setting.faults \ struck /\ pc # "idle"
  /\ struck' = struck \cup {"cancel"} /\ cancelled' = command
  /\ UNCHANGED <<setting, ends, disk, command, locals, agent, reports, histories>>
Cancelled == cancelled = command

DiskFails == /\ "disk" \in setting.faults \ struck
             /\ struck' = struck \cup {"disk"} /\ UNCHANGED cancelled

-----------------------------------------------------------------------------
(* sync resolve: both directions up to the copy.                           *)

\* The status read before the lock, and the paths given on the command line.
Preflight ==
  /\ pc = "preflight"
  /\ IF conflicted = {}
     THEN Finish("refused")
     ELSE /\ \E order \in Orders(conflicted) : todo' = order
          /\ Goto("lock")
          /\ UNCHANGED <<archive, open, since, digest, chosen>>
  /\ UNCHANGED <<setting, ends, disk, command, agent, faults, restored, status, checked, histories>>

\* The status read again under the workspace lock; then the archive gets its name.
ResolveLocked ==
  /\ pc = "lock"
  /\ IF \E i \in DOMAIN todo : todo[i] \notin conflicted
     THEN Finish("refused") /\ UNCHANGED used
     ELSE /\ used' = used + 1 /\ archive' = used + 1
          /\ Goto("next")
          /\ UNCHANGED <<todo, open, since, digest, chosen>>
  /\ UNCHANGED <<setting, ends, store, command, agent, faults, restored, status, checked, histories>>

\* A new destination: its parents are made, and a directory is made before its files.
Begun(a, p, kind) ==
  [a EXCEPT !.place = "visible", !.winner = Prefer, !.parents = @ \cup (setting.nested \cap {p}),
            !.copy[p] = IF kind = "directory" THEN [kind |-> kind, files |-> <<>>] ELSE NoCopy]

\* The next path: Copy inspects the local loser, or the agent is started.
NextPath ==
  /\ pc = "next"
  /\ IF todo = <<>>
     THEN Goto("barrier") /\ Keeping /\ UNCHANGED <<store, agent>>
     ELSE IF Prefer = "local"
     THEN /\ agent' = [agent EXCEPT ![command] = [Idle EXCEPT !.phase = "stream", !.path = Path]]
          /\ Set(archive, Begun(Kept, Path, "none"))
          /\ Goto("extract") /\ Keeping
     ELSE /\ UNCHANGED agent
          /\ IF Exists(Source)
             THEN /\ Set(archive, Begun(Kept, Path, Source.kind))
                  /\ since' = clock
                  /\ Goto("copy") /\ UNCHANGED <<todo, archive, open, digest, chosen>>
             ELSE Finish("failed") /\ Set(archive, Begun(Kept, Path, "none"))
  /\ UNCHANGED <<setting, ends, used, command, faults, restored, status, checked, histories>>

\* The file that is read next; Copy and WriteArchive go through a directory in order.
Observed(o, i, p) == [path |-> p, inode |-> o.inode, version |-> o.files[i]]

\* Mutant of Changed: a change while a file was read goes unnoticed.
ChangedUnnoticed(o, i, seen) == FALSE

\* The path names another object than the one that was opened, or none.
Displaced(o, seen) == ~Exists(o) \/ o.inode # seen.inode

\* sameObservedFile compares the open handle with itself: a file rewritten in place is noticed, a
\* replaced or removed one is not; the emptied directory is, by its own handle.
Changed(o, i, seen) ==
  IF Displaced(o, seen) THEN setting.kind[seen.path] = "directory" ELSE o.files[i] # seen.version

\* What the reader gets of file i: the handle keeps what it was opened on.
ReadOf(o, i, seen) == IF ~Displaced(o, seen) /\ o.files[i] # seen.version THEN Torn ELSE seen.version

Failing == Finish("failed")
\* Copy, on failure: the partial destination, if it made one, is removed; its parents stay.
CopyFails == /\ Failing
             /\ Set(archive, [Kept EXCEPT !.copy[Path] = NoCopy])

WithFile(c, kind, v) == [kind |-> kind, files |-> Append(c.files, v)]
CopyDone(c, kind) == c # NoCopy /\ Len(c.files) = FilesOf(kind) /\ open = NoSource

\* What Copy inspected is still there.
StillThere == Exists(Source) /\ Source.inode <= since

\* copyRegular: inspect and open; the destination is created.
CopyOpens ==
  /\ pc = "copy" /\ open = NoSource /\ ~CopyDone(Copied, setting.kind[Path])
  /\ IF StillThere
     THEN /\ open' = Observed(Source, Len(Copied.files) + 1, Path)
          /\ Set(archive, [Kept EXCEPT !.copy[Path] = WithFile(@, setting.kind[Path], Torn)])
          /\ UNCHANGED <<pc, todo, archive, since, digest, chosen, outcome>>
     ELSE CopyFails
  /\ UNCHANGED <<setting, ends, used, command, agent, faults, restored, status, checked, histories>>

\* The bytes are copied; the handle must show what it showed.  The new file is synced.
CopyReads ==
  /\ pc = "copy" /\ open # NoSource
  /\ LET i == Len(Copied.files)
     IN  \/ /\ Changed(Source, i, open) /\ CopyFails /\ UNCHANGED faults
         \/ /\ ~Changed(Source, i, open)
            /\ Set(archive, [Kept EXCEPT !.copy[Path].files[i] = ReadOf(Source, i, open)])
            /\ open' = NoSource
            /\ UNCHANGED <<pc, todo, archive, since, digest, chosen, outcome, faults>>
         \/ DiskFails /\ CopyFails
  /\ UNCHANGED <<setting, ends, used, command, agent, restored, status, checked, histories>>

\* syncRootDirectoryChain.  Copy leaves the copy where it is when this fails, ExtractArchive
\* removes it.
Synced(a, p) == [a EXCEPT !.synced = @ \cup {p}, !.durable = a.place]

CopySynced ==
  /\ pc = "copy" /\ CopyDone(Copied, setting.kind[Path])
  /\ \/ /\ Set(archive, Synced(Kept, Path))
        /\ digest' = Digest(Copied)
        /\ Goto("record") /\ UNCHANGED <<todo, archive, open, since, chosen, faults>>
     \/ DiskFails /\ Failing /\ UNCHANGED store
  /\ UNCHANGED <<setting, ends, used, command, agent, restored, status, checked, histories>>

-----------------------------------------------------------------------------
(* Recording the copy, and removing the local loser.                       *)

\* Mutant of Recorded: the manifest is written without its earlier entries.
RecordedAlone(a, p, d) ==
  [a EXCEPT !.entry = [q \in Paths |-> IF q = p THEN d ELSE NoCopy], !.filed = {}]

Recorded(a, p, d) == [a EXCEPT !.entry[p] = d]

Uncatalogued == Finish(IF Kind = "prefer local" THEN "preserved" ELSE "failed")

\* writeManifest up to its rename: the manifest is replaced at once.  A failure before that,
\* or a copy that is not what its summary says, leaves the old one.
Record ==
  /\ pc = "record"
  /\ \/ /\ MayRecord(Kept, Path, digest)
        /\ Set(archive, Recorded(Kept, Path, digest))
        /\ Goto("file") /\ Keeping /\ UNCHANGED faults
     \/ ~MayRecord(Kept, Path, digest) /\ Uncatalogued /\ UNCHANGED <<store, faults>>
     \/ DiskFails /\ Uncatalogued /\ UNCHANGED store
  /\ UNCHANGED <<setting, ends, used, command, agent, restored, status, checked, histories>>

AfterRecord == IF Kind = "prefer local" THEN "acknowledge" ELSE "remove"

\* writeManifest after the rename: its directory is synced.
FileManifest ==
  /\ pc = "file"
  /\ \/ /\ Set(archive, [Kept EXCEPT !.filed = Catalogued(Kept)])
        /\ Goto(AfterRecord) /\ Keeping /\ UNCHANGED faults
     \/ DiskFails /\ Uncatalogued /\ UNCHANGED store
  /\ UNCHANGED <<setting, ends, used, command, agent, restored, status, checked, histories>>

\* Whether version v of file i of p is in the store for good.
Archived(p, i, v) ==
  \E n \in 1..MaxArchives :
    LET a == store[n]
    IN  /\ a.place = "visible" /\ a.durable = "visible"
        /\ p \in a.filed \cap a.synced /\ i <= Len(a.entry[p].files)
        /\ a.entry[p].files[i] = v

Later(a, b) == IF a > b THEN a ELSE b

\* The files a removal of p at e discards: when they came there, and since when nobody looked.
Discarded(e, p, from) ==
  {[end |-> e, arrived |-> Later(content[e][p].files[i], content[e][p].inode), from |-> from] :
     i \in {j \in 1..Len(content[e][p].files) : ~Archived(p, j, content[e][p].files[j])}}

\* RemoveAll of the local loser, whatever it is by now.
RemoveLocal ==
  /\ pc = "remove"
  /\ lost' = lost \cup Discarded("local", Path, since)
  /\ content' = [content EXCEPT !["local"][Path] = NoObject]
  /\ \/ /\ Goto("next") /\ todo' = Tail(todo) /\ digest' = NoCopy /\ since' = 0
        /\ UNCHANGED <<archive, open, chosen, faults>>
     \/ DiskFails /\ Failing
  /\ UNCHANGED <<setting, conflicted, clock, edits, disk, command, agent, restored, status, checked, condemned, halved, spoilt>>

\* After the lock is released: the barrier flushes, and fails if anything still conflicts.
ResolveBarrier ==
  /\ pc = "barrier"
  /\ LET settled == {p \in conflicted : Settled(p)}
     IN  /\ conflicted' = conflicted \ settled
         /\ content' = Propagated(settled)
         /\ clock' = IF settled = {} THEN clock ELSE clock + 1
  /\ Finish(IF conflicted' = {} /\ ~Cancelled THEN "resolved" ELSE "unhealthy")
  /\ UNCHANGED <<setting, edits, disk, command, agent, faults, restored, status, checked, histories>>

-----------------------------------------------------------------------------
(* The agent's half: recovery-stream.                                      *)

Agents == 1..MaxCommands
Loser(k) == content["remote"][agent[k].path]
Expected(k) == FilesOf(setting.kind[agent[k].path])
AgentBecomes(k, a) == agent' = [agent EXCEPT ![k] = a]
OnlyAgents == UNCHANGED <<setting, ends, disk, command, locals, faults, reports, histories>>

\* The client still reads this stream and may still answer it.
Attached(k) ==
  /\ command = k /\ agent[k].link = "up"
  /\ pc \in {"extract", "chain", "record", "file", "acknowledge", "await"}

Trailer == [item |-> "trailer", bytes |-> Torn]
Sent(a, item) == IF a.link = "up" THEN Append(a.wire, item) ELSE a.wire

\* The directory whose files are being read, or the object a reading begins with.
LoserThere(k) ==
  LET a == agent[k]
  IN  /\ Exists(Loser(k))
      /\ a.read # <<>> => Loser(k).inode = (IF a.phase = "stream" THEN a.seen.inode ELSE a.again)

\* WriteArchive, over the stream or (the second time) into a digest only: the loser is
\* inspected, and its next file opened.
AgentOpens(k) ==
  LET a == agent[k] IN
  /\ a.phase \in {"stream", "verify"} /\ a.open = NoSource /\ Len(a.read) < Expected(k)
  /\ IF ~LoserThere(k)
     THEN AgentBecomes(k, [a EXCEPT !.phase = "failed"])
     ELSE AgentBecomes(k, [a EXCEPT
            !.open = Observed(Loser(k), Len(a.read) + 1, a.path),
            !.seen = IF a.phase = "stream" /\ a.read = <<>> THEN Loser(k) ELSE @,
            !.again = IF a.phase = "verify" /\ a.read = <<>> THEN Loser(k).inode ELSE @,
            !.wire = IF a.phase = "stream" /\ a.read = <<>> /\ Expected(k) > 1
                     THEN Sent(a, [item |-> "directory", bytes |-> Torn]) ELSE @])
  /\ OnlyAgents

\* Mutant of Broken: the tar writer is closed after a source failure as well.
BrokenClosed(wire) == Append(wire, Trailer)

Broken(wire) == wire

\* The bytes are on the stream before the file is compared with what was opened; a file that
\* changed ends the stream without its trailer.
AgentReads(k) ==
  LET a == agent[k]
      i == Len(a.read) + 1
      v == ReadOf(Loser(k), i, a.open)
      sent == IF a.phase = "stream" THEN Sent(a, [item |-> "file", bytes |-> v]) ELSE a.wire
  IN
  /\ a.phase \in {"stream", "verify"} /\ a.open # NoSource
  /\ AgentBecomes(k, IF Changed(Loser(k), i, a.open)
                     THEN [a EXCEPT !.phase = "failed", !.open = NoSource, !.wire = Broken(sent)]
                     ELSE [a EXCEPT !.read = Append(@, v), !.open = NoSource, !.wire = sent])
  /\ OnlyAgents

\* The trailer, and the wait for the acknowledgement.
AgentFinishes(k) ==
  LET a == agent[k] IN
  /\ a.phase = "stream" /\ a.open = NoSource /\ Len(a.read) = Expected(k)
  /\ AgentBecomes(k, [a EXCEPT !.phase = "acknowledge", !.first = a.read, !.read = <<>>,
                               !.wire = Sent(a, Trailer)])
  /\ OnlyAgents

\* A write to a reader that has gone.
AgentInterrupted(k) ==
  /\ agent[k].phase = "stream" /\ ~Attached(k)
  /\ AgentBecomes(k, [agent[k] EXCEPT !.phase = "failed"])
  /\ OnlyAgents

\* The acknowledgement arrives, or its stream ends without one.
\* Mutant of HungUp: a client that gives up leaves the stream open.
HungUpByNetwork(k) == agent[k].link = "cut"

HungUp(k) == ~Attached(k)

\* Mutant of Committed: the end of the stream is taken for an acknowledgement.
CommittedByEnd(k) == agent[k].ack = "commit" \/ ~Attached(k)

Committed(k) == agent[k].ack = "commit"

AgentAcknowledged(k) ==
  LET a == agent[k] IN
  /\ a.phase = "acknowledge"
  /\ \/ Committed(k) /\ AgentBecomes(k, [a EXCEPT !.phase = "verify", !.since = clock])
     \/ ~Committed(k) /\ HungUp(k) /\ AgentBecomes(k, [a EXCEPT !.phase = "failed"])
  /\ OnlyAgents

\* VerifyAndRemove: the second digest, and the identity of the object.
\* Mutant of Unchanged: the identity alone is compared.
UnchangedIdentity(k) == agent[k].again = agent[k].seen.inode

Unchanged(k) == agent[k].read = agent[k].first /\ agent[k].again = agent[k].seen.inode

AgentVerifies(k) ==
  LET a == agent[k] IN
  /\ a.phase = "verify" /\ a.open = NoSource /\ Len(a.read) = Expected(k)
  /\ AgentBecomes(k, [a EXCEPT !.phase = IF Unchanged(k) THEN "inspect" ELSE "failed"])
  /\ OnlyAgents

\* VerifyAndRemove: the last Lstat, which sees an edit of a file but none below a directory.
AgentInspects(k) ==
  LET a == agent[k]
      same == /\ Exists(Loser(k)) /\ Loser(k).inode = a.seen.inode
              /\ a.seen.kind = "regular" => Loser(k).files = a.seen.files
  IN
  /\ a.phase = "inspect"
  /\ AgentBecomes(k, IF ~same THEN [a EXCEPT !.phase = "failed"]
                     ELSE [a EXCEPT !.phase = "remove",
                                    !.since = IF a.seen.kind = "regular" THEN clock ELSE @])
  /\ OnlyAgents

AgentRemoves(k) ==
  LET a == agent[k] IN
  /\ a.phase = "remove"
  /\ lost' = lost \cup Discarded("remote", a.path, a.since)
  /\ content' = [content EXCEPT !["remote"][a.path] = NoObject]
  /\ AgentBecomes(k, [a EXCEPT !.phase = "done", !.removed = TRUE])
  /\ UNCHANGED <<setting, conflicted, clock, edits, disk, command, locals, faults, reports, condemned, halved, spoilt>>

\* The connection fails, by itself or because the cancelled client kills its ssh; what was
\* sent and not received may be gone.
Cut(k) ==
  /\ agent[k].phase # "none" /\ agent[k].link = "up"
  /\ \/ "cut" \in setting.faults \ struck /\ struck' = struck \cup {"cut"}
     \/ cancelled = k /\ command = k /\ pc # "idle" /\ UNCHANGED struck
  /\ \E ack \in {agent[k].ack, "none"}, n \in 0..Len(agent[k].wire) :
       AgentBecomes(k, [agent[k] EXCEPT !.link = "cut", !.ack = ack, !.wire = SubSeq(@, 1, n)])
  /\ UNCHANGED <<setting, ends, disk, command, locals, cancelled, reports, histories>>

-----------------------------------------------------------------------------
(* The client's half: receiveRemoteLoser.                                  *)

Stream == agent[command]
Item == Head(Stream.wire)
Took == AgentBecomes(command, [Stream EXCEPT !.wire = Tail(@)])
ExtractFails == /\ Failing
                /\ Set(archive, [Kept EXCEPT !.copy[Path] = NoCopy])
ByClient == UNCHANGED <<setting, ends, used, command, restored, status, checked, histories>>

\* extractHeader: a directory is made, a file is created ...
ExtractOpens ==
  /\ pc = "extract" /\ open = NoSource /\ Stream.wire # <<>> /\ Item.item \in {"directory", "file"}
  /\ IF Item.item = "directory"
     THEN /\ Set(archive, [Kept EXCEPT !.copy[Path] = [kind |-> "directory", files |-> <<>>]])
          /\ Took /\ UNCHANGED open
     ELSE /\ Set(archive, [Kept EXCEPT !.copy[Path] = WithFile(@, setting.kind[Path], Torn)])
          /\ open' = [path |-> Path, inode |-> 0, version |-> Item.bytes]
          /\ UNCHANGED agent
  /\ UNCHANGED <<pc, todo, archive, since, digest, chosen, outcome, faults>> /\ ByClient

\* ... written and synced.
ExtractWrites ==
  /\ pc = "extract" /\ open # NoSource
  /\ \/ /\ Set(archive, [Kept EXCEPT !.copy[Path].files[Len(Copied.files)] = open.version])
        /\ Stream.wire # <<>> /\ Took /\ open' = NoSource
        /\ UNCHANGED <<pc, todo, archive, since, digest, chosen, outcome, faults>>
     \/ (DiskFails \/ (Stream.wire = <<>> /\ UNCHANGED faults)) /\ ExtractFails /\ UNCHANGED agent
  /\ ByClient

\* The trailer was read; directories and the chain of parents are synced.
ExtractEnds ==
  /\ pc = "extract" /\ open = NoSource /\ Stream.wire # <<>> /\ Item.item = "trailer"
  /\ \/ /\ Set(archive, Synced(Kept, Path))
        /\ digest' = Digest(Copied)
        /\ Took /\ Goto("record") /\ UNCHANGED <<todo, archive, open, since, chosen, faults>>
     \/ DiskFails /\ ExtractFails /\ UNCHANGED agent
  /\ ByClient

StreamEnded == Stream.phase = "failed" \/ Stream.link = "cut"

\* The stream ends before its trailer.
ExtractTruncated ==
  /\ pc = "extract" /\ open = NoSource /\ Stream.wire = <<>>
  /\ StreamEnded
  /\ ExtractFails
  /\ UNCHANGED <<agent, faults>> /\ ByClient

\* The acknowledgement of the catalogued copy.
Acknowledge ==
  /\ pc = "acknowledge"
  /\ IF Stream.link = "up"
     THEN AgentBecomes(command, [Stream EXCEPT !.ack = "commit"]) /\ Goto("await") /\ Keeping
     ELSE Finish("preserved") /\ UNCHANGED agent
  /\ UNCHANGED <<store, faults>> /\ ByClient

\* Its result; anything but a matching one leaves the outcome open.
Await ==
  /\ pc = "await"
  /\ \/ /\ Stream.phase = "done" /\ Stream.link = "up" /\ ~Cancelled /\ Stream.first = digest.files
        /\ Goto("next") /\ todo' = Tail(todo) /\ digest' = NoCopy
        /\ UNCHANGED <<archive, open, since, chosen>>
     \/ /\ StreamEnded \/ Cancelled
        /\ Finish("uncertain")
  /\ UNCHANGED <<agent, store, faults>> /\ ByClient

-----------------------------------------------------------------------------
(* sync recovery prune.                                                    *)

OnlyPrune == UNCHANGED <<setting, ends, used, command, agent, restored, checked, spoilt, lost>>
ByPrune == OnlyPrune /\ UNCHANGED halved

\* The selection, its report, and the choice between --dry-run and --yes.
PruneSelect ==
  /\ pc = "select"
  /\ \/ Finish("previewed") /\ UNCHANGED <<status, condemned>>
     \/ LET selected == SelectForPrune(store, setting.keep) IN
        /\ chosen' = selected
        /\ condemned' = condemned \cup selected
        /\ status' = [n \in 1..MaxArchives |-> IF n \in selected THEN "not-run" ELSE "none"]
        /\ Goto("clean") /\ UNCHANGED <<todo, archive, open, since, digest>>
  /\ UNCHANGED <<store, faults>> /\ ByPrune

Tombstones == {n \in 1..MaxArchives : store[n].place = "tombstone"}
Stale == Tombstones

\* removeTreeContext: what an interrupted removal leaves of an archive.
PartlyRemoved(a) ==
  {[a EXCEPT !.copy = [p \in Paths |-> IF p \in gone THEN NoCopy ELSE a.copy[p]]] : gone \in SUBSET Paths}

\* cleanPruneTombstones: the content of a stale tombstone is removed, then the tombstone, and the
\* root synced.  (The renaming of a stale tombstone may never have been.)
CleanTombstone ==
  /\ pc = "clean" /\ ~Cancelled
  /\ \E n \in Stale :
       \/ /\ \/ \E a \in PartlyRemoved(store[n]) : Set(n, a)
             \/ Set(n, [store[n] EXCEPT !.place = "absent", !.durable = "absent"])
          /\ halved' = halved \cup {m \in {n} : store[m].durable = "visible"}
          /\ UNCHANGED <<locals, outcome, faults>>
       \/ DiskFails /\ Finish("incomplete") /\ UNCHANGED <<store, halved>>
  /\ UNCHANGED <<status, condemned>> /\ OnlyPrune

\* Cancellation is noticed between two archives, and before the removal of a tombstone.
PruneStops ==
  /\ pc \in {"clean", "hide"} /\ Cancelled
  /\ Finish("incomplete")
  /\ UNCHANGED <<store, faults, status, condemned>> /\ ByPrune

PruneCleaned ==
  /\ pc = "clean" /\ Stale = {} /\ ~Cancelled
  /\ Goto("hide") /\ Keeping
  /\ UNCHANGED <<store, faults, status, condemned>> /\ ByPrune

Newest(S) == CHOOSE n \in S : \A m \in S : m <= n
Victim == Newest(chosen)

\* Mutant of Hidden: the archive is removed in place.
HiddenInPlace(a) == a

Hidden(a) == [a EXCEPT !.place = "tombstone"]

\* The archive is renamed to a tombstone.
PruneHides ==
  /\ pc = "hide" /\ chosen # {} /\ ~Cancelled
  /\ Set(Victim, Hidden(store[Victim]))
  /\ Goto("stage") /\ Keeping
  /\ UNCHANGED <<faults, status, condemned>> /\ ByPrune

\* The root is synced; if that fails the rename is undone, if it can be.
PruneStages ==
  /\ pc = "stage"
  /\ \/ /\ Set(Victim, [store[Victim] EXCEPT !.durable = "tombstone"])
        /\ Goto("reclaim") /\ Keeping /\ UNCHANGED <<status, faults>>
     \/ DiskFails /\ Finish("incomplete")
        /\ \/ Set(Victim, [store[Victim] EXCEPT !.place = "visible"]) /\ UNCHANGED status
           \/ status' = [status EXCEPT ![Victim] = "pending-cleanup"] /\ UNCHANGED store
  /\ UNCHANGED condemned /\ ByPrune

\* The tombstone is removed, entirely or up to a failure or the cancellation.
PruneReclaims ==
  /\ pc = "reclaim"
  /\ \/ /\ ~Cancelled
        /\ Set(Victim, [store[Victim] EXCEPT !.place = "absent"])
        /\ Goto("settle") /\ Keeping /\ UNCHANGED <<status, faults>>
     \/ /\ (Cancelled /\ UNCHANGED faults) \/ DiskFails
        /\ \E a \in PartlyRemoved(store[Victim]) : Set(Victim, a)
        /\ status' = [status EXCEPT ![Victim] = "pending-cleanup"]
        /\ Finish("incomplete")
  /\ UNCHANGED condemned /\ ByPrune

\* The root is synced again; a failure ends the command, but the archive counts as pruned.
PruneSettles ==
  /\ pc = "settle"
  /\ status' = [status EXCEPT ![Victim] = "pruned"]
  /\ \/ /\ Set(Victim, [store[Victim] EXCEPT !.durable = "absent"])
        /\ Goto("hide") /\ chosen' = chosen \ {Victim}
        /\ UNCHANGED <<todo, archive, open, since, digest, faults>>
     \/ DiskFails /\ Finish("incomplete") /\ UNCHANGED store
  /\ UNCHANGED condemned /\ ByPrune

PruneEnds ==
  /\ pc = "hide" /\ chosen = {}
  /\ Finish(IF Cancelled THEN "incomplete" ELSE "complete")
  /\ UNCHANGED <<store, faults, status, condemned>> /\ ByPrune

-----------------------------------------------------------------------------
(* sync recovery restore and verify.                                       *)

ByReader == UNCHANGED <<setting, ends, disk, command, agent, status, condemned, halved, lost>>
Stored(e) == store[e.archive].copy[e.path]

\* Restore: the strict listing, the entry, and its digest if it has one.
RestoreFinds ==
  /\ pc = "find"
  /\ \/ Finish("refused")               \* the id is not listed
     \/ ~MetadataCurrent(store) /\ Failing
     \/ /\ MetadataCurrent(store)
        /\ \E e \in ListForVerification(store) :
             IF e.digest # NoCopy /\ Digest(Stored(e)) # e.digest
             THEN Failing
             ELSE /\ chosen' = {e} /\ digest' = e.digest
                  /\ Goto("restore") /\ UNCHANGED <<todo, archive, open, since>>
  /\ UNCHANGED <<faults, restored, checked, spoilt>> /\ ByReader

\* What is copied: a recorded object, one file of an archive without a manifest, or an
\* empty directory.
Wanted(e) ==
  IF e.digest # NoCopy THEN Stored(e)
  ELSE IF e.leaf > 0 THEN [kind |-> "regular", files |-> <<Stored(e).files[e.leaf]>>]
  ELSE [kind |-> "directory", files |-> <<>>]
TheEntry == CHOOSE e \in chosen : TRUE

\* Copy into the new destination, one file at a time; a failure removes it again.
RestoreCopies ==
  /\ pc = "restore"
  /\ LET wanted == Wanted(TheEntry)
         n == Len(restored.files)
     IN  IF n < Len(wanted.files)
         THEN \/ restored' = WithFile(restored, wanted.kind, wanted.files[n + 1])
                 /\ UNCHANGED <<locals, outcome, faults>>
              \/ DiskFails /\ restored' = NoCopy /\ Failing
         ELSE /\ restored' = [kind |-> wanted.kind, files |-> restored.files]
              /\ IF digest = NoCopy THEN Finish("copied") ELSE Goto("compare") /\ Keeping
              /\ UNCHANGED faults
  /\ UNCHANGED <<checked, spoilt>> /\ ByReader

\* The new destination is read again; anything else than the recorded digest is removed.
\* Mutant of Compared: the first digest is trusted.
ComparedEarlier == TRUE

Compared == Digest(restored) = digest

RestoreCompares ==
  /\ pc = "compare"
  /\ IF Compared THEN Finish("restored") /\ UNCHANGED restored
                 ELSE Failing /\ restored' = NoCopy
  /\ UNCHANGED <<faults, checked, spoilt>> /\ ByReader

\* The entries to verify: all of them, or those named.
VerifyBegins ==
  /\ pc = "enumerate"
  /\ \E S \in SUBSET ListForVerification(store) :
       /\ chosen' = S
       /\ spoilt' = {e \in S : e.digest # NoCopy /\ Digest(Stored(e)) # e.digest}
  /\ Goto("verify") /\ UNCHANGED <<todo, archive, open, since, digest, faults, restored, checked>>
  /\ ByReader

VerifyNext ==
  /\ pc = "verify" /\ chosen # {} /\ ~Cancelled
  /\ \E e \in chosen : /\ checked' = checked \cup {[entry |-> e, is |-> VerifyStatus(store, e)]}
                       /\ chosen' = chosen \ {e}
  /\ UNCHANGED <<pc, todo, archive, open, since, digest, outcome, faults, restored, spoilt>> /\ ByReader

VerifyEnds ==
  /\ pc = "verify" /\ (chosen = {} \/ Cancelled)
  /\ Finish(IF Cancelled THEN "interrupted"
            ELSE IF \A r \in checked : r.is = "verified" THEN "verified" ELSE "damaged")
  /\ UNCHANGED <<faults, restored, checked, spoilt>> /\ ByReader

-----------------------------------------------------------------------------
(* Faults.                                                                 *)

\* The process is killed: its lock is released, its ssh lives on without it.
Crash ==
  /\ "crash" \in setting.faults \ struck /\ pc # "idle"
  /\ struck' = struck \cup {"crash"}
  /\ Finish("crashed")
  /\ UNCHANGED <<setting, ends, disk, command, agent, cancelled, restored, status, checked, histories>>

\* The Mac loses power: what was not synced may be gone, the connections are.
PowerLoss ==
  /\ "power" \in setting.faults \ struck
  /\ struck' = struck \cup {"power"}
  /\ store' \in {s \in [1..MaxArchives -> UNION {AfterPowerLoss(store[n]) : n \in 1..MaxArchives}] :
                  \A n \in 1..MaxArchives : s[n] \in AfterPowerLoss(store[n])}
  /\ agent' = [k \in Agents |-> IF agent[k].phase = "none" THEN agent[k]
                                ELSE [agent[k] EXCEPT !.link = "cut"]]
  /\ IF pc # "idle" THEN Finish("crashed")
     ELSE /\ outcome' = [k \in Agents |-> IF outcome[k] \in {"complete", "incomplete"}
                                          THEN "outdated" ELSE outcome[k]]
          /\ UNCHANGED locals
  /\ status' = NoStatus                \* what was reported was reported before
  /\ UNCHANGED <<setting, ends, used, command, cancelled, restored, checked, histories>>

\* A recovery copy is damaged on the disk.
Rots ==
  /\ "rot" \in setting.faults \ struck
  /\ struck' = struck \cup {"rot"}
  /\ \E n \in 1..MaxArchives, p \in Paths :
       /\ store[n].place = "visible" /\ p \in store[n].synced
       /\ \E i \in 1..Len(store[n].copy[p].files), damage \in {Rot, Short} :
            Set(n, [store[n] EXCEPT !.copy[p].files[i] = damage])
  /\ UNCHANGED <<setting, ends, used, command, locals, agent, cancelled, reports, histories>>

-----------------------------------------------------------------------------
Resolving == Preflight \/ ResolveLocked \/ NextPath \/ CopyOpens \/ CopyReads \/ CopySynced
             \/ Record \/ FileManifest \/ RemoveLocal \/ ResolveBarrier
             \/ ExtractOpens \/ ExtractWrites \/ ExtractEnds \/ ExtractTruncated \/ Acknowledge \/ Await
Pruning == PruneSelect \/ CleanTombstone \/ PruneStops \/ PruneCleaned \/ PruneHides \/ PruneStages
           \/ PruneReclaims \/ PruneSettles \/ PruneEnds
Reading == RestoreFinds \/ RestoreCopies \/ RestoreCompares \/ VerifyBegins \/ VerifyNext \/ VerifyEnds
Client == Resolving \/ Pruning \/ Reading
AgentSteps(k) == AgentOpens(k) \/ AgentReads(k) \/ AgentFinishes(k) \/ AgentInterrupted(k)
                 \/ AgentAcknowledged(k) \/ AgentVerifies(k) \/ AgentInspects(k) \/ AgentRemoves(k)
Faults == Cancel \/ Crash \/ PowerLoss \/ Rots \/ \E k \in Agents : Cut(k)
Users == \E p \in Paths : Edit(p) \/ Propagate(p) \/ PropagateRemoval(p)

\* Nothing more is to come, or a process waits for its peer.  (That it does not wait for
\* ever is stated below, as a property.)
Over == /\ \/ pc = "idle" /\ command = Len(setting.script)
           \/ pc \in {"extract", "await"}
        /\ \A k \in Agents : agent[k].phase \in {"none", "acknowledge", "done", "failed"}
        /\ UNCHANGED vars

Next == Start \/ Client \/ (\E k \in Agents : AgentSteps(k)) \/ Faults \/ Users \/ Over

Spec == Init /\ [][Next]_vars

\* The command's process and the agents are scheduled; the users, the faults and Mutagen owe nothing.
Fairness == WF_vars(Client) /\ \A k \in Agents : WF_vars(AgentSteps(k))
FairSpec == Spec /\ Fairness

-----------------------------------------------------------------------------
(* Properties.                                                             *)

Outcomes == {"none", "refused", "failed", "preserved", "uncertain", "resolved", "unhealthy", "previewed",
             "complete", "incomplete", "restored", "copied", "verified", "damaged", "interrupted", "crashed", "outdated"}
Phases == {"none", "stream", "acknowledge", "verify", "inspect", "remove", "done", "failed"}

\* Every variable has the shape its code counterpart has.
TypeOK ==
  /\ content \in [Endpoints -> [Paths -> Objects \cup {NoObject}]]
  /\ conflicted \subseteq Paths /\ clock \in 3..MaxVersion /\ edits \in 0..MaxVersion
  /\ store \in [1..MaxArchives -> Archive] /\ used \in 0..MaxArchives
  /\ command \in 0..MaxCommands /\ archive \in 0..MaxArchives /\ since \in 0..MaxVersion
  /\ digest \in Copies \cup {NoCopy} /\ restored \in Copies \cup {NoCopy}
  /\ \A k \in Agents : agent[k].phase \in Phases /\ outcome[k] \in Outcomes
  /\ struck \subseteq FaultKinds /\ condemned \subseteq 1..MaxArchives

Same(c, d) == /\ c.kind = d.kind /\ Len(c.files) = Len(d.files)
              /\ \A i \in DOMAIN c.files : c.files[i] \in {d.files[i], Rot, Short}
EntriesHonest(a) ==
  a.place = "visible" => \A p \in Catalogued(a) :
    LET d == a.entry[p]
    IN  /\ Same(a.copy[p], d)
        /\ Len(d.files) = FilesOf(d.kind) /\ Torn \notin {d.files[i] : i \in DOMAIN d.files}

\* The catalogue names only backups that are there: every entry of a visible archive has the
\* copy its digest was taken of, whole, through crashes, power losses, truncated streams
\* and interrupted prunes; only damage to the disk may change it later.  Except, where the code
\* does not keep this: an archive that a later prune has begun to remove as a stale tombstone
\* although its renaming was not on the disk, which a power loss then brings back.
StoreSound == TypeOK /\ \A n \in 1..MaxArchives : n \in halved \/ EntriesHonest(store[n])

\* Prune `durably removes complete selected archives from the visible catalog before reclaiming
\* their content' (recovery.go:445-447).  Refuted by the exception above: the cleaning of stale
\* tombstones does not sync the root before it removes them.
HiddenBeforeReclaimed == \A n \in 1..MaxArchives : EntriesHonest(store[n])

\* Whatever a removal discards that no durable, catalogued backup holds came to the losing
\* side after the code last looked there: after the agent began its second reading (for a file: after its
\* last Lstat), or after the local copy was begun.
LossWindow == \A l \in lost : l.arrived > l.from

\* Nothing a user wrote is discarded (architecture.md: `Pwnbridge will never silently
\* discard a version to make execution continue').  Refuted: the local loser is removed
\* without being compared with its copy.
NothingDiscarded == lost = {}

\* A resolution that failed, or reported that the remote copy was preserved, has not removed
\* it, and will not; one that succeeded has.
PreservedMeansPreserved ==
  \A k \in Agents :
    /\ outcome[k] \in {"preserved", "failed", "refused"} => ~agent[k].removed /\ agent[k].phase \notin
         {"verify", "inspect", "remove"}
    /\ outcome[k] = "resolved" /\ setting.script[k] = "prefer local" => agent[k].removed

\* An archive disappears from the catalogue only because a confirmed prune selected it; what
\* prune reports is the case when it reports it, and a complete prune leaves no tombstone,
\* its predecessors' included.
PruneReportHonest ==
  /\ \A n \in 1..setting.old : store[n].place # "visible" => n \in condemned
  /\ pc = "idle" /\ command > 0 /\ outcome[command] \in {"complete", "incomplete"} =>
       \A n \in 1..MaxArchives :
         /\ status[n] = "pruned" => store[n].place = "absent"
         /\ status[n] = "pending-cleanup" => store[n].place = "tombstone"
         /\ status[n] = "not-run" => store[n].place = "visible"
         /\ outcome[command] = "complete" => store[n].place # "tombstone" /\ status[n] # "not-run"

\* A restore that reports success has delivered the recorded content, although the copy may
\* rot between the check of its digest and the copying.
RestoreDelivers ==
  pc = "idle" /\ command > 0 /\ outcome[command] = "restored" =>
    {Rot, Short, Torn} \cap {restored.files[i] : i \in DOMAIN restored.files} = {}

\* A verification reported as complete has missed nothing that was damaged when it began.
DamageIsReported ==
  pc = "idle" /\ command > 0 /\ outcome[command] = "verified" => spoilt = {}

\* The three reports a user acts upon are true.
ReportsTrue == PruneReportHonest /\ RestoreDelivers /\ DamageIsReported

\* A restore without a recorded digest delivers whole files too.  Refuted: what an interrupted
\* first copy of a resolution left behind is listed as an entry of the old layout, and restored.
UnverifiedRestoreWhole ==
  pc = "idle" /\ command > 0 /\ outcome[command] = "copied" =>
    Torn \notin {restored.files[i] : i \in DOMAIN restored.files}

\* A prune that keeps N keeps N backups, if there were as many.  Refuted: such a leftover
\* counts as the newest archive.
KeepLastKeepsBackups ==
  pc = "idle" /\ command > 0 /\ outcome[command] = "complete" =>
    \/ Cardinality({n \in 1..setting.old : store[n].place = "visible"}) >= setting.keep
    \/ setting.old < setting.keep
    \/ \E n \in (setting.old + 1)..MaxArchives : Catalogued(store[n]) # {}

\* Nobody waits for ever: a command ends whatever becomes of its stream, and so does an agent
\* that its client has left, having removed the loser or not.
BothSidesEnd == []<>(pc = "idle" /\ \A k \in Agents : agent[k].phase \in {"none", "done", "failed"})
=============================================================================

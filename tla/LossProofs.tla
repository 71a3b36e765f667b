------------------------------ MODULE LossProofs ------------------------------
(***************************************************************************)
(* What a removal may discard: only what came to the losing side after the *)
(* code last looked there.  The argument follows the arrival times of the  *)
(* losing side's files from the last look to the removal, and the durable, *)
(* catalogued backup from its record to the agent's removal.               *)
(***************************************************************************)
EXTENDS RecoveryProofs

-----------------------------------------------------------------------------
(* What a step brings to an endpoint.                                      *)

\* The latest change of file j of an object.
Arrived(o, j) == Later(o.files[j], o.inode)

\* A file that is there after a step was there before it, or came with it.
StaysOrComes(e, p) ==
  \A j \in 1..Len(content'[e][p].files) :
    \/ Arrived(content'[e][p], j) > clock
    \/ /\ j \in 1..Len(content[e][p].files) /\ content'[e][p].inode = content[e][p].inode
       /\ content'[e][p].files[j] = content[e][p].files[j]
OnlyNews == clock' >= clock /\ \A e \in Endpoints, p \in Paths : StaysOrComes(e, p)

LEMMA ObjectFacts ==
  ASSUME EndsInv, setting \in Settings, NEW e \in Endpoints, NEW p \in Paths
  PROVE  LET o == content[e][p]
         IN  /\ o = NoObject \/ o \in ObjectsAt(p)
             /\ o.inode \in Nat /\ o.files \in Seq(1..MaxVersion) /\ Len(o.files) \in Nat
             /\ \A j \in 1..Len(o.files) : o.files[j] \in Nat
             /\ clock \in Nat
<1> DEFINE o == content[e][p]
<1>1. o \in ObjectsAt(p) \cup {NoObject} /\ clock \in Nat BY DEF EndsInv
<1>2. CASE o = NoObject
  <2>1. o.inode = 0 /\ o.files = <<>> BY <1>2 DEF NoObject
  <2> HIDE DEF o
  <2>2. o.files \in Seq(1..MaxVersion) /\ Len(o.files) = 0 BY <2>1
  <2> QED BY <1>1, <1>2, <2>1, <2>2 DEF o
<1>3. CASE o \in ObjectsAt(p)
  <2>1. o.files \in Seq(1..MaxVersion) /\ o.inode \in 0..MaxVersion BY <1>3, KindFacts DEF ObjectsAt
  <2> HIDE DEF o
  <2>2. \A j \in 1..Len(o.files) : o.files[j] \in 1..MaxVersion BY <2>1, ElementsTyped
  <2>3. MaxVersion \in Nat BY CatalogAssumption
  <2> QED BY <1>1, <1>3, <2>1, <2>2, <2>3 DEF o
<1> QED BY <1>1, <1>2, <1>3

LEMMA SameObjectsOnlyNews ==
  ASSUME EndsInv, clock' = clock,
         \A e \in Endpoints, p \in Paths : content'[e][p] = content[e][p] \/ content'[e][p] = NoObject
  PROVE  OnlyNews
<1>1. clock' >= clock BY DEF EndsInv
<1>2. Len(NoObject.files) = 0 BY DEF NoObject
<1>3. \A e \in Endpoints, p \in Paths : StaysOrComes(e, p) BY <1>2 DEF StaysOrComes
<1> QED BY <1>1, <1>3 DEF OnlyNews

LEMMA EditsOnlyNews == ASSUME EndsInv, setting \in Settings, NEW p \in Paths, Edit(p) PROVE OnlyNews
<1> DEFINE e == setting.edited
           o == content[e][p]
<1>1. e \in Endpoints
  <2>1. setting \in Setting BY RecoveryAssumption
  <2> QED BY <2>1 DEF Setting
<1>2. clock' = clock + 1 /\ clock \in Nat BY DEF Edit, EndsInv
<1>3. PICK n \in Edited(o) : content' = [content EXCEPT ![e][p] = n] BY DEF Edit
<1>4. content'[e][p] = n BY <1>1, <1>3 DEF EndsInv
<1>5. \A d \in Endpoints, q \in Paths : ~(d = e /\ q = p) => content'[d][q] = content[d][q] BY <1>1, <1>3 DEF EndsInv
<1>6. /\ o.inode \in Nat /\ o.files \in Seq(1..MaxVersion) /\ Len(o.files) \in Nat
      /\ \A j \in 1..Len(o.files) : o.files[j] \in Nat
      /\ o \in ObjectsAt(p)
  BY <1>1, ObjectFacts DEF Edit, Exists
<1>7. StaysOrComes(e, p)
  <2>1. ASSUME NEW i \in 1..Len(o.files), n = [o EXCEPT !.files[i] = clock + 1] PROVE StaysOrComes(e, p)
    <3>1. n.inode = o.inode /\ n.files = [o.files EXCEPT ![i] = clock + 1] BY <1>6, <2>1 DEF ObjectsAt
    <3> HIDE DEF o
    <3>2. Len(n.files) = Len(o.files) /\ n.files[i] = clock + 1
      BY <1>6, <3>1
    <3>3. \A j \in 1..Len(o.files) : j # i => n.files[j] = o.files[j] BY <1>6, <3>1
    <3>4. Arrived(n, i) > clock BY <1>2, <1>6, <3>1, <3>2 DEF Arrived, Later
    <3> QED BY <1>4, <3>1, <3>2, <3>3, <3>4 DEF StaysOrComes, o
  <2>2. ASSUME n = [o EXCEPT !.inode = clock + 1, !.files = [i \in 1..Len(o.files) |-> clock + 1]]
        PROVE  StaysOrComes(e, p)
    <3>1. n.inode = clock + 1 /\ n.files = [i \in 1..Len(o.files) |-> clock + 1] BY <1>6, <2>2 DEF ObjectsAt
    <3> HIDE DEF o
    <3>2. Len(n.files) = Len(o.files) /\ \A j \in 1..Len(o.files) : n.files[j] = clock + 1 BY <1>6, <3>1
    <3>3. \A j \in 1..Len(n.files) : Arrived(n, j) > clock BY <1>2, <3>1, <3>2 DEF Arrived, Later
    <3> QED BY <1>4, <3>3 DEF StaysOrComes
  <2>3. ASSUME n = NoObject PROVE StaysOrComes(e, p)
    <3>1. Len(n.files) = 0 BY <2>3 DEF NoObject
    <3> QED BY <1>4, <3>1 DEF StaysOrComes
  <2> QED BY <1>3, <2>1, <2>2, <2>3 DEF Edited
<1>8. \A d \in Endpoints, q \in Paths : StaysOrComes(d, q) BY <1>5, <1>7 DEF StaysOrComes
<1> QED BY <1>2, <1>8 DEF OnlyNews

LEMMA PropagationOnlyNews ==
  ASSUME EndsInv, setting \in Settings, NEW gone \in SUBSET Paths, content' = Propagated(gone),
         clock' = clock \/ clock' = clock + 1
  PROVE  OnlyNews
<1>1. clock' >= clock /\ clock \in Nat BY DEF EndsInv
<1>2. ASSUME NEW e \in Endpoints, NEW p \in Paths PROVE StaysOrComes(e, p)
  <2> DEFINE o == content[Other(e)][p]
  <2>1. Other(e) \in Endpoints BY DEF Other, Endpoints
  <2>2. content'[e][p] = content[e][p] \/ content'[e][p] = Received(o) BY DEF Propagated
  <2>3. /\ o.inode \in Nat /\ o.files \in Seq(1..MaxVersion) /\ \A j \in 1..Len(o.files) : o.files[j] \in Nat
        /\ o = NoObject \/ o \in ObjectsAt(p)
    BY <2>1, ObjectFacts
  <2>4. CASE o = NoObject
    <3>1. Received(o) = NoObject BY <2>4 DEF Received, Exists
    <3>2. Len(NoObject.files) = 0 BY DEF NoObject
    <3> QED BY <2>2, <3>1, <3>2 DEF StaysOrComes
  <2>5. CASE o # NoObject
    <3>1. Received(o) = [o EXCEPT !.inode = clock + 1] BY <2>5 DEF Received, Exists
    <3>2. Received(o).inode = clock + 1 /\ Received(o).files = o.files BY <2>3, <2>5, <3>1 DEF ObjectsAt
    <3>3. \A j \in 1..Len(o.files) : Arrived(Received(o), j) > clock BY <1>1, <2>3, <3>2 DEF Arrived, Later
    <3> QED BY <2>2, <3>2, <3>3 DEF StaysOrComes
  <2> QED BY <2>4, <2>5
<1> QED BY <1>1, <1>2 DEF OnlyNews

LEMMA Window == ASSUME CommandInv, EndsInv, LocalsInv, AgentsInv, [Next]_vars PROVE OnlyNews
<1>1. setting \in Settings BY DEF CommandInv
<1>0. content \in [Endpoints -> [Paths -> Objects \cup {NoObject}]] BY DEF EndsInv
<1>s. UNCHANGED <<content, clock>> => OnlyNews BY SameObjectsOnlyNews
<1>r. ASSUME NEW e \in Endpoints, NEW p, content' = [content EXCEPT ![e][p] = NoObject], clock' = clock PROVE OnlyNews
  <2>1. \A d \in Endpoints, q \in Paths : content'[d][q] = content[d][q] \/ content'[d][q] = NoObject BY <1>0, <1>r
  <2> QED BY <1>r, <2>1, SameObjectsOnlyNews
<1>2. CASE Start \/ Pruning \/ Reading
  <2>1. UNCHANGED <<content, clock>>
    BY <1>2 DEF Start, Pruning, PruneSelect, CleanTombstone, PruneStops, PruneCleaned, PruneHides, PruneStages, PruneReclaims,
       PruneSettles, PruneEnds, ByPrune, OnlyPrune, Reading, RestoreFinds, RestoreCopies, RestoreCompares, VerifyBegins, VerifyNext,
       VerifyEnds, ByReader, ends
  <2> QED BY <1>s, <2>1
<1>3. CASE RemoveLocal
  <2>1. content' = [content EXCEPT !["local"][Path] = NoObject] /\ clock' = clock BY <1>3 DEF RemoveLocal
  <2> QED BY <1>r, <2>1 DEF Endpoints
<1>4. CASE ResolveBarrier
  <2> DEFINE gone == {p \in conflicted : Settled(p)}
  <2>1. content' = Propagated(gone) /\ (clock' = clock \/ clock' = clock + 1) BY <1>4 DEF ResolveBarrier
  <2>2. gone \in SUBSET Paths BY <1>1, ScriptFacts DEF EndsInv
  <2> HIDE DEF gone
  <2> QED BY <1>1, <2>1, <2>2, PropagationOnlyNews
<1>5. CASE Resolving /\ ~RemoveLocal /\ ~ResolveBarrier
  <2>1. UNCHANGED <<content, clock>>
    BY <1>5 DEF Resolving, Preflight, ResolveLocked, NextPath, CopyOpens, CopyReads, CopySynced, Record, FileManifest,
       ExtractOpens, ExtractWrites, ExtractEnds, ExtractTruncated, Acknowledge, Await, ByClient, ends
  <2> QED BY <1>s, <2>1
<1>6. ASSUME NEW k \in Agents, AgentSteps(k) PROVE OnlyNews
  <2>1. CASE AgentRemoves(k)
    <3>1. content' = [content EXCEPT !["remote"][agent[k].path] = NoObject] /\ clock' = clock BY <2>1 DEF AgentRemoves
    <3> QED BY <1>r, <3>1 DEF Endpoints
  <2>2. CASE ~AgentRemoves(k)
    <3>1. UNCHANGED <<content, clock>>
      BY <1>6, <2>2 DEF AgentSteps, AgentOpens, AgentReads, AgentFinishes, AgentInterrupted, AgentAcknowledged, AgentVerifies,
         AgentInspects, OnlyAgents, ends
    <3> QED BY <1>s, <3>1
  <2> QED BY <2>1, <2>2
<1>7. CASE Faults
  <2>1. UNCHANGED <<content, clock>> BY <1>7 DEF Faults, Cancel, Crash, PowerLoss, Rots, Cut, ends
  <2> QED BY <1>s, <2>1
<1>8. CASE Users
  <2>1. ASSUME NEW p \in Paths, Edit(p) PROVE OnlyNews BY <1>1, <2>1, EditsOnlyNews
  <2>2. ASSUME NEW p \in Paths, Propagate(p) PROVE OnlyNews
    <3>1. content' = Propagated({p}) /\ clock' = clock + 1 BY <2>2 DEF Propagate
    <3> QED BY <1>1, <3>1, PropagationOnlyNews
  <2>3. ASSUME NEW p \in Paths, PropagateRemoval(p) PROVE OnlyNews
    <3>1. content' = [content EXCEPT !["local"][p] = NoObject, !["remote"][p] = NoObject] /\ clock' = clock
      BY <2>3 DEF PropagateRemoval
    <3>2. \A d \in Endpoints, q \in Paths : content'[d][q] = content[d][q] \/ content'[d][q] = NoObject BY <1>0, <3>1
    <3> QED BY <3>1, <3>2, SameObjectsOnlyNews
  <2> QED BY <1>8, <2>1, <2>2, <2>3 DEF Users
<1>9. CASE UNCHANGED vars BY <1>9, <1>s DEF vars, ends
<1> QED BY <1>2, <1>3, <1>4, <1>5, <1>6, <1>7, <1>8, <1>9 DEF Next, Over, Client

-----------------------------------------------------------------------------
(* What a step does to the agents.                                         *)

\* What a step does to the agents: one of them acts, one is started, or only their streams change.
Carried(a, b) ==
  /\ b.phase = a.phase /\ b.path = a.path /\ b.seen = a.seen /\ b.again = a.again /\ b.first = a.first
  /\ b.read = a.read /\ b.open = a.open /\ b.since = a.since
Started == [Idle EXCEPT !.phase = "stream", !.path = Path]
AgentsMove ==
  \/ \E k \in Agents : AgentSteps(k) /\ \A j \in Agents : j # k => agent'[j] = agent[j]
  \/ NextPath /\ AgentBecomes(command, Started) /\ command \in Agents
  \/ /\ \A k \in Agents : Carried(agent[k], agent'[k])
     /\ \A k \in Agents : agent'[k].ack = "commit" => agent[k].ack = "commit" \/ (Acknowledge /\ k = command)

LEMMA AloneActs ==
  ASSUME AgentsInv, NEW k \in Agents, AgentSteps(k) PROVE \A j \in Agents : j # k => agent'[j] = agent[j]
<1>1. agent \in [Agents -> AgentStates] BY DEF AgentsInv
<1>2. ASSUME NEW a, AgentBecomes(k, a) PROVE \A j \in Agents : j # k => agent'[j] = agent[j]
  BY <1>1, <1>2 DEF AgentBecomes
<1> QED
  BY <1>2 DEF AgentSteps, AgentOpens, AgentReads, AgentFinishes, AgentInterrupted, AgentAcknowledged, AgentVerifies,
     AgentInspects, AgentRemoves

LEMMA OneCarried ==
  ASSUME AgentsInv, NEW k \in Agents, NEW b, AgentBecomes(k, b), Carried(agent[k], b),
         b.ack = "commit" => agent[k].ack = "commit" \/ (Acknowledge /\ k = command)
  PROVE  AgentsMove
<1>1. agent'[k] = b /\ \A j \in Agents : j # k => agent'[j] = agent[j] BY DEF AgentBecomes, AgentsInv
<1>2. \A j \in Agents : Carried(agent[j], agent'[j]) BY <1>1 DEF Carried
<1> QED BY <1>1, <1>2 DEF AgentsMove

LEMMA AgentsMoving == ASSUME CommandInv, AgentsInv, [Next]_vars PROVE AgentsMove
<1>s. ASSUME agent' = agent PROVE AgentsMove BY <1>s DEF AgentsMove, Carried
<1>1. ASSUME NEW k \in Agents, AgentSteps(k) PROVE AgentsMove BY <1>1, AloneActs DEF AgentsMove
<1>2. CASE NextPath
  <2>1. CASE agent' = agent BY <1>s, <2>1
  <2>2. CASE agent' # agent
    <3>1. AgentBecomes(command, Started) BY <1>2, <2>2 DEF NextPath, AgentBecomes, Started
    <3>2. command \in Agents BY <1>2, CommandIsAgent DEF NextPath
    <3> QED BY <1>2, <3>1, <3>2 DEF AgentsMove
  <2> QED BY <2>1, <2>2
<1>3. ASSUME pc # "idle", Took PROVE AgentsMove
  <2> DEFINE b == [Stream EXCEPT !.wire = Tail(@)]
  <2>1. command \in Agents /\ Stream = agent[command] /\ Stream \in AgentStates
    BY <1>3, CommandIsAgent, AgentFacts DEF Stream
  <2>2. AgentBecomes(command, b) BY <1>3 DEF Took
  <2>3. Carried(Stream, b) /\ b.ack = Stream.ack BY <2>1 DEF AgentStates, Carried
  <2> HIDE DEF b
  <2> QED BY <2>1, <2>2, <2>3, OneCarried
<1>4. CASE ExtractOpens \/ ExtractWrites \/ ExtractEnds
  <2>1. pc # "idle" /\ (Took \/ agent' = agent) BY <1>4 DEF ExtractOpens, ExtractWrites, ExtractEnds
  <2> QED BY <1>s, <1>3, <2>1
<1>5. CASE Acknowledge
  <2>1. CASE agent' = agent BY <1>s, <2>1
  <2>2. CASE agent' # agent
    <3> DEFINE b == [Stream EXCEPT !.ack = "commit"]
    <3>1. command \in Agents /\ Stream = agent[command] /\ Stream \in AgentStates
      BY <1>5, CommandIsAgent, AgentFacts DEF Stream, Acknowledge
    <3>2. AgentBecomes(command, b) BY <1>5, <2>2 DEF Acknowledge
    <3>3. Carried(Stream, b) BY <3>1 DEF AgentStates, Carried
    <3> HIDE DEF b
    <3> QED BY <1>5, <3>1, <3>2, <3>3, OneCarried
  <2> QED BY <2>1, <2>2
<1>6. CASE Client /\ ~NextPath /\ ~ExtractOpens /\ ~ExtractWrites /\ ~ExtractEnds /\ ~Acknowledge
  <2>1. agent' = agent
    BY <1>6 DEF Client, Resolving, Pruning, Reading, Preflight, ResolveLocked, CopyOpens, CopyReads,
       CopySynced, Record, FileManifest, RemoveLocal, ResolveBarrier, ExtractTruncated, Await, ByClient, PruneSelect,
       CleanTombstone, PruneStops, PruneCleaned, PruneHides, PruneStages, PruneReclaims, PruneSettles, PruneEnds, ByPrune, OnlyPrune,
       RestoreFinds, RestoreCopies, RestoreCompares, VerifyBegins, VerifyNext, VerifyEnds, ByReader
  <2> QED BY <1>s, <2>1
<1>7. CASE Start \/ Cancel \/ Crash \/ Rots BY <1>s, <1>7 DEF Start, Cancel, Crash, Rots
<1>8. CASE PowerLoss
  <2>1. agent' = [k \in Agents |-> IF agent[k].phase = "none" THEN agent[k] ELSE [agent[k] EXCEPT !.link = "cut"]]
    BY <1>8 DEF PowerLoss
  <2>2. ASSUME NEW k \in Agents PROVE Carried(agent[k], agent'[k]) /\ agent'[k].ack = agent[k].ack
    <3>1. agent[k] \in AgentStates BY AgentFacts
    <3> QED BY <2>1, <3>1 DEF AgentStates, Carried
  <2> QED BY <2>2 DEF AgentsMove
<1>9. ASSUME NEW k \in Agents, Cut(k) PROVE AgentsMove
  <2>1. PICK ack \in {agent[k].ack, "none"}, n \in 0..Len(agent[k].wire) :
          AgentBecomes(k, [agent[k] EXCEPT !.link = "cut", !.ack = ack, !.wire = SubSeq(@, 1, n)])
    BY <1>9 DEF Cut
  <2> DEFINE b == [agent[k] EXCEPT !.link = "cut", !.ack = ack, !.wire = SubSeq(@, 1, n)]
  <2>2. AgentBecomes(k, b) /\ agent[k] \in AgentStates BY <2>1, AgentFacts
  <2>3. Carried(agent[k], b) /\ b.ack = ack BY <2>2 DEF AgentStates, Carried
  <2> HIDE DEF b
  <2> QED BY <2>1, <2>2, <2>3, OneCarried
<1>10. CASE Users BY <1>s, <1>10, UsersLeaveControl
<1>11. CASE UNCHANGED vars BY <1>s, <1>11 DEF vars
<1> QED BY <1>1, <1>2, <1>4, <1>5, <1>6, <1>7, <1>8, <1>9, <1>10, <1>11 DEF Next, Over, Faults

-----------------------------------------------------------------------------
(* What an agent read of a regular file is what it saw when it began.       *)

SeenOf(a) ==
  a.phase # "none" =>
    /\ a.seen.kind \in {"none", setting.kind[a.path]}
    /\ a.seen.kind = "regular" =>
         /\ a.phase = "stream" /\ a.open # NoSource => <<a.open.version>> = a.seen.files
         /\ a.phase = "stream" /\ a.read # <<>> => a.read = a.seen.files
         /\ a.phase \in {"acknowledge", "verify", "inspect"} => a.first = a.seen.files
SeenInv == \A k \in Agents : SeenOf(agent[k])

LEMMA OneFile == ASSUME NEW S, NEW s \in Seq(S), Len(s) = 1 PROVE s = <<s[1]>>
  OBVIOUS

LEMMA OpensSees ==
  ASSUME CommandInv, EndsInv, AgentsInv, NEW k \in Agents, SeenOf(agent[k]), AgentOpens(k), setting' = setting
  PROVE  SeenOf(agent[k])'
<1> DEFINE a == agent[k]
           o == Loser(k)
<1>1. a.phase \in {"stream", "verify"} /\ Len(a.read) < Expected(k) /\ a \in AgentStates /\ a.path \in Paths
      /\ a.read \in Seq(Bytes) /\ a.open = NoSource
  BY AgentFacts DEF AgentOpens, AgentsInv
<1>2. ASSUME NEW c, AgentBecomes(k, c) PROVE agent'[k] = c BY <1>2 DEF AgentBecomes, AgentsInv
<1>3. CASE ~LoserThere(k)
  <2> DEFINE b == [a EXCEPT !.phase = "failed"]
  <2>1. agent'[k] = b BY <1>2, <1>3 DEF AgentOpens
  <2>2. b.phase = "failed" /\ b.seen = a.seen /\ b.path = a.path BY <1>1 DEF AgentStates
  <2> HIDE DEF b
  <2> QED BY <1>1, <2>1, <2>2 DEF SeenOf
<1>4. CASE LoserThere(k)
  <2> DEFINE src == Observed(o, Len(a.read) + 1, a.path)
             begins == a.phase = "stream" /\ a.read = <<>>
             seen == IF begins THEN o ELSE a.seen
             again == IF a.phase = "verify" /\ a.read = <<>> THEN o.inode ELSE a.again
             wire == IF a.phase = "stream" /\ a.read = <<>> /\ Expected(k) > 1
                     THEN Sent(a, [item |-> "directory", bytes |-> Torn]) ELSE a.wire
             b == [a EXCEPT !.open = src, !.seen = seen, !.again = again, !.wire = wire]
  <2>1. agent'[k] = b BY <1>2, <1>4 DEF AgentOpens
  <2>2. /\ o \in ObjectsAt(a.path) /\ o.files \in Seq(1..MaxVersion) /\ Len(o.files) = Expected(k)
        /\ Expected(k) = FilesOf(setting.kind[a.path]) /\ Expected(k) \in 1..Files
    BY <1>1, <1>4, LoserFacts DEF Expected, LoserThere
  <2>3. o.kind = setting.kind[a.path] BY <2>2 DEF ObjectsAt
  <2>4. src.version = o.files[Len(a.read) + 1] BY DEF Observed
  <2> HIDE DEF src, again, wire, o
  <2>5. b.phase = a.phase /\ b.path = a.path /\ b.read = a.read /\ b.open = src /\ b.seen = seen /\ b.first = a.first
    BY <1>1 DEF AgentStates
  <2>6. CASE begins
    <3>1. seen = o /\ Len(a.read) = 0 BY <2>6
    <3>2. o.kind = "regular" => <<o.files[1]>> = o.files BY <2>2, <2>3, OneFile DEF FilesOf
    <3>3. src.version = o.files[1] BY <2>4, <3>1
    <3> HIDE DEF b, seen
    <3> QED BY <2>1, <2>3, <2>5, <2>6, <3>1, <3>2, <3>3 DEF SeenOf
  <2>7. CASE ~begins
    <3>1. seen = a.seen BY <2>7
    <3>2. a.phase = "stream" => a.seen.kind # "regular"
      <4>1. ASSUME a.phase = "stream", a.seen.kind = "regular" PROVE FALSE
        <5>1. setting.kind[a.path] = "regular" BY <1>1, <4>1 DEF SeenOf
        <5>2. Expected(k) = 1 BY <2>2, <5>1 DEF FilesOf
        <5>3. a.read = <<>> BY <1>1, <5>2
        <5> QED BY <2>7, <4>1, <5>3
      <4> QED BY <4>1
    <3> HIDE DEF b, seen
    <3> QED BY <1>1, <2>1, <2>5, <3>1, <3>2 DEF SeenOf
  <2> QED BY <2>6, <2>7
<1> QED BY <1>3, <1>4

LEMMA ReadsSees ==
  ASSUME CommandInv, EndsInv, AgentsInv, NEW k \in Agents, SeenOf(agent[k]), AgentReads(k), setting' = setting
  PROVE  SeenOf(agent[k])'
<1> DEFINE a == agent[k]
           o == Loser(k)
           i == Len(a.read) + 1
           v == ReadOf(o, i, a.open)
           sent == IF a.phase = "stream" THEN Sent(a, [item |-> "file", bytes |-> v]) ELSE a.wire
           fails == Changed(o, i, a.open)
           b == IF fails THEN [a EXCEPT !.phase = "failed", !.open = NoSource, !.wire = sent]
                ELSE [a EXCEPT !.read = Append(a.read, v), !.open = NoSource, !.wire = sent]
<1>1. a.phase \in {"stream", "verify"} /\ a.open # NoSource /\ a \in AgentStates /\ a.read \in Seq(Bytes) /\ a.path \in Paths
      /\ Len(a.read) < Expected(k)
  BY AgentFacts DEF AgentReads, AgentsInv
<1>2. agent'[k] = b
  <2>1. AgentBecomes(k, b) BY DEF AgentReads, Broken
  <2> QED BY <2>1 DEF AgentBecomes, AgentsInv
<1>3. ~fails => v = a.open.version BY DEF ReadOf, Changed
<1>4. /\ b.path = a.path /\ b.seen = a.seen /\ b.open = NoSource /\ b.first = a.first
      /\ b.phase = (IF fails THEN "failed" ELSE a.phase) /\ ~fails => b.read = Append(a.read, v)
  <2> HIDE DEF fails, sent, v
  <2> QED BY <1>1 DEF AgentStates
<1>5. ASSUME ~fails, a.phase = "stream", a.seen.kind = "regular" PROVE Append(a.read, v) = a.seen.files
  <2>1. setting.kind[a.path] = "regular" BY <1>1, <1>5 DEF SeenOf
  <2>2. Expected(k) = 1 BY <2>1 DEF Expected, FilesOf
  <2>3. a.read = <<>> BY <1>1, <2>2
  <2>4. <<a.open.version>> = a.seen.files BY <1>1, <1>5 DEF SeenOf
  <2> HIDE DEF v
  <2> QED BY <1>3, <1>5, <2>3, <2>4
<1>6. CASE fails
  <2>1. agent'[k].phase = "failed" /\ agent'[k].seen = a.seen /\ agent'[k].path = a.path BY <1>2, <1>4, <1>6
  <2> QED BY <1>1, <2>1 DEF SeenOf
<1>7. CASE ~fails
  <2>1. /\ agent'[k].phase = a.phase /\ agent'[k].seen = a.seen /\ agent'[k].path = a.path /\ agent'[k].open = NoSource
        /\ agent'[k].read = Append(a.read, v) /\ agent'[k].first = a.first
    BY <1>2, <1>4, <1>7
  <2>2. a.phase = "stream" /\ a.seen.kind = "regular" => agent'[k].read = a.seen.files BY <1>5, <1>7, <2>1
  <2>3. a.seen.kind \in {"none", setting.kind[a.path]} BY <1>1 DEF SeenOf
  <2> HIDE DEF b, v, fails
  <2> QED BY <1>1, <2>1, <2>2, <2>3 DEF SeenOf
<1> QED BY <1>6, <1>7

LEMMA PhasesSee ==
  ASSUME CommandInv, EndsInv, AgentsInv, NEW k \in Agents, SeenOf(agent[k]), setting' = setting,
         AgentFinishes(k) \/ AgentInterrupted(k) \/ AgentAcknowledged(k) \/ AgentVerifies(k) \/ AgentInspects(k)
         \/ AgentRemoves(k)
  PROVE  SeenOf(agent[k])'
<1> DEFINE a == agent[k]
<1>1. a \in AgentStates /\ a.phase \notin {"none", "failed"} /\ a.path \in Paths
  BY AgentFacts DEF AgentsInv, AgentFinishes, AgentInterrupted, AgentAcknowledged, AgentVerifies, AgentInspects, AgentRemoves
<1>2. ASSUME NEW c, AgentBecomes(k, c) PROVE agent'[k] = c BY <1>2 DEF AgentBecomes, AgentsInv
<1>3. ASSUME NEW c, AgentBecomes(k, c), c.path = a.path, c.seen = a.seen,
             c.phase \in {"failed", "remove", "done"} \/
             (c.phase \in {"verify", "inspect"} /\ a.phase \in {"acknowledge", "verify"} /\ c.first = a.first)
      PROVE  SeenOf(agent[k])'
  <2>1. agent'[k] = c BY <1>2, <1>3
  <2> QED BY <1>1, <1>3, <2>1 DEF SeenOf
<1>4. CASE AgentFinishes(k)
  <2> DEFINE sent == Sent(a, Trailer)
             b == [a EXCEPT !.phase = "acknowledge", !.first = a.read, !.read = <<>>, !.wire = sent]
  <2>1. agent'[k] = b BY <1>2, <1>4 DEF AgentFinishes
  <2> HIDE DEF sent
  <2>2. b.phase = "acknowledge" /\ b.path = a.path /\ b.first = a.read /\ b.seen = a.seen BY <1>1 DEF AgentStates
  <2>3. a.phase = "stream" /\ Len(a.read) = Expected(k) BY <1>4 DEF AgentFinishes
  <2>4. a.read # <<>>
    <3>1. Expected(k) \in 1..Files BY <1>1, LoserFacts
    <3>2. Len(<<>>) = 0 OBVIOUS
    <3> QED BY <2>3, <3>1, <3>2 DEF Files
  <2> HIDE DEF b
  <2> QED BY <1>1, <2>1, <2>2, <2>3, <2>4 DEF SeenOf
<1>5. ASSUME NEW phase \in {"failed", "inspect"}, AgentBecomes(k, [a EXCEPT !.phase = phase]),
             phase = "inspect" => a.phase = "verify"
      PROVE  SeenOf(agent[k])'
  <2> DEFINE b == [a EXCEPT !.phase = phase]
  <2>1. AgentBecomes(k, b) /\ b.path = a.path /\ b.seen = a.seen /\ b.phase = phase /\ b.first = a.first
    BY <1>1, <1>5 DEF AgentStates
  <2> HIDE DEF b
  <2> QED BY <1>3, <1>5, <2>1
<1>6. ASSUME NEW phase \in {"verify", "remove"}, NEW since0, AgentBecomes(k, [a EXCEPT !.phase = phase, !.since = since0]),
             phase = "verify" => a.phase = "acknowledge"
      PROVE  SeenOf(agent[k])'
  <2> DEFINE b == [a EXCEPT !.phase = phase, !.since = since0]
  <2>1. AgentBecomes(k, b) /\ b.path = a.path /\ b.seen = a.seen /\ b.phase = phase /\ b.first = a.first
    BY <1>1, <1>6 DEF AgentStates
  <2> HIDE DEF b
  <2> QED BY <1>3, <1>6, <2>1
<1>7. CASE AgentInterrupted(k) BY <1>5, <1>7 DEF AgentInterrupted
<1>8. CASE AgentAcknowledged(k) BY <1>5, <1>6, <1>8 DEF AgentAcknowledged
<1>9. CASE AgentVerifies(k) BY <1>5, <1>9 DEF AgentVerifies
<1>10. CASE AgentInspects(k)
  <2> DEFINE since0 == IF a.seen.kind = "regular" THEN clock ELSE a.since
  <2>1. CASE AgentBecomes(k, [a EXCEPT !.phase = "remove", !.since = since0])
    <3> HIDE DEF since0
    <3> QED BY <1>6, <2>1
  <2>2. CASE AgentBecomes(k, [a EXCEPT !.phase = "failed"]) BY <1>5, <2>2
  <2> QED BY <1>10, <2>1, <2>2 DEF AgentInspects
<1>11. CASE AgentRemoves(k)
  <2> DEFINE b == [a EXCEPT !.phase = "done", !.removed = TRUE]
  <2>1. AgentBecomes(k, b) /\ b.path = a.path /\ b.seen = a.seen /\ b.phase = "done"
    BY <1>1, <1>11 DEF AgentRemoves, AgentStates
  <2> HIDE DEF b
  <2> QED BY <1>3, <2>1
<1> QED BY <1>4, <1>7, <1>8, <1>9, <1>10, <1>11

LEMMA SeenInit == Init => SeenInv
  BY DEF Init, SeenInv, SeenOf, Idle, Agents

LEMMA SeenStep == ASSUME CommandInv, EndsInv, LocalsInv, AgentsInv, SeenInv, [Next]_vars PROVE SeenInv'
<1>1. setting' = setting BY SettingStays
<1>2. CASE \E k \in Agents : AgentSteps(k) /\ \A j \in Agents : j # k => agent'[j] = agent[j]
  <2>1. PICK k \in Agents : AgentSteps(k) /\ \A j \in Agents : j # k => agent'[j] = agent[j] BY <1>2
  <2>2. SeenOf(agent[k])' BY <1>1, <2>1, OpensSees, ReadsSees, PhasesSee DEF AgentSteps, SeenInv
  <2>3. \A j \in Agents : j # k => SeenOf(agent[j])' BY <1>1, <2>1 DEF SeenInv, SeenOf
  <2> QED BY <2>2, <2>3 DEF SeenInv
<1>3. CASE NextPath /\ AgentBecomes(command, Started) /\ command \in Agents
  <2> PICK c \in Agents : c = command BY <1>3
  <2>1. agent'[c] = Started /\ \A j \in Agents : j # c => agent'[j] = agent[j]
    BY <1>3 DEF AgentBecomes, AgentsInv
  <2>2. agent'[c].seen = NoObject BY <2>1 DEF Started, Idle
  <2>3. NoObject.kind = "none" BY DEF NoObject
  <2>4. SeenOf(agent[c])' BY <2>2, <2>3 DEF SeenOf
  <2>5. ASSUME NEW j \in Agents, j # c PROVE SeenOf(agent[j])'
    <3>1. SeenOf(agent[j]) /\ agent'[j] = agent[j] BY <2>1, <2>5 DEF SeenInv
    <3> QED BY <1>1, <3>1 DEF SeenOf
  <2> QED BY <2>4, <2>5 DEF SeenInv
<1>4. CASE \A k \in Agents : Carried(agent[k], agent'[k])
  BY <1>1, <1>4 DEF SeenInv, SeenOf, Carried
<1> QED BY <1>2, <1>3, <1>4, AgentsMoving DEF AgentsMove

\* Nobody has looked since `from' at a file that came later; all others have been looked at.
LEMMA StaysLooked ==
  ASSUME OnlyNews, EndsInv, EndsInv', setting \in Settings, setting' = setting, NEW e \in Endpoints, NEW p \in Paths,
         NEW from \in Nat, from <= clock,
         NEW j \in 1..Len(content'[e][p].files), Arrived(content'[e][p], j) <= from
  PROVE  /\ j \in 1..Len(content[e][p].files) /\ Arrived(content[e][p], j) <= from
         /\ content'[e][p].files[j] = content[e][p].files[j] /\ content'[e][p].inode = content[e][p].inode
<1>1. content'[e][p].inode \in Nat /\ content'[e][p].files[j] \in Nat
  <2>1. content'[e][p] \in ObjectsAt(p) \cup {NoObject}
    <3>1. content'[e][p] \in ObjectsAt(p)' \cup {NoObject} BY DEF EndsInv
    <3> QED BY <3>1 DEF ObjectsAt
  <2> PICK o : o = content'[e][p] OBVIOUS
  <2>2. CASE o = NoObject
    <3>1. Len(o.files) = 0 BY <2>2 DEF NoObject
    <3> QED BY <3>1
  <2>3. CASE o \in ObjectsAt(p)
    <3>1. o.files \in Seq(1..MaxVersion) /\ o.inode \in 0..MaxVersion BY <2>3, KindFacts DEF ObjectsAt
    <3>2. o.files[j] \in 1..MaxVersion BY <3>1, ElementsTyped
    <3>3. MaxVersion \in Nat BY CatalogAssumption
    <3> QED BY <3>1, <3>2, <3>3
  <2> QED BY <2>1, <2>2, <2>3
<1>2. clock \in Nat BY DEF EndsInv
<1>3. Arrived(content'[e][p], j) \in Nat BY <1>1 DEF Arrived, Later
<1>4. ~(Arrived(content'[e][p], j) > clock) BY <1>2, <1>3
<1>5. /\ j \in 1..Len(content[e][p].files) /\ content'[e][p].inode = content[e][p].inode
      /\ content'[e][p].files[j] = content[e][p].files[j]
  BY <1>4 DEF OnlyNews, StaysOrComes
<1> QED BY <1>5 DEF Arrived

-----------------------------------------------------------------------------
(* What an agent that was told to commit has read again.                    *)

Removals == {"verify", "inspect", "remove"}
Reread(a, o) ==
  a.phase \in Removals =>
    /\ a.since <= clock
    /\ \A j \in 1..Len(o.files) : Arrived(o, j) <= a.since =>
         /\ a.phase = "verify" /\ j <= Len(a.read) => a.read[j] = o.files[j]
         /\ a.phase = "verify" /\ a.open # NoSource => a.open.inode = o.inode
         /\ a.phase # "verify" => j <= Len(a.first) /\ a.first[j] = o.files[j]
\* What an agent that is committed to a removal finds the same has been there when it looked again.
RereadInv == \A k \in Agents : Reread(agent[k], Loser(k))

LEMMA RereadStays ==
  ASSUME CommandInv, EndsInv, EndsInv', AgentsInv, OnlyNews, setting' = setting, NEW k \in Agents, Reread(agent[k], Loser(k)),
         Carried(agent[k], agent'[k])
  PROVE  Reread(agent[k], Loser(k))'
<1> PICK a : a = agent[k] OBVIOUS
<1> PICK b : b = agent'[k] OBVIOUS
<1>1. SUFFICES ASSUME b.phase \in Removals PROVE Reread(agent[k], Loser(k))' BY DEF Reread
<1>2. b.phase = a.phase /\ b.path = a.path /\ b.since = a.since /\ b.read = a.read /\ b.first = a.first /\ b.open = a.open
  BY DEF Carried
<1>3. a.path \in Paths /\ a.since \in Nat
  <2>1. a \in AgentStates BY AgentFacts
  <2>2. MaxVersion \in Nat BY CatalogAssumption
  <2> QED BY SMTT(60), <1>1, <1>2, <2>1, <2>2 DEF AgentsInv, AgentStates, Removals
<1>4. a.since <= clock /\ clock' >= clock /\ clock \in Nat /\ clock' \in Nat BY <1>1, <1>2 DEF Reread, OnlyNews, EndsInv
<1>5. ASSUME NEW j \in 1..Len(content'["remote"][a.path].files), Arrived(content'["remote"][a.path], j) <= a.since
      PROVE  /\ a.phase = "verify" /\ j <= Len(a.read) => a.read[j] = content'["remote"][a.path].files[j]
             /\ a.phase = "verify" /\ a.open # NoSource => a.open.inode = content'["remote"][a.path].inode
             /\ a.phase # "verify" => j <= Len(a.first) /\ a.first[j] = content'["remote"][a.path].files[j]
  <2>1. setting \in Settings BY DEF CommandInv
  <2>2. /\ j \in 1..Len(content["remote"][a.path].files) /\ Arrived(content["remote"][a.path], j) <= a.since
        /\ content'["remote"][a.path].files[j] = content["remote"][a.path].files[j]
        /\ content'["remote"][a.path].inode = content["remote"][a.path].inode
    BY <1>3, <1>4, <1>5, <2>1, StaysLooked DEF Endpoints
  <2> QED BY <1>1, <1>2, <2>2 DEF Reread, Loser
<1>6. b.since <= clock' BY <1>2, <1>3, <1>4
<1> QED
  <2>1. PICK o : o = content'["remote"][a.path] OBVIOUS
  <2>2. Loser(k)' = o BY <1>2, <2>1 DEF Loser
  <2>3. \A j \in 1..Len(o.files) : Arrived(o, j) <= b.since =>
          /\ b.phase = "verify" /\ j <= Len(b.read) => b.read[j] = o.files[j]
          /\ b.phase = "verify" /\ b.open # NoSource => b.open.inode = o.inode
          /\ b.phase # "verify" => j <= Len(b.first) /\ b.first[j] = o.files[j]
    BY <1>2, <1>5, <2>1
  <2> QED BY <1>6, <2>2, <2>3 DEF Reread

\* The agent's own steps see its loser as it is; none but the last changes an endpoint.
LEMMA RereadSteps ==
  ASSUME CommandInv, EndsInv, AgentsInv, SeenInv, NEW k \in Agents, Reread(agent[k], Loser(k)), AgentSteps(k)
  PROVE  Reread(agent[k], Loser(k))'
<1> DEFINE o == Loser(k)
<1> PICK a : a = agent[k] OBVIOUS
<1>1. a \in AgentStates /\ a.read \in Seq(Bytes) /\ clock \in Nat /\ setting' = setting
  BY AgentFacts DEF EndsInv, AgentSteps, AgentOpens, AgentReads, AgentFinishes, AgentInterrupted, AgentAcknowledged,
     AgentVerifies, AgentInspects, AgentRemoves, OnlyAgents
<1>2. ASSUME NEW c, AgentBecomes(k, c) PROVE agent'[k] = c BY <1>2 DEF AgentBecomes, AgentsInv
<1>3. ASSUME NEW c, AgentBecomes(k, c), c.phase \notin Removals PROVE Reread(agent[k], Loser(k))'
  BY <1>2, <1>3 DEF Reread
<1>4. ASSUME NEW c, AgentBecomes(k, c), c.path = a.path, UNCHANGED <<content, clock>>, Reread(c, o)
      PROVE  Reread(agent[k], Loser(k))'
  <2>1. agent'[k] = c BY <1>2, <1>4
  <2>2. Loser(k)' = o BY <1>4, <2>1 DEF Loser
  <2> HIDE DEF o
  <2> QED BY <1>4, <2>1, <2>2 DEF Reread, Arrived
<1>5. CASE AgentOpens(k)
  <2>1. UNCHANGED <<content, clock>> BY <1>5 DEF AgentOpens, OnlyAgents, ends
  <2>2. CASE AgentBecomes(k, [a EXCEPT !.phase = "failed"])
    <3>1. [a EXCEPT !.phase = "failed"].phase = "failed" BY <1>1 DEF AgentStates
    <3> QED BY <1>3, <2>2, <3>1 DEF Removals
  <2>3. ASSUME NEW src, src.inode = o.inode, NEW seen, NEW again, NEW wire,
               AgentBecomes(k, [a EXCEPT !.open = src, !.seen = seen, !.again = again, !.wire = wire])
        PROVE  Reread(agent[k], Loser(k))'
    <3> PICK b : b = [a EXCEPT !.open = src, !.seen = seen, !.again = again, !.wire = wire] OBVIOUS
    <3>1. /\ b.phase = a.phase /\ b.path = a.path /\ b.since = a.since /\ b.read = a.read /\ b.first = a.first
          /\ b.open = src
      BY <1>1 DEF AgentStates
    <3>2. Reread(b, o)
      <4> HIDE DEF o
      <4>1. Reread(a, o) BY DEF o
      <4> QED BY <2>3, <3>1, <4>1 DEF Reread
    <3> QED BY <1>4, <2>1, <2>3, <3>1, <3>2
  <2>4. Observed(o, Len(a.read) + 1, a.path).inode = o.inode BY DEF Observed
  <2> HIDE DEF o
  <2> QED BY <1>5, <2>2, <2>3, <2>4 DEF AgentOpens, o
<1>6. CASE AgentReads(k)
  <2> DEFINE i == Len(a.read) + 1
             v == ReadOf(o, i, a.open)
             sent == IF a.phase = "stream" THEN Sent(a, [item |-> "file", bytes |-> v]) ELSE a.wire
  <2>1. UNCHANGED <<content, clock>> BY <1>6 DEF AgentReads, OnlyAgents, ends
  <2>2. CASE Changed(o, i, a.open)
    <3>1. AgentBecomes(k, [a EXCEPT !.phase = "failed", !.open = NoSource, !.wire = sent]) BY <1>6, <2>2 DEF AgentReads, Broken
    <3> HIDE DEF sent
    <3>2. [a EXCEPT !.phase = "failed", !.open = NoSource, !.wire = sent].phase = "failed" BY <1>1 DEF AgentStates
    <3> QED BY <1>3, <3>1, <3>2 DEF Removals
  <2>3. CASE ~Changed(o, i, a.open)
    <3>1. AgentBecomes(k, [a EXCEPT !.read = Append(@, v), !.open = NoSource, !.wire = sent]) BY <1>6, <2>3 DEF AgentReads
    <3>2. ASSUME a.phase = "verify", i \in 1..Len(o.files), Arrived(o, i) <= a.since PROVE v = o.files[i]
      <4>1. a.open.inode = o.inode BY <1>6, <3>2 DEF AgentReads, Reread, Removals
      <4>2. Exists(o)
        <5>1. Len(NoObject.files) = 0 BY DEF NoObject
        <5> QED BY <3>2, <5>1 DEF Exists
      <4> QED BY <2>3, <4>1, <4>2 DEF Changed, ReadOf, Displaced
    <3>3. a.phase \in {"stream", "verify"} BY <1>6 DEF AgentReads
    <3> HIDE DEF sent, v, o
    <3> PICK b : b = [a EXCEPT !.read = Append(@, v), !.open = NoSource, !.wire = sent] OBVIOUS
    <3>4. b.phase = a.phase /\ b.path = a.path /\ b.since = a.since /\ b.first = a.first /\ b.open = NoSource
      BY <1>1 DEF AgentStates
    <3>5. b.read = Append(a.read, v) BY <1>1 DEF AgentStates
    <3>6. ASSUME NEW j \in 1..Len(o.files), j <= Len(b.read), a.phase = "verify", Arrived(o, j) <= a.since
          PROVE  b.read[j] = o.files[j]
      <4>1. Len(b.read) = Len(a.read) + 1 /\ Len(a.read) \in Nat BY <1>1, <3>5
      <4>2. CASE j <= Len(a.read)
        <5>1. b.read[j] = a.read[j] BY <1>1, <3>5, <4>2
        <5>2. a.read[j] = o.files[j] BY <3>6, <4>2 DEF Reread, Removals, o
        <5> QED BY <5>1, <5>2
      <4>3. CASE j = Len(a.read) + 1
        <5>1. b.read[j] = v BY <1>1, <3>5, <4>3
        <5>2. v = o.files[i] BY <3>2, <3>6, <4>3
        <5> QED BY <4>3, <5>1, <5>2
      <4> QED BY <3>6, <4>1, <4>2, <4>3
    <3>7. a.phase = "verify" => a.since <= clock BY DEF Reread, Removals
    <3>8. Reread(b, o) BY <3>3, <3>4, <3>6, <3>7 DEF Reread, Removals
    <3> QED BY <1>4, <2>1, <3>1, <3>4, <3>8
  <2> QED BY <2>2, <2>3
<1>7. CASE AgentFinishes(k)
  <2> DEFINE sent == Sent(a, Trailer)
  <2>1. AgentBecomes(k, [a EXCEPT !.phase = "acknowledge", !.first = a.read, !.read = <<>>, !.wire = sent])
    BY <1>7 DEF AgentFinishes
  <2> HIDE DEF sent
  <2>2. [a EXCEPT !.phase = "acknowledge", !.first = a.read, !.read = <<>>, !.wire = sent].phase = "acknowledge"
    BY <1>1 DEF AgentStates
  <2> QED BY <1>3, <2>1, <2>2 DEF Removals
<1>8. ASSUME AgentBecomes(k, [a EXCEPT !.phase = "failed"]) PROVE Reread(agent[k], Loser(k))'
  <2>1. [a EXCEPT !.phase = "failed"].phase = "failed" BY <1>1 DEF AgentStates
  <2> QED BY <1>3, <1>8, <2>1 DEF Removals
<1>9. CASE AgentInterrupted(k) BY <1>8, <1>9 DEF AgentInterrupted
<1>10. CASE AgentAcknowledged(k)
  <2>1. CASE AgentBecomes(k, [a EXCEPT !.phase = "verify", !.since = clock])
    <3> PICK b : b = [a EXCEPT !.phase = "verify", !.since = clock] OBVIOUS
    <3>1. b.phase = "verify" /\ b.path = a.path /\ b.since = clock /\ b.read = a.read /\ b.open = a.open
      BY <1>1 DEF AgentStates
    <3>2. Len(b.read) = 0 /\ b.open = NoSource BY <1>10, <3>1 DEF AgentAcknowledged, AgentsInv
    <3>3. Reread(b, o)
      <4> HIDE DEF o
      <4> QED BY <1>1, <3>1, <3>2 DEF Reread
    <3>4. UNCHANGED <<content, clock>> BY <1>10 DEF AgentAcknowledged, OnlyAgents, ends
    <3> QED BY <1>4, <2>1, <3>1, <3>3, <3>4
  <2> QED BY <1>8, <1>10, <2>1 DEF AgentAcknowledged
<1>11. CASE AgentVerifies(k)
  <2>0. a.phase = "verify" /\ Len(a.read) = Expected(k) /\ a.phase # "none" /\ UNCHANGED <<content, clock>>
    BY <1>11 DEF AgentVerifies, OnlyAgents, ends
  <2>1. CASE Unchanged(k) /\ AgentBecomes(k, [a EXCEPT !.phase = "inspect"])
    <3> PICK b : b = [a EXCEPT !.phase = "inspect"] OBVIOUS
    <3>1. b.phase = "inspect" /\ b.path = a.path /\ b.since = a.since /\ b.first = a.first BY <1>1 DEF AgentStates
    <3>2. a.read = a.first BY <2>1 DEF Unchanged
    <3>3. Len(o.files) <= Len(a.first)
      <4>1. CASE Exists(o) BY <2>0, <3>2, <4>1, LoserFacts DEF Files
      <4>2. CASE ~Exists(o)
        <5>1. Len(o.files) = 0 BY <4>2 DEF Exists, NoObject
        <5> QED BY <1>1, <3>2, <5>1
      <4> QED BY <4>1, <4>2
    <3>4. Len(o.files) \in Nat
      <4>1. CASE Exists(o) BY <2>0, <4>1, LoserFacts DEF Files
      <4>2. CASE ~Exists(o) BY <4>2 DEF Exists, NoObject
      <4> QED BY <4>1, <4>2
    <3>5. Len(a.first) \in Nat BY <1>1, <3>2
    <3>6. Reread(b, o)
      <4>1. Reread(a, o) OBVIOUS
      <4> HIDE DEF o
      <4> QED BY <2>0, <3>1, <3>2, <3>3, <3>4, <3>5, <4>1 DEF Reread, Removals
    <3> QED BY <1>4, <2>0, <2>1, <3>1, <3>6
  <2> QED BY <1>8, <1>11, <2>1 DEF AgentVerifies
<1>12. CASE AgentInspects(k)
  <2>0. a.phase = "inspect" /\ UNCHANGED <<content, clock>> BY <1>12 DEF AgentInspects, OnlyAgents, ends
  <2> DEFINE since0 == IF a.seen.kind = "regular" THEN clock ELSE a.since
  <2>1. ASSUME a.seen.kind = "regular" => o.files = a.seen.files, AgentBecomes(k, [a EXCEPT !.phase = "remove", !.since = since0])
        PROVE  Reread(agent[k], Loser(k))'
    <3>1. a.seen.kind = "regular" => a.first = a.seen.files BY <2>0 DEF SeenInv, SeenOf
    <3>2. Reread(a, o) OBVIOUS
    <3>3. Len(o.files) \in Nat
      <4>1. CASE Exists(o) BY <2>0, <4>1, LoserFacts DEF Files
      <4>2. CASE ~Exists(o) BY <4>2 DEF Exists, NoObject
      <4> QED BY <4>1, <4>2
    <3> HIDE DEF o, since0
    <3> PICK b : b = [a EXCEPT !.phase = "remove", !.since = since0] OBVIOUS
    <3>4. b.phase = "remove" /\ b.path = a.path /\ b.since = since0 /\ b.first = a.first BY <1>1 DEF AgentStates
    <3>5. CASE a.seen.kind = "regular"
      <4>1. since0 = clock BY <3>5 DEF since0
      <4>2. o.files = a.first BY <2>1, <3>1, <3>5
      <4>3. Reread(b, o) BY <1>1, <3>3, <3>4, <4>1, <4>2 DEF Reread
      <4> QED BY <1>4, <2>0, <2>1, <3>4, <4>3
    <3>6. CASE a.seen.kind # "regular"
      <4>1. since0 = a.since BY <3>6 DEF since0
      <4>2. Reread(b, o) BY <2>0, <3>2, <3>4, <4>1 DEF Reread, Removals
      <4> QED BY <1>4, <2>0, <2>1, <3>4, <4>2
    <3> QED BY <3>5, <3>6
  <2> QED BY <1>8, <1>12, <2>1 DEF AgentInspects
<1>13. CASE AgentRemoves(k)
  <2>1. AgentBecomes(k, [a EXCEPT !.phase = "done", !.removed = TRUE]) BY <1>13 DEF AgentRemoves
  <2>2. [a EXCEPT !.phase = "done", !.removed = TRUE].phase = "done" BY <1>1 DEF AgentStates
  <2> QED BY <1>3, <2>1, <2>2 DEF Removals
<1> QED BY <1>5, <1>6, <1>7, <1>9, <1>10, <1>11, <1>12, <1>13 DEF AgentSteps

LEMMA RereadInit == Init => RereadInv
  BY DEF Init, RereadInv, Reread, Removals, Idle, Agents

LEMMA RereadStep ==
  ASSUME CommandInv, EndsInv, EndsInv', LocalsInv, AgentsInv, SeenInv, RereadInv, [Next]_vars PROVE RereadInv'
<1>1. setting' = setting BY SettingStays
<1>0. OnlyNews BY Window
<1>2. CASE \E k \in Agents : AgentSteps(k) /\ \A j \in Agents : j # k => agent'[j] = agent[j]
  <2>1. PICK k \in Agents : AgentSteps(k) /\ \A j \in Agents : j # k => agent'[j] = agent[j] BY <1>2
  <2>2. Reread(agent[k], Loser(k))' BY <2>1, RereadSteps DEF RereadInv
  <2>3. ASSUME NEW j \in Agents, j # k PROVE Reread(agent[j], Loser(j))'
    <3>1. Carried(agent[j], agent'[j]) BY <2>1, <2>3 DEF Carried
    <3> QED BY <1>0, <1>1, <3>1, RereadStays DEF RereadInv
  <2> QED BY <2>2, <2>3 DEF RereadInv
<1>3. CASE NextPath /\ AgentBecomes(command, Started) /\ command \in Agents
  <2> PICK c \in Agents : c = command BY <1>3
  <2>1. agent'[c] = Started /\ \A j \in Agents : j # c => agent'[j] = agent[j]
    BY <1>3 DEF AgentBecomes, AgentsInv
  <2>2. agent'[c].phase = "stream" BY <2>1 DEF Started, Idle
  <2>3. Reread(agent[c], Loser(c))' BY <2>2 DEF Reread, Removals
  <2>4. ASSUME NEW j \in Agents, j # c PROVE Reread(agent[j], Loser(j))'
    <3>1. Carried(agent[j], agent'[j]) BY <2>1, <2>4 DEF Carried
    <3> QED BY <1>0, <1>1, <3>1, RereadStays DEF RereadInv
  <2> QED BY <2>3, <2>4 DEF RereadInv
<1>4. CASE \A k \in Agents : Carried(agent[k], agent'[k])
  BY <1>0, <1>1, <1>4, RereadStays DEF RereadInv
<1> QED BY <1>2, <1>3, <1>4, AgentsMoving DEF AgentsMove

-----------------------------------------------------------------------------
(* The archive being filled, between its copy and the removal.              *)

\* Damage leaves an archive where it is, and takes no copy away; what is not durable yet is spared.
RotKept ==
  \A n \in 1..MaxArchives :
    /\ store'[n].place = store[n].place /\ store'[n].durable = store[n].durable
    /\ store'[n].synced = store[n].synced /\ store'[n].filed = store[n].filed /\ store'[n].entry = store[n].entry
    /\ \A p \in Paths : /\ store[n].copy[p] # NoCopy => store'[n].copy[p] # NoCopy
                        /\ p \notin store[n].synced => store'[n].copy[p] = store[n].copy[p]

LEMMA RotKeeps == ASSUME StoreInv, Rots PROVE RotKept
<1>1. PICK n \in 1..MaxArchives, p \in Paths :
        /\ store[n].place = "visible" /\ p \in store[n].synced
        /\ \E i \in 1..Len(store[n].copy[p].files), damage \in {Rot, Short} :
             Set(n, [store[n] EXCEPT !.copy[p].files[i] = damage])
  BY DEF Rots
<1>2. PICK i \in 1..Len(store[n].copy[p].files), damage \in {Rot, Short} :
        Set(n, [store[n] EXCEPT !.copy[p].files[i] = damage])
  BY <1>1
<1> DEFINE a == store[n]
           c == [a.copy[p] EXCEPT !.files[i] = damage]
           b == [a EXCEPT !.copy[p] = c]
<1>3. Set(n, b) BY <1>2
<1>4. a \in Archive /\ a.copy[p] \in Copies \cup {NoCopy} BY DEF StoreInv, Archive
<1>5. c \in Copies /\ c # NoCopy
  <2>1. c \in Copies BY <1>4, FileReplaced, ByteFacts
  <2>2. NoCopy \notin Copies BY DEF NoCopy, Copies, Kinds
  <2> QED BY <2>1, <2>2
<1> HIDE DEF c
<1>6. /\ b.copy[p] = c /\ b.entry = a.entry /\ b.synced = a.synced /\ b.filed = a.filed /\ b.place = a.place
      /\ b.durable = a.durable /\ \A q \in Paths : q # p => b.copy[q] = a.copy[q]
  <2>1. b = [a EXCEPT !.copy[p] = c] OBVIOUS
  <2>2. p \in Paths /\ c \in Copies \cup {NoCopy} BY <1>5
  <2> HIDE DEF a, b
  <2> QED BY <1>4, <2>1, <2>2, CopyReplaced
<1> HIDE DEF b
<1>7. store'[n] = b /\ \A m \in 1..MaxArchives : m # n => store'[m] = store[m] BY <1>3, MovesTo
<1> QED BY <1>1, <1>5, <1>6, <1>7 DEF RotKept

\* What all others may do while a resolution fills its archive: nothing to its locals.
Waiting == UNCHANGED <<setting, command, used, pc, todo, archive, open, since, digest>> /\ RotKept

LEMMA Bystanders ==
  ASSUME CommandInv, LocalsInv, AgentsInv, StoreInv, pc \in Fills, [Next]_vars PROVE Resolving \/ pc' = "idle" \/ Waiting
<1>s. ASSUME store' = store PROVE RotKept BY <1>s DEF RotKept
<1>1. ASSUME UNCHANGED <<setting, command, used, pc, todo, archive, open, since, digest, store>> PROVE Waiting
  BY <1>1, <1>s DEF Waiting
<1>2. CASE Start
  <2>1. pc = "idle" BY <1>2 DEF Start
  <2> QED BY <2>1 DEF Fills
<1>3. CASE Pruning \/ Reading
  BY <1>3, PruningPcs, ReadingPcs DEF Fills, PrunePcs, RestorePcs, VerifyPcs
<1>4. ASSUME NEW k \in Agents, AgentSteps(k) PROVE Waiting
  BY <1>1, <1>4, AgentsLeaveControl DEF Control, disk, locals
<1>5. CASE Cancel BY <1>1, <1>5 DEF Cancel, disk, locals
<1>6. CASE Crash BY <1>6 DEF Crash, Finish
<1>7. CASE PowerLoss
  <2>1. pc # "idle" BY DEF Fills
  <2> QED BY <1>7, <2>1 DEF PowerLoss, Finish
<1>8. CASE Rots
  <2>1. UNCHANGED <<setting, command, used, pc, todo, archive, open, since, digest>> BY <1>8 DEF Rots, locals
  <2> QED BY <1>8, <2>1, RotKeeps DEF Waiting
<1>9. ASSUME NEW k \in Agents, Cut(k) PROVE Waiting BY <1>1, <1>9 DEF Cut, disk, locals
<1>10. CASE Users BY <1>1, <1>10 DEF Users, Edit, Propagate, PropagateRemoval, disk, locals
<1>11. CASE UNCHANGED vars BY <1>1, <1>11 DEF vars, disk, locals
<1> QED BY <1>2, <1>3, <1>4, <1>5, <1>6, <1>7, <1>8, <1>9, <1>10, <1>11 DEF Next, Over, Faults, Client

LEMMA WaitingKept ==
  ASSUME CommandInv, LocalsInv, StoreInv, FillInv, pc \in Fills, todo # <<>>, Waiting
  PROVE  /\ Path' = Path /\ Kept'.place = Kept.place /\ Kept'.durable = Kept.durable /\ Kept'.synced = Kept.synced
         /\ Kept'.filed = Kept.filed /\ Kept'.entry = Kept.entry
         /\ (Copied # NoCopy => Copied' # NoCopy) /\ (pc \in Copying => Copied' = Copied)
<1>1. archive \in 1..MaxArchives /\ Kept = store[archive] BY KeptFacts DEF FillInv
<1>2. Kept' = store'[archive] /\ Path' = Path BY DEF Waiting, Kept, Path
<1>3. Path \in Paths /\ (pc \in Copying => Path \notin Kept.synced) /\ Copied = Kept.copy[Path] BY PathFacts DEF FillInv
<1>4. Copied' = store'[archive].copy[Path] BY <1>2 DEF Copied
<1> QED BY <1>1, <1>2, <1>3, <1>4 DEF Waiting, RotKept

\* A resolution fills an archive from the moment it has its name.
LEMMA FillsFrom == ASSUME CommandInv, [Next]_vars, pc' \in Fills \ {"next"} PROVE pc \in Fills
<1>1. CASE Start
  <2>1. pc' \in {"preflight", "select", "find", "enumerate"} BY <1>1, StartPcs
  <2> QED BY <2>1 DEF Fills
<1>2. CASE Pruning
  <2>1. pc' \in {"idle", "hide", "stage", "reclaim", "settle", "clean"}
    BY <1>2 DEF Pruning, PruneSelect, CleanTombstone, PruneStops, PruneCleaned, PruneHides, PruneStages,
       PruneReclaims, PruneSettles, PruneEnds, Finish, Goto, locals
  <2> QED BY <2>1 DEF Fills
<1>3. CASE Reading
  <2>1. pc' \in {"idle", "restore", "compare", "verify"}
    BY <1>3 DEF Reading, RestoreFinds, RestoreCopies, RestoreCompares, VerifyBegins, VerifyNext, VerifyEnds, Failing,
       Finish, Goto, Keeping, locals
  <2> QED BY <2>1 DEF Fills
<1>4. CASE Preflight \/ ResolveLocked \/ ResolveBarrier
  <2>1. pc' \in {"idle", "lock", "next"} BY <1>4 DEF Preflight, ResolveLocked, ResolveBarrier, Finish, Goto
  <2> QED BY <2>1 DEF Fills
<1>5. CASE Resolving /\ ~(Preflight \/ ResolveLocked \/ ResolveBarrier)
  BY <1>5 DEF Resolving, NextPath, CopyOpens, CopyReads, CopySynced, Record, FileManifest, RemoveLocal, ExtractOpens,
     ExtractWrites, ExtractEnds, ExtractTruncated, Acknowledge, Await, Fills
<1>6. CASE pc' = pc BY <1>6
<1>7. ASSUME NEW k \in Agents, AgentSteps(k) \/ Cut(k) PROVE pc' = pc BY <1>7, AgentsLeaveControl DEF Control, Cut, locals
<1>8. CASE Cancel \/ Crash \/ PowerLoss \/ Rots
  BY <1>6, <1>8 DEF Cancel, Crash, PowerLoss, Rots, locals, Finish, Fills
<1>9. CASE Users BY <1>6, <1>9, UsersLeaveControl DEF Control
<1>10. CASE UNCHANGED vars BY <1>6, <1>10 DEF vars, locals
<1> QED BY <1>1, <1>2, <1>3, <1>4, <1>5, <1>6, <1>7, <1>8, <1>9, <1>10 DEF Next, Over, Faults, Client

\* A resolution removes, or tells the agent to, after the copy is durable, recorded and catalogued.
Recording == {"record", "file", "remove", "acknowledge"}
FiledInv ==
  /\ pc \in Recording => /\ Kept.durable = "visible" /\ Path \in Kept.synced /\ Copied # NoCopy
                         /\ digest \in WholeCopies(Path)
  /\ pc \in Recording \ {"record"} => Kept.entry[Path] = digest
  /\ pc \in {"remove", "acknowledge"} => Path \in Kept.filed

\* The steps by which a resolution comes to record a copy, and goes on with it.
LEMMA Recorders ==
  ASSUME CommandInv, FreshInv, Resolving, pc' \in Recording
  PROVE  CopySynced \/ ExtractEnds \/ Record \/ FileManifest
<1>1. pc' \notin {"idle", "next", "lock", "barrier", "copy", "extract", "await"} BY DEF Recording
<1>2. ~(Preflight \/ ResolveLocked \/ NextPath \/ RemoveLocal \/ ResolveBarrier \/ Acknowledge \/ Await)
  BY <1>1 DEF Preflight, ResolveLocked, NextPath, RemoveLocal, ResolveBarrier, Acknowledge, Await, Finish, Failing, Goto
<1>3. ~(CopyOpens \/ CopyReads \/ ExtractOpens \/ ExtractWrites \/ ExtractTruncated)
  BY <1>1 DEF CopyOpens, CopyReads, ExtractOpens, ExtractWrites, ExtractTruncated, Finish, Failing, CopyFails, ExtractFails
<1> QED BY <1>2, <1>3 DEF Resolving

LEMMA SyncedFacts ==
  ASSUME CommandInv, LocalsInv, StoreInv, FillInv, CopySynced \/ ExtractEnds, pc' = "record"
  PROVE  /\ Path' = Path /\ Kept'.durable = "visible" /\ digest' = Copied /\ Copied' = Copied
         /\ UNCHANGED <<since, content, clock, setting, command, open, todo>>
         /\ CopySynced => CopyDone(Copied, setting.kind[Path])
<1>1. pc \in Copying /\ pc \in Fills /\ todo # <<>>
  BY DEF CopySynced, ExtractEnds, Copying, Fills, LocalsInv, WithPath
<1>2. Kept \in Archive /\ Kept.place = "visible" /\ Path \in Paths /\ archive \in 1..MaxArchives
  BY <1>1, KeptFacts, PathFacts DEF FillInv, Copying
<1> DEFINE b == [Kept EXCEPT !.synced = @ \cup {Path}, !.durable = Kept.place]
<1>3. /\ Set(archive, b) /\ digest' = Copied
      /\ UNCHANGED <<since, content, clock, setting, command, open, todo, archive>>
  BY DEF CopySynced, ExtractEnds, Finish, Failing, ExtractFails, ByClient, Synced, Digest, ends
<1>4. b.durable = "visible" /\ b.copy = Kept.copy BY <1>2 DEF Archive
<1> HIDE DEF b
<1>5. Kept' = b /\ Path' = Path BY <1>2, <1>3, StoreSet DEF StoreInv, Kept, Path
<1>6. Copied' = Copied BY <1>4, <1>5 DEF Copied
<1> QED BY <1>3, <1>4, <1>5, <1>6 DEF CopySynced

LEMMA FiledStep ==
  ASSUME CommandInv, LocalsInv, AgentsInv, StoreInv, FillInv, FillInv', FiledInv, [Next]_vars PROVE FiledInv'
<1>1. SUFFICES ASSUME pc' \in Recording PROVE FiledInv' BY DEF FiledInv, Recording
<1>2. pc \in Fills BY <1>1, FillsFrom DEF Recording, Fills
<1>3. setting' = setting BY SettingStays
<1>4. CASE Waiting
  <2>1. pc' = pc /\ digest' = digest /\ todo # <<>> BY <1>1, <1>4 DEF Waiting, Recording, LocalsInv, WithPath, Fills
  <2>2. /\ Path' = Path /\ Kept'.durable = Kept.durable /\ Kept'.synced = Kept.synced
        /\ Kept'.filed = Kept.filed /\ Kept'.entry = Kept.entry /\ (Copied # NoCopy => Copied' # NoCopy)
    BY <1>2, <1>4, <2>1, WaitingKept
  <2>3. pc \in Recording /\ Copied' # NoCopy BY <1>1, <2>1, <2>2 DEF FiledInv
  <2> PICK d : d = digest OBVIOUS
  <2>4. d \in WholeCopies(Path)' BY <1>3, <2>2, <2>3 DEF FiledInv, WholeCopies
  <2>5. Kept'.durable = "visible" /\ Path' \in Kept'.synced BY <2>2, <2>3 DEF FiledInv
  <2>6. pc \in Recording \ {"record"} => Kept'.entry[Path'] = digest' BY <2>1, <2>2 DEF FiledInv
  <2>7. pc \in {"remove", "acknowledge"} => Path' \in Kept'.filed BY <2>2 DEF FiledInv
  <2>8. digest' \in WholeCopies(Path)' BY <2>1, <2>4
  <2> HIDE DEF FiledInv
  <2> QED BY <2>1, <2>3, <2>5, <2>6, <2>7, <2>8 DEF FiledInv
<1>5. CASE Resolving
  <2>1. CopySynced \/ ExtractEnds \/ Record \/ FileManifest BY <1>1, <1>5, Recorders DEF FillInv
  <2>2. CASE CopySynced \/ ExtractEnds
    <3>1. pc' = "record" BY <1>1, <2>2 DEF CopySynced, ExtractEnds, Failing, ExtractFails, Finish, Goto, Recording
    <3>2. Kept'.durable = "visible" BY <2>2, <3>1, SyncedFacts
    <3>3. digest' \in WholeCopies(Path)' /\ Path' \in Kept'.synced /\ Same(Copied, digest)' BY <3>1 DEF FillInv, DigestInv
    <3>4. digest' \in WholeCopies(Path') BY <1>3, <3>3 DEF WholeCopies
    <3>5. Copied' # NoCopy
      <4>1. digest'.kind \in Kinds
        <5>1. digest'.kind = setting.kind[Path'] BY <3>4 DEF WholeCopies
        <5>2. pc \in WithPath /\ Path' = Path BY <2>2, <3>1, SyncedFacts DEF CopySynced, ExtractEnds, WithPath, Fills
        <5>3. setting.kind[Path] \in Kinds BY <1>2, <5>2, PathFacts DEF FillInv, LocalsInv
        <5> QED BY <5>1, <5>2, <5>3
      <4>2. Copied'.kind = digest'.kind BY <3>3 DEF Same
      <4> QED BY <4>1, <4>2 DEF NoCopy, Kinds
    <3> QED BY <3>1, <3>2, <3>3, <3>5 DEF FiledInv, Recording
  <2>3. CASE Record
    <3>1. pc = "record" /\ todo # <<>> BY <2>3 DEF Record, LocalsInv, WithPath, Fills
    <3>2. Set(archive, Recorded(Kept, Path, digest)) /\ pc' = "file" /\ UNCHANGED <<todo, archive, digest>>
      BY <1>1, <2>3 DEF Record, Uncatalogued, Finish, Goto, Keeping, Recording
    <3>3. Kept \in Archive /\ Path \in Paths /\ archive \in 1..MaxArchives /\ digest \in Copies \cup {NoCopy}
      BY <1>2, <3>1, KeptFacts, PathFacts DEF FillInv, DigestInv
    <3> DEFINE b == [Kept EXCEPT !.entry[Path] = digest]
    <3>4. b.entry[Path] = digest /\ b.durable = Kept.durable /\ b.synced = Kept.synced /\ b.copy = Kept.copy
      <4> PICK a : a = Kept OBVIOUS
      <4> PICK p : p = Path OBVIOUS
      <4>1. b = [a EXCEPT !.entry[p] = digest] OBVIOUS
      <4> HIDE DEF b
      <4> QED BY <3>3, <4>1, EntryReplaced
    <3>5. Set(archive, b) BY <3>2 DEF Recorded
    <3> HIDE DEF b
    <3>6. Kept' = b /\ Path' = Path BY <3>2, <3>3, <3>5, StoreSet DEF StoreInv, Kept, Path
    <3>7. Copied' = Copied BY <3>4, <3>6 DEF Copied
    <3> QED BY <1>3, <3>1, <3>2, <3>4, <3>6, <3>7 DEF FiledInv, Recording, WholeCopies
  <2>4. CASE FileManifest
    <3>1. pc = "file" /\ todo # <<>> BY <2>4 DEF FileManifest, LocalsInv, WithPath, Fills
    <3> DEFINE filed == Catalogued(Kept)
               b == [Kept EXCEPT !.filed = filed]
    <3>2. Set(archive, b) /\ pc' \in {"acknowledge", "remove"} /\ UNCHANGED <<todo, archive, digest>>
      BY <1>1, <2>4 DEF FileManifest, Uncatalogued, Finish, Goto, Keeping, Recording, AfterRecord
    <3>3. Kept \in Archive /\ Path \in Paths /\ archive \in 1..MaxArchives BY <1>2, <3>1, KeptFacts, PathFacts DEF FillInv
    <3>4. Path \in filed
      <4>1. Kept.entry[Path] = digest /\ digest \in WholeCopies(Path) BY <3>1 DEF FiledInv, Recording
      <4>2. digest # NoCopy BY <3>3, <4>1, WholeFacts DEF CommandInv
      <4> QED BY <3>3, <4>1, <4>2 DEF Catalogued
    <3> HIDE DEF filed
    <3>5. b.filed = filed /\ b.entry = Kept.entry /\ b.durable = Kept.durable /\ b.synced = Kept.synced /\ b.copy = Kept.copy
      BY <3>3 DEF Archive
    <3> HIDE DEF b
    <3>6. Kept' = b /\ Path' = Path BY <3>2, <3>3, StoreSet DEF StoreInv, Kept, Path
    <3>7. Copied' = Copied BY <3>5, <3>6 DEF Copied
    <3> QED BY <1>3, <3>1, <3>2, <3>4, <3>5, <3>6, <3>7 DEF FiledInv, Recording, WholeCopies
  <2> QED BY <2>1, <2>2, <2>3, <2>4
<1> QED BY <1>1, <1>2, <1>4, <1>5, Bystanders DEF Recording

-----------------------------------------------------------------------------
(* The local loser, from the beginning of its copy to its removal.          *)

\* The first n of files are what the source has, except where it changed since.
Taken(files, n) ==
  \A j \in 1..Len(Source.files) : j <= n /\ Arrived(Source, j) <= since => files[j] = Source.files[j]
Digested == {"record", "file", "remove"}
\* From its first byte to its removal, the copy of the local loser is of what was there, but for what
\* came since it began.
WindowInv ==
  /\ pc = "copy" => since <= clock /\ Taken(Copied.files, Having)
  /\ pc \in Digested /\ Kind = "prefer remote" => since <= clock /\ Taken(digest.files, Len(digest.files))

LEMMA SinceFacts == ASSUME LocalsInv, EndsInv PROVE since \in Nat /\ clock \in Nat /\ MaxVersion \in Nat
  BY CatalogAssumption DEF LocalsInv, EndsInv

LEMMA TakenStays ==
  ASSUME CommandInv, LocalsInv, EndsInv, EndsInv', OnlyNews, setting' = setting, since <= clock, since' = since, Path' = Path,
         Path \in Paths, NEW files, NEW n, Taken(files, n)
  PROVE  Taken(files, n)' /\ since' <= clock'
<1> PICK from : from = since OBVIOUS
<1> PICK p : p = Path OBVIOUS
<1>1. from \in Nat /\ from <= clock /\ p \in Paths /\ setting \in Settings BY SinceFacts DEF CommandInv
<1>2. ASSUME NEW j \in 1..Len(content'["local"][p].files), j <= n, Arrived(content'["local"][p], j) <= from
      PROVE  files[j] = content'["local"][p].files[j]
  <2>1. /\ j \in 1..Len(content["local"][p].files) /\ Arrived(content["local"][p], j) <= from
        /\ content'["local"][p].files[j] = content["local"][p].files[j]
    BY <1>1, <1>2, StaysLooked DEF Endpoints
  <2> QED BY <1>2, <2>1 DEF Taken, Source
<1>3. clock' >= clock /\ clock \in Nat /\ clock' \in Nat BY DEF OnlyNews, EndsInv
<1> QED BY <1>1, <1>2, <1>3 DEF Taken, Source, Arrived

\* A step that neither reads the source nor changes it.
LEMMA TakenKept ==
  ASSUME UNCHANGED <<content, clock, since>>, Path' = Path, since <= clock, NEW files, NEW n, Taken(files, n)
  PROVE  Taken(files, n)' /\ since' <= clock'
<1> PICK p : p = Path OBVIOUS
<1> QED BY DEF Taken, Source, Arrived

LEMMA ReadsSource ==
  ASSUME CommandInv, LocalsInv, StoreInv, FreshInv, CopyInv, CopyReads, pc' = "copy"
  PROVE  LET n == Len(Copied.files)
             c == [Copied EXCEPT !.files[n] = open.version]
         IN  /\ Put(c) /\ c \in Copies /\ open' = NoSource
             /\ UNCHANGED <<pc, todo, archive, since, digest, setting, command, content, clock>>
             /\ Len(c.files) = n /\ n \in Nat /\ n > 0 /\ c.files[n] = open.version /\ ~Changed(Source, n, open)
             /\ \A j \in 1..(n - 1) : c.files[j] = Copied.files[j]
<1> DEFINE i == Len(Copied.files)
           v == open.version
           c == [Copied EXCEPT !.files[i] = v]
<1>1. pc \in Fills /\ pc # "next" /\ todo # <<>> /\ open # NoSource /\ pc = "copy"
  BY DEF CopyReads, Fills, LocalsInv, WithPath
<1>2. /\ ~Changed(Source, i, open)
      /\ Set(archive, [Kept EXCEPT !.copy[Path].files[i] = ReadOf(Source, i, open)])
      /\ open' = NoSource /\ UNCHANGED <<pc, todo, archive, since, digest, setting, command, content, clock>>
  BY DEF CopyReads, CopyFails, Failing, Finish, ends
<1>3. ReadOf(Source, i, open) = v /\ v \in 1..MaxVersion
  BY <1>1, <1>2 DEF CopyInv, Changed, ReadOf
<1>4. Copied \in Copies \cup {NoCopy} /\ i \in Nat /\ i > 0 BY <1>1, PathFacts DEF CopyInv
<1>5. Set(archive, [Kept EXCEPT !.copy[Path].files[i] = v]) BY <1>2, <1>3
<1>6. [Kept EXCEPT !.copy[Path].files[i] = v] = [Kept EXCEPT !.copy[Path] = c] BY DEF Copied
<1>7. Put(c) BY <1>5, <1>6 DEF Put
<1>8. c \in Copies /\ Len(c.files) = i /\ c.files[i] = v /\ \A j \in 1..(i - 1) : c.files[j] = Copied.files[j]
  <2>1. v \in Bytes BY <1>3, ByteFacts
  <2> HIDE DEF v
  <2> QED BY <1>4, <2>1, LastRewritten
<1> QED BY <1>2, <1>4, <1>7, <1>8

\* While a file is open, the directory it is of has not been replaced, unless it was replaced since
\* the copy began.
HeldInv ==
  pc = "copy" /\ open # NoSource =>
    \A j \in 1..Len(Source.files) : Arrived(Source, j) <= since => Source.inode = open.inode

LEMMA CopyBegins ==
  ASSUME CommandInv, LocalsInv, StoreInv, FillInv, NextPath, pc' = "copy"
  PROVE  since' = clock /\ clock' = clock /\ Having' = 0
<1>1. pc = "next" /\ pc \in Fills BY DEF NextPath, Fills
<1>2. todo # <<>> /\ Set(archive, Begun(Kept, Path, Source.kind)) /\ since' = clock /\ Exists(Source)
      /\ UNCHANGED <<todo, archive, open, content, clock>>
  BY DEF NextPath, Goto, Keeping, Finish, ends
<1>3. Kept \in Archive /\ Path \in Paths /\ archive \in 1..MaxArchives BY <1>1, <1>2, KeptFacts, PathFacts DEF FillInv
<1> PICK kind : kind = Source.kind OBVIOUS
<1> DEFINE a == Kept
           b == Begun(a, Path, kind)
<1>4. b.copy[Path].files = <<>>
  <2>1. Path \in Paths /\ a \in Archive BY <1>3
  <2>2. b.copy = [a.copy EXCEPT ![Path] = IF kind = "directory" THEN [kind |-> kind, files |-> <<>>] ELSE NoCopy]
    <3> HIDE DEF a
    <3> QED BY <2>1 DEF Begun, Archive
  <2>3. a.copy \in [Paths -> Copies \cup {NoCopy}] BY <2>1 DEF Archive
  <2>4. b.copy[Path] = IF kind = "directory" THEN [kind |-> kind, files |-> <<>>] ELSE NoCopy BY <2>1, <2>2, <2>3
  <2> QED BY <2>4 DEF NoCopy
<1>5. Set(archive, b) BY <1>2
<1> HIDE DEF b
<1>6. Kept' = b /\ Path' = Path BY <1>2, <1>3, <1>5, StoreSet DEF StoreInv, Kept, Path
<1>7. Copied'.files = <<>> BY <1>4, <1>6 DEF Copied
<1>8. open' = NoSource BY <1>1, <1>2 DEF FillInv, FreshInv, Copying
<1> QED BY <1>2, <1>7, <1>8 DEF Having

LEMMA HeldStep ==
  ASSUME CommandInv, EndsInv, EndsInv', LocalsInv, AgentsInv, StoreInv, FillInv, WindowInv, HeldInv, [Next]_vars
  PROVE  HeldInv'
<1>1. SUFFICES ASSUME pc' = "copy", open' # NoSource PROVE HeldInv' BY DEF HeldInv
<1>2. pc \in Fills BY <1>1, FillsFrom DEF Fills
<1>3. CASE Waiting
  <2> PICK p : p = Path OBVIOUS
  <2> PICK from : from = since OBVIOUS
  <2>1. pc = "copy" /\ open # NoSource /\ UNCHANGED <<since, open, todo>> /\ todo # <<>>
    BY <1>1, <1>3 DEF Waiting, LocalsInv, WithPath, Fills
  <2>2. p \in Paths /\ Path' = p /\ from \in Nat /\ from <= clock /\ setting \in Settings /\ setting' = setting
    BY <1>2, <1>3, <2>1, PathFacts, SinceFacts DEF FillInv, WindowInv, CommandInv, Waiting, Path
  <2>3. OnlyNews BY Window
  <2>4. ASSUME NEW j \in 1..Len(content'["local"][p].files), Arrived(content'["local"][p], j) <= from
        PROVE  content'["local"][p].inode = open.inode
    <3>1. /\ j \in 1..Len(content["local"][p].files) /\ Arrived(content["local"][p], j) <= from
          /\ content'["local"][p].inode = content["local"][p].inode
      BY <2>2, <2>3, <2>4, StaysLooked DEF Endpoints
    <3> QED BY <2>1, <3>1 DEF HeldInv, Source
  <2>5. Source' = content'["local"][p] /\ since' = from /\ open' = open BY <2>1, <2>2 DEF Source
  <2> QED BY <2>4, <2>5 DEF HeldInv, Arrived
<1>4. CASE Resolving
  <2>1. CopyOpens
    <3>1. ~NextPath
      <4>1. ASSUME NextPath PROVE FALSE
        <5>1. pc = "next" /\ open' = open BY <1>1, <4>1 DEF NextPath, Finish, Goto, Keeping
        <5>2. open = NoSource BY <1>2, <5>1 DEF FillInv, FreshInv, Copying
        <5> QED BY <1>1, <5>1, <5>2
      <4> QED BY <4>1
    <3>2. ~CopyReads BY <1>1 DEF CopyReads, CopyFails, Failing, Finish
    <3> QED BY <1>1, <1>4, <3>1, <3>2 DEF Resolving, Preflight, ResolveLocked, RemoveLocal, ResolveBarrier, Acknowledge, Await,
       CopySynced, ExtractEnds, Record, FileManifest, ExtractOpens, ExtractWrites, ExtractTruncated, Finish, Failing, Goto,
       CopyFails, ExtractFails, Uncatalogued, AfterRecord
  <2>2. open' = Observed(Source, Len(Copied.files) + 1, Path) /\ UNCHANGED <<todo, content, since>>
    BY <1>1, <2>1 DEF CopyOpens, CopyFails, Failing, Finish, ends
  <2>3. open'.inode = Source.inode BY <2>2 DEF Observed
  <2>4. Source' = Source BY <2>2 DEF Source, Path
  <2> QED BY <2>3, <2>4 DEF HeldInv
<1> QED BY <1>1, <1>2, <1>3, <1>4, Bystanders

LEMMA WindowStep ==
  ASSUME CommandInv, CommandInv', EndsInv, EndsInv', LocalsInv, AgentsInv, StoreInv, FillInv, WindowInv, HeldInv, [Next]_vars
  PROVE  WindowInv'
<1>1. SUFFICES ASSUME pc' = "copy" \/ (pc' \in Digested /\ Kind' = "prefer remote") PROVE WindowInv'
  BY DEF WindowInv
<1>2. pc' \in Fills \ {"next"} BY <1>1 DEF Digested, Fills
<1>3. pc \in Fills BY <1>2, FillsFrom
<1>4. setting' = setting BY SettingStays
<1>5. OnlyNews BY Window
<1>6. CASE Waiting
  <2>1. pc' = pc /\ Kind' = Kind /\ UNCHANGED <<since, digest, open, todo>> /\ todo # <<>> /\ pc \in Fills \ {"next"}
    BY <1>2, <1>6 DEF Waiting, Kind, LocalsInv, WithPath
  <2>2. Path \in Paths /\ Path' = Path /\ (pc \in Copying => Copied' = Copied)
    BY <1>3, <1>6, <2>1, PathFacts, WaitingKept DEF FillInv
  <2>3. ASSUME NEW files, NEW n, Taken(files, n), since <= clock PROVE Taken(files, n)' /\ since' <= clock'
    BY <1>4, <1>5, <2>1, <2>2, <2>3, TakenStays
  <2>4. CASE pc = "copy"
    <3>1. Copied' = Copied /\ Having' = Having BY <2>1, <2>2, <2>4 DEF Copying, Having
    <3> PICK files : files = Copied.files OBVIOUS
    <3> PICK n : n = Having OBVIOUS
    <3>2. Taken(files, n)' /\ since' <= clock' BY <2>3, <2>4 DEF WindowInv
    <3>3. Taken(Copied.files, Having)' BY <3>1, <3>2 DEF Taken
    <3> QED BY <2>1, <2>4, <3>2, <3>3 DEF WindowInv, Digested
  <2>5. CASE pc # "copy"
    <3> PICK files : files = digest.files OBVIOUS
    <3> PICK n : n = Len(digest.files) OBVIOUS
    <3>2. Taken(files, n)' /\ since' <= clock' BY <1>1, <2>1, <2>3, <2>5 DEF WindowInv
    <3>3. Taken(digest.files, Len(digest.files))' BY <2>1, <3>2 DEF Taken
    <3> QED BY <2>1, <2>5, <3>2, <3>3 DEF WindowInv
  <2> QED BY <2>4, <2>5
<1>7. CASE Resolving /\ pc' = "copy"
  <2>1. CASE NextPath
    <3>1. since' = clock' /\ Having' = 0 /\ clock' \in Nat BY <1>7, <2>1, CopyBegins DEF EndsInv
    <3>2. Taken(Copied.files, Having)' BY <3>1 DEF Taken
    <3>3. since' <= clock' BY <3>1
    <3> QED BY <1>7, <3>2, <3>3 DEF WindowInv, Digested
  <2>2. CASE CopyOpens
    <3> DEFINE n == Len(Copied.files)
               c == WithFile(Copied, setting.kind[Path], Torn)
    <3>1. /\ Put(c) /\ c \in Copies /\ open' = Observed(Source, n + 1, Path) /\ n < FilesOf(setting.kind[Path])
          /\ UNCHANGED <<pc, todo, archive, since, digest, outcome>>
      BY <1>7, <2>2, OpensPuts DEF FillInv, Finish
    <3>2. pc = "copy" /\ pc \in Copying /\ todo # <<>> /\ open = NoSource /\ UNCHANGED <<setting, command, content, clock>>
      BY <2>2 DEF CopyOpens, Copying, LocalsInv, WithPath, Fills, ends
    <3>3. /\ n \in Nat /\ FilesOf(setting.kind[Path]) \in 1..Files /\ Copied \in Copies \cup {NoCopy}
          /\ setting.kind[Path] \in Kinds /\ Path \in Paths
      BY <1>3, <3>2, PathFacts DEF FillInv
    <3>4. Len(c.files) = n + 1 /\ \A j \in 1..n : c.files[j] = Copied.files[j]
      BY <3>1, <3>3, FileAppended, ByteFacts DEF Files
    <3>5. open' # NoSource
      <4>1. open'.path = Path BY <3>1 DEF Observed
      <4>2. NoSource.path = "nobody" BY DEF NoSource, Nobody
      <4>3. Path # "nobody" BY <3>3, RecoveryAssumption
      <4> QED BY <4>1, <4>2, <4>3
    <3>6. Having = n BY <3>2, <3>3 DEF Having
    <3> HIDE DEF c
    <3>7. Copied' = c /\ Path' = Path BY <3>1, <3>2, PutFacts DEF FillInv
    <3>8. Having' = n BY <3>3, <3>4, <3>5, <3>7 DEF Having
    <3>9. Taken(Copied.files, n) /\ since <= clock BY <3>2, <3>6 DEF WindowInv
    <3> HIDE DEF n
    <3> PICK f : f = c.files OBVIOUS
    <3>11. \A j \in 1..Len(Source.files) : j <= n => j \in 1..n BY <3>3
    <3> PICK m : m = n OBVIOUS
    <3>12. Taken(f, m) BY <3>4, <3>9, <3>11 DEF Taken
    <3>13. Taken(f, m)' /\ since' <= clock' BY <3>1, <3>2, <3>7, <3>9, <3>12, TakenKept
    <3>10. Taken(Copied.files, Having)' BY <3>7, <3>8, <3>13 DEF Taken
    <3> QED BY <1>7, <3>1, <3>2, <3>9, <3>10 DEF WindowInv, Digested
  <2>3. CASE CopyReads
    <3> DEFINE n == Len(Copied.files)
               c == [Copied EXCEPT !.files[n] = open.version]
    <3>1. /\ Put(c) /\ c \in Copies /\ open' = NoSource
          /\ UNCHANGED <<pc, todo, archive, since, digest, setting, command, content, clock>>
          /\ Len(c.files) = n /\ n \in Nat /\ n > 0 /\ c.files[n] = open.version /\ ~Changed(Source, n, open)
          /\ \A j \in 1..(n - 1) : c.files[j] = Copied.files[j]
      BY <1>7, <2>3, ReadsSource DEF FillInv
    <3>2. pc = "copy" /\ pc \in Copying /\ open # NoSource BY <2>3 DEF CopyReads, Copying
    <3>3. Having = n - 1 BY <3>1, <3>2 DEF Having
    <3> HIDE DEF c
    <3>4. Copied' = c /\ Path' = Path BY <3>1, <3>2, PutFacts DEF FillInv
    <3>5. Having' = n BY <3>1, <3>4 DEF Having
    <3>6. Taken(Copied.files, n - 1) /\ since <= clock BY <3>2, <3>3 DEF WindowInv
    <3> HIDE DEF n
    <3>7. \A j \in 1..Len(Source.files) : j <= n => j = n \/ j <= n - 1 BY <3>1
    <3>0. ASSUME n \in 1..Len(Source.files), Arrived(Source, n) <= since PROVE open.version = Source.files[n]
      <4>1. Source.inode = open.inode BY <3>0, <3>2 DEF HeldInv
      <4>2. Exists(Source)
        <5>1. Len(NoObject.files) = 0 BY DEF NoObject
        <5> QED BY <3>0, <5>1 DEF Exists
      <4> QED BY <3>1, <4>1, <4>2 DEF Changed, Displaced
    <3>8. \A j \in 1..Len(Source.files) : j <= n /\ Arrived(Source, j) <= since => c.files[j] = Source.files[j]
      BY <3>0, <3>1, <3>6, <3>7 DEF Taken
    <3>9. Taken(Copied.files, Having)' BY <3>1, <3>4, <3>5, <3>8 DEF Taken, Source, Arrived
    <3> QED BY <1>7, <3>1, <3>6, <3>9 DEF WindowInv, Digested
  <2>4. ~(Preflight \/ ResolveLocked \/ RemoveLocal \/ ResolveBarrier \/ Acknowledge \/ Await \/ CopySynced \/ ExtractEnds
          \/ Record \/ FileManifest \/ ExtractOpens \/ ExtractWrites \/ ExtractTruncated)
    BY <1>7 DEF Preflight, ResolveLocked, RemoveLocal, ResolveBarrier, Acknowledge, Await, CopySynced, ExtractEnds,
       Record, FileManifest, ExtractOpens, ExtractWrites, ExtractTruncated, Finish, Failing, Goto, CopyFails, ExtractFails,
       Uncatalogued, AfterRecord
  <2> QED BY <1>7, <2>1, <2>2, <2>3, <2>4 DEF Resolving
<1>8. CASE Resolving /\ pc' \in Digested /\ Kind' = "prefer remote"
  <2>0. Kind' = Kind BY <1>4, <1>8, ResolvingPcs DEF Kind
  <2>1. CopySynced \/ Record \/ FileManifest
    <3>1. CopySynced \/ ExtractEnds \/ Record \/ FileManifest BY <1>8, Recorders DEF FillInv, Digested, Recording
    <3>2. ~ExtractEnds BY <1>8, <2>0 DEF ExtractEnds, CommandInv
    <3> QED BY <3>1, <3>2
  <2>2. CASE CopySynced
    <3>1. pc = "copy" /\ pc' = "record" BY <1>8, <2>2 DEF CopySynced, Failing, Finish, Goto, Digested
    <3>2. /\ Path' = Path /\ digest' = Copied /\ UNCHANGED <<since, content, clock>> /\ open = NoSource
      BY <2>2, <3>1, SyncedFacts DEF CopyDone
    <3>3. Len(Copied.files) \in Nat
      <4>1. todo # <<>> BY <3>1 DEF LocalsInv, WithPath, Fills
      <4> QED BY <1>3, <4>1, PathFacts DEF FillInv
    <3>4. Having = Len(Copied.files) BY <3>2, <3>3 DEF Having
    <3> PICK f : f = Copied.files OBVIOUS
    <3>5. Taken(f, Len(f)) /\ since <= clock BY <3>1, <3>4 DEF WindowInv
    <3>6. Taken(f, Len(f))' /\ since' <= clock' BY <3>2, <3>5, TakenKept
    <3>7. digest'.files = f BY <3>2
    <3>8. Taken(digest.files, Len(digest.files))' BY <3>6, <3>7 DEF Taken
    <3> QED BY <3>1, <3>6, <3>8 DEF WindowInv
  <2>3. CASE Record \/ FileManifest
    <3>1. pc \in Digested /\ UNCHANGED <<since, digest, todo, content, clock>> /\ pc' # "copy"
      BY <1>8, <2>3 DEF Record, FileManifest, Uncatalogued, Finish, Goto, Keeping, Digested, ends
    <3>2. Path' = Path BY <3>1 DEF Path
    <3> PICK f : f = digest.files OBVIOUS
    <3>3. Taken(f, Len(f)) /\ since <= clock BY <1>8, <2>0, <3>1 DEF WindowInv
    <3>4. Taken(f, Len(f))' /\ since' <= clock' BY <3>1, <3>2, <3>3, TakenKept
    <3>5. digest'.files = f BY <3>1
    <3>6. Taken(digest.files, Len(digest.files))' BY <3>4, <3>5 DEF Taken
    <3> QED BY <3>1, <3>4, <3>6 DEF WindowInv
  <2> QED BY <2>1, <2>2, <2>3
<1> QED BY <1>1, <1>2, <1>3, <1>6, <1>7, <1>8, Bystanders DEF Fills

-----------------------------------------------------------------------------
(* What the client has of a stream is what the agent has read.              *)

Streaming == {"stream", "acknowledge"}
SentFiles(a) == IF a.phase = "stream" THEN a.read ELSE a.first
\* The files written, and those on the wire, are the first ones the agent read, in their order.
Agrees(a, having, files) ==
  a.phase \in Streaming =>
    /\ \A i \in 1..having : i <= Len(SentFiles(a)) /\ files[i] = SentFiles(a)[i]
    /\ \A i \in DOMAIN a.wire : a.wire[i].item = "file" =>
         LET j == having + i - Header(a.wire)
         IN  j \in 1..Len(SentFiles(a)) /\ a.wire[i].bytes = SentFiles(a)[j]
    /\ a.phase = "stream" => \A i \in DOMAIN a.wire : a.wire[i].item # "trailer"
    /\ a.phase = "acknowledge" => Len(a.first) = FilesOf(setting.kind[a.path])

\* What a step of the agent, or the loss of its connection, adds to it.
Tells(a, b) ==
  b.phase \in Streaming =>
    /\ b.path = a.path /\ a.phase \in Streaming
    /\ b.phase = "stream" => a.phase = "stream"
    /\ a.phase = "acknowledge" => b.first = a.first
    /\ a.phase = "stream" /\ b.phase = "acknowledge" => Len(b.first) = FilesOf(setting.kind[a.path])
    /\ Len(SentFiles(a)) <= Len(SentFiles(b)) /\ \A i \in 1..Len(SentFiles(a)) : SentFiles(b)[i] = SentFiles(a)[i]
    /\ \/ b.wire = a.wire
       \/ \E n \in 0..Len(a.wire) : b.wire = SubSeq(a.wire, 1, n)
       \/ \E item \in Items :
            /\ b.wire = Append(a.wire, item)
            /\ item.item = "trailer" => b.phase # "stream"
            /\ item.item = "file" =>
                 /\ a.phase = "stream" /\ a.link = "up" /\ Len(SentFiles(b)) = Len(a.read) + 1
                 /\ item.bytes = SentFiles(b)[Len(a.read) + 1]

LEMMA SentTyped ==
  ASSUME NEW a \in AgentStates PROVE SentFiles(a) \in Seq(Bytes) /\ Len(SentFiles(a)) \in Nat /\ a.wire \in Seq(Items)
  BY DEF SentFiles, AgentStates

LEMMA TellsKeeps ==
  ASSUME NEW a \in AgentStates, NEW b \in AgentStates, NEW having \in Nat, NEW files, Agrees(a, having, files), Tells(a, b),
         a.phase = "stream" /\ a.link = "up" => having + Len(a.wire) - Header(a.wire) = Len(a.read)
  PROVE  Agrees(b, having, files)
<1> DEFINE s == SentFiles(a)
           t == SentFiles(b)
           v == a.wire
           w == b.wire
<1>1. SUFFICES ASSUME b.phase \in Streaming PROVE Agrees(b, having, files) BY DEF Agrees
<1>2. /\ s \in Seq(Bytes) /\ t \in Seq(Bytes) /\ Len(s) \in Nat /\ Len(t) \in Nat /\ v \in Seq(Items) /\ w \in Seq(Items)
  BY SentTyped
<1>3. /\ b.path = a.path /\ a.phase \in Streaming /\ (b.phase = "stream" => a.phase = "stream")
      /\ (a.phase = "acknowledge" => b.first = a.first)
      /\ (a.phase = "stream" /\ b.phase = "acknowledge" => Len(b.first) = FilesOf(setting.kind[a.path]))
      /\ Len(s) <= Len(t) /\ \A i \in 1..Len(s) : t[i] = s[i]
  BY <1>1 DEF Tells
<1>4. /\ \A i \in 1..having : i <= Len(s) /\ files[i] = s[i]
      /\ \A i \in DOMAIN v : v[i].item = "file" =>
           having + i - Header(v) \in 1..Len(s) /\ v[i].bytes = s[having + i - Header(v)]
      /\ a.phase = "stream" => \A i \in DOMAIN v : v[i].item # "trailer"
      /\ a.phase = "acknowledge" => Len(a.first) = FilesOf(setting.kind[a.path])
  BY <1>3 DEF Agrees
<1>5. \A i \in 1..having : i <= Len(t) /\ files[i] = t[i] BY <1>2, <1>3, <1>4
<1>6. b.phase = "acknowledge" => Len(b.first) = FilesOf(setting.kind[b.path])
  BY <1>1, <1>3, <1>4 DEF Streaming
<1>7. ASSUME \A i \in DOMAIN w : w[i].item = "file" =>
                having + i - Header(w) \in 1..Len(t) /\ w[i].bytes = t[having + i - Header(w)],
             b.phase = "stream" => \A i \in DOMAIN w : w[i].item # "trailer"
      PROVE  Agrees(b, having, files)
  BY <1>5, <1>6, <1>7 DEF Agrees
<1>8. Header(v) \in {0, 1} /\ Header(w) \in {0, 1} BY <1>2, HeaderFacts
<1>9. \A i \in DOMAIN v : v[i].item = "file" =>
        having + i - Header(v) \in 1..Len(t) /\ v[i].bytes = t[having + i - Header(v)]
  BY <1>2, <1>3, <1>4, <1>8
<1>10. CASE w = v
  BY <1>3, <1>4, <1>7, <1>9, <1>10
<1>11. ASSUME NEW n \in 0..Len(v), w = SubSeq(v, 1, n) PROVE Agrees(b, having, files)
  <2>1. Len(w) = n /\ DOMAIN w = 1..n /\ \A j \in 1..n : j \in DOMAIN v /\ w[j] = v[j] BY <1>2, <1>11, PrefixFacts
  <2>2. n > 0 => Header(w) = Header(v)
    <3>1. n > 0 => 1 \in 1..n /\ v # <<>> /\ w # <<>> BY <1>2, <2>1
    <3> QED BY <2>1, <3>1 DEF Header
  <2> HIDE DEF w, v, t, s
  <2>3. \A i \in DOMAIN w : w[i].item = "file" =>
          having + i - Header(w) \in 1..Len(t) /\ w[i].bytes = t[having + i - Header(w)]
    BY <1>9, <2>1, <2>2
  <2> QED BY <1>3, <1>4, <1>7, <2>1, <2>3
<1>12. ASSUME NEW item \in Items, w = Append(v, item), item.item = "trailer" => b.phase # "stream",
              item.item = "file" =>
                 /\ a.phase = "stream" /\ a.link = "up" /\ Len(t) = Len(a.read) + 1 /\ item.bytes = t[Len(a.read) + 1]
       PROVE  Agrees(b, having, files)
  <2> DEFINE l == Len(v)
  <2>1. /\ l \in Nat /\ Len(w) = l + 1 /\ DOMAIN w = 1..(l + 1) /\ DOMAIN v = 1..l
        /\ w[l + 1] = item /\ \A j \in 1..l : w[j] = v[j]
    BY <1>2, <1>12, AppendFacts
  <2>2. l > 0 => Header(w) = Header(v)
    <3>1. l > 0 => 1 \in 1..l /\ v # <<>> /\ w # <<>> /\ w[1] = v[1] BY <1>2, <2>1
    <3> QED BY <3>1 DEF Header
  <2>3. l = 0 /\ item.item = "file" => Header(v) = 0 /\ Header(w) = 0
    <3>1. l = 0 => v = <<>> BY <1>2, HeaderFacts
    <3>2. l = 0 => w # <<>> /\ w[1] = item BY <1>2, <2>1
    <3> QED BY <3>1, <3>2 DEF Header
  <2> PICK r : r = Len(a.read) OBVIOUS
  <2>t. r \in Nat BY DEF AgentStates
  <2>4. item.item = "file" => having + l - Header(v) = r /\ Len(t) = r + 1 /\ item.bytes = t[r + 1]
    BY <1>12
  <2> HIDE DEF w, v, t, s, l
  <2>5. ASSUME NEW i \in DOMAIN w, w[i].item = "file"
        PROVE  having + i - Header(w) \in 1..Len(t) /\ w[i].bytes = t[having + i - Header(w)]
    <3>1. CASE i \in 1..l
      <4>1. l > 0 /\ v[i].item = "file" /\ i \in DOMAIN v BY <2>1, <2>5, <3>1
      <4> QED BY <1>9, <2>1, <2>2, <3>1, <4>1
    <3>2. CASE i = l + 1
      <4>1. item.item = "file" /\ w[i] = item BY <2>1, <2>5, <3>2
      <4>2. Header(w) = Header(v) BY <2>1, <2>2, <2>3, <4>1
      <4>3. having + i - Header(w) = r + 1 BY <1>8, <2>1, <2>4, <3>2, <4>1, <4>2
      <4>4. r + 1 \in 1..Len(t) BY <2>4, <2>t, <4>1
      <4> QED BY <2>4, <4>1, <4>3, <4>4
    <3> QED BY <2>1, <3>1, <3>2
  <2>6. b.phase = "stream" => \A i \in DOMAIN w : w[i].item # "trailer"
    <3>1. ASSUME b.phase = "stream", NEW i \in DOMAIN w PROVE w[i].item # "trailer"
      <4>1. i \in 1..l \/ i = l + 1 BY <2>1
      <4> QED BY <1>3, <1>4, <1>12, <2>1, <3>1, <4>1
    <3> QED BY <3>1
  <2> QED BY <1>7, <2>5, <2>6
<1> QED BY <1>1, <1>10, <1>11, <1>12 DEF Tells

LEMMA OpensTells == ASSUME CommandInv, AgentsInv, NEW k \in Agents, AgentOpens(k) PROVE Tells(agent[k], agent'[k])
<1> DEFINE a == agent[k]
<1>1. a.phase \in {"stream", "verify"} /\ a \in AgentStates BY AgentFacts DEF AgentOpens
<1>2. ASSUME NEW c, AgentBecomes(k, c) PROVE agent'[k] = c BY <1>2 DEF AgentBecomes, AgentsInv
<1>3. CASE ~LoserThere(k)
  <2> DEFINE b == [a EXCEPT !.phase = "failed"]
  <2>1. agent'[k] = b BY <1>2, <1>3 DEF AgentOpens
  <2>2. b.phase = "failed" BY <1>1 DEF AgentStates
  <2> QED BY <2>1, <2>2 DEF Tells, Streaming
<1>4. CASE LoserThere(k)
  <2> DEFINE item == [item |-> "directory", bytes |-> Torn]
             heads == a.phase = "stream" /\ a.read = <<>> /\ Expected(k) > 1
             src == Observed(Loser(k), Len(a.read) + 1, a.path)
             seen == IF a.phase = "stream" /\ a.read = <<>> THEN Loser(k) ELSE a.seen
             again == IF a.phase = "verify" /\ a.read = <<>> THEN Loser(k).inode ELSE a.again
             wire == IF heads THEN Sent(a, item) ELSE a.wire
             b == [a EXCEPT !.open = src, !.seen = seen, !.again = again, !.wire = wire]
  <2>1. agent'[k] = b BY <1>2, <1>4 DEF AgentOpens
  <2>2. b.phase = a.phase /\ b.path = a.path /\ b.read = a.read /\ b.first = a.first /\ b.wire = wire
    BY <1>1 DEF AgentStates
  <2>3. item \in Items /\ item.item = "directory" BY ByteFacts DEF Items
  <2>4. wire = a.wire \/ wire = Append(a.wire, item) BY DEF Sent
  <2> HIDE DEF b, wire, item
  <2>5. SentFiles(b) = SentFiles(a) BY <2>2 DEF SentFiles
  <2>6. Len(SentFiles(a)) \in Nat BY <1>1, SentTyped
  <2>7. b.wire = a.wire \/ \E i \in Items : b.wire = Append(a.wire, i) /\ i.item = "directory" BY <2>2, <2>3, <2>4
  <2>8. Tells(a, b) BY <1>1, <2>2, <2>5, <2>6, <2>7 DEF Tells, Streaming
  <2> QED BY <2>1, <2>8
<1> QED BY <1>3, <1>4

LEMMA ReadsTells == ASSUME CommandInv, EndsInv, AgentsInv, NEW k \in Agents, AgentReads(k) PROVE Tells(agent[k], agent'[k])
<1> DEFINE a == agent[k]
           o == Loser(k)
           i == Len(a.read) + 1
           v == ReadOf(o, i, a.open)
           item == [item |-> "file", bytes |-> v]
           sent == IF a.phase = "stream" THEN Sent(a, item) ELSE a.wire
           fails == Changed(o, i, a.open)
           b == IF fails THEN [a EXCEPT !.phase = "failed", !.open = NoSource, !.wire = sent]
                ELSE [a EXCEPT !.read = Append(a.read, v), !.open = NoSource, !.wire = sent]
<1>1. a.phase \in {"stream", "verify"} /\ a.open # NoSource /\ a \in AgentStates /\ a.read \in Seq(Bytes)
  BY AgentFacts DEF AgentReads
<1>2. AgentBecomes(k, b) BY DEF AgentReads, Broken
<1>3. agent'[k] = b BY <1>2 DEF AgentBecomes, AgentsInv
<1>4. a.open.version \in 1..MaxVersion BY <1>1 DEF AgentsInv
<1>5. v \in Bytes BY <1>4, ByteFacts DEF ReadOf
<1>6. item \in Items /\ item.item = "file" /\ item.bytes = v BY <1>5 DEF Items
<1>7. CASE fails
  <2>1. b.phase = "failed"
    <3> HIDE DEF fails, sent
    <3> QED BY <1>1, <1>7 DEF AgentStates
  <2> QED BY <1>3, <2>1 DEF Tells, Streaming
<1>8. CASE ~fails
  <2> PICK r : r = Append(a.read, v) OBVIOUS
  <2>1. b.path = a.path /\ b.phase = a.phase /\ b.wire = sent /\ b.read = r
    <3> HIDE DEF fails, sent, v
    <3> QED BY <1>1, <1>8 DEF AgentStates
  <2>2. Len(r) = Len(a.read) + 1 /\ r[Len(a.read) + 1] = v /\ Len(a.read) \in Nat /\ \A j \in 1..Len(a.read) : r[j] = a.read[j]
    <3> HIDE DEF v, a
    <3> QED BY <1>1, <1>5
  <2>3. a.phase = "stream" => IF a.link = "up" THEN sent = Append(a.wire, item) ELSE sent = a.wire BY DEF Sent
  <2> HIDE DEF b, sent, item, v, fails
  <2>4. a.phase = "stream" => SentFiles(a) = a.read /\ SentFiles(b) = r BY <2>1 DEF SentFiles
  <2>5. Tells(a, b)
    <3>1. SUFFICES ASSUME a.phase = "stream" PROVE Tells(a, b) BY <1>1, <2>1 DEF Tells, Streaming
    <3>2. Len(SentFiles(a)) <= Len(SentFiles(b)) /\ \A j \in 1..Len(SentFiles(a)) : SentFiles(b)[j] = SentFiles(a)[j]
      BY <2>2, <2>4, <3>1
    <3>3. CASE a.link = "up"
      <4>1. b.wire = Append(a.wire, item) BY <2>1, <2>3, <3>1, <3>3
      <4>2. Len(SentFiles(b)) = Len(a.read) + 1 /\ item.bytes = SentFiles(b)[Len(a.read) + 1] BY <1>6, <2>2, <2>4, <3>1
      <4> QED BY <1>6, <2>1, <3>1, <3>2, <3>3, <4>1, <4>2 DEF Tells, Streaming
    <3>4. CASE a.link # "up" BY <2>1, <2>3, <3>1, <3>2, <3>4 DEF Tells, Streaming
    <3> QED BY <3>3, <3>4
  <2> QED BY <1>3, <2>5
<1> QED BY <1>7, <1>8

LEMMA PhasesTell ==
  ASSUME CommandInv, AgentsInv, NEW k \in Agents,
         AgentFinishes(k) \/ AgentInterrupted(k) \/ AgentAcknowledged(k) \/ AgentVerifies(k) \/ AgentInspects(k)
         \/ AgentRemoves(k)
  PROVE  Tells(agent[k], agent'[k])
<1> DEFINE a == agent[k]
<1>1. a \in AgentStates BY AgentFacts
<1>2. ASSUME NEW c, AgentBecomes(k, c) PROVE agent'[k] = c BY <1>2 DEF AgentBecomes, AgentsInv
<1>3. ASSUME NEW c, AgentBecomes(k, c), c.phase \notin Streaming PROVE Tells(a, agent'[k]) BY <1>2, <1>3 DEF Tells
<1>4. CASE AgentFinishes(k)
  <2> DEFINE sent == Sent(a, Trailer)
             b == [a EXCEPT !.phase = "acknowledge", !.first = a.read, !.read = <<>>, !.wire = sent]
  <2>1. agent'[k] = b BY <1>2, <1>4 DEF AgentFinishes
  <2>2. b.phase = "acknowledge" /\ b.path = a.path /\ b.wire = sent /\ b.first = a.read BY <1>1 DEF AgentStates
  <2>3. Trailer \in Items /\ Trailer.item = "trailer" BY ByteFacts DEF Items, Trailer
  <2>4. a.phase = "stream" /\ Len(a.read) = FilesOf(setting.kind[a.path]) BY <1>4 DEF AgentFinishes, Expected
  <2>5. sent = Append(a.wire, Trailer) \/ sent = a.wire BY DEF Sent
  <2> HIDE DEF b, sent
  <2>6. SentFiles(a) = a.read /\ SentFiles(b) = a.read BY <2>2, <2>4 DEF SentFiles
  <2>7. Len(SentFiles(a)) \in Nat BY <1>1, SentTyped
  <2>8. b.wire = a.wire \/ \E i \in Items : b.wire = Append(a.wire, i) /\ i.item = "trailer" BY <2>2, <2>3, <2>5
  <2>9. Tells(a, b) BY <2>2, <2>4, <2>6, <2>7, <2>8 DEF Tells, Streaming
  <2> QED BY <2>1, <2>9
<1>5. ASSUME NEW phase \in {"failed", "inspect"}, AgentBecomes(k, [a EXCEPT !.phase = phase]) PROVE Tells(a, agent'[k])
  <2> DEFINE b == [a EXCEPT !.phase = phase]
  <2>1. AgentBecomes(k, b) /\ b.phase = phase BY <1>1, <1>5 DEF AgentStates
  <2> HIDE DEF b
  <2> QED BY <1>3, <2>1 DEF Streaming
<1>6. ASSUME NEW phase \in {"verify", "remove"}, NEW since0, AgentBecomes(k, [a EXCEPT !.phase = phase, !.since = since0])
      PROVE  Tells(a, agent'[k])
  <2> DEFINE b == [a EXCEPT !.phase = phase, !.since = since0]
  <2>1. AgentBecomes(k, b) /\ b.phase = phase BY <1>1, <1>6 DEF AgentStates
  <2> HIDE DEF b
  <2> QED BY <1>3, <2>1 DEF Streaming
<1>7. CASE AgentInterrupted(k) BY <1>5, <1>7 DEF AgentInterrupted
<1>8. CASE AgentAcknowledged(k) BY <1>5, <1>6, <1>8 DEF AgentAcknowledged
<1>9. CASE AgentVerifies(k) BY <1>5, <1>9 DEF AgentVerifies
<1>10. CASE AgentInspects(k)
  <2> DEFINE since0 == IF a.seen.kind = "regular" THEN clock ELSE a.since
  <2>1. CASE AgentBecomes(k, [a EXCEPT !.phase = "remove", !.since = since0])
    <3> HIDE DEF since0
    <3> QED BY <1>6, <2>1
  <2>2. CASE AgentBecomes(k, [a EXCEPT !.phase = "failed"]) BY <1>5, <2>2
  <2> QED BY <1>10, <2>1, <2>2 DEF AgentInspects
<1>11. CASE AgentRemoves(k)
  <2> DEFINE b == [a EXCEPT !.phase = "done", !.removed = TRUE]
  <2>1. AgentBecomes(k, b) /\ b.phase = "done" BY <1>1, <1>11 DEF AgentRemoves, AgentStates
  <2> HIDE DEF b
  <2> QED BY <1>3, <2>1 DEF Streaming
<1> QED BY <1>4, <1>7, <1>8, <1>9, <1>10, <1>11

LEMMA CutTells == ASSUME CommandInv, AgentsInv, NEW k \in Agents, Cut(k) PROVE Tells(agent[k], agent'[k])
<1> DEFINE a == agent[k]
<1>1. a \in AgentStates BY AgentFacts
<1>2. PICK ack \in {a.ack, "none"}, n \in 0..Len(a.wire) :
        AgentBecomes(k, [a EXCEPT !.link = "cut", !.ack = ack, !.wire = SubSeq(@, 1, n)])
  BY DEF Cut
<1> DEFINE w == SubSeq(a.wire, 1, n)
           b == [a EXCEPT !.link = "cut", !.ack = ack, !.wire = w]
<1>3. AgentBecomes(k, b) BY <1>2
<1>4. b.wire = w /\ b.path = a.path /\ b.phase = a.phase /\ b.read = a.read /\ b.first = a.first BY <1>1 DEF AgentStates
<1> HIDE DEF b
<1>5. agent'[k] = b BY <1>3 DEF AgentBecomes, AgentsInv
<1>6. SentFiles(b) = SentFiles(a) BY <1>4 DEF SentFiles
<1>7. Len(SentFiles(a)) \in Nat BY <1>1, SentTyped
<1>8. Tells(a, b) BY <1>4, <1>6, <1>7 DEF Tells
<1> QED BY <1>5, <1>8

\* What becomes of the client's stream while it waits.
LEMMA StreamTold ==
  ASSUME CommandInv, EndsInv, AgentsInv, pc \in Fills, pc' # "idle", ~Resolving, [Next]_vars
  PROVE  (Stream' = Stream \/ Tells(Stream, Stream')) /\ Stream'.path = Stream.path
<1>0. setting' = setting /\ command \in Agents BY SettingStays, CommandIsAgent DEF Fills
<1>1. CASE Start
  <2>1. pc = "idle" BY <1>1 DEF Start
  <2> QED BY <2>1 DEF Fills
<1>2. CASE Pruning \/ Reading
  BY <1>2, PruningPcs, ReadingPcs DEF Fills, PrunePcs, RestorePcs, VerifyPcs
<1>3. ASSUME NEW k \in Agents, AgentSteps(k) \/ Cut(k)
      PROVE  (Stream' = Stream \/ Tells(Stream, Stream')) /\ Stream'.path = Stream.path
  <2>1. command' = command BY <1>3, AgentsLeaveControl DEF Control, Cut
  <2>2. Tells(agent[k], agent'[k]) BY <1>3, OpensTells, ReadsTells, PhasesTell, CutTells DEF AgentSteps
  <2>3. \A j \in Agents : j # k => agent'[j] = agent[j]
    <3>1. CASE AgentSteps(k) BY <3>1, AloneActs
    <3>2. CASE Cut(k) BY <3>2 DEF Cut, AgentBecomes, AgentsInv
    <3> QED BY <1>3, <3>1, <3>2
  <2>4. Stream' = agent'[command] BY <2>1 DEF Stream
  <2>5. agent'[k].path = agent[k].path BY <1>3, OpensSends, ReadsSends, PhasesSend, CutSends DEF AgentSteps
  <2> QED BY <1>0, <2>2, <2>3, <2>4, <2>5 DEF Stream
<1>4. ASSUME UNCHANGED <<command, agent>> PROVE Stream' = Stream BY <1>4 DEF Stream
<1>5. CASE Cancel \/ Crash \/ Rots BY <1>4, <1>5 DEF Cancel, Crash, Rots
<1>6. CASE PowerLoss
  <2>1. pc # "idle" BY DEF Fills
  <2> QED BY <1>6, <2>1 DEF PowerLoss, Finish
<1>7. CASE Users BY <1>4, <1>7 DEF Users, Edit, Propagate, PropagateRemoval
<1>8. CASE UNCHANGED vars BY <1>4, <1>8 DEF vars
<1> QED BY <1>1, <1>2, <1>3, <1>5, <1>6, <1>7, <1>8 DEF Next, Over, Faults, Client

\* The agent has ended its stream, and waits for an answer about just these files.
Answers(a, files) == a.phase # "stream" /\ (a.phase = "acknowledge" => files = a.first)
Answering == {"record", "file", "acknowledge"}
\* What the client writes and then records is what the agent read first.
StreamedInv ==
  /\ pc = "extract" => Agrees(Stream, Having, Copied.files)
  /\ pc \in Answering /\ Kind = "prefer local" => Stream.path = Path /\ Answers(Stream, digest.files)

LEMMA TellsAnswers ==
  ASSUME NEW a, NEW b, NEW files, Answers(a, files), Tells(a, b) PROVE Answers(b, files)
  BY DEF Answers, Tells, Streaming

\* The rest of a stream continues what has been taken of it.
LEMMA RestAgrees ==
  ASSUME NEW a \in AgentStates, NEW having \in Nat, NEW n \in Nat, NEW files, WireOK(a, having, n), a.wire # <<>>,
         NEW b, b = [a EXCEPT !.wire = Tail(a.wire)], Head(a.wire).item \in {"directory", "file"},
         Agrees(a, having, files), NEW more, \A i \in 1..having : more[i] = files[i],
         Head(a.wire).item = "file" => more[having + 1] = Head(a.wire).bytes
  PROVE  Agrees(b, having + (IF Head(a.wire).item = "file" THEN 1 ELSE 0), more)
<1> DEFINE w == a.wire
           r == Tail(a.wire)
           s == SentFiles(a)
           had == having + (IF Head(a.wire).item = "file" THEN 1 ELSE 0)
<1>1. w \in Seq(Items) /\ Len(w) \in Nat /\ Len(w) > 0 /\ DOMAIN w = 1..Len(w) /\ Head(w) = w[1]
  BY FirstItem DEF AgentStates
<1>2. r \in Seq(Items) /\ Len(r) = Len(w) - 1 /\ DOMAIN r = 1..(Len(w) - 1) /\ \A i \in 1..(Len(w) - 1) : r[i] = w[i + 1]
  BY <1>1
<1>3. b.wire = r /\ b.phase = a.phase /\ b.read = a.read /\ b.first = a.first /\ b.path = a.path BY DEF AgentStates
<1>4. Header(w) = (IF Head(w).item = "directory" THEN 1 ELSE 0) /\ Header(w) \in {0, 1}
  BY FirstItem
<1>5. had = having + 1 - Header(w) /\ had \in Nat BY <1>4
<1>6. \A i \in DOMAIN r : i + 1 \in DOMAIN w /\ i + 1 # 1 /\ r[i] = w[i + 1] BY <1>1, <1>2
<1>7. \A i \in DOMAIN r : r[i].item # "directory" BY <1>6 DEF WireOK
<1>8. Header(r) = 0
  <2>1. r # <<>> => 1 \in DOMAIN r BY <1>2
  <2> QED BY <1>7, <2>1 DEF Header
<1>9. SentFiles(b) = s BY <1>3 DEF SentFiles
<1>10. SUFFICES ASSUME a.phase \in Streaming PROVE Agrees(b, had, more) BY <1>3 DEF Agrees
<1>11. /\ \A i \in 1..having : i <= Len(s) /\ files[i] = s[i]
       /\ \A i \in DOMAIN w : w[i].item = "file" =>
            having + i - Header(w) \in 1..Len(s) /\ w[i].bytes = s[having + i - Header(w)]
       /\ a.phase = "stream" => \A i \in DOMAIN w : w[i].item # "trailer"
       /\ a.phase = "acknowledge" => Len(a.first) = FilesOf(setting.kind[a.path])
  BY <1>10 DEF Agrees
<1>12. ASSUME NEW i \in 1..had PROVE i <= Len(s) /\ more[i] = s[i]
  <2>1. CASE i \in 1..having BY <1>11, <2>1
  <2>2. CASE i \notin 1..having
    <3>1. Head(w).item = "file" /\ i = having + 1 BY <1>12, <2>2
    <3>2. Header(w) = 0 /\ w[1].item = "file" /\ 1 \in DOMAIN w BY <1>1, <1>4, <3>1
    <3>3. having + 1 - Header(w) = i BY <3>1, <3>2
    <3> HIDE DEF w, s, r, had
    <3>4. i \in 1..Len(s) /\ w[1].bytes = s[i] BY <1>11, <3>2, <3>3
    <3>5. more[i] = w[1].bytes BY <1>1, <3>1 DEF w
    <3> QED BY <3>4, <3>5
  <2> QED BY <2>1, <2>2
<1> HIDE DEF had, r, w, s
<1>13. ASSUME NEW i \in DOMAIN r, r[i].item = "file"
       PROVE  had + i - Header(r) \in 1..Len(s) /\ r[i].bytes = s[had + i - Header(r)]
  <2> PICK m : m = i + 1 OBVIOUS
  <2>3. m \in DOMAIN w /\ r[i] = w[m] BY <1>6
  <2>1. having + m - Header(w) \in 1..Len(s) /\ r[i].bytes = s[having + m - Header(w)]
    BY <1>11, <1>13, <2>3
  <2>4. i \in Int BY <1>1, <1>2
  <2>2. having + m - Header(w) = had + i - Header(r) BY <1>4, <1>5, <1>8, <2>4
  <2> QED BY <2>1, <2>2
<1>14. a.phase = "stream" => \A i \in DOMAIN r : r[i].item # "trailer" BY <1>6, <1>11
<1> QED BY ZenonT(60), <1>3, <1>9, <1>11, <1>12, <1>13, <1>14 DEF Agrees

LEMMA ExtractBegins ==
  ASSUME CommandInv, LocalsInv, AgentsInv, StoreInv, FillInv, NextPath, pc' = "extract"
  PROVE  Having' = 0 /\ Stream' = Started
<1>1. pc = "next" /\ pc \in Fills BY DEF NextPath, Fills
<1>2. todo # <<>> /\ Set(archive, Begun(Kept, Path, "none")) /\ AgentBecomes(command, Started)
      /\ UNCHANGED <<todo, archive, open, command>>
  BY DEF NextPath, Goto, Keeping, Finish, AgentBecomes, Started
<1>3. Kept \in Archive /\ Path \in Paths /\ archive \in 1..MaxArchives BY <1>1, <1>2, KeptFacts, PathFacts DEF FillInv
<1> DEFINE b == Begun(Kept, Path, "none")
<1>4. b.copy[Path] = NoCopy
  <2> PICK a : a = Kept OBVIOUS
  <2> PICK p : p = Path OBVIOUS
  <2>1. Begun(a, p, "none").copy[p] = NoCopy BY <1>3, BegunFacts
  <2> QED BY <2>1
<1>5. Set(archive, b) BY <1>2
<1> HIDE DEF b
<1>6. Kept' = b /\ Path' = Path BY <1>2, <1>3, <1>5, StoreSet DEF StoreInv, Kept, Path
<1>7. Copied' = NoCopy BY <1>4, <1>6 DEF Copied
<1>8. open' = NoSource BY <1>1, <1>2 DEF FillInv, FreshInv, Copying
<1>9. Having' = 0 BY <1>7, <1>8 DEF Having, NoCopy
<1>10. command \in Agents BY <1>1, CommandIsAgent
<1>11. Stream' = Started BY <1>2, <1>10 DEF Stream, AgentBecomes, AgentsInv
<1> QED BY <1>9, <1>11

LEMMA StartedAgrees == ASSUME NEW files PROVE Agrees(Started, 0, files)
<1>1. Started.wire = <<>> /\ Started.phase = "stream" BY DEF Started, Idle
<1> QED BY <1>1 DEF Agrees

LEMMA ExtractOpensStreamed ==
  ASSUME CommandInv, LocalsInv, AgentsInv, StoreInv, FillInv, StreamedInv, ExtractOpens
  PROVE  Agrees(Stream', Having', Copied'.files)
<1> DEFINE n == FilesOf(setting.kind[Path])
           m == Len(Copied.files)
<1>1. /\ pc = "extract" /\ open = NoSource /\ Stream.wire # <<>> /\ pc # "idle"
      /\ UNCHANGED <<setting, command, pc, todo, archive, digest>>
  BY DEF ExtractOpens, ByClient
<1>2. pc \in Fills /\ pc \in Copying /\ todo # <<>> BY <1>1 DEF Copying, Fills, LocalsInv, WithPath
<1>3. /\ m \in Nat /\ n \in 1..Files /\ n \in Nat /\ Copied \in Copies \cup {NoCopy}
      /\ setting.kind[Path] \in Kinds /\ Path \in Paths
  BY <1>2, PathFacts DEF FillInv, Files
<1>4. Stream \in AgentStates BY <1>1, AgentFacts, CommandIsAgent DEF Stream
<1>5. Having = m BY <1>1, <1>3 DEF Having
<1>6. m <= n /\ WireOK(Stream, m, n) BY <1>1, <1>5 DEF FillInv, StreamInv, Broke
<1>7. /\ Item = Stream.wire[1] /\ Item \in Items /\ (Item.item = "directory" => m = 0)
      /\ Item.item = "file" => m < n /\ (Item.bytes \in 1..MaxVersion \/ Item.bytes = Torn)
  BY <1>1, <1>3, <1>4, <1>6, FirstItem DEF Item
<1> PICK f : f = Copied.files OBVIOUS
<1>8. Agrees(Stream, m, f) BY <1>1, <1>5 DEF StreamedInv
<1>9. CASE Item.item = "directory"
  <2> DEFINE c == [kind |-> "directory", files |-> <<>>]
  <2>1. Took /\ open' = NoSource /\ Put(c) /\ c \in Copies
    BY <1>1, <1>9, ExtractOpensPuts DEF FillInv
  <2>2. Copied' = c BY <1>1, <1>2, <2>1, PutFacts DEF FillInv
  <2>3. c.files = <<>> /\ Len(c.files) = 0 OBVIOUS
  <2> HIDE DEF c
  <2>4. Having' = 0 /\ m = 0 BY <1>7, <1>9, <2>1, <2>2, <2>3 DEF Having
  <2>5. Stream' = [Stream EXCEPT !.wire = Tail(Stream.wire)] BY <1>1, <2>1, TookFacts
  <2>6. Head(Stream.wire).item = "directory" BY <1>9 DEF Item
  <2> PICK more : more = Copied'.files OBVIOUS
  <2> HIDE DEF m, n
  <2>7. \A i \in 1..m : more[i] = f[i] BY <2>4
  <2> PICK a : a = Stream OBVIOUS
  <2> PICK b : b = Stream' OBVIOUS
  <2>8. /\ a \in AgentStates /\ WireOK(a, m, n) /\ a.wire # <<>> /\ b = [a EXCEPT !.wire = Tail(a.wire)]
        /\ Head(a.wire).item = "directory" /\ Agrees(a, m, f)
    BY <1>1, <1>4, <1>6, <1>8, <2>5, <2>6
  <2>9. Agrees(b, m + (IF Head(a.wire).item = "file" THEN 1 ELSE 0), more) BY <1>3, <2>7, <2>8, RestAgrees
  <2>10. m + (IF Head(a.wire).item = "file" THEN 1 ELSE 0) = 0 BY <2>4, <2>8
  <2>11. Agrees(b, 0, more) BY <2>9, <2>10
  <2> QED BY <2>4, <2>11
<1>10. CASE Item.item # "directory"
  <2> DEFINE c == WithFile(Copied, setting.kind[Path], Torn)
  <2>1. /\ Item.item = "file" /\ UNCHANGED agent /\ open' = [path |-> Path, inode |-> 0, version |-> Item.bytes]
        /\ m < n /\ Put(c) /\ c \in Copies
    BY <1>10, ExtractOpensPuts DEF FillInv
  <2>2. Len(c.files) = m + 1 /\ \A j \in 1..m : c.files[j] = f[j] BY <1>3, <2>1, FileAppended, ByteFacts DEF Files
  <2> HIDE DEF c
  <2>3. Copied' = c BY <1>1, <1>2, <2>1, PutFacts DEF FillInv
  <2>4. open' # NoSource BY <1>3, <2>1, RecoveryAssumption DEF NoSource, Nobody
  <2>5. Having' = m BY <1>3, <2>2, <2>3, <2>4 DEF Having
  <2>6. Stream' = Stream BY <1>1, <2>1, StreamKept
  <2> QED BY <1>8, <2>2, <2>3, <2>5, <2>6 DEF Agrees
<1> QED BY <1>9, <1>10

LEMMA ExtractWritesStreamed ==
  ASSUME CommandInv, LocalsInv, AgentsInv, StoreInv, FillInv, StreamedInv, ExtractWrites, pc' = "extract"
  PROVE  Agrees(Stream', Having', Copied'.files)
<1> DEFINE n == FilesOf(setting.kind[Path])
           m == Len(Copied.files)
           v == open.version
           c == [Copied EXCEPT !.files[m] = v]
<1>1. pc = "extract" /\ open # NoSource /\ pc # "idle" /\ UNCHANGED <<setting, command>> BY DEF ExtractWrites, ByClient
<1>2. pc \in Fills /\ pc \in Copying /\ todo # <<>> BY <1>1 DEF Copying, Fills, LocalsInv, WithPath
<1>3. /\ m \in Nat /\ n \in 1..Files /\ n \in Nat /\ Copied \in Copies \cup {NoCopy}
      /\ setting.kind[Path] \in Kinds /\ Path \in Paths
  BY <1>2, PathFacts DEF FillInv, Files
<1>4. /\ Put(c) /\ c \in Copies /\ Stream.wire # <<>> /\ Took /\ open' = NoSource
      /\ UNCHANGED <<pc, todo, archive, since, digest, chosen, outcome>>
  BY <1>1, ExtractWritesPuts DEF FillInv, Finish
<1>5. Stream \in AgentStates BY <1>1, AgentFacts, CommandIsAgent DEF Stream
<1>6. m <= n /\ m > 0 /\ v \in 1..MaxVersion \cup {Torn} /\ Item.item = "file" /\ Item.bytes = v
  BY <1>1, <1>4 DEF FillInv, StreamInv
<1>7. Having = m - 1 /\ m - 1 \in Nat BY <1>1, <1>3, <1>6 DEF Having
<1>8. WireOK(Stream, m - 1, n) BY <1>1, <1>4, <1>7 DEF FillInv, StreamInv, Broke
<1>9. Len(c.files) = m /\ c.files[m] = v /\ \A j \in 1..(m - 1) : c.files[j] = Copied.files[j]
  BY <1>3, <1>6, LastRewritten, ByteFacts
<1> HIDE DEF c
<1>10. Copied' = c BY <1>1, <1>2, <1>4, PutFacts DEF FillInv
<1>11. Having' = m BY <1>3, <1>4, <1>9, <1>10 DEF Having
<1>12. Stream' = [Stream EXCEPT !.wire = Tail(Stream.wire)] BY <1>1, <1>4, TookFacts
<1> PICK f : f = Copied.files OBVIOUS
<1> PICK more : more = c.files OBVIOUS
<1> PICK had \in Nat : had + 1 = m BY <1>3, <1>7
<1>13. Agrees(Stream, had, f) /\ WireOK(Stream, had, n) /\ had \in Nat /\ had + 1 = m
  <2>1. had \in Nat /\ had + 1 = m /\ Having = had BY <1>3, <1>7
  <2>5. had = m - 1 BY <1>3, <2>1
  <2>2. WireOK(Stream, had, n) BY <1>8, <2>5
  <2>3. Agrees(Stream, Having, Copied.files) BY <1>1 DEF StreamedInv
  <2>4. Agrees(Stream, had, f) BY <2>1, <2>3
  <2> QED BY <2>1, <2>2, <2>4
<1>14. Head(Stream.wire).item = "file" /\ Head(Stream.wire).bytes = v BY <1>6 DEF Item
<1>15. (\A i \in 1..had : more[i] = f[i]) /\ more[had + 1] = v BY <1>9, <1>13
<1> HIDE DEF m, n, v
<1> PICK a : a = Stream OBVIOUS
<1> PICK b : b = Stream' OBVIOUS
<1>16. /\ a \in AgentStates /\ WireOK(a, had, n) /\ a.wire # <<>> /\ b = [a EXCEPT !.wire = Tail(a.wire)]
       /\ Head(a.wire).item = "file" /\ Head(a.wire).bytes = more[had + 1] /\ Agrees(a, had, f)
  BY <1>4, <1>5, <1>12, <1>13, <1>14, <1>15
<1>17. Agrees(b, had + (IF Head(a.wire).item = "file" THEN 1 ELSE 0), more)
  <2>1. n \in Nat /\ had \in Nat /\ \A i \in 1..had : more[i] = f[i] BY <1>3, <1>13, <1>15
  <2>2. Head(a.wire).item \in {"directory", "file"} /\ (Head(a.wire).item = "file" => more[had + 1] = Head(a.wire).bytes)
    BY <1>16
  <2> QED BY SMTT(60), <1>16, <2>1, <2>2, RestAgrees
<1>18. had + (IF Head(a.wire).item = "file" THEN 1 ELSE 0) = m BY <1>13, <1>16
<1>19. Agrees(b, m, more) BY <1>17, <1>18
<1> QED BY <1>10, <1>11, <1>19

LEMMA ExtractEndsStreamed ==
  ASSUME CommandInv, LocalsInv, AgentsInv, StoreInv, FillInv, StreamedInv, ExtractEnds, pc' = "record"
  PROVE  Stream'.path = Path' /\ Answers(Stream', digest'.files)
<1> DEFINE n == FilesOf(setting.kind[Path])
           m == Len(Copied.files)
<1>1. /\ pc = "extract" /\ open = NoSource /\ pc # "idle" /\ UNCHANGED <<setting, command>>
      /\ Stream.wire # <<>> /\ Item.item = "trailer"
  BY DEF ExtractEnds, ByClient
<1>2. pc \in Fills /\ pc \in Copying /\ todo # <<>> BY <1>1 DEF Copying, Fills, LocalsInv, WithPath
<1>3. m \in Nat /\ n \in 1..Files /\ n \in Nat /\ n > 0 /\ Copied.files \in Seq(Bytes)
  BY <1>2, PathFacts DEF FillInv, Files
<1>4. digest' = Copied /\ Took /\ Path' = Path
  <2>1. digest' = Copied /\ Path' = Path BY SyncedFacts
  <2>2. Took BY DEF ExtractEnds, ExtractFails, Failing, Finish
  <2> QED BY <2>1, <2>2
<1>5. Stream \in AgentStates BY <1>1, AgentFacts, CommandIsAgent DEF Stream
<1>6. Having = m BY <1>1, <1>3 DEF Having
<1>7. WireOK(Stream, m, n) /\ Stream.path = Path BY <1>1, <1>6 DEF FillInv, StreamInv, Broke
<1>8. m = n BY <1>1, <1>3, <1>5, <1>7, FirstItem DEF Item
<1> PICK f : f = Copied.files OBVIOUS
<1>9. Agrees(Stream, m, f) BY <1>1, <1>6 DEF StreamedInv
<1>10. Stream.phase # "stream"
  <2>1. Stream.wire[1].item = "trailer" /\ 1 \in DOMAIN Stream.wire
    <3>1. Stream.wire \in Seq(Items) BY <1>5 DEF AgentStates
    <3>2. Head(Stream.wire) = Stream.wire[1] /\ 1 \in DOMAIN Stream.wire BY <1>1, <3>1
    <3> QED BY <1>1, <3>2 DEF Item
  <2> QED BY <1>9, <2>1 DEF Agrees, Streaming
<1>11. Stream.phase = "acknowledge" => f = Stream.first
  <2>1. SUFFICES ASSUME Stream.phase = "acknowledge" PROVE f = Stream.first OBVIOUS
  <2>2. SentFiles(Stream) = Stream.first BY <2>1 DEF SentFiles
  <2> PICK g : g = Stream.first OBVIOUS
  <2>3. Len(g) = n /\ \A i \in 1..m : f[i] = g[i] BY <1>7, <1>9, <2>1, <2>2 DEF Agrees, Streaming
  <2>4. f \in Seq(Bytes) /\ g \in Seq(Bytes) /\ Len(f) = n BY <1>3, <1>5, <1>8 DEF AgentStates
  <2> HIDE DEF m, n
  <2>5. f = g BY <1>8, <2>3, <2>4
  <2> QED BY <2>5
<1>12. Stream' = [Stream EXCEPT !.wire = Tail(Stream.wire)] BY <1>1, <1>4, TookFacts
<1>13. Stream'.phase = Stream.phase /\ Stream'.path = Stream.path /\ Stream'.first = Stream.first BY <1>5, <1>12 DEF AgentStates
<1> QED BY <1>4, <1>7, <1>10, <1>11, <1>13 DEF Answers

LEMMA AgreesThen ==
  ASSUME setting' = setting, NEW a, NEW having, NEW files, Agrees(a, having, files),
         Stream' = a, Having' = having, Copied'.files = files
  PROVE  Agrees(Stream, Having, Copied.files)'
  BY DEF Agrees, SentFiles, Header, Streaming

LEMMA StreamedStep ==
  ASSUME CommandInv, CommandInv', EndsInv, LocalsInv, AgentsInv, AgentsInv', StoreInv, FillInv, StreamedInv, [Next]_vars
  PROVE  StreamedInv'
<1>1. SUFFICES ASSUME pc' = "extract" \/ (pc' \in Answering /\ Kind' = "prefer local") PROVE StreamedInv'
  BY DEF StreamedInv
<1>2. pc' \in Fills \ {"next"} /\ pc' # "idle" BY <1>1 DEF Answering, Fills
<1>3. pc \in Fills /\ pc # "idle" BY <1>2, FillsFrom DEF Fills
<1>4. setting' = setting /\ command \in Agents BY <1>3, SettingStays, CommandIsAgent
<1>5. CASE Waiting /\ ~Resolving
  <2>1. /\ pc' = pc /\ Kind' = Kind /\ UNCHANGED <<digest, open, todo, command>> /\ todo # <<>>
        /\ pc \in Fills \ {"next"}
    BY <1>2, <1>5 DEF Waiting, Kind, LocalsInv, WithPath
  <2>2. Path' = Path /\ (pc \in Copying => Copied' = Copied) BY <1>3, <1>5, <2>1, WaitingKept
  <2>3. (Stream' = Stream \/ Tells(Stream, Stream')) /\ Stream'.path = Stream.path
    BY <1>2, <1>3, <1>5, StreamTold
  <2> PICK a : a = Stream OBVIOUS
  <2> PICK b : b = Stream' OBVIOUS
  <2>4. a \in AgentStates /\ b \in AgentStates
    <3>1. Stream' = agent'[command] BY <2>1 DEF Stream
    <3> QED BY <1>4, <3>1, AgentFacts DEF Stream, AgentsInv
  <2>5. CASE pc = "extract"
    <3>1. Copied' = Copied /\ Having' = Having BY <2>1, <2>2, <2>5 DEF Copying, Having
    <3>2. Len(Copied.files) \in Nat /\ (open # NoSource => Len(Copied.files) > 0)
      BY <1>3, <2>1, <2>5, PathFacts DEF FillInv, StreamInv
    <3> PICK f : f = Copied.files OBVIOUS
    <3>8. Having \in Nat BY <3>2 DEF Having
    <3> PICK had \in Nat : had = Having BY <3>8
    <3>3. Agrees(a, had, f)
      <4>1. Agrees(Stream, Having, Copied.files) BY <2>5 DEF StreamedInv
      <4> QED BY <4>1
    <3>4. a.phase = "stream" /\ a.link = "up" => had + Len(a.wire) - Header(a.wire) = Len(a.read)
      <4>1. Broke(Stream) \/ WireOK(Stream, Having, FilesOf(setting.kind[Path])) BY <2>5 DEF FillInv, StreamInv
      <4>2. Broke(a) \/ WireOK(a, had, FilesOf(setting.kind[Path])) BY <4>1
      <4> QED BY <4>2 DEF Broke, WireOK
    <3>5. Agrees(b, had, f) BY <2>3, <2>4, <3>3, <3>4, TellsKeeps
    <3>6. Stream' = b /\ Having' = had /\ Copied'.files = f BY <3>1
    <3>7. Agrees(Stream, Having, Copied.files)' BY <1>4, <3>5, <3>6, AgreesThen
    <3> QED BY <2>1, <2>5, <3>7 DEF StreamedInv, Answering
  <2>6. CASE pc # "extract"
    <3>1. pc \in Answering /\ Kind = "prefer local" BY <1>1, <2>1, <2>6
    <3>2. Stream.path = Path /\ Answers(Stream, digest.files) BY <3>1 DEF StreamedInv
    <3> PICK f : f = digest.files OBVIOUS
    <3>3. Answers(a, f) BY <3>2
    <3>4. Answers(b, f) BY <2>3, <3>3, TellsAnswers
    <3>5. Answers(Stream, digest.files)' BY <2>1, <3>4 DEF Answers
    <3>6. Stream'.path = Path' BY <2>2, <2>3, <3>2
    <3> QED BY <2>1, <2>6, <3>5, <3>6 DEF StreamedInv
  <2> QED BY <2>5, <2>6
<1>6. CASE Resolving /\ pc' = "extract"
  <2>1. NextPath \/ ExtractOpens \/ ExtractWrites
    BY <1>6 DEF Resolving, Preflight, ResolveLocked, RemoveLocal, ResolveBarrier, Acknowledge, Await, CopySynced, ExtractEnds,
       Record, FileManifest, CopyOpens, CopyReads, ExtractTruncated, Finish, Failing, Goto, CopyFails, ExtractFails,
       Uncatalogued, AfterRecord
  <2>2. Agrees(Stream', Having', Copied'.files)
    <3>1. CASE NextPath BY <1>6, <3>1, ExtractBegins, StartedAgrees
    <3>2. CASE ExtractOpens BY <3>2, ExtractOpensStreamed
    <3>3. CASE ExtractWrites BY <1>6, <3>3, ExtractWritesStreamed
    <3> QED BY <2>1, <3>1, <3>2, <3>3
  <2> PICK a : a = Stream' OBVIOUS
  <2> PICK had : had = Having' OBVIOUS
  <2> PICK f : f = Copied'.files OBVIOUS
  <2>3. Agrees(a, had, f) BY <2>2
  <2>4. Agrees(Stream, Having, Copied.files)' BY <1>4, <2>3, AgreesThen
  <2> QED BY <1>6, <2>4 DEF StreamedInv, Answering
<1>7. CASE Resolving /\ pc' \in Answering /\ Kind' = "prefer local"
  <2>1. Kind' = Kind BY <1>4, <1>7, ResolvingPcs DEF Kind
  <2>2. ExtractEnds \/ Record \/ FileManifest
    <3>1. CopySynced \/ ExtractEnds \/ Record \/ FileManifest BY <1>7, Recorders DEF FillInv, Answering, Recording
    <3>2. ~CopySynced BY <1>7, <2>1 DEF CopySynced, CommandInv
    <3> QED BY <3>1, <3>2
  <2>3. Stream'.path = Path' /\ Answers(Stream', digest'.files)
    <3>1. CASE ExtractEnds
      <4>1. pc' = "record" BY <1>7, <3>1 DEF ExtractEnds, ExtractFails, Failing, Finish, Goto, Answering
      <4> QED BY <3>1, <4>1, ExtractEndsStreamed
    <3>2. CASE Record \/ FileManifest
      <4>1. pc \in Answering /\ UNCHANGED <<digest, todo, command, agent>>
        BY <1>7, <3>2 DEF Record, FileManifest, Uncatalogued, Finish, Goto, Keeping, Answering
      <4>2. Stream' = Stream /\ Path' = Path BY <4>1 DEF Stream, Path
      <4> QED BY <1>7, <2>1, <4>1, <4>2 DEF StreamedInv
    <3> QED BY <2>2, <3>1, <3>2
  <2> PICK a : a = Stream' OBVIOUS
  <2> PICK f : f = digest'.files OBVIOUS
  <2>4. Answers(a, f) BY <2>3
  <2>5. Answers(Stream, digest.files)' BY <2>4 DEF Answers
  <2> QED BY <1>7, <2>3, <2>5 DEF StreamedInv, Answering
<1> QED BY <1>1, <1>2, <1>3, <1>5, <1>6, <1>7, Bystanders

-----------------------------------------------------------------------------
(* The backup behind a removal that an agent is committed to.              *)

\* The agent will remove, unless what it looks at has changed (`commit' was acknowledged).
Commits(k) == agent[k].phase \in Removals \/ (agent[k].phase = "acknowledge" /\ agent[k].ack = "commit")
\* A backup that neither a power loss nor a later resolution takes away.
Holds(a, p) == /\ a.place = "visible" /\ a.durable = "visible" /\ p \in a.filed /\ p \in a.synced
               /\ a.copy[p] # NoCopy /\ a.entry[p] # NoCopy
\* A resolution has begun after the one that started the agent.
Superseded(k) == \E j \in (k + 1)..command : setting.script[j] \in Resolves
\* Archive n backs the removal of agent k, and no prune that is under way takes it.
Backed(k, n) ==
  /\ Holds(store[n], agent[k].path) /\ store[n].entry[agent[k].path].files = agent[k].first
  /\ n = used \/ Superseded(k)
  /\ pc \in Maintaining => n \notin chosen
\* An agent that is committed to a removal has its backup.
BackupInv ==
  /\ \A k \in Agents : agent[k].phase = "stream" => agent[k].ack = "none"
  /\ \A k \in Agents : Commits(k) => \E n \in 1..used : Backed(k, n)

\* No prune follows a resolution that followed one for the local side.  A client that is killed
\* behind its acknowledgement leaves an agent that removes later, holding no lock of the client's
\* machine: when a further resolution has made a newer archive in between, prune may select the
\* backup the agent relies on.  TLC shows that loss (LatePrune); without such a script there is none.
NoLatePrune(s) ==
  \A i, j, l \in DOMAIN s.script :
    i < j /\ j < l /\ s.script[i] = "prefer local" /\ s.script[j] \in Resolves => s.script[l] # "prune"

LEMMA PowerSpares ==
  ASSUME NEW a \in Archive, NEW p \in Paths, Holds(a, p), NEW b \in AfterPowerLoss(a)
  PROVE  Holds(b, p) /\ b.entry[p] = a.entry[p]
<1>1. PICK place \in {a.place, a.durable}, copy \in CopiesLeft(a), entry \in EntriesLeft(a) :
        b = LeftOf(a, place, copy, entry)
  BY DEF AfterPowerLoss
<1>2. entry[p] = a.entry[p] BY <1>1 DEF EntriesLeft, Holds, Archive
<1> DEFINE synced == {q \in Paths : copy[q] # NoCopy}
           filed == {q \in Paths : entry[q] # NoCopy}
<1>3. b = [a EXCEPT !.place = place, !.durable = place, !.copy = copy, !.entry = entry, !.synced = synced, !.filed = filed]
  BY <1>1 DEF LeftOf
<1> HIDE DEF synced, filed
<1>4. b.entry = entry BY <1>3 DEF Archive
<1>5. b.entry[p] = a.entry[p] BY <1>2, <1>4
<1>6. /\ b.place = "visible" /\ b.durable = b.place /\ b.copy[p] = a.copy[p] /\ b.synced = {q \in Paths : b.copy[q] # NoCopy}
      /\ b.filed = {q \in Paths : b.entry[q] # NoCopy}
  BY PowerFacts DEF Holds
<1> QED BY <1>5, <1>6 DEF Holds

LEMMA WroteHolds ==
  ASSUME CommandInv, LocalsInv, StoreInv, FillInv, pc \in Fills, NEW b, Wrote(b), NEW p \in Paths, Holds(Kept, p)
  PROVE  Holds(b, p) /\ b.entry[p] = Kept.entry[p]
<1>1. CASE Refilled(b) BY <1>1 DEF Refilled, Wrote, Holds
<1>2. CASE MadeDurable(b) BY <1>2 DEF MadeDurable, Wrote, Holds
<1>3. CASE EntryMade(b) BY <1>3 DEF EntryMade, Wrote, Holds
<1>4. CASE EntryFiled(b) BY <1>4 DEF EntryFiled, Wrote, Holds, Catalogued
<1> QED BY <1>1, <1>2, <1>3, <1>4 DEF Wrote

\* A prune touches only what it chose, and tombstones.
LEMMA PruneSpares ==
  ASSUME CommandInv, LocalsInv, StoreInv, PruneInv, Pruning, NEW n \in 1..MaxArchives, store[n].place = "visible",
         pc \in Maintaining => n \notin chosen
  PROVE  store'[n] = store[n]
<1>1. CASE PruneSelect \/ PruneStops \/ PruneCleaned \/ PruneEnds
  BY <1>1 DEF PruneSelect, PruneStops, PruneCleaned, PruneEnds
<1>2. CASE CleanTombstone
  <2>1. CASE UNCHANGED store BY <2>1
  <2>2. CASE ~UNCHANGED store
    <3>1. PICK m \in Stale : \/ \E b \in PartlyRemoved(store[m]) : Set(m, b)
                             \/ Set(m, [store[m] EXCEPT !.place = "absent", !.durable = "absent"])
      BY <1>2, <2>2 DEF CleanTombstone
    <3>2. m \in 1..MaxArchives /\ store[m].place # "visible" BY DEF Stale, Tombstones
    <3>3. \A i \in 1..MaxArchives : i # m => store'[i] = store[i]
      BY <3>1, <3>2, MovesTo
    <3> QED BY <3>2, <3>3
  <2> QED BY <2>1, <2>2
<1>3. CASE PruneHides \/ PruneStages \/ PruneReclaims \/ PruneSettles
  <2>1. pc \in Maintaining /\ chosen # {}
    BY <1>3 DEF PruneHides, PruneStages, PruneReclaims, PruneSettles, Hiding, Maintaining, PruneInv
  <2>2. Victim \in 1..MaxArchives /\ Victim \in chosen BY <2>1, VictimFacts DEF Maintaining
  <2>3. CASE UNCHANGED store BY <2>3
  <2>4. CASE ~UNCHANGED store
    <3>1. \E b : Set(Victim, b)
      BY <1>3, <2>4 DEF PruneHides, PruneStages, PruneReclaims, PruneSettles
    <3> QED BY <2>1, <2>2, <3>1, MovesTo
  <2> QED BY <2>3, <2>4
<1> QED BY <1>1, <1>2, <1>3 DEF Pruning

\* A durable, catalogued backup stays, unless a prune chose its archive.
LEMMA HoldKept ==
  ASSUME CommandInv, EndsInv, LocalsInv, AgentsInv, StoreInv, FillInv, PruneInv, [Next]_vars,
         NEW n \in 1..MaxArchives, NEW p \in Paths, Holds(store[n], p), pc \in Maintaining => n \notin chosen
  PROVE  Holds(store'[n], p) /\ store'[n].entry[p] = store[n].entry[p]
<1>s. ASSUME store'[n] = store[n] PROVE Holds(store'[n], p) /\ store'[n].entry[p] = store[n].entry[p]
  BY <1>s
<1>1. CASE Start BY <1>1, <1>s DEF Start, disk
<1>2. CASE Resolving
  <2>1. CASE store' = store BY <1>s, <2>1
  <2>2. CASE store' # store
    <3>1. pc \in Fills /\ \E b : Set(archive, b) /\ Wrote(b) BY <1>2, <2>2, ResolveWrites
    <3>2. PICK b : Set(archive, b) /\ Wrote(b) BY <3>1
    <3>3. archive \in 1..MaxArchives /\ Kept = store[archive] BY <3>1, KeptFacts DEF FillInv
    <3>4. store'[archive] = b /\ \A m \in 1..MaxArchives : m # archive => store'[m] = store[m] BY <3>2, <3>3, MovesTo
    <3>5. CASE n = archive
      <4>1. Holds(Kept, p) BY <3>3, <3>5
      <4>2. Holds(b, p) /\ b.entry[p] = Kept.entry[p] BY <3>1, <3>2, <4>1, WroteHolds
      <4> QED BY <3>3, <3>4, <3>5, <4>2
    <3>6. CASE n # archive BY <1>s, <3>4, <3>6
    <3> QED BY <3>5, <3>6
  <2> QED BY <2>1, <2>2
<1>3. CASE Pruning
  <2>1. store[n].place = "visible" BY DEF Holds
  <2> QED BY <1>3, <1>s, <2>1, PruneSpares
<1>4. CASE Reading BY <1>4, <1>s, ReadingPcs DEF disk
<1>5. ASSUME NEW k \in Agents, AgentSteps(k) \/ Cut(k) PROVE store' = store
  BY <1>5, AgentsLeaveControl DEF Control, disk, Cut
<1>6. CASE Cancel \/ Crash BY <1>6, <1>s DEF Cancel, Crash, disk
<1>7. CASE PowerLoss
  <2>1. store[n] \in Archive /\ store'[n] \in AfterPowerLoss(store[n]) BY <1>7 DEF PowerLoss, StoreInv
  <2> QED BY <2>1, PowerSpares
<1>8. CASE Rots BY <1>8, RotKeeps DEF RotKept, Holds
<1>9. CASE Users BY <1>9, <1>s DEF Users, Edit, Propagate, PropagateRemoval, disk
<1>10. CASE UNCHANGED vars BY <1>10, <1>s DEF vars, disk
<1> QED BY <1>1, <1>2, <1>3, <1>4, <1>5, <1>s, <1>6, <1>7, <1>8, <1>9, <1>10 DEF Next, Over, Faults, Client

LEMMA ChosenStays ==
  ASSUME CommandInv, [Next]_vars, pc' \in Maintaining PROVE PruneSelect \/ (pc \in Maintaining /\ chosen' \subseteq chosen)
<1>0. pc' \in {"clean", "hide", "stage", "reclaim", "settle"} BY DEF Maintaining, Hiding
<1>1. CASE Start
  <2>1. pc' \in {"preflight", "select", "find", "enumerate"} BY <1>1, StartPcs
  <2> QED BY <1>0, <2>1
<1>2. CASE Pruning
  BY <1>0, <1>2 DEF Pruning, CleanTombstone, PruneStops, PruneCleaned, PruneHides, PruneStages,
       PruneReclaims, PruneSettles, PruneEnds, Finish, Goto, Keeping, locals, Maintaining, Hiding
<1>3. CASE Reading
  <2>1. pc' \in {"idle", "restore", "compare", "verify"}
    BY <1>3 DEF Reading, RestoreFinds, RestoreCopies, RestoreCompares, VerifyBegins, VerifyNext, VerifyEnds, Failing,
       Finish, Goto, Keeping, locals
  <2> QED BY <1>0, <2>1
<1>4. CASE Resolving
  <2>1. pc' \in {"idle"} \cup ResolvePcs
    BY <1>4 DEF Resolving, Preflight, ResolveLocked, NextPath, CopyOpens, CopyReads, CopySynced, Record, FileManifest,
       RemoveLocal, ResolveBarrier, ExtractOpens, ExtractWrites, ExtractEnds, ExtractTruncated, Acknowledge, Await,
       Finish, Failing, Goto, CopyFails, ExtractFails, Uncatalogued, AfterRecord, ResolvePcs, Fills
  <2> QED BY <1>0, <2>1 DEF ResolvePcs, Fills
<1>6. CASE pc' = pc /\ chosen' = chosen BY <1>6
<1>7. ASSUME NEW k \in Agents, AgentSteps(k) \/ Cut(k) PROVE pc' = pc /\ chosen' = chosen
  BY <1>7, AgentsLeaveControl DEF Control, Cut, locals, AgentSteps, AgentOpens, AgentReads, AgentFinishes,
     AgentInterrupted, AgentAcknowledged, AgentVerifies, AgentInspects, AgentRemoves, OnlyAgents
<1>8. CASE Cancel \/ Crash \/ PowerLoss \/ Rots
  BY <1>0, <1>6, <1>8 DEF Cancel, Crash, PowerLoss, Rots, locals, Finish
<1>9. CASE Users BY <1>6, <1>9 DEF Users, Edit, Propagate, PropagateRemoval, locals
<1>10. CASE UNCHANGED vars BY <1>6, <1>10 DEF vars, locals
<1> QED BY <1>1, <1>2, <1>3, <1>4, <1>6, <1>7, <1>8, <1>9, <1>10 DEF Next, Over, Faults, Client

\* A command begins after the last one; an archive gets its name from a resolution.
LEMMA NamesGrow ==
  ASSUME CommandInv, LocalsInv, [Next]_vars
  PROVE  /\ command' = command \/ command' = command + 1
         /\ used' = used \/ (used' = used + 1 /\ pc = "lock" /\ command' = command)
<1>1. CASE Start BY <1>1 DEF Start, disk
<1>2. CASE Resolving
  BY <1>2 DEF Resolving, Preflight, ResolveLocked, NextPath, CopyOpens, CopyReads, CopySynced, Record, FileManifest,
       RemoveLocal, ResolveBarrier, ExtractOpens, ExtractWrites, ExtractEnds, ExtractTruncated, Acknowledge, Await,
       ByClient, disk
<1>3. CASE Pruning
  BY <1>3 DEF Pruning, PruneSelect, CleanTombstone, PruneStops, PruneCleaned, PruneHides, PruneStages,
       PruneReclaims, PruneSettles, PruneEnds, ByPrune, OnlyPrune
<1>4. CASE Reading
  BY <1>4 DEF Reading, RestoreFinds, RestoreCopies, RestoreCompares, VerifyBegins, VerifyNext, VerifyEnds, ByReader, disk
<1>5. ASSUME NEW k \in Agents, AgentSteps(k) \/ Cut(k) PROVE command' = command /\ used' = used
  BY <1>5, AgentsLeaveControl DEF Control, Cut, disk, AgentSteps, AgentOpens, AgentReads, AgentFinishes,
     AgentInterrupted, AgentAcknowledged, AgentVerifies, AgentInspects, AgentRemoves, OnlyAgents
<1>6. CASE Cancel \/ Crash \/ PowerLoss \/ Rots BY <1>6 DEF Cancel, Crash, PowerLoss, Rots, disk
<1>7. CASE Users BY <1>7 DEF Users, Edit, Propagate, PropagateRemoval, disk
<1>8. CASE UNCHANGED vars BY <1>8 DEF vars, disk
<1> QED BY <1>1, <1>2, <1>3, <1>4, <1>5, <1>6, <1>7, <1>8 DEF Next, Over, Faults, Client

-----------------------------------------------------------------------------
(* How an agent comes to be committed to its removal.                      *)

\* An agent's step, as far as the removal it is committed to goes.
StepCommits(a, b) ==
  /\ b.path = a.path /\ b.ack = a.ack
  /\ b.phase = "stream" => a.phase = "stream"
  /\ b.phase = "acknowledge" => a.phase \in {"stream", "acknowledge"}
  /\ b.phase \in Removals => a.phase \in Removals \/ (a.phase = "acknowledge" /\ a.ack = "commit")
  /\ b.phase \in Removals \/ (b.phase = "acknowledge" /\ a.phase # "stream") => b.first = a.first

LEMMA OpensCommits == ASSUME AgentsInv, NEW k \in Agents, AgentOpens(k) PROVE StepCommits(agent[k], agent'[k])
<1> DEFINE a == agent[k]
<1>1. a \in AgentStates /\ a.phase \in {"stream", "verify"} BY AgentFacts DEF AgentOpens
<1>2. ASSUME NEW c, AgentBecomes(k, c) PROVE agent'[k] = c BY <1>2 DEF AgentBecomes, AgentsInv
<1>3. CASE ~LoserThere(k)
  <2> DEFINE b == [a EXCEPT !.phase = "failed"]
  <2>1. agent'[k] = b BY <1>2, <1>3 DEF AgentOpens
  <2>2. b.phase = "failed" /\ b.path = a.path /\ b.ack = a.ack BY <1>1 DEF AgentStates
  <2> HIDE DEF b
  <2> QED BY <2>1, <2>2 DEF StepCommits, Removals
<1>4. CASE LoserThere(k)
  <2> DEFINE item == [item |-> "directory", bytes |-> Torn]
             heads == a.phase = "stream" /\ a.read = <<>> /\ Expected(k) > 1
             src == Observed(Loser(k), Len(a.read) + 1, a.path)
             seen == IF a.phase = "stream" /\ a.read = <<>> THEN Loser(k) ELSE a.seen
             again == IF a.phase = "verify" /\ a.read = <<>> THEN Loser(k).inode ELSE a.again
             wire == IF heads THEN Sent(a, item) ELSE a.wire
             b == [a EXCEPT !.open = src, !.seen = seen, !.again = again, !.wire = wire]
  <2>1. agent'[k] = b BY <1>2, <1>4 DEF AgentOpens
  <2> HIDE DEF src, seen, again, wire
  <2>2. b.phase = a.phase /\ b.path = a.path /\ b.first = a.first /\ b.ack = a.ack BY <1>1 DEF AgentStates
  <2> HIDE DEF b
  <2> QED BY <1>1, <2>1, <2>2 DEF StepCommits, Removals
<1> QED BY <1>3, <1>4

LEMMA ReadsCommits == ASSUME AgentsInv, NEW k \in Agents, AgentReads(k) PROVE StepCommits(agent[k], agent'[k])
<1> DEFINE a == agent[k]
           i == Len(a.read) + 1
           v == ReadOf(Loser(k), i, a.open)
           sent == IF a.phase = "stream" THEN Sent(a, [item |-> "file", bytes |-> v]) ELSE a.wire
           fails == Changed(Loser(k), i, a.open)
           read == Append(a.read, v)
<1>1. a \in AgentStates /\ a.phase \in {"stream", "verify"} BY AgentFacts DEF AgentReads
<1>2. AgentBecomes(k, IF fails THEN [a EXCEPT !.phase = "failed", !.open = NoSource, !.wire = sent]
                      ELSE [a EXCEPT !.read = read, !.open = NoSource, !.wire = sent])
  BY DEF AgentReads, Broken
<1> HIDE DEF fails, sent, read
<1>3. CASE fails
  <2> DEFINE b == [a EXCEPT !.phase = "failed", !.open = NoSource, !.wire = sent]
  <2>1. agent'[k] = b BY <1>2, <1>3 DEF AgentBecomes, AgentsInv
  <2>2. b.phase = "failed" /\ b.path = a.path /\ b.ack = a.ack BY <1>1 DEF AgentStates
  <2> HIDE DEF b
  <2> QED BY <2>1, <2>2 DEF StepCommits, Removals
<1>4. CASE ~fails
  <2> DEFINE b == [a EXCEPT !.read = read, !.open = NoSource, !.wire = sent]
  <2>1. agent'[k] = b BY <1>2, <1>4 DEF AgentBecomes, AgentsInv
  <2>2. b.phase = a.phase /\ b.path = a.path /\ b.first = a.first /\ b.ack = a.ack BY <1>1 DEF AgentStates
  <2> HIDE DEF b
  <2> QED BY <1>1, <2>1, <2>2 DEF StepCommits, Removals
<1> QED BY <1>3, <1>4

LEMMA PhasesCommit ==
  ASSUME AgentsInv, NEW k \in Agents,
         AgentFinishes(k) \/ AgentInterrupted(k) \/ AgentAcknowledged(k) \/ AgentVerifies(k) \/ AgentInspects(k)
         \/ AgentRemoves(k)
  PROVE  StepCommits(agent[k], agent'[k])
<1> DEFINE a == agent[k]
<1>1. a \in AgentStates BY AgentFacts
<1>2. ASSUME NEW c, AgentBecomes(k, c) PROVE agent'[k] = c BY <1>2 DEF AgentBecomes, AgentsInv
<1>3. ASSUME NEW c, AgentBecomes(k, c), c.path = a.path, c.ack = a.ack, c.first = a.first,
             \/ c.phase \in {"failed", "done"} \/ (c.phase = "verify" /\ a.phase = "acknowledge" /\ a.ack = "commit")
             \/ (c.phase \in {"inspect", "remove"} /\ a.phase \in Removals)
      PROVE  StepCommits(a, agent'[k])
  <2>1. agent'[k] = c BY <1>2, <1>3
  <2> QED BY <1>3, <2>1 DEF StepCommits, Removals
<1>4. CASE AgentFinishes(k)
  <2> DEFINE sent == Sent(a, Trailer)
             b == [a EXCEPT !.phase = "acknowledge", !.first = a.read, !.read = <<>>, !.wire = sent]
  <2>1. agent'[k] = b BY <1>2, <1>4 DEF AgentFinishes
  <2> HIDE DEF sent
  <2>2. b.phase = "acknowledge" /\ b.path = a.path /\ b.ack = a.ack BY <1>1 DEF AgentStates
  <2>3. a.phase = "stream" BY <1>4 DEF AgentFinishes
  <2> HIDE DEF b
  <2> QED BY <2>1, <2>2, <2>3 DEF StepCommits, Removals
<1>5. ASSUME NEW phase \in {"failed", "inspect"}, AgentBecomes(k, [a EXCEPT !.phase = phase]),
             phase = "inspect" => a.phase = "verify"
      PROVE  StepCommits(a, agent'[k])
  <2> DEFINE b == [a EXCEPT !.phase = phase]
  <2>1. AgentBecomes(k, b) /\ b.path = a.path /\ b.ack = a.ack /\ b.phase = phase /\ b.first = a.first
    BY <1>1, <1>5 DEF AgentStates
  <2> HIDE DEF b
  <2> QED BY <1>3, <1>5, <2>1 DEF Removals
<1>6. ASSUME NEW phase \in {"verify", "remove"}, NEW since0, AgentBecomes(k, [a EXCEPT !.phase = phase, !.since = since0]),
             phase = "verify" => a.phase = "acknowledge" /\ a.ack = "commit", phase = "remove" => a.phase = "inspect"
      PROVE  StepCommits(a, agent'[k])
  <2> DEFINE b == [a EXCEPT !.phase = phase, !.since = since0]
  <2>1. AgentBecomes(k, b) /\ b.path = a.path /\ b.ack = a.ack /\ b.phase = phase /\ b.first = a.first
    BY <1>1, <1>6 DEF AgentStates
  <2> HIDE DEF b
  <2> QED BY <1>3, <1>6, <2>1 DEF Removals
<1>7. CASE AgentInterrupted(k) BY <1>5, <1>7 DEF AgentInterrupted
<1>8. CASE AgentAcknowledged(k) BY <1>5, <1>6, <1>8 DEF AgentAcknowledged, Committed
<1>9. CASE AgentVerifies(k) BY <1>5, <1>9 DEF AgentVerifies
<1>10. CASE AgentInspects(k)
  <2> DEFINE since0 == IF a.seen.kind = "regular" THEN clock ELSE a.since
  <2>0. a.phase = "inspect" BY <1>10 DEF AgentInspects
  <2>1. CASE AgentBecomes(k, [a EXCEPT !.phase = "remove", !.since = since0])
    <3> HIDE DEF since0
    <3> QED BY <1>6, <2>0, <2>1
  <2>2. CASE AgentBecomes(k, [a EXCEPT !.phase = "failed"]) BY <1>5, <2>2
  <2> QED BY <1>10, <2>1, <2>2 DEF AgentInspects
<1>11. CASE AgentRemoves(k)
  <2> DEFINE b == [a EXCEPT !.phase = "done", !.removed = TRUE]
  <2>1. AgentBecomes(k, b) /\ b.path = a.path /\ b.ack = a.ack /\ b.first = a.first /\ b.phase = "done"
    BY <1>1, <1>11 DEF AgentRemoves, AgentStates
  <2> HIDE DEF b
  <2> QED BY <1>3, <2>1
<1> QED BY <1>4, <1>7, <1>8, <1>9, <1>10, <1>11

\* An agent is committed to its removal by the acknowledgement alone.
LEMMA CommitsFrom ==
  ASSUME CommandInv, AgentsInv, BackupInv, [Next]_vars, NEW k \in Agents, Commits(k)'
  PROVE  /\ agent'[k].path = agent[k].path /\ agent'[k].first = agent[k].first
         /\ Commits(k) \/ (Acknowledge /\ k = command /\ agent[k].phase = "acknowledge")
<1> PICK a : a = agent[k] OBVIOUS
<1> PICK b : b = agent'[k] OBVIOUS
<1>1. b.phase \in Removals \/ (b.phase = "acknowledge" /\ b.ack = "commit") BY DEF Commits
<1>2. a.phase = "stream" => a.ack = "none" BY DEF BackupInv
<1>3. CASE \E j \in Agents : AgentSteps(j) /\ \A i \in Agents : i # j => agent'[i] = agent[i]
  <2>1. PICK j \in Agents : AgentSteps(j) /\ \A i \in Agents : i # j => agent'[i] = agent[i] BY <1>3
  <2>2. CASE j = k
    <3>1. StepCommits(a, b) BY <2>1, <2>2, OpensCommits, ReadsCommits, PhasesCommit DEF AgentSteps
    <3>2. a.phase \in Removals \/ (a.phase = "acknowledge" /\ a.ack = "commit")
      BY <1>1, <1>2, <3>1 DEF StepCommits, Removals
    <3>3. a.phase # "stream" BY <3>2 DEF Removals
    <3> QED BY <1>1, <3>1, <3>2, <3>3 DEF StepCommits, Commits
  <2>3. CASE j # k
    <3>1. b = a BY <2>1, <2>3
    <3> QED BY <1>1, <3>1 DEF Commits
  <2> QED BY <2>2, <2>3
<1>4. CASE NextPath /\ AgentBecomes(command, Started) /\ command \in Agents
  <2>1. k # command
    <3>1. ASSUME k = command PROVE FALSE
      <4>1. b = Started BY <1>4, <3>1 DEF AgentBecomes, AgentsInv
      <4>2. b.phase = "stream" BY <4>1 DEF Started, Idle
      <4> QED BY <1>1, <4>2 DEF Removals
    <3> QED BY <3>1
  <2>2. b = a BY <1>4, <2>1 DEF AgentBecomes, AgentsInv
  <2> QED BY <1>1, <2>2 DEF Commits
<1>5. CASE /\ \A j \in Agents : Carried(agent[j], agent'[j])
           /\ \A j \in Agents : agent'[j].ack = "commit" => agent[j].ack = "commit" \/ (Acknowledge /\ j = command)
  <2>1. Carried(a, b) /\ (b.ack = "commit" => a.ack = "commit" \/ (Acknowledge /\ k = command)) BY <1>5
  <2>2. b.phase = a.phase /\ b.path = a.path /\ b.first = a.first BY <2>1 DEF Carried
  <2> QED BY <1>1, <2>1, <2>2 DEF Commits
<1> QED BY <1>3, <1>4, <1>5, AgentsMoving DEF AgentsMove

LEMMA AcksStay ==
  ASSUME CommandInv, AgentsInv, AgentsInv', StreamedInv, BackupInv, [Next]_vars, NEW k \in Agents, agent'[k].phase = "stream"
  PROVE  agent'[k].ack = "none"
<1> PICK a : a = agent[k] OBVIOUS
<1> PICK b : b = agent'[k] OBVIOUS
<1>0. a \in AgentStates /\ (a.phase = "stream" => a.ack = "none") BY AgentFacts DEF BackupInv
<1>3. CASE \E j \in Agents : AgentSteps(j) /\ \A i \in Agents : i # j => agent'[i] = agent[i]
  <2>1. PICK j \in Agents : AgentSteps(j) /\ \A i \in Agents : i # j => agent'[i] = agent[i] BY <1>3
  <2>2. CASE j = k
    <3>1. StepCommits(a, b) BY <2>1, <2>2, OpensCommits, ReadsCommits, PhasesCommit DEF AgentSteps
    <3> QED BY <1>0, <3>1 DEF StepCommits
  <2>3. CASE j # k BY <1>0, <2>1, <2>3
  <2> QED BY <2>2, <2>3
<1>4. CASE NextPath /\ AgentBecomes(command, Started) /\ command \in Agents
  <2>1. CASE k = command
    <3>1. b = Started BY <1>4, <2>1 DEF AgentBecomes, AgentsInv
    <3> QED BY <3>1 DEF Started, Idle
  <2>2. CASE k # command
    <3>1. b = a BY <1>4, <2>2 DEF AgentBecomes, AgentsInv
    <3> QED BY <1>0, <3>1
  <2> QED BY <2>1, <2>2
<1>5. CASE /\ \A j \in Agents : Carried(agent[j], agent'[j])
           /\ \A j \in Agents : agent'[j].ack = "commit" => agent[j].ack = "commit" \/ (Acknowledge /\ j = command)
  <2>1. Carried(a, b) /\ (b.ack = "commit" => a.ack = "commit" \/ (Acknowledge /\ k = command)) BY <1>5
  <2>2. a.phase = "stream" BY <2>1 DEF Carried
  <2>3. ~(Acknowledge /\ k = command)
    <3>1. ASSUME Acknowledge, k = command PROVE FALSE
      <4>1. pc = "acknowledge" /\ Kind = "prefer local" BY <3>1 DEF Acknowledge, CommandInv
      <4>2. a = Stream BY <3>1 DEF Stream
      <4> QED BY <2>2, <4>1, <4>2 DEF StreamedInv, Answers, Answering
    <3> QED BY <3>1
  <2>4. b.ack # "commit" BY <1>0, <2>1, <2>2, <2>3
  <2>5. b.ack \in {"none", "commit"} 
    <3>1. agent'[k] \in AgentStates BY DEF AgentsInv
    <3> QED BY <3>1 DEF AgentStates
  <2> QED BY <2>4, <2>5
<1> QED BY <1>3, <1>4, <1>5, AgentsMoving DEF AgentsMove

-----------------------------------------------------------------------------
(* What the removals discard.                                              *)

LEMMA LastSpared == ASSUME CommandInv, LocalsInv, StoreInv PROVE used \notin SelectForPrune(store, setting.keep)
<1> DEFINE newer == {m \in ListArchives(store) : m > used}
<1>1. ASSUME NEW m \in newer PROVE FALSE
  <2>1. m \in 1..MaxArchives /\ m > used /\ EntriesOf(m, store[m]) # {} BY DEF ListArchives
  <2>2. store[m] = Unused BY <2>1 DEF StoreInv
  <2> QED BY <2>1, <2>2 DEF EntriesOf, Unused
<1>2. newer = {} BY <1>1
<1>3. Cardinality(newer) = 0 BY <1>2, FS_EmptySet
<1>4. setting.keep \in 1..MaxArchives /\ MaxArchives \in Nat
  <2>1. setting \in Setting BY RecoveryAssumption DEF CommandInv
  <2> QED BY <2>1, CatalogAssumption DEF Setting
<1>5. ~(Cardinality(newer) >= setting.keep) BY <1>3, <1>4
<1> HIDE DEF newer
<1>6. used \in SelectForPrune(store, setting.keep) => Cardinality(newer) >= setting.keep BY DEF SelectForPrune, newer
<1> QED BY <1>5, <1>6

\* A backup that a removal relies on is the newest archive when a prune selects.
LEMMA BackedIsNewest ==
  ASSUME CommandInv, LocalsInv, AgentsInv, PreservedInv, NoLatePrune(setting), pc = "select", NEW k \in Agents, Commits(k)
  PROVE  ~Superseded(k)
<1>1. SUFFICES ASSUME NEW j \in (k + 1)..command, setting.script[j] \in Resolves PROVE FALSE BY DEF Superseded
<1>2. setting.script[command] = "prune" BY DEF CommandInv, PrunePcs, Kind
<1>3. setting.script[k] = "prefer local"
  <2>1. agent[k].phase # "none" BY DEF Commits, Removals
  <2>2. Idle.phase = "none" BY DEF Idle
  <2>3. agent[k] # Idle BY <2>1, <2>2
  <2> QED BY <2>3 DEF PreservedInv
<1>4. /\ command \in Nat /\ command <= Len(setting.script) /\ DOMAIN setting.script = 1..Len(setting.script)
      /\ Len(setting.script) \in Nat /\ k \in Nat /\ k > 0
  BY ScriptPosition, AgentNumbers
<1>5. j # command BY <1>1, <1>2 DEF Resolves
<1>6. k < j /\ j < command /\ j \in Int BY <1>4, <1>5
<1>7. k \in DOMAIN setting.script /\ j \in DOMAIN setting.script /\ command \in DOMAIN setting.script BY <1>4, <1>6
<1> QED BY <1>1, <1>2, <1>3, <1>6, <1>7 DEF NoLatePrune

LEMMA BackupStep ==
  ASSUME CommandInv, EndsInv, LocalsInv, AgentsInv, AgentsInv', PreservedInv, StoreInv, FillInv, PruneInv, FiledInv,
         StreamedInv, BackupInv, NoLatePrune(setting), [Next]_vars
  PROVE  BackupInv'
<1>1. setting' = setting BY SettingStays
<1>2. used \in 0..MaxArchives /\ MaxArchives \in Nat /\ command \in Nat BY UsedBounded, ScriptPosition
<1>3. /\ command' = command \/ command' = command + 1
      /\ used' = used \/ (used' = used + 1 /\ pc = "lock" /\ command' = command)
  BY NamesGrow
<1>4. ASSUME NEW k \in Agents, Commits(k)' PROVE \E n \in 1..used' : Backed(k, n)'
  <2>1. /\ agent'[k].path = agent[k].path /\ agent'[k].first = agent[k].first
        /\ Commits(k) \/ (Acknowledge /\ k = command /\ agent[k].phase = "acknowledge")
    BY <1>4, CommitsFrom
  <2>2. k \in Nat /\ k <= command /\ agent[k].path \in Paths
    <3>1. agent[k].phase # "none" BY <2>1 DEF Commits, Removals
    <3> QED BY <3>1, AgentStarted, AgentNumbers DEF AgentsInv
  <2> PICK p \in Paths : p = agent[k].path BY <2>2
  <2> PICK f : f = agent[k].first OBVIOUS
  <2>3. CASE Commits(k)
    <3>1. PICK n \in 1..used : Backed(k, n) BY <2>3 DEF BackupInv
    <3>2. n \in 1..MaxArchives /\ n \in 1..used' BY <1>2, <1>3
    <3>3. /\ Holds(store[n], p) /\ store[n].entry[p].files = f /\ (n = used \/ Superseded(k))
          /\ pc \in Maintaining => n \notin chosen
      BY <3>1 DEF Backed
    <3>4. Holds(store'[n], p) /\ store'[n].entry[p].files = f BY <3>2, <3>3, HoldKept
    <3>5. n = used' \/ \E j \in (k + 1)..command' : setting.script[j] \in Resolves
      <4>1. CASE Superseded(k) BY <1>2, <1>3, <2>2, <4>1 DEF Superseded
      <4>2. CASE n = used /\ used' = used BY <4>2
      <4>3. CASE used' = used + 1 /\ pc = "lock" /\ command' = command
        <5>1. setting.script[command] \in Resolves BY <4>3 DEF CommandInv, ResolvePcs, Kind
        <5>2. k # command
          <6>1. Acked(k) BY <2>3 DEF Acked, Commits, Removals
          <6>2. outcome[k] \in AckedOutcomes \/ (k = command /\ pc \in AfterAcks) BY <6>1 DEF PreservedInv
          <6>3. k = command => outcome[k] = "none" BY <4>3 DEF CommandInv
          <6> QED BY <4>3, <6>2, <6>3 DEF AckedOutcomes, AfterAcks
        <5>3. command \in (k + 1)..command' BY <1>2, <2>2, <4>3, <5>2
        <5> QED BY <5>1, <5>3
      <4> QED BY <1>3, <3>3, <4>1, <4>2, <4>3
    <3>6. pc' \in Maintaining => n \notin chosen'
      <4>1. SUFFICES ASSUME pc' \in Maintaining PROVE n \notin chosen' OBVIOUS
      <4>2. CASE PruneSelect
        <5>1. pc = "select" /\ chosen' = SelectForPrune(store, setting.keep)
          BY <4>1, <4>2 DEF PruneSelect, Finish, Maintaining, Hiding
        <5>2. n = used BY <2>3, <3>3, <5>1, BackedIsNewest
        <5> QED BY <5>1, <5>2, LastSpared
      <4>3. CASE pc \in Maintaining /\ chosen' \subseteq chosen BY <3>3, <4>3
      <4> QED BY <4>1, <4>2, <4>3, ChosenStays
    <3>7. Backed(k, n)' BY <1>1, <2>1, <3>4, <3>5, <3>6 DEF Backed, Holds, Superseded
    <3> QED BY <3>2, <3>7
  <2>4. CASE Acknowledge /\ k = command /\ agent[k].phase = "acknowledge"
    <3>1. /\ pc = "acknowledge" /\ pc' \in {"await", "idle"} /\ UNCHANGED <<store, used, command>> /\ Kind = "prefer local"
      BY <2>4 DEF Acknowledge, Finish, Goto, ByClient, CommandInv
    <3>2. archive \in 1..MaxArchives /\ Kept = store[archive] /\ Kept.place = "visible" /\ archive = used
      BY <3>1, KeptFacts DEF FillInv, Fills, LocalsInv
    <3>3. Stream.path = Path /\ Stream.first = digest.files
      BY <2>4, <3>1 DEF StreamedInv, Answers, Answering, Stream
    <3>4. Path = p /\ f = digest.files BY <2>4, <3>3 DEF Stream
    <3>5. /\ Kept.durable = "visible" /\ Path \in Kept.synced /\ Copied # NoCopy /\ digest \in WholeCopies(Path)
          /\ Kept.entry[Path] = digest /\ Path \in Kept.filed
      BY <3>1 DEF FiledInv, Recording
    <3>6. digest # NoCopy BY <3>4, <3>5, WholeFacts DEF CommandInv
    <3>7. Holds(store[archive], p) /\ store[archive].entry[p].files = f
      BY <3>2, <3>4, <3>5, <3>6 DEF Holds, Copied
    <3>8. archive = used' /\ archive \in 1..used'
      <4>1. used' = used BY <3>1
      <4>2. archive = used /\ archive \in 1..MaxArchives BY <3>2
      <4>3. archive \in 1..archive BY <4>2, CatalogAssumption
      <4> QED BY <4>1, <4>2, <4>3
    <3>9. pc' \notin Maintaining BY <3>1 DEF Maintaining, Hiding
    <3> PICK n : n = archive OBVIOUS
    <3>10. Backed(k, n)' BY <2>1, <3>1, <3>7, <3>8, <3>9 DEF Backed, Holds
    <3> QED BY <3>8, <3>10
  <2> QED BY <2>1, <2>3, <2>4
<1> QED BY <1>4, AcksStay DEF BackupInv

\* What is discarded came after the last look, if what did not is archived.
LEMMA DiscardedLate ==
  ASSUME CommandInv, EndsInv, NEW e \in Endpoints, NEW p \in Paths, NEW from \in Nat,
         \A j \in 1..Len(content[e][p].files) :
           Arrived(content[e][p], j) <= from => Archived(p, j, content[e][p].files[j])
  PROVE  \A l \in Discarded(e, p, from) : l.arrived > l.from
<1>1. SUFFICES ASSUME NEW l \in Discarded(e, p, from) PROVE l.arrived > l.from OBVIOUS
<1> PICK o : o = content[e][p] OBVIOUS
<1>2. PICK i \in 1..Len(o.files) : ~Archived(p, i, o.files[i]) /\ l.arrived = Arrived(o, i) /\ l.from = from
  BY <1>1 DEF Discarded, Arrived
<1>3. ~(Arrived(o, i) <= from) BY <1>2
<1>4. Arrived(o, i) \in Nat
  <2>1. o.inode \in Nat /\ o.files[i] \in Nat BY ObjectFacts DEF CommandInv
  <2> QED BY <2>1 DEF Arrived, Later
<1> QED BY <1>2, <1>3, <1>4

LEMMA RemovesLocalLate ==
  ASSUME CommandInv, EndsInv, LocalsInv, AgentsInv, StoreInv, FillInv, FiledInv, WindowInv, RemoveLocal
  PROVE  \A l \in Discarded("local", Path, since) : l.arrived > l.from
<1>1. pc = "remove" /\ pc \in Fills /\ todo # <<>> /\ Kind = "prefer remote"
  BY DEF RemoveLocal, Fills, LocalsInv, WithPath, CommandInv
<1>2. Path \in Paths /\ archive \in 1..MaxArchives /\ Kept = store[archive] /\ Kept.place = "visible"
  BY <1>1, KeptFacts, PathFacts DEF FillInv
<1>3. /\ Kept.durable = "visible" /\ Path \in Kept.synced /\ digest \in WholeCopies(Path)
      /\ Kept.entry[Path] = digest /\ Path \in Kept.filed
  BY <1>1 DEF FiledInv, Recording
<1>4. Taken(digest.files, Len(digest.files)) BY <1>1 DEF WindowInv, Digested
<1> PICK p \in Paths : p = Path BY <1>2
<1> PICK from \in Nat : from = since BY SinceFacts
<1> PICK o : o = content["local"][p] OBVIOUS
<1>5. ASSUME NEW j \in 1..Len(o.files), Arrived(o, j) <= from PROVE Archived(p, j, o.files[j])
  <2>1. Len(o.files) = Len(digest.files)
    <3>1. "local" \in Endpoints /\ setting \in Settings BY DEF Endpoints, CommandInv
    <3>2. o = NoObject \/ o \in ObjectsAt(p) BY <3>1, ObjectFacts
    <3>3. o # NoObject
      <4>1. ASSUME o = NoObject PROVE FALSE
        <5>1. Len(o.files) = 0 BY <4>1 DEF NoObject
        <5> QED BY <1>5, <5>1
      <4> QED BY <4>1
    <3>4. o.files \in [1..FilesOf(setting.kind[p]) -> 1..MaxVersion] BY <3>2, <3>3 DEF ObjectsAt
    <3>5. FilesOf(setting.kind[p]) \in Nat
      <4>1. FilesOf(setting.kind[p]) \in 1..Files BY <3>1, KindFacts
      <4> QED BY <4>1 DEF Files
    <3>6. Len(o.files) = FilesOf(setting.kind[p]) BY <3>4, <3>5, FunctionsAreSequences
    <3>7. Len(digest.files) = FilesOf(setting.kind[p]) BY <1>2, <1>3, <3>1, WholeFacts
    <3> QED BY <3>6, <3>7
  <2>2. j <= Len(digest.files) BY <2>1
  <2>3. digest.files[j] = o.files[j] BY <1>4, <1>5, <2>2 DEF Taken, Source
  <2> QED BY <1>2, <1>3, <2>2, <2>3 DEF Archived
<1>6. "local" \in Endpoints BY DEF Endpoints
<1> HIDE DEF Archived
<1>7. \A l \in Discarded("local", p, from) : l.arrived > l.from BY <1>5, <1>6, DiscardedLate
<1> QED BY <1>7

LEMMA RemovesRemoteLate ==
  ASSUME CommandInv, EndsInv, LocalsInv, AgentsInv, StoreInv, RereadInv, BackupInv, NEW k \in Agents, AgentRemoves(k)
  PROVE  \A l \in Discarded("remote", agent[k].path, agent[k].since) : l.arrived > l.from
<1>1. agent[k].phase = "remove" /\ agent[k] \in AgentStates BY AgentFacts DEF AgentRemoves
<1>2. Commits(k) /\ agent[k].path \in Paths /\ agent[k].since \in Nat
  <2>1. Commits(k) BY <1>1 DEF Commits, Removals
  <2>2. agent[k].path \in Paths BY <1>1 DEF AgentsInv
  <2>3. agent[k].since \in 0..MaxVersion BY <1>1 DEF AgentStates
  <2>4. agent[k].since \in Nat BY <2>3, CatalogAssumption
  <2> QED BY <2>1, <2>2, <2>4
<1> PICK p \in Paths : p = agent[k].path BY <1>2
<1> PICK from \in Nat : from = agent[k].since BY <1>2
<1> PICK first : first = agent[k].first OBVIOUS
<1> PICK o : o = content["remote"][p] OBVIOUS
<1>3. \A j \in 1..Len(o.files) : Arrived(o, j) <= from => j <= Len(first) /\ first[j] = o.files[j]
  BY <1>1 DEF RereadInv, Reread, Loser, Removals
<1>4. PICK n \in 1..used : Backed(k, n) BY <1>2 DEF BackupInv
<1>5. n \in 1..MaxArchives BY UsedBounded
<1>6. Holds(store[n], p) /\ store[n].entry[p].files = first BY <1>4 DEF Backed
<1>7. \A j \in 1..Len(o.files) : Arrived(o, j) <= from => Archived(p, j, o.files[j])
  BY <1>3, <1>5, <1>6 DEF Archived, Holds
<1>8. "remote" \in Endpoints BY DEF Endpoints
<1>9. \A l \in Discarded("remote", p, from) : l.arrived > l.from BY <1>7, <1>8, DiscardedLate
<1> QED BY <1>9

LEMMA LostFrom ==
  ASSUME [Next]_vars
  PROVE  lost' = lost \/ RemoveLocal \/ \E k \in Agents : AgentRemoves(k)
<1>1. CASE Start BY <1>1 DEF Start
<1>2. CASE Resolving
  BY <1>2 DEF Resolving, Preflight, ResolveLocked, NextPath, CopyOpens, CopyReads, CopySynced, Record, FileManifest,
       ResolveBarrier, ExtractOpens, ExtractWrites, ExtractEnds, ExtractTruncated, Acknowledge, Await,
       ByClient, histories
<1>3. CASE Pruning
  BY <1>3 DEF Pruning, PruneSelect, CleanTombstone, PruneStops, PruneCleaned, PruneHides, PruneStages,
       PruneReclaims, PruneSettles, PruneEnds, ByPrune, OnlyPrune
<1>4. CASE Reading
  BY <1>4 DEF Reading, RestoreFinds, RestoreCopies, RestoreCompares, VerifyBegins, VerifyNext, VerifyEnds, ByReader
<1>5. ASSUME NEW k \in Agents, AgentSteps(k) \/ Cut(k) PROVE lost' = lost \/ AgentRemoves(k)
  BY <1>5 DEF Cut, AgentSteps, AgentOpens, AgentReads, AgentFinishes,
     AgentInterrupted, AgentAcknowledged, AgentVerifies, AgentInspects, OnlyAgents, histories
<1>6. CASE Cancel \/ Crash \/ PowerLoss \/ Rots BY <1>6 DEF Cancel, Crash, PowerLoss, Rots, histories
<1>7. CASE Users BY <1>7 DEF Users, Edit, Propagate, PropagateRemoval, histories
<1>8. CASE UNCHANGED vars BY <1>8 DEF vars, histories
<1> QED BY <1>1, <1>2, <1>3, <1>4, <1>5, <1>6, <1>7, <1>8 DEF Next, Over, Faults, Client

LEMMA LossStep ==
  ASSUME CommandInv, EndsInv, LocalsInv, AgentsInv, StoreInv, FillInv, FiledInv, WindowInv, RereadInv, BackupInv, LossWindow,
         [Next]_vars
  PROVE  LossWindow'
<1>1. CASE lost' = lost BY <1>1 DEF LossWindow
<1>2. CASE RemoveLocal
  <2>1. lost' = lost \cup Discarded("local", Path, since) BY <1>2 DEF RemoveLocal
  <2> QED BY <1>2, <2>1, RemovesLocalLate DEF LossWindow
<1>3. ASSUME NEW k \in Agents, AgentRemoves(k) PROVE LossWindow'
  <2>1. lost' = lost \cup Discarded("remote", agent[k].path, agent[k].since) BY <1>3 DEF AgentRemoves
  <2> QED BY <1>3, <2>1, RemovesRemoteLate DEF LossWindow
<1> QED BY <1>1, <1>2, <1>3, LostFrom

LEMMA LossInit == Init => RereadInv /\ FiledInv /\ WindowInv /\ HeldInv /\ StreamedInv /\ BackupInv /\ LossWindow
<1>1. SUFFICES ASSUME Init PROVE RereadInv /\ FiledInv /\ WindowInv /\ HeldInv /\ StreamedInv /\ BackupInv /\ LossWindow OBVIOUS
<1>2. pc = "idle" /\ lost = {} /\ \A k \in Agents : agent[k] = Idle BY <1>1 DEF Init, Agents
<1>3. Idle.phase = "none" BY DEF Idle
<1>4. RereadInv BY <1>2, <1>3 DEF RereadInv, Reread, Removals
<1>5. FiledInv /\ WindowInv /\ HeldInv /\ StreamedInv BY <1>2 DEF FiledInv, Recording, WindowInv, HeldInv, Digested, StreamedInv, Answering
<1>6. BackupInv BY <1>2, <1>3 DEF BackupInv, Commits, Removals
<1> QED BY <1>2, <1>4, <1>5, <1>6 DEF LossWindow

\* Whatever a removal discards that no durable, catalogued backup holds came to the losing side
\* after the code last looked there (sync resolve in root.go, VerifyAndRemove behind the
\* agent's recovery-stream), through crashes, power losses, cut connections, edits, damage and the
\* agents of earlier commands, unless a prune runs after a resolution that left an agent behind.
THEOREM OnlyTheWindowLoses == (\A s \in Settings : NoLatePrune(s)) => (Spec => []LossWindow)
<1> DEFINE Inv == /\ CommandInv /\ EndsInv /\ LocalsInv /\ AgentsInv /\ PreservedInv /\ StoreInv /\ FillInv /\ PruneInv
                  /\ SeenInv /\ RereadInv /\ FiledInv /\ WindowInv /\ HeldInv /\ StreamedInv /\ BackupInv /\ LossWindow
<1>1. Init => Inv
  BY CommandInit, EndsInit, LocalsInit, AgentsInit, PreservedInit, StoreInit, FillInit, PruneInit, SeenInit, LossInit
<1>2. ASSUME \A s \in Settings : NoLatePrune(s) PROVE Inv /\ [Next]_vars => Inv'
  <2>1. SUFFICES ASSUME Inv, [Next]_vars PROVE Inv' OBVIOUS
  <2>2. CommandInv' /\ EndsInv' /\ LocalsInv' BY <2>1, CommandStep, EndsStep, LocalsStep
  <2>3. AgentsInv' BY <2>1, AgentsStep
  <2>4. PreservedInv' BY <2>1, <2>3, PreservedStep
  <2>5. StoreInv' BY <2>1, StoreStep
  <2>6. FillInv' BY <2>1, <2>3, FillStep
  <2>7. PruneInv' BY <2>1, PruneStep
  <2>8. SeenInv' /\ RereadInv' BY <2>1, <2>2, SeenStep, RereadStep
  <2>9. FiledInv' /\ WindowInv' /\ HeldInv' BY <2>1, <2>2, <2>6, FiledStep, WindowStep, HeldStep
  <2>10. StreamedInv' BY <2>1, <2>2, <2>3, StreamedStep
  <2>11. NoLatePrune(setting) BY <1>2, <2>1 DEF CommandInv
  <2>12. BackupInv' BY <2>1, <2>3, <2>11, BackupStep
  <2>13. LossWindow' BY <2>1, LossStep
  <2> QED BY <2>2, <2>3, <2>4, <2>5, <2>6, <2>7, <2>8, <2>9, <2>10, <2>12, <2>13
<1>3. Inv => LossWindow OBVIOUS
<1>4. ASSUME \A s \in Settings : NoLatePrune(s) PROVE Spec => []LossWindow
  <2>1. Inv /\ [Next]_vars => Inv' BY <1>2, <1>4
  <2> QED BY <1>1, <1>3, <2>1, PTL DEF Spec
<1> QED BY <1>4

=============================================================================

---------------------------- MODULE RecoveryProofs ----------------------------
(***************************************************************************)
(* What the recovery commands keep, for every number of paths, archives,   *)
(* versions and commands, every interleaving with the users, Mutagen and   *)
(* the agents, and every fault.                                            *)
(***************************************************************************)
EXTENDS ConflictRecovery, FiniteSetTheorems, WellFoundedInduction, TLAPS

-----------------------------------------------------------------------------
(* What runs is what the script says.                                      *)

Resolves == {"prefer local", "prefer remote"}
Fills == {"next", "copy", "extract", "record", "file", "remove", "acknowledge", "await"}
ResolvePcs == Fills \cup {"preflight", "lock", "barrier"}
PrunePcs == {"select", "clean", "hide", "stage", "reclaim", "settle"}
RestorePcs == {"find", "restore", "compare"}
VerifyPcs == {"enumerate", "verify"}

CommandInv ==
  /\ setting \in Settings
  /\ command \in 0..Len(setting.script)
  /\ pc \in {"idle"} \cup ResolvePcs \cup PrunePcs \cup RestorePcs \cup VerifyPcs
  /\ pc # "idle" => command > 0
  /\ pc \in ResolvePcs => Kind \in Resolves
  /\ pc \in {"copy", "remove"} => Kind = "prefer remote"
  /\ pc \in {"extract", "acknowledge", "await"} => Kind = "prefer local"
  /\ pc \in PrunePcs => Kind = "prune"
  /\ pc \in RestorePcs => Kind = "restore"
  /\ pc \in VerifyPcs => Kind = "verify"
  /\ outcome \in [Agents -> Outcomes]
  /\ \A k \in Agents : k > command \/ (k = command /\ pc # "idle") => outcome[k] = "none"
  /\ struck \subseteq FaultKinds

LEMMA ScriptFacts ==
  ASSUME setting \in Settings
  PROVE  /\ setting.script \in Seq(Commands) /\ Len(setting.script) \in 1..MaxCommands
         /\ setting.kind \in [Paths -> Kinds] /\ setting.conflicts \subseteq Paths
         /\ setting.old \in 0..MaxArchives /\ setting.edits \in Nat /\ setting.faults \subseteq FaultKinds
         /\ MaxCommands \in Nat /\ MaxArchives \in Nat /\ MaxVersion \in Nat
<1>1. setting \in Setting BY RecoveryAssumption
<1>2. PICK n \in 1..MaxCommands : setting.script \in [1..n -> Commands] BY <1>1 DEF Setting
<1>3. MaxCommands \in Nat /\ MaxArchives \in Nat /\ MaxVersion \in Nat
  BY RecoveryAssumption, CatalogAssumption
<1>4. n \in Nat /\ n <= MaxCommands BY <1>2, <1>3
<1>5. setting.script \in Seq(Commands) /\ Len(setting.script) = n BY <1>2, <1>4
<1>6. /\ setting.kind \in [Paths -> Kinds] /\ setting.conflicts \in SUBSET Paths
      /\ setting.old \in 0..MaxArchives /\ setting.edits \in 0..MaxVersion
      /\ setting.faults \in SUBSET FaultKinds
  BY <1>1 DEF Setting
<1> QED BY <1>2, <1>3, <1>4, <1>5, <1>6

LEMMA CommandInit == Init => CommandInv
<1>1. SUFFICES ASSUME Init PROVE CommandInv OBVIOUS
<1>2. setting \in Settings /\ command = 0 /\ pc = "idle" /\ struck = {}
      /\ outcome = [k \in 1..MaxCommands |-> "none"]
  BY <1>1 DEF Init
<1>3. outcome \in [Agents -> Outcomes] /\ \A k \in Agents : outcome[k] = "none"
  BY <1>2 DEF Outcomes, Agents
<1>4. Len(setting.script) \in Nat BY <1>2, ScriptFacts
<1>5. command \in 0..Len(setting.script) BY <1>2, <1>4
<1> QED BY <1>2, <1>3, <1>5 DEF CommandInv, ResolvePcs, Fills, PrunePcs, RestorePcs, VerifyPcs

\* A step that leaves the control alone.
LEMMA CommandStays ==
  ASSUME CommandInv, UNCHANGED <<setting, command, pc, outcome>>, struck' \subseteq FaultKinds
  PROVE  CommandInv'
  BY DEF CommandInv, Kind

\* A command that ends.
LEMMA CommandEnds ==
  ASSUME CommandInv, UNCHANGED <<setting, command>>, NEW result \in Outcomes, Finish(result),
         pc # "idle", struck' \subseteq FaultKinds
  PROVE  CommandInv'
<1>1. command \in Agents /\ Agents \subseteq Int
  <2>1. setting \in Settings /\ command \in 0..Len(setting.script) /\ command > 0 BY DEF CommandInv
  <2>2. Len(setting.script) \in 1..MaxCommands /\ MaxCommands \in Nat BY <2>1, ScriptFacts
  <2> QED BY <2>1, <2>2 DEF Agents
<1>2. outcome' = [outcome EXCEPT ![command] = result] /\ pc' = "idle" BY DEF Finish
<1>3. outcome' \in [Agents -> Outcomes] BY <1>2 DEF CommandInv
<1>4. \A k \in Agents : k # command => outcome'[k] = outcome[k] BY <1>2 DEF CommandInv
<1>5. \A k \in Agents : k > command' => outcome'[k] = "none"
  <2>1. \A k \in Agents : k > command => outcome[k] = "none" BY DEF CommandInv
  <2>2. \A k \in Agents : k > command => k # command BY <1>1
  <2> QED BY <1>4, <2>1, <2>2
<1> QED BY <1>2, <1>3, <1>5 DEF CommandInv, ResolvePcs, Fills, PrunePcs, RestorePcs, VerifyPcs

LEMMA DiskFault == ASSUME CommandInv, DiskFails PROVE struck' \subseteq FaultKinds
  BY DEF CommandInv, DiskFails, FaultKinds

\* A command that goes on to a step of its own kind.
LEMMA CommandGoes ==
  ASSUME CommandInv, UNCHANGED <<setting, command>>, NEW label, Goto(label), pc # "idle",
         struck' \subseteq FaultKinds,
         \/ Kind \in Resolves /\ label \in {"lock", "next", "record", "file", "barrier"}
         \/ Kind = "prefer remote" /\ label \in {"copy", "remove"}
         \/ Kind = "prefer local" /\ label \in {"extract", "acknowledge", "await"}
         \/ Kind = "prune" /\ label \in PrunePcs
         \/ Kind = "restore" /\ label \in RestorePcs
         \/ Kind = "verify" /\ label \in VerifyPcs
  PROVE  CommandInv'
<1>1. pc' = label /\ outcome' = outcome BY DEF Goto
<1> QED BY <1>1 DEF CommandInv, Kind, Resolves, ResolvePcs, Fills, PrunePcs, RestorePcs, VerifyPcs

LEMMA CommandResolving ==
  ASSUME CommandInv, Resolving PROVE CommandInv'
<1> USE DEF faults, locals, ends, disk, Outcomes
<1>1. CASE Preflight
  BY <1>1, CommandEnds, CommandGoes DEF Preflight, CommandInv, ResolvePcs
<1>2. CASE ResolveLocked
  BY <1>2, CommandEnds, CommandGoes DEF ResolveLocked, CommandInv, ResolvePcs
<1>3. CASE NextPath
  BY <1>3, CommandEnds, CommandGoes DEF NextPath, Prefer, CommandInv, ResolvePcs, Fills, Resolves
<1>4. CASE CopyOpens
  BY <1>4, CommandEnds, CommandStays DEF CopyOpens, CopyFails, Failing, CommandInv
<1>5. CASE CopyReads
  BY <1>5, CommandEnds, CommandStays, DiskFault DEF CopyReads, CopyFails, Failing, CommandInv
<1>6. CASE CopySynced
  BY <1>6, CommandEnds, CommandGoes, DiskFault DEF CopySynced, Failing, CommandInv, ResolvePcs, Fills
<1>7. CASE Record
  BY <1>7, CommandEnds, CommandGoes, DiskFault DEF Record, Uncatalogued, CommandInv, ResolvePcs, Fills
<1>8. CASE FileManifest
  BY <1>8, CommandEnds, CommandGoes, DiskFault DEF FileManifest, Uncatalogued, AfterRecord, CommandInv, ResolvePcs, Fills, Resolves
<1>9. CASE RemoveLocal
  BY <1>9, CommandEnds, CommandGoes, DiskFault DEF RemoveLocal, Failing, CommandInv, ResolvePcs, Fills
<1>10. CASE ResolveBarrier
  BY <1>10, CommandEnds DEF ResolveBarrier, CommandInv
<1>11. CASE ExtractOpens
  BY <1>11, CommandStays DEF ExtractOpens, ByClient, CommandInv
<1>12. CASE ExtractWrites
  BY <1>12, CommandEnds, CommandStays, DiskFault DEF ExtractWrites, ByClient, ExtractFails, Failing, CommandInv
<1>13. CASE ExtractEnds
  BY <1>13, CommandEnds, CommandGoes, DiskFault DEF ExtractEnds, ByClient, ExtractFails, Failing, CommandInv, ResolvePcs, Fills
<1>14. CASE ExtractTruncated
  BY <1>14, CommandEnds DEF ExtractTruncated, ByClient, ExtractFails, Failing, CommandInv
<1>15. CASE Acknowledge
  BY <1>15, CommandEnds, CommandGoes DEF Acknowledge, ByClient, CommandInv
<1>16. CASE Await
  BY <1>16, CommandEnds, CommandGoes DEF Await, ByClient, CommandInv, ResolvePcs, Fills
<1> QED BY <1>1, <1>2, <1>3, <1>4, <1>5, <1>6, <1>7, <1>8, <1>9, <1>10, <1>11, <1>12, <1>13, <1>14, <1>15, <1>16 DEF Resolving

LEMMA CommandPruning ==
  ASSUME CommandInv, Pruning PROVE CommandInv'
<1> USE DEF faults, locals, ends, disk, Outcomes, ByPrune, OnlyPrune
<1>1. CASE PruneSelect
  BY <1>1, CommandEnds, CommandGoes DEF PruneSelect, CommandInv, PrunePcs
<1>2. CASE CleanTombstone
  BY <1>2, CommandEnds, CommandStays, DiskFault DEF CleanTombstone, CommandInv, PrunePcs
<1>3. CASE PruneStops
  BY <1>3, CommandEnds DEF PruneStops, CommandInv
<1>4. CASE PruneCleaned
  BY <1>4, CommandGoes DEF PruneCleaned, CommandInv, PrunePcs
<1>5. CASE PruneHides
  BY <1>5, CommandGoes DEF PruneHides, CommandInv, PrunePcs
<1>6. CASE PruneStages
  BY <1>6, CommandEnds, CommandGoes, DiskFault DEF PruneStages, CommandInv, PrunePcs
<1>7. CASE PruneReclaims
  BY <1>7, CommandEnds, CommandGoes, DiskFault DEF PruneReclaims, CommandInv, PrunePcs
<1>8. CASE PruneSettles
  BY <1>8, CommandEnds, CommandGoes, DiskFault DEF PruneSettles, CommandInv, PrunePcs
<1>9. CASE PruneEnds
  BY <1>9, CommandEnds DEF PruneEnds, CommandInv
<1> QED BY <1>1, <1>2, <1>3, <1>4, <1>5, <1>6, <1>7, <1>8, <1>9 DEF Pruning

LEMMA CommandReading ==
  ASSUME CommandInv, Reading PROVE CommandInv'
<1> USE DEF faults, locals, ends, disk, Outcomes, ByReader
<1>1. CASE RestoreFinds
  BY <1>1, CommandEnds, CommandGoes DEF RestoreFinds, Failing, CommandInv, RestorePcs
<1>2. CASE RestoreCopies
  BY <1>2, CommandEnds, CommandGoes, CommandStays, DiskFault DEF RestoreCopies, Failing, CommandInv, RestorePcs
<1>3. CASE RestoreCompares
  BY <1>3, CommandEnds DEF RestoreCompares, Failing, CommandInv
<1>4. CASE VerifyBegins
  BY <1>4, CommandGoes DEF VerifyBegins, CommandInv, VerifyPcs
<1>5. CASE VerifyNext
  BY <1>5, CommandStays DEF VerifyNext, CommandInv
<1>6. CASE VerifyEnds
  BY <1>6, CommandEnds DEF VerifyEnds, CommandInv
<1> QED BY <1>1, <1>2, <1>3, <1>4, <1>5, <1>6 DEF Reading

\* The steps of the agents, of the users and of nobody leave the control alone.
Control == <<setting, command, pc, outcome>>
LEMMA AgentsLeaveControl ==
  ASSUME NEW k \in Agents, AgentSteps(k) PROVE UNCHANGED Control /\ UNCHANGED <<disk, locals, faults, reports>>
  BY DEF AgentSteps, AgentOpens, AgentReads, AgentFinishes, AgentInterrupted, AgentAcknowledged, AgentVerifies,
         AgentInspects, AgentRemoves, OnlyAgents, Control, disk, locals, faults, reports

LEMMA UsersLeaveControl ==
  ASSUME Users PROVE UNCHANGED Control /\ UNCHANGED <<disk, locals, agent, faults, reports, histories>>
  BY DEF Users, Edit, Propagate, PropagateRemoval, Control, disk, locals, faults, reports

LEMMA CommandFaults ==
  ASSUME CommandInv, Faults PROVE CommandInv'
<1> USE DEF FaultKinds
<1>1. CASE Cancel BY <1>1, CommandStays DEF Cancel, CommandInv, locals, reports
<1>2. CASE Crash
  BY <1>2, CommandEnds DEF Crash, CommandInv, Outcomes
<1>3. CASE PowerLoss
  <2>1. struck' \subseteq FaultKinds BY <1>3 DEF PowerLoss, CommandInv
  <2>2. CASE pc # "idle" BY <1>3, <2>1, <2>2, CommandEnds DEF PowerLoss, Outcomes
  <2>3. CASE pc = "idle"
    <3>1. pc' = "idle" /\ UNCHANGED <<setting, command>> BY <1>3, <2>3 DEF PowerLoss, locals
    <3>2. outcome' = [k \in Agents |-> IF outcome[k] \in {"complete", "incomplete"} THEN "outdated" ELSE outcome[k]]
      BY <1>3, <2>3 DEF PowerLoss
    <3>3. outcome' \in [Agents -> Outcomes] BY <3>2 DEF CommandInv, Outcomes
    <3>4. \A k \in Agents : outcome[k] = "none" => outcome'[k] = "none" BY <3>2
    <3> QED BY <2>1, <2>3, <3>1, <3>3, <3>4 DEF CommandInv, ResolvePcs, Fills, PrunePcs, RestorePcs, VerifyPcs
  <2> QED BY <2>2, <2>3
<1>4. CASE Rots
  <2>1. struck' = struck \cup {"rot"} /\ UNCHANGED Control BY <1>4 DEF Rots, Control, locals, reports
  <2> QED BY <2>1, CommandStays DEF CommandInv, Control
<1>5. ASSUME NEW k \in Agents, Cut(k) PROVE CommandInv'
  BY <1>5, CommandStays DEF Cut, CommandInv, locals, reports
<1> QED BY <1>1, <1>2, <1>3, <1>4, <1>5 DEF Faults

LEMMA CommandStart ==
  ASSUME CommandInv, Start PROVE CommandInv'
<1>1. setting \in Settings /\ command \in 0..Len(setting.script) BY DEF CommandInv
<1>2. setting.script \in Seq(Commands) /\ Len(setting.script) \in 1..MaxCommands /\ MaxCommands \in Nat
  BY <1>1, ScriptFacts
<1>3. /\ pc = "idle" /\ command < Len(setting.script) /\ command' = command + 1
      /\ UNCHANGED <<setting, outcome, struck>>
  BY DEF Start, faults
<1>4. command' \in 1..Len(setting'.script) /\ command' \in DOMAIN setting.script BY <1>1, <1>2, <1>3
<1>5. setting.script[command'] \in Commands BY <1>2, <1>4
<1>6. \/ Kind' \in Resolves /\ pc' = "preflight"
      \/ Kind' = "prune" /\ pc' = "select"
      \/ Kind' = "restore" /\ pc' = "find"
      \/ Kind' = "verify" /\ pc' = "enumerate"
  BY <1>3, <1>5 DEF Start, Kind, Commands, Resolves
<1>9. outcome' \in [Agents -> Outcomes] /\ struck' \subseteq FaultKinds BY <1>3 DEF CommandInv
<1>7. \A k \in Agents : k > command' \/ k = command' => k > command BY <1>1, <1>2, <1>3 DEF Agents
<1>8. \A k \in Agents : k > command' \/ k = command' => outcome'[k] = "none" BY <1>3, <1>7 DEF CommandInv
<1>10. command' \in 0..Len(setting'.script) /\ command' > 0 BY <1>1, <1>2, <1>4
<1>11. \A k \in Agents : k > command' \/ (k = command' /\ pc' # "idle") => outcome'[k] = "none" BY <1>8
<1>12. setting' \in Settings BY <1>1, <1>3
<1> QED BY <1>6, <1>9, <1>10, <1>11, <1>12 DEF CommandInv, ResolvePcs, Fills, PrunePcs, RestorePcs, VerifyPcs

LEMMA CommandStep == ASSUME CommandInv, [Next]_vars PROVE CommandInv'
<1>1. CASE Start BY <1>1, CommandStart
<1>2. CASE Client BY <1>2, CommandResolving, CommandPruning, CommandReading DEF Client
<1>3. ASSUME NEW k \in Agents, AgentSteps(k) PROVE CommandInv'
  BY <1>3, AgentsLeaveControl, CommandStays DEF Control, faults, CommandInv
<1>4. CASE Faults BY <1>4, CommandFaults
<1>5. CASE Users BY <1>5, UsersLeaveControl, CommandStays DEF Control, faults, CommandInv
<1>6. CASE UNCHANGED vars BY <1>6, CommandStays DEF vars, locals, reports, faults, CommandInv
<1> QED BY <1>1, <1>2, <1>3, <1>4, <1>5, <1>6 DEF Next, Over

-----------------------------------------------------------------------------
(* The two endpoints.  A change there is an edit or settles a conflict, so  *)
(* the versions stay within their bound.                                    *)

\* What an endpoint holds of p.
ObjectsAt(p) == [inode : 0..MaxVersion, kind : {setting.kind[p]},
                 files : [1..FilesOf(setting.kind[p]) -> 1..MaxVersion]]

EndsInv ==
  /\ content \in [Endpoints -> [Paths -> Objects \cup {NoObject}]]
  /\ \A e \in Endpoints, p \in Paths : content[e][p] \in ObjectsAt(p) \cup {NoObject}
  /\ conflicted \subseteq setting.conflicts
  /\ edits \in 0..setting.edits
  /\ clock \in Nat /\ clock >= 3
  /\ clock + Cardinality(conflicted) <= 3 + edits + Cardinality(setting.conflicts)

LEMMA FunctionsAreSequences ==
  ASSUME NEW S, NEW n \in Nat, NEW f \in [1..n -> S] PROVE f \in Seq(S) /\ Len(f) = n /\ DOMAIN f = 1..n
  OBVIOUS

LEMMA ElementsTyped ==
  ASSUME NEW S, NEW f \in Seq(S), NEW i \in 1..Len(f) PROVE f[i] \in S
  OBVIOUS

LEMMA KindFacts ==
  ASSUME setting \in Settings, NEW p \in Paths
  PROVE  /\ setting.kind[p] \in Kinds /\ FilesOf(setting.kind[p]) \in 1..Files
         /\ ObjectsAt(p) \subseteq Objects
         /\ \A o \in ObjectsAt(p) : o # NoObject /\ Len(o.files) = FilesOf(setting.kind[p]) /\ o.files \in Seq(1..MaxVersion)
<1>1. setting.kind[p] \in Kinds BY ScriptFacts
<1>2. FilesOf(setting.kind[p]) \in 1..Files BY <1>1 DEF FilesOf, Kinds, Files
<1>3. ObjectsAt(p) \subseteq Objects
  <2>1. 1..MaxVersion \subseteq Bytes BY DEF Bytes
  <2>2. [1..FilesOf(setting.kind[p]) -> 1..MaxVersion] \subseteq UNION {[1..n -> Bytes] : n \in 0..Files}
    <3>1. FilesOf(setting.kind[p]) \in 0..Files BY <1>2 DEF Files
    <3> QED BY <2>1, <3>1
  <2> QED BY <1>1, <2>2 DEF ObjectsAt, Objects
<1>4. ASSUME NEW o \in ObjectsAt(p)
      PROVE  o # NoObject /\ Len(o.files) = FilesOf(setting.kind[p]) /\ o.files \in Seq(1..MaxVersion)
  <2>1. o.files \in [1..FilesOf(setting.kind[p]) -> 1..MaxVersion] /\ o.kind = setting.kind[p]
    BY DEF ObjectsAt
  <2>2. FilesOf(setting.kind[p]) \in Nat BY <1>2 DEF Files
  <2>3. o.kind # "none" BY <1>1, <2>1 DEF Kinds
  <2>4. o.files \in Seq(1..MaxVersion) /\ Len(o.files) = FilesOf(setting.kind[p])
    BY <2>1, <2>2, FunctionsAreSequences
  <2> QED BY <2>3, <2>4 DEF NoObject
<1> QED BY <1>1, <1>2, <1>3, <1>4

\* What the assumption on the instance is for.
LEMMA ClockBounded ==
  ASSUME setting \in Settings, EndsInv
  PROVE  /\ IsFiniteSet(conflicted) /\ Cardinality(conflicted) \in Nat
         /\ Cardinality(setting.conflicts) \in Nat
         /\ clock \in 3..MaxVersion
         /\ edits < setting.edits \/ conflicted # {} => clock + 1 \in 3..MaxVersion
<1>1. IsFiniteSet(setting.conflicts) /\ setting.conflicts \subseteq Paths
  BY ScriptFacts, CatalogAssumption, FS_Subset
<1>2. IsFiniteSet(conflicted) /\ Cardinality(conflicted) \in Nat /\ Cardinality(setting.conflicts) \in Nat
  BY <1>1, FS_Subset, FS_CardinalityType DEF EndsInv
<1>3. conflicted # {} => Cardinality(conflicted) >= 1
  BY <1>2, FS_EmptySet
<1>4. 3 + setting.edits + Cardinality(setting.conflicts) <= MaxVersion /\ setting.edits \in Nat /\ MaxVersion \in Nat
  BY ScriptFacts, RecoveryAssumption
<1> QED BY <1>2, <1>3, <1>4 DEF EndsInv

LEMMA EndsInit == Init => EndsInv
<1>1. SUFFICES ASSUME Init PROVE EndsInv OBVIOUS
<1>2. setting \in Settings /\ conflicted = setting.conflicts /\ clock = 3 /\ edits = 0 BY <1>1 DEF Init
<1>3. setting.edits \in Nat /\ 3 <= MaxVersion /\ MaxVersion \in Nat /\ IsFiniteSet(setting.conflicts)
      /\ Cardinality(setting.conflicts) \in Nat
  <2>1. IsFiniteSet(setting.conflicts) /\ Cardinality(setting.conflicts) \in Nat
    BY <1>2, ScriptFacts, CatalogAssumption, FS_Subset, FS_CardinalityType
  <2>2. 3 + setting.edits + Cardinality(setting.conflicts) <= MaxVersion BY <1>2, RecoveryAssumption
  <2> QED BY <1>2, <2>1, <2>2, ScriptFacts
<1>4. ASSUME NEW e \in Endpoints, NEW p \in Paths PROVE content[e][p] \in ObjectsAt(p) \cup {NoObject}
  <2> DEFINE v == IF e = "local" THEN 1 ELSE 2
  <2>1. content[e][p] = IF p \in setting.conflicts
                        THEN [inode |-> 0, kind |-> setting.kind[p], files |-> [i \in 1..FilesOf(setting.kind[p]) |-> v]]
                        ELSE NoObject
    BY <1>1 DEF Init
  <2>2. v \in 1..MaxVersion BY <1>3
  <2>3. [i \in 1..FilesOf(setting.kind[p]) |-> v] \in [1..FilesOf(setting.kind[p]) -> 1..MaxVersion] BY <2>2
  <2>4. 0 \in 0..MaxVersion BY <1>3
  <2> QED BY <2>1, <2>3, <2>4 DEF ObjectsAt
<1>5. content \in [Endpoints -> [Paths -> Objects \cup {NoObject}]]
  <2>1. \A e \in Endpoints, p \in Paths : content[e][p] \in Objects \cup {NoObject} BY <1>2, <1>4, KindFacts
  <2>2. content = [e \in Endpoints |-> [p \in Paths |-> content[e][p]]] BY <1>1 DEF Init
  <2> QED BY <2>1, <2>2
<1> QED BY <1>2, <1>3, <1>4, <1>5 DEF EndsInv

\* The objects after a step, given where they come from.
LEMMA ContentStep ==
  ASSUME EndsInv, setting \in Settings, setting' = setting,
         content' \in [Endpoints -> [Paths -> {content'[e][p] : e \in Endpoints, p \in Paths}]],
         \A e \in Endpoints, p \in Paths : content'[e][p] \in ObjectsAt(p) \cup {NoObject},
         conflicted' \subseteq conflicted, edits' \in 0..setting.edits, clock' \in Nat, clock' >= clock,
         clock' + Cardinality(conflicted') <= 3 + edits' + Cardinality(setting.conflicts)
  PROVE  EndsInv'
<1>1. \A p \in Paths : ObjectsAt(p)' = ObjectsAt(p) BY DEF ObjectsAt
<1>2. \A e \in Endpoints, p \in Paths : content'[e][p] \in Objects \cup {NoObject} BY KindFacts
<1>3. content' \in [Endpoints -> [Paths -> Objects \cup {NoObject}]] BY <1>2
<1> QED BY <1>1, <1>3 DEF EndsInv

LEMMA EndsStay == ASSUME EndsInv, UNCHANGED <<setting, ends>> PROVE EndsInv'
<1>1. UNCHANGED <<setting, content, conflicted, clock, edits>> BY DEF ends
<1> QED BY <1>1 DEF EndsInv, ObjectsAt

\* A removal at one endpoint.
LEMMA RemovalKeepsEnds ==
  ASSUME EndsInv, setting \in Settings, NEW e \in Endpoints, NEW p,
         content' = [content EXCEPT ![e][p] = NoObject], UNCHANGED <<setting, conflicted, clock, edits>>
  PROVE  EndsInv'
<1>1. \A d \in Endpoints, q \in Paths : content'[d][q] = content[d][q] \/ content'[d][q] = NoObject BY DEF EndsInv
<1>2. content' \in [Endpoints -> [Paths -> Objects \cup {NoObject}]] BY DEF EndsInv
<1>3. \A d \in Endpoints, q \in Paths : content'[d][q] \in ObjectsAt(q)' \cup {NoObject} BY <1>1 DEF EndsInv, ObjectsAt
<1> QED BY <1>2, <1>3 DEF EndsInv

LEMMA EditKeepsEnds == ASSUME EndsInv, setting \in Settings, NEW p \in Paths, Edit(p) PROVE EndsInv'
<1> DEFINE e == setting.edited
           o == content[e][p]
<1>1. /\ edits < setting.edits /\ Exists(o) /\ clock' = clock + 1 /\ edits' = edits + 1
      /\ UNCHANGED <<setting, conflicted>>
  BY DEF Edit
<1>2. PICK n \in Edited(o) : content' = [content EXCEPT ![e][p] = n] BY DEF Edit
<1>3. e \in Endpoints /\ setting.edits \in Nat
  <2>1. setting \in Setting BY RecoveryAssumption
  <2> QED BY <2>1, ScriptFacts DEF Setting
<1>4. o \in ObjectsAt(p) BY <1>1, <1>3 DEF EndsInv, Exists
<1>5. clock + 1 \in 1..MaxVersion /\ clock \in Nat /\ MaxVersion \in Nat /\ Cardinality(conflicted) \in Nat
      /\ Cardinality(setting.conflicts) \in Nat
  BY <1>1, ClockBounded, ScriptFacts
<1>6. n \in ObjectsAt(p) \cup {NoObject}
  <2>1. o.files \in [1..FilesOf(setting.kind[p]) -> 1..MaxVersion] /\ o.inode \in 0..MaxVersion /\ o.kind = setting.kind[p]
        /\ o = [inode |-> o.inode, kind |-> o.kind, files |-> o.files] /\ Len(o.files) = FilesOf(setting.kind[p])
    BY <1>4, KindFacts DEF ObjectsAt
  <2>2. ASSUME NEW i \in 1..Len(o.files), n = [o EXCEPT !.files[i] = clock + 1] PROVE n \in ObjectsAt(p)
    <3>1. n = [o EXCEPT !.files = [o.files EXCEPT ![i] = clock + 1]] BY <2>2
    <3>2. [o.files EXCEPT ![i] = clock + 1] \in [1..FilesOf(setting.kind[p]) -> 1..MaxVersion] BY <1>5, <2>1
    <3> QED BY <3>1, <3>2, <2>1 DEF ObjectsAt
  <2>3. ASSUME n = [o EXCEPT !.inode = clock + 1, !.files = [i \in 1..Len(o.files) |-> clock + 1]]
        PROVE  n \in ObjectsAt(p)
    <3>1. [i \in 1..Len(o.files) |-> clock + 1] \in [1..FilesOf(setting.kind[p]) -> 1..MaxVersion] BY <1>5, <2>1
    <3>2. clock + 1 \in 0..MaxVersion BY <1>5
    <3> QED BY <2>3, <3>1, <3>2, <2>1 DEF ObjectsAt
  <2> QED BY <1>2, <2>2, <2>3 DEF Edited
<1>7. \A d \in Endpoints, q \in Paths : content'[d][q] \in ObjectsAt(q) \cup {NoObject}
  BY <1>2, <1>3, <1>6 DEF EndsInv
<1>8. content' \in [Endpoints -> [Paths -> {content'[d][q] : d \in Endpoints, q \in Paths}]]
  BY <1>2, <1>3 DEF EndsInv
<1>9. clock' + Cardinality(conflicted') <= 3 + edits' + Cardinality(setting.conflicts)
  BY <1>1, <1>5, <1>3 DEF EndsInv
<1>10. edits' \in 0..setting.edits /\ clock' \in Nat /\ clock' >= clock BY <1>1, <1>3, <1>5 DEF EndsInv
<1>11. conflicted' \subseteq conflicted BY <1>1
<1> QED BY <1>1, <1>7, <1>8, <1>9, <1>10, <1>11, ContentStep

LEMMA PropagationKeepsEnds ==
  ASSUME EndsInv, setting \in Settings, NEW gone \in SUBSET conflicted, gone # {},
         conflicted' = conflicted \ gone, clock' = clock + 1, content' = Propagated(gone), UNCHANGED <<setting, edits>>
  PROVE  EndsInv'
<1>1. clock + 1 \in 3..MaxVersion /\ MaxVersion \in Nat /\ clock \in Nat /\ IsFiniteSet(conflicted)
      /\ Cardinality(conflicted) \in Nat /\ Cardinality(setting.conflicts) \in Nat
  BY ClockBounded, ScriptFacts
<1>2. ASSUME NEW e \in Endpoints, NEW p \in Paths PROVE content'[e][p] \in ObjectsAt(p) \cup {NoObject}
  <2>1. Other(e) \in Endpoints BY DEF Other, Endpoints
  <2>2. content[Other(e)][p] \in ObjectsAt(p) \cup {NoObject} /\ content[e][p] \in ObjectsAt(p) \cup {NoObject}
    BY <2>1 DEF EndsInv
  <2>3. Received(content[Other(e)][p]) \in ObjectsAt(p) \cup {NoObject}
    <3>1. clock + 1 \in 0..MaxVersion BY <1>1
    <3>2. ASSUME NEW o \in ObjectsAt(p) PROVE [o EXCEPT !.inode = clock + 1] \in ObjectsAt(p)
      BY <3>1 DEF ObjectsAt
    <3> QED BY <2>2, <3>2 DEF Received, Exists
  <2> QED BY <2>2, <2>3 DEF Propagated
<1>3. content' \in [Endpoints -> [Paths -> {content'[d][q] : d \in Endpoints, q \in Paths}]]
  BY DEF Propagated
<1>4. IsFiniteSet(conflicted') /\ Cardinality(conflicted') <= Cardinality(conflicted) - 1 /\ Cardinality(conflicted') \in Nat
  <2>1. PICK p \in gone : TRUE OBVIOUS
  <2>2. conflicted' \subseteq conflicted \ {p} BY <2>1
  <2>3. IsFiniteSet(conflicted \ {p}) /\ Cardinality(conflicted \ {p}) = Cardinality(conflicted) - 1
    BY <1>1, <2>1, FS_RemoveElement
  <2> QED BY <2>2, <2>3, <1>1, FS_Subset, FS_CardinalityType
<1>5. clock' + Cardinality(conflicted') <= 3 + edits' + Cardinality(setting.conflicts)
  BY <1>1, <1>4, ScriptFacts DEF EndsInv
<1>6. edits' \in 0..setting.edits /\ clock' \in Nat /\ clock' >= clock /\ conflicted' \subseteq conflicted
  BY <1>1 DEF EndsInv
<1> QED BY <1>2, <1>3, <1>5, <1>6, ContentStep

LEMMA EndsStep == ASSUME CommandInv, EndsInv, [Next]_vars PROVE EndsInv'
<1>1. setting \in Settings BY DEF CommandInv
<1>2. CASE Start BY <1>2, EndsStay DEF Start
<1>3. CASE Client
  <2>1. CASE RemoveLocal
    <3>1. content' = [content EXCEPT !["local"][Path] = NoObject] /\ UNCHANGED <<setting, conflicted, clock, edits>>
      BY <2>1 DEF RemoveLocal
    <3> QED BY <1>1, <3>1, RemovalKeepsEnds DEF Endpoints
  <2>2. CASE ResolveBarrier
    <3> DEFINE settled == {p \in conflicted : Settled(p)}
    <3>1. /\ conflicted' = conflicted \ settled /\ content' = Propagated(settled)
          /\ clock' = (IF settled = {} THEN clock ELSE clock + 1) /\ UNCHANGED <<setting, edits>>
      BY <2>2 DEF ResolveBarrier
    <3>2. settled \in SUBSET conflicted OBVIOUS
    <3> HIDE DEF settled
    <3>3. CASE settled = {}
      <4>1. content' = content
        <5>1. content' = [e \in Endpoints |-> [p \in Paths |-> content[e][p]]] BY <3>1, <3>3 DEF Propagated
        <5> QED BY <5>1 DEF EndsInv
      <4>2. UNCHANGED <<setting, ends>> BY <3>1, <3>3, <4>1 DEF ends
      <4> QED BY <4>2, EndsStay
    <3>4. CASE settled # {} BY <1>1, <3>1, <3>2, <3>4, PropagationKeepsEnds
    <3> QED BY <3>3, <3>4
  <2>3. CASE Resolving /\ ~RemoveLocal /\ ~ResolveBarrier
    BY <2>3, EndsStay DEF Resolving, Preflight, ResolveLocked, NextPath, CopyOpens, CopyReads, CopySynced, Record,
       FileManifest, ExtractOpens, ExtractWrites, ExtractEnds, ExtractTruncated, Acknowledge, Await, ByClient
  <2>4. CASE Pruning
    BY <2>4, EndsStay DEF Pruning, PruneSelect, CleanTombstone, PruneStops, PruneCleaned, PruneHides, PruneStages,
       PruneReclaims, PruneSettles, PruneEnds, ByPrune, OnlyPrune
  <2>5. CASE Reading
    BY <2>5, EndsStay DEF Reading, RestoreFinds, RestoreCopies, RestoreCompares, VerifyBegins, VerifyNext, VerifyEnds, ByReader
  <2> QED BY <1>3, <2>1, <2>2, <2>3, <2>4, <2>5 DEF Client
<1>4. ASSUME NEW k \in Agents, AgentSteps(k) PROVE EndsInv'
  <2>1. CASE AgentRemoves(k)
    <3>1. content' = [content EXCEPT !["remote"][agent[k].path] = NoObject] /\ UNCHANGED <<setting, conflicted, clock, edits>>
      BY <2>1 DEF AgentRemoves
    <3> QED BY <1>1, <3>1, RemovalKeepsEnds DEF Endpoints
  <2>2. CASE ~AgentRemoves(k)
    BY <1>4, <2>2, EndsStay DEF AgentSteps, AgentOpens, AgentReads, AgentFinishes, AgentInterrupted, AgentAcknowledged,
       AgentVerifies, AgentInspects, OnlyAgents
  <2> QED BY <2>1, <2>2
<1>5. CASE Faults
  BY <1>5, EndsStay DEF Faults, Cancel, Crash, PowerLoss, Rots, Cut
<1>6. ASSUME NEW p \in Paths, Edit(p) \/ Propagate(p) \/ PropagateRemoval(p) PROVE EndsInv'
  <2>1. CASE Edit(p) BY <1>1, <2>1, EditKeepsEnds
  <2>2. CASE Propagate(p)
    <3>1. /\ {p} \in SUBSET conflicted /\ {p} # {} /\ conflicted' = conflicted \ {p} /\ clock' = clock + 1
          /\ content' = Propagated({p}) /\ UNCHANGED <<setting, edits>>
      BY <2>2 DEF Propagate
    <3> QED BY <1>1, <3>1, PropagationKeepsEnds
  <2>3. CASE PropagateRemoval(p)
    <3>1. /\ content' = [content EXCEPT !["local"][p] = NoObject, !["remote"][p] = NoObject]
          /\ UNCHANGED <<setting, conflicted, clock, edits>>
      BY <2>3 DEF PropagateRemoval
    <3>2. \A d \in Endpoints, q \in Paths : content'[d][q] = content[d][q] \/ content'[d][q] = NoObject
      BY <3>1 DEF EndsInv, Endpoints
    <3>3. content' \in [Endpoints -> [Paths -> Objects \cup {NoObject}]] BY <3>1 DEF EndsInv
    <3> QED BY <3>1, <3>2, <3>3 DEF EndsInv, ObjectsAt
  <2> QED BY <1>6, <2>1, <2>2, <2>3
<1>7. CASE UNCHANGED vars BY <1>7, EndsStay DEF vars
<1> QED BY <1>2, <1>3, <1>4, <1>5, <1>6, <1>7 DEF Next, Over, Users

-----------------------------------------------------------------------------
(* The locals of a resolution.                                             *)

\* Archives are named by resolutions that got past their second look at the status.
Naming == {"preflight", "lock"}
Named == {i \in 1..command : setting.script[i] \in Resolves /\ ~(i = command /\ pc \in Naming)}

Unique(s) == \A i, j \in DOMAIN s : s[i] = s[j] => i = j
WithPath == (Fills \ {"next"}) \cup {"lock"}
LocalsInv ==
  /\ todo \in Seq(Paths) /\ Unique(todo)
  /\ pc \in WithPath => todo # <<>>
  /\ used \in Nat /\ setting.old <= used /\ used <= setting.old + Cardinality(Named)
  /\ archive \in 0..MaxArchives
  /\ pc \in Fills => archive = used /\ archive > setting.old
  /\ since \in 0..MaxVersion

LEMMA NamedFinite ==
  ASSUME CommandInv
  PROVE  /\ IsFiniteSet(Named) /\ Cardinality(Named) \in Nat
         /\ setting.old + Cardinality(Named) <= MaxArchives
         /\ pc \in Naming => setting.old + Cardinality(Named) + 1 <= MaxArchives
<1> DEFINE all == {i \in DOMAIN setting.script : setting.script[i] \in {"prefer local", "prefer remote"}}
<1>1. setting \in Settings /\ command \in 0..Len(setting.script) BY DEF CommandInv
<1>2. setting.script \in Seq(Commands) /\ Len(setting.script) \in Nat /\ setting.old \in Nat
  BY <1>1, ScriptFacts
<1>3. IsFiniteSet(1..Len(setting.script)) BY <1>2, FS_Interval
<1>c. DOMAIN setting.script = 1..Len(setting.script)
  <2> HIDE DEF all
  <2> QED BY <1>2
<1>a. all \subseteq 1..Len(setting.script) BY <1>c
<1>4. IsFiniteSet(all) /\ Cardinality(all) \in Nat BY <1>a, <1>3, FS_Subset, FS_CardinalityType
<1>5. setting.old + Cardinality(all) <= MaxArchives BY <1>1, RecoveryAssumption
<1>b. 1..command \subseteq DOMAIN setting.script /\ command \in Nat
  <2> HIDE DEF all
  <2> QED BY <1>1, <1>2, <1>c
<1>6. Named \subseteq all BY <1>b DEF Named, Resolves
<1>7. IsFiniteSet(Named) /\ Cardinality(Named) \in Nat /\ Cardinality(Named) <= Cardinality(all)
  BY <1>4, <1>6, FS_Subset, FS_CardinalityType
<1>8. ASSUME pc \in Naming PROVE Cardinality(Named) + 1 <= Cardinality(all)
  <2>1. command \in all /\ command \notin Named
    <3>1. pc # "idle" /\ pc \in ResolvePcs BY <1>8 DEF Naming, ResolvePcs
    <3>2. command > 0 /\ setting.script[command] \in Resolves BY <3>1 DEF CommandInv, Kind
    <3>3. command \in 1..command BY <1>b, <3>2
    <3> QED BY <1>b, <1>8, <3>2, <3>3 DEF Named, Resolves
  <2>2. Cardinality(Named \cup {command}) = Cardinality(Named) + 1 BY <1>7, <2>1, FS_AddElement
  <2>3. Cardinality(Named \cup {command}) <= Cardinality(all)
    <3>1. Named \cup {command} \subseteq all BY <1>6, <2>1
    <3> QED BY <1>4, <3>1, FS_Subset
  <2> QED BY <2>2, <2>3
<1>9. MaxArchives \in Nat BY CatalogAssumption
<1> HIDE DEF all
<1> QED BY <1>2, <1>4, <1>5, <1>7, <1>8, <1>9

LEMMA UsedBounded ==
  ASSUME CommandInv, LocalsInv
  PROVE  used \in 0..MaxArchives /\ MaxArchives \in Nat /\ setting.old \in 0..MaxArchives
         /\ (pc \in Naming => used + 1 \in 1..MaxArchives)
         /\ (pc \in Fills => archive \in 1..MaxArchives)
<1>1. setting.old \in 0..MaxArchives /\ MaxArchives \in Nat BY ScriptFacts DEF CommandInv
<1> QED BY <1>1, NamedFinite DEF LocalsInv

LEMMA ScriptPosition ==
  ASSUME CommandInv
  PROVE  /\ setting.script \in Seq(Commands) /\ Len(setting.script) \in Nat
         /\ command \in Nat /\ command <= Len(setting.script) /\ DOMAIN setting.script = 1..Len(setting.script)
<1>1. setting.script \in Seq(Commands) /\ Len(setting.script) \in 1..MaxCommands /\ MaxCommands \in Nat
  BY ScriptFacts DEF CommandInv
<1>2. Len(setting.script) \in Nat /\ DOMAIN setting.script = 1..Len(setting.script) BY <1>1
<1>3. command \in 0..Len(setting.script) BY DEF CommandInv
<1> QED BY <1>1, <1>2, <1>3

LEMMA LocalsInit == Init => LocalsInv
<1>1. SUFFICES ASSUME Init PROVE LocalsInv OBVIOUS
<1>2. setting.old \in 0..MaxArchives /\ MaxArchives \in Nat /\ MaxVersion \in Nat BY <1>1, ScriptFacts DEF Init
<1>3. Named = {} BY <1>1 DEF Init, Named
<1>4. Cardinality(Named) = 0 BY <1>3, FS_EmptySet
<1> QED BY <1>1, <1>2, <1>4 DEF Init, LocalsInv, Unique, WithPath, Fills

\* No step takes a name back.
LEMMA NamesStay ==
  ASSUME CommandInv, CommandInv', setting' = setting, Named \subseteq Named', used' = used, LocalsInv
  PROVE  used' \in Nat /\ setting'.old <= used' /\ used' <= setting'.old + Cardinality(Named')
<1>1. IsFiniteSet(Named') /\ Cardinality(Named') \in Nat
  <2>1. command' \in 0..Len(setting'.script) BY DEF CommandInv
  <2>2. Len(setting'.script) \in Nat
    <3>1. Len(setting.script) \in 1..MaxCommands /\ MaxCommands \in Nat BY ScriptFacts DEF CommandInv
    <3> QED BY <3>1
  <2>3. IsFiniteSet(1..command') BY <2>1, <2>2, FS_Interval
  <2>4. Named' \subseteq 1..command' BY DEF Named
  <2> QED BY <2>3, <2>4, FS_Subset, FS_CardinalityType
<1>2. Cardinality(Named) <= Cardinality(Named') /\ Cardinality(Named) \in Nat BY <1>1, NamedFinite, FS_Subset
<1>3. setting.old \in 0..MaxArchives /\ MaxArchives \in Nat BY ScriptFacts DEF CommandInv
<1> QED BY <1>1, <1>2, <1>3 DEF LocalsInv

LEMMA NamedGrows ==
  ASSUME UNCHANGED <<setting, command>>, pc' \notin Naming \/ pc \in Naming PROVE Named \subseteq Named'
  BY DEF Named

LEMMA LocalsEnd ==
  ASSUME CommandInv, CommandInv', LocalsInv, NEW result, Finish(result), UNCHANGED <<setting, command, used>>
  PROVE  LocalsInv'
<1>1. pc' = "idle" /\ todo' = <<>> /\ archive' = 0 /\ since' = 0 BY DEF Finish
<1>2. "idle" \notin WithPath /\ "idle" \notin Fills /\ "idle" \notin Naming BY DEF WithPath, Fills, Naming
<1>3. Named \subseteq Named' BY <1>1, <1>2, NamedGrows
<1>4. 0 \in 0..MaxArchives /\ 0 \in 0..MaxVersion BY CatalogAssumption
<1>5. used' \in Nat /\ setting'.old <= used' /\ used' <= setting'.old + Cardinality(Named') BY <1>3, NamesStay
<1>6. <<>> \in Seq(Paths) /\ Unique(<<>>) BY DEF Unique
<1> QED BY <1>1, <1>2, <1>4, <1>5, <1>6 DEF LocalsInv, Unique

\* A step that keeps the list of paths.
LEMMA LocalsStay ==
  ASSUME CommandInv, CommandInv', LocalsInv, UNCHANGED <<setting, command, used, todo, archive>>,
         since' = since \/ since' = 0 \/ (since' = clock /\ clock \in 0..MaxVersion),
         pc' \in WithPath => todo # <<>>, pc' \in Fills => pc \in Fills, pc' \notin Naming \/ pc \in Naming
  PROVE  LocalsInv'
<1>1. Named \subseteq Named' BY NamedGrows
<1>2. used' \in Nat /\ setting'.old <= used' /\ used' <= setting'.old + Cardinality(Named') BY <1>1, NamesStay
<1>3. since' \in 0..MaxVersion BY CatalogAssumption DEF LocalsInv
<1> QED BY <1>2, <1>3 DEF LocalsInv, Unique

LEMMA TailKeepsPaths ==
  ASSUME todo \in Seq(Paths), Unique(todo), todo # <<>>
  PROVE  /\ Tail(todo) \in Seq(Paths) /\ Unique(Tail(todo)) /\ Path \in Paths
         /\ \A i \in DOMAIN Tail(todo) : i + 1 \in DOMAIN todo /\ Tail(todo)[i] = todo[i + 1] /\ Tail(todo)[i] # Path
<1>1. Len(todo) \in Nat /\ Len(todo) > 0 /\ DOMAIN todo = 1..Len(todo) BY DEF Unique
<1>2. Tail(todo) \in Seq(Paths) /\ Len(Tail(todo)) = Len(todo) - 1 OBVIOUS
<1>3. DOMAIN Tail(todo) = 1..(Len(todo) - 1) BY <1>2
<1>4. \A i \in DOMAIN Tail(todo) : i + 1 \in DOMAIN todo /\ Tail(todo)[i] = todo[i + 1] BY <1>1, <1>3
<1>5. Path = todo[1] /\ 1 \in DOMAIN todo BY <1>1 DEF Path
<1>6. \A i \in DOMAIN Tail(todo) : i + 1 # 1 BY <1>1, <1>3
<1> QED BY <1>2, <1>3, <1>4, <1>5, <1>6, <1>1 DEF Unique

LEMMA LocalsAdvance ==
  ASSUME CommandInv, CommandInv', LocalsInv, UNCHANGED <<setting, command, used, archive>>, pc \in WithPath \cap Fills,
         pc' = "next", todo' = Tail(todo), since' = since \/ since' = 0
  PROVE  LocalsInv'
<1>1. todo # <<>> BY DEF LocalsInv
<1>2. todo' \in Seq(Paths) /\ Unique(todo)' BY <1>1, TailKeepsPaths DEF LocalsInv, Unique
<1>3. Named \subseteq Named' BY NamedGrows DEF Naming
<1>4. used' \in Nat /\ setting'.old <= used' /\ used' <= setting'.old + Cardinality(Named') BY <1>3, NamesStay
<1>5. since' \in 0..MaxVersion BY CatalogAssumption DEF LocalsInv
<1> QED BY <1>2, <1>4, <1>5 DEF LocalsInv, WithPath, Fills

LEMMA LocalsResolving ==
  ASSUME CommandInv, CommandInv', EndsInv, LocalsInv, Resolving PROVE LocalsInv'
<1> USE DEF locals, disk
<1>a. clock \in 0..MaxVersion
  <2>1. clock \in 3..MaxVersion /\ MaxVersion \in Nat BY ClockBounded, CatalogAssumption DEF CommandInv
  <2> QED BY <2>1
<1>1. CASE Preflight
  <2>1. CASE conflicted = {} BY <1>1, <2>1, LocalsEnd DEF Preflight
  <2>2. CASE conflicted # {}
    <3>1. PICK order \in Orders(conflicted) : todo' = order BY <1>1, <2>2 DEF Preflight
    <3>2. /\ pc' = "lock" /\ pc = "preflight" /\ UNCHANGED <<setting, command, used, archive, since>>
      BY <1>1, <2>2 DEF Preflight, Goto
    <3>3. Cardinality(conflicted) \in Nat /\ conflicted \subseteq Paths
      BY ClockBounded, ScriptFacts DEF CommandInv, EndsInv
    <3>4. PICK n \in 1..Cardinality(conflicted) : order \in [1..n -> conflicted] BY <3>1 DEF Orders
    <3>5. n \in Nat /\ n > 0 BY <3>3, <3>4
    <3>6. order \in Seq(Paths) /\ Len(order) = n BY <3>3, <3>4, <3>5
    <3>7. order # <<>> BY <3>5, <3>6
    <3>8. Unique(order)
      <4>1. \A i, j \in DOMAIN order : order[i] = order[j] => i = j BY <3>1 DEF Orders
      <4> QED BY <4>1 DEF Unique
    <3>9. Named \subseteq Named' BY <3>2, NamedGrows DEF Naming
    <3>10. used' \in Nat /\ setting'.old <= used' /\ used' <= setting'.old + Cardinality(Named')
      BY <3>2, <3>9, NamesStay
    <3> QED BY <3>1, <3>2, <3>6, <3>7, <3>8, <3>10 DEF LocalsInv, Unique, Fills
  <2> QED BY <2>1, <2>2
<1>2. CASE ResolveLocked
  <2>1. CASE Finish("refused") /\ UNCHANGED used BY <1>2, <2>1, LocalsEnd DEF ResolveLocked
  <2>2. CASE ~(Finish("refused") /\ UNCHANGED used)
    <3>1. /\ used' = used + 1 /\ archive' = used + 1 /\ pc' = "next" /\ pc = "lock"
          /\ UNCHANGED <<setting, command, todo, since>>
      BY <1>2, <2>2 DEF ResolveLocked, Goto
    <3>2. Named' = Named \cup {command} /\ command \notin Named
      <4>1. setting.script[command] \in Resolves /\ command \in 1..command
        <5>1. pc # "idle" /\ pc \in ResolvePcs BY <3>1 DEF ResolvePcs
        <5>3. command > 0 /\ Kind \in Resolves BY <5>1 DEF CommandInv
        <5>4. command \in 1..command BY <5>3, ScriptPosition
        <5> QED BY <5>3, <5>4 DEF Kind
      <4> QED BY <3>1, <4>1 DEF Named, Naming
    <3>3. Cardinality(Named') = Cardinality(Named) + 1 BY <3>2, NamedFinite, FS_AddElement
    <3>4. used + 1 \in 1..MaxArchives /\ setting.old \in 0..MaxArchives /\ MaxArchives \in Nat /\ Cardinality(Named) \in Nat
      BY <3>1, UsedBounded, NamedFinite DEF Naming
    <3>5. used' \in Nat /\ setting'.old <= used' /\ used' <= setting'.old + Cardinality(Named')
          /\ archive' \in 0..MaxArchives /\ archive' = used' /\ archive' > setting'.old
      BY <3>1, <3>3, <3>4 DEF LocalsInv
    <3> QED BY <3>1, <3>5 DEF LocalsInv, Unique, WithPath
  <2> QED BY <2>1, <2>2
<1>3. CASE NextPath
  BY <1>3, <1>a, LocalsEnd, LocalsStay DEF NextPath, Goto, Keeping, WithPath, Fills, Naming
<1>4. CASE CopyOpens
  BY <1>4, LocalsEnd, LocalsStay DEF CopyOpens, CopyFails, Failing, LocalsInv
<1>5. CASE CopyReads
  BY <1>5, LocalsEnd, LocalsStay DEF CopyReads, CopyFails, Failing, LocalsInv
<1>6. CASE CopySynced
  BY <1>6, LocalsEnd, LocalsStay DEF CopySynced, Failing, Goto, WithPath, Fills, Naming, LocalsInv
<1>7. CASE Record
  BY <1>7, LocalsEnd, LocalsStay DEF Record, Uncatalogued, Goto, Keeping, WithPath, Fills, Naming, LocalsInv
<1>8. CASE FileManifest
  BY <1>8, LocalsEnd, LocalsStay DEF FileManifest, Uncatalogued, AfterRecord, Goto, Keeping, WithPath, Fills, Naming, LocalsInv
<1>9. CASE RemoveLocal
  BY <1>9, LocalsEnd, LocalsAdvance DEF RemoveLocal, Failing, Goto, WithPath, Fills
<1>10. CASE ResolveBarrier
  BY <1>10, LocalsEnd DEF ResolveBarrier
<1>11. CASE ExtractOpens
  BY <1>11, LocalsStay DEF ExtractOpens, ByClient, LocalsInv
<1>12. CASE ExtractWrites
  BY <1>12, LocalsEnd, LocalsStay DEF ExtractWrites, ByClient, ExtractFails, Failing, LocalsInv
<1>13. CASE ExtractEnds
  BY <1>13, LocalsEnd, LocalsStay DEF ExtractEnds, ByClient, ExtractFails, Failing, Goto, WithPath, Fills, Naming, LocalsInv
<1>14. CASE ExtractTruncated
  BY <1>14, LocalsEnd DEF ExtractTruncated, ByClient, ExtractFails, Failing
<1>15. CASE Acknowledge
  BY <1>15, LocalsEnd, LocalsStay DEF Acknowledge, ByClient, Goto, Keeping, WithPath, Fills, Naming, LocalsInv
<1>16. CASE Await
  BY <1>16, LocalsEnd, LocalsAdvance DEF Await, ByClient, Goto, WithPath, Fills
<1> QED BY <1>1, <1>2, <1>3, <1>4, <1>5, <1>6, <1>7, <1>8, <1>9, <1>10, <1>11, <1>12, <1>13, <1>14, <1>15, <1>16 DEF Resolving

LEMMA LocalsMaintenance ==
  ASSUME CommandInv, CommandInv', LocalsInv, Pruning \/ Reading PROVE LocalsInv'
<1> USE DEF locals, disk, ByPrune, OnlyPrune, ByReader, WithPath, Fills, Naming
<1>1. CASE PruneSelect BY <1>1, LocalsEnd, LocalsStay DEF PruneSelect, Goto
<1>2. CASE CleanTombstone BY <1>2, LocalsEnd, LocalsStay DEF CleanTombstone
<1>3. CASE PruneStops BY <1>3, LocalsEnd DEF PruneStops
<1>4. CASE PruneCleaned BY <1>4, LocalsStay DEF PruneCleaned, Goto, Keeping
<1>5. CASE PruneHides BY <1>5, LocalsStay DEF PruneHides, Goto, Keeping
<1>6. CASE PruneStages BY <1>6, LocalsEnd, LocalsStay DEF PruneStages, Goto, Keeping
<1>7. CASE PruneReclaims BY <1>7, LocalsEnd, LocalsStay DEF PruneReclaims, Goto, Keeping
<1>8. CASE PruneSettles BY <1>8, LocalsEnd, LocalsStay DEF PruneSettles, Goto
<1>9. CASE PruneEnds BY <1>9, LocalsEnd DEF PruneEnds
<1>10. CASE RestoreFinds BY <1>10, LocalsEnd, LocalsStay DEF RestoreFinds, Failing, Goto
<1>11. CASE RestoreCopies BY <1>11, LocalsEnd, LocalsStay DEF RestoreCopies, Failing, Goto, Keeping
<1>12. CASE RestoreCompares BY <1>12, LocalsEnd DEF RestoreCompares, Failing
<1>13. CASE VerifyBegins BY <1>13, LocalsStay DEF VerifyBegins, Goto
<1>14. CASE VerifyNext BY <1>14, LocalsStay DEF VerifyNext
<1>15. CASE VerifyEnds BY <1>15, LocalsEnd DEF VerifyEnds
<1> QED BY <1>1, <1>2, <1>3, <1>4, <1>5, <1>6, <1>7, <1>8, <1>9, <1>10, <1>11, <1>12, <1>13, <1>14, <1>15 DEF Pruning, Reading

LEMMA LocalsStep ==
  ASSUME CommandInv, CommandInv', EndsInv, LocalsInv, [Next]_vars PROVE LocalsInv'
<1> USE DEF locals, disk
<1>1. CASE Start
  <2>1. /\ pc = "idle" /\ pc' \notin WithPath \cup Fills \cup {"lock"} /\ command' = command + 1
        /\ UNCHANGED <<setting, used, todo, archive, since>>
    <3>1. pc' \in {"preflight", "select", "find", "enumerate"}
      <4>1. pc' \in {"preflight", "select", "find", "enumerate"} \/
            setting.script[command'] \notin Commands
        BY <1>1 DEF Start, Commands
      <4>2. command' \in DOMAIN setting.script
        <5>1. command < Len(setting.script) /\ command' = command + 1 BY <1>1 DEF Start
        <5> QED BY <5>1, ScriptPosition
      <4>3. setting.script \in Seq(Commands) BY ScriptFacts DEF CommandInv
      <4> QED BY <4>1, <4>2, <4>3
    <3> QED BY <1>1, <3>1 DEF Start, WithPath, Fills
  <2>2. Named \subseteq Named'
    <3>1. command \in Int BY ScriptPosition
    <3> QED BY <2>1, <3>1 DEF Named
  <2>3. used' \in Nat /\ setting'.old <= used' /\ used' <= setting'.old + Cardinality(Named') BY <2>1, <2>2, NamesStay
  <2> QED BY <2>1, <2>3 DEF LocalsInv, Unique
<1>2. CASE Client BY <1>2, LocalsResolving, LocalsMaintenance DEF Client
<1>3. ASSUME NEW k \in Agents, AgentSteps(k) PROVE LocalsInv'
  BY <1>3, AgentsLeaveControl, LocalsStay DEF Control, LocalsInv
<1>4. CASE Cancel BY <1>4, LocalsStay DEF Cancel, LocalsInv
<1>5. CASE Crash BY <1>5, LocalsEnd DEF Crash
<1>6. CASE PowerLoss BY <1>6, LocalsEnd, LocalsStay DEF PowerLoss, LocalsInv
<1>7. CASE Rots
  <2>1. UNCHANGED <<setting, command, used, todo, archive, since, pc>> BY <1>7 DEF Rots
  <2> QED BY <2>1, LocalsStay DEF LocalsInv
<1>8. ASSUME NEW k \in Agents, Cut(k) PROVE LocalsInv'
  BY <1>8, LocalsStay DEF Cut, LocalsInv
<1>9. CASE Users BY <1>9, UsersLeaveControl, LocalsStay DEF Control, LocalsInv
<1>10. CASE UNCHANGED vars BY <1>10, LocalsStay DEF vars, LocalsInv
<1> QED BY <1>1, <1>2, <1>3, <1>4, <1>5, <1>6, <1>7, <1>8, <1>9, <1>10 DEF Next, Over, Faults

-----------------------------------------------------------------------------
(* The agents.                                                             *)

Sources == [path : Paths \cup {Nobody}, inode : 0..MaxVersion, version : Bytes]
Items == [item : {"directory", "file", "trailer"}, bytes : Bytes]
AgentStates ==
  [phase : Phases, path : Paths \cup {Nobody}, seen : Objects \cup {NoObject}, again : 0..MaxVersion,
   first : Seq(Bytes), read : Seq(Bytes), open : Sources, since : 0..MaxVersion, wire : Seq(Items),
   ack : {"none", "commit"}, link : {"up", "cut"}, removed : BOOLEAN]

AgentsInv ==
  /\ agent \in [Agents -> AgentStates]
  /\ \A k \in Agents :
       /\ agent[k].phase # "none" => agent[k].path \in Paths
       /\ k > command => agent[k] = Idle
       /\ agent[k].phase \in {"stream", "verify"} => Len(agent[k].read) <= Expected(k)
       /\ agent[k].phase \in {"stream", "verify"} /\ agent[k].open # NoSource =>
            Len(agent[k].read) < Expected(k) /\ agent[k].open.version \in 1..MaxVersion
       /\ agent[k].phase = "acknowledge" => agent[k].read = <<>> /\ agent[k].open = NoSource

LEMMA AgentNumbers == \A k \in Agents : k \in Nat /\ k > 0
<1>1. MaxCommands \in Nat BY RecoveryAssumption
<1> QED BY <1>1 DEF Agents

LEMMA ByteFacts ==
  /\ 1..MaxVersion \subseteq Bytes /\ Torn \in Bytes /\ Rot \in Bytes /\ Short \in Bytes
  /\ Torn \notin 1..MaxVersion /\ Rot \notin 1..MaxVersion /\ Short \notin 1..MaxVersion
  /\ MaxVersion \in Nat /\ MaxVersion > 0
  BY CatalogAssumption DEF Bytes, Torn, Rot, Short

LEMMA IdleTyped == Idle \in AgentStates /\ NoSource \in Sources
<1>1. NoSource \in Sources BY ByteFacts DEF NoSource, Sources, Torn
<1> QED BY <1>1, ByteFacts DEF Idle, AgentStates, Phases

LEMMA AgentsInit == Init => AgentsInv
<1>1. SUFFICES ASSUME Init PROVE AgentsInv OBVIOUS
<1>2. agent = [k \in Agents |-> Idle] BY <1>1 DEF Init, Agents
<1> QED BY <1>2, IdleTyped DEF AgentsInv, Idle

\* One agent changes.
LEMMA AgentChanges ==
  ASSUME AgentsInv, setting' = setting, command' = command, command \in Nat, NEW k \in Agents, k <= command, NEW a \in AgentStates,
         AgentBecomes(k, a), a.phase # "none" => a.path \in Paths,
         a.phase \in {"stream", "verify"} => Len(a.read) <= FilesOf(setting.kind[a.path]),
         a.phase \in {"stream", "verify"} /\ a.open # NoSource =>
            Len(a.read) < FilesOf(setting.kind[a.path]) /\ a.open.version \in 1..MaxVersion,
         a.phase = "acknowledge" => a.read = <<>> /\ a.open = NoSource
  PROVE  AgentsInv'
<1>1. agent' = [agent EXCEPT ![k] = a] /\ agent \in [Agents -> AgentStates] BY DEF AgentBecomes, AgentsInv
<1>2. agent'[k] = a /\ \A j \in Agents : j # k => agent'[j] = agent[j] BY <1>1
<1>3. agent' \in [Agents -> AgentStates] BY <1>1
<1>4. ASSUME NEW j \in Agents
      PROVE  /\ agent'[j].phase # "none" => agent'[j].path \in Paths
             /\ j > command' => agent'[j] = Idle
             /\ agent'[j].phase \in {"stream", "verify"} => Len(agent'[j].read) <= FilesOf(setting'.kind[agent'[j].path])
             /\ agent'[j].phase \in {"stream", "verify"} /\ agent'[j].open # NoSource =>
                  Len(agent'[j].read) < FilesOf(setting'.kind[agent'[j].path]) /\ agent'[j].open.version \in 1..MaxVersion
             /\ agent'[j].phase = "acknowledge" => agent'[j].read = <<>> /\ agent'[j].open = NoSource
  <2>1. CASE j = k
    <3>1. ~(j > command') BY <2>1, AgentNumbers
    <3> QED BY <1>2, <2>1, <3>1
  <2>2. CASE j # k BY <1>2, <2>2 DEF AgentsInv, Expected
  <2> QED BY <2>1, <2>2
<1> QED BY <1>3, <1>4 DEF AgentsInv, Expected

LEMMA AgentsStay ==
  ASSUME AgentsInv, UNCHANGED <<setting, agent>>, command' = command \/ command' = command + 1, command \in Nat
  PROVE  AgentsInv'
<1>1. \A k \in Agents : k > command' => k > command BY AgentNumbers
<1> QED BY <1>1 DEF AgentsInv, Expected

\* What an agent is to be when a step begins.
LEMMA AgentFacts ==
  ASSUME AgentsInv, NEW k \in Agents
  PROVE  /\ agent[k] \in AgentStates /\ agent[k].read \in Seq(Bytes) /\ agent[k].wire \in Seq(Items)
         /\ Len(agent[k].read) \in Nat /\ Len(agent[k].wire) \in Nat
<1>1. agent[k] \in AgentStates BY DEF AgentsInv
<1> QED BY <1>1 DEF AgentStates

\* An agent whose phase is not "none" belongs to a command that was started.
LEMMA AgentStarted ==
  ASSUME CommandInv, AgentsInv, NEW k \in Agents, agent[k].phase # "none" PROVE k <= command
<1>1. command \in Nat /\ k \in Int BY ScriptPosition, AgentNumbers
<1> QED BY <1>1 DEF AgentsInv, Idle

LEMMA CommandIsAgent == ASSUME CommandInv, pc # "idle" PROVE command \in Agents /\ command \in Nat
<1>1. command \in Nat /\ command <= Len(setting.script) /\ command > 0 BY ScriptPosition DEF CommandInv
<1>2. Len(setting.script) \in 1..MaxCommands /\ MaxCommands \in Nat BY ScriptFacts DEF CommandInv
<1> QED BY <1>1, <1>2 DEF Agents

LEMMA TrailerTyped == ASSUME NEW a \in AgentStates PROVE Sent(a, Trailer) \in Seq(Items)
<1>1. a.wire \in Seq(Items) BY DEF AgentStates
<1>2. Trailer \in Items BY ByteFacts DEF Items, Trailer
<1> QED BY <1>1, <1>2 DEF Sent

LEMMA ItemTyped ==
  ASSUME NEW a \in AgentStates, NEW b \in Bytes
  PROVE  /\ Sent(a, [item |-> "file", bytes |-> b]) \in Seq(Items)
         /\ Sent(a, [item |-> "directory", bytes |-> b]) \in Seq(Items)
<1>1. a.wire \in Seq(Items) BY DEF AgentStates
<1>2. [item |-> "file", bytes |-> b] \in Items /\ [item |-> "directory", bytes |-> b] \in Items
  BY DEF Items
<1> QED BY <1>1, <1>2 DEF Sent

\* The first record with another value in one field is one of the type.
LEMMA AgentFields ==
  ASSUME NEW a \in AgentStates
  PROVE  /\ \A v \in Phases : [a EXCEPT !.phase = v] \in AgentStates
         /\ \A v \in Seq(Items) : [a EXCEPT !.wire = v] \in AgentStates
         /\ \A v \in {"none", "commit"} : [a EXCEPT !.ack = v] \in AgentStates
         /\ \A v \in Seq(Bytes) : [a EXCEPT !.read = v] \in AgentStates
         /\ \A v \in Sources : [a EXCEPT !.open = v] \in AgentStates
         /\ \A v \in 0..MaxVersion : [a EXCEPT !.since = v] \in AgentStates
         /\ [a EXCEPT !.link = "cut"] \in AgentStates
  BY DEF AgentStates

LEMMA LoserFacts ==
  ASSUME CommandInv, EndsInv, AgentsInv, NEW k \in Agents, agent[k].phase # "none"
  PROVE  /\ agent[k].path \in Paths /\ Loser(k) \in Objects \cup {NoObject}
         /\ Expected(k) \in 1..Files
         /\ Exists(Loser(k)) => /\ Loser(k) \in ObjectsAt(agent[k].path) /\ Loser(k).inode \in 0..MaxVersion
                                /\ Loser(k).files \in Seq(1..MaxVersion) /\ Len(Loser(k).files) = Expected(k)
<1>1. agent[k].path \in Paths BY DEF AgentsInv
<1>2. Loser(k) \in ObjectsAt(agent[k].path) \cup {NoObject} BY <1>1 DEF EndsInv, Loser, Endpoints
<1>3. setting \in Settings BY DEF CommandInv
<1> QED BY <1>1, <1>2, <1>3, KindFacts DEF Exists, ObjectsAt, Expected

LEMMA AgentOpensKeeps ==
  ASSUME CommandInv, EndsInv, AgentsInv, NEW k \in Agents, AgentOpens(k) PROVE AgentsInv'
<1> DEFINE a == agent[k]
           o == Loser(k)
<1>1. /\ a.phase \in {"stream", "verify"} /\ a.phase # "none" /\ Len(a.read) < Expected(k)
      /\ UNCHANGED <<setting, command>>
  BY DEF AgentOpens, OnlyAgents
<1>2. a \in AgentStates /\ a.path \in Paths /\ k <= command /\ command \in Nat
  BY <1>1, AgentFacts, AgentStarted, ScriptPosition DEF AgentsInv
<1>3. CASE ~LoserThere(k)
  <2> DEFINE b == [a EXCEPT !.phase = "failed"]
  <2>1. AgentBecomes(k, b) BY <1>3 DEF AgentOpens
  <2>2. b \in AgentStates /\ b.phase = "failed" /\ b.path = a.path BY <1>2 DEF AgentStates, Phases
  <2> HIDE DEF b
  <2> QED BY <1>1, <1>2, <2>1, <2>2, AgentChanges
<1>4. CASE LoserThere(k)
  <2> DEFINE src == Observed(o, Len(a.read) + 1, a.path)
             seen == IF a.phase = "stream" /\ a.read = <<>> THEN o ELSE a.seen
             again == IF a.phase = "verify" /\ a.read = <<>> THEN o.inode ELSE a.again
             wire == IF a.phase = "stream" /\ a.read = <<>> /\ Expected(k) > 1
                     THEN Sent(a, [item |-> "directory", bytes |-> Torn]) ELSE a.wire
             b == [a EXCEPT !.open = src, !.seen = seen, !.again = again, !.wire = wire]
  <2>1. AgentBecomes(k, b) BY <1>4 DEF AgentOpens
  <2>2. o \in Objects /\ o.inode \in 0..MaxVersion /\ o.files \in Seq(1..MaxVersion) /\ Len(o.files) = Expected(k)
    BY <1>1, <1>4, LoserFacts DEF LoserThere, Exists
  <2>3. Len(a.read) + 1 \in 1..Len(o.files)
    <3>1. Expected(k) \in 1..Files BY <1>1, LoserFacts
    <3>2. Len(a.read) \in Nat BY AgentFacts
    <3> QED BY <1>1, <2>2, <3>1, <3>2 DEF Files
  <2>4. o.files[Len(a.read) + 1] \in 1..MaxVersion BY <2>2, <2>3, ElementsTyped
  <2>5. src \in Sources /\ src.version \in 1..MaxVersion BY <1>2, <2>2, <2>4, ByteFacts DEF Observed, Sources
  <2>6. seen \in Objects \cup {NoObject} /\ again \in 0..MaxVersion BY <1>2, <2>2 DEF AgentStates
  <2>7. wire \in Seq(Items) BY <1>2, ByteFacts, ItemTyped DEF AgentStates
  <2> HIDE DEF src, seen, again, wire
  <2>8. b \in AgentStates /\ b.phase = a.phase /\ b.path = a.path /\ b.read = a.read /\ b.open = src
    BY <1>2, <2>5, <2>6, <2>7 DEF AgentStates
  <2> HIDE DEF b
  <2> QED BY <1>1, <1>2, <2>1, <2>5, <2>8, AgentChanges DEF Expected, AgentsInv
<1> QED BY <1>3, <1>4

LEMMA AgentReadsKeeps ==
  ASSUME CommandInv, EndsInv, AgentsInv, NEW k \in Agents, AgentReads(k) PROVE AgentsInv'
<1> DEFINE a == agent[k]
           o == Loser(k)
           i == Len(a.read) + 1
           v == ReadOf(o, i, a.open)
           sent == IF a.phase = "stream" THEN Sent(a, [item |-> "file", bytes |-> v]) ELSE a.wire
<1>1. /\ a.phase \in {"stream", "verify"} /\ a.open # NoSource /\ UNCHANGED <<setting, command>>
  BY DEF AgentReads, OnlyAgents
<1>2. a \in AgentStates /\ a.path \in Paths /\ k <= command /\ command \in Nat
  BY <1>1, AgentFacts, AgentStarted, ScriptPosition DEF AgentsInv
<1>3. a.open.version \in 1..MaxVersion /\ Len(a.read) < Expected(k) BY <1>1 DEF AgentsInv
<1>4. v \in Bytes BY <1>3, ByteFacts DEF ReadOf
<1>5. sent \in Seq(Items) BY <1>2, <1>4, ItemTyped DEF AgentStates
<1>6. Append(a.read, v) \in Seq(Bytes) /\ Len(Append(a.read, v)) = Len(a.read) + 1 BY <1>4, AgentFacts
<1>7. AgentBecomes(k, IF Changed(o, i, a.open)
                      THEN [a EXCEPT !.phase = "failed", !.open = NoSource, !.wire = sent]
                      ELSE [a EXCEPT !.read = Append(@, v), !.open = NoSource, !.wire = sent])
  BY DEF AgentReads, Broken
<1> HIDE DEF v, sent
<1>8. CASE Changed(o, i, a.open)
  <2> DEFINE b == [a EXCEPT !.phase = "failed", !.open = NoSource, !.wire = sent]
  <2>1. AgentBecomes(k, b) BY <1>7, <1>8
  <2>2. b \in AgentStates /\ b.phase = "failed" /\ b.path = a.path
    BY <1>2, <1>5, IdleTyped DEF AgentStates, Phases
  <2> HIDE DEF b
  <2> QED BY <1>1, <1>2, <2>1, <2>2, AgentChanges
<1>9. CASE ~Changed(o, i, a.open)
  <2> DEFINE b == [a EXCEPT !.read = Append(@, v), !.open = NoSource, !.wire = sent]
  <2>1. AgentBecomes(k, b) BY <1>7, <1>9
  <2>2. b \in AgentStates /\ b.phase = a.phase /\ b.path = a.path /\ b.open = NoSource /\ b.read = Append(a.read, v)
    BY <1>2, <1>5, <1>6, IdleTyped DEF AgentStates
  <2>3. Len(b.read) <= FilesOf(setting.kind[b.path])
    <3>1. Expected(k) \in Nat /\ Len(a.read) \in Nat
      <4>1. Expected(k) \in 1..Files BY <1>1, LoserFacts
      <4> QED BY <4>1, AgentFacts DEF Files
    <3> QED BY <1>3, <1>6, <2>2, <3>1 DEF Expected
  <2> HIDE DEF b
  <2> QED BY <1>1, <1>2, <2>1, <2>2, <2>3, AgentChanges
<1> QED BY <1>8, <1>9

\* The agent's phases without a reading.
LEMMA AgentPhasesKeep ==
  ASSUME CommandInv, EndsInv, AgentsInv, NEW k \in Agents,
         AgentFinishes(k) \/ AgentInterrupted(k) \/ AgentAcknowledged(k) \/ AgentVerifies(k) \/ AgentInspects(k)
         \/ AgentRemoves(k)
  PROVE  AgentsInv'
<1> DEFINE a == agent[k]
<1>1. a.phase # "none" /\ UNCHANGED <<setting, command>>
  BY DEF AgentFinishes, AgentInterrupted, AgentAcknowledged, AgentVerifies, AgentInspects, AgentRemoves, OnlyAgents
<1>2. a \in AgentStates /\ a.path \in Paths /\ k <= command /\ command \in Nat
  BY <1>1, AgentFacts, AgentStarted, ScriptPosition DEF AgentsInv
<1>3. clock \in 0..MaxVersion
  <2>1. clock \in 3..MaxVersion /\ MaxVersion \in Nat BY ClockBounded, CatalogAssumption DEF CommandInv
  <2> QED BY <2>1
<1>4. ASSUME NEW phase \in {"failed", "inspect"}, AgentBecomes(k, [a EXCEPT !.phase = phase]) PROVE AgentsInv'
  <2> DEFINE b == [a EXCEPT !.phase = phase]
  <2>1. b \in AgentStates /\ b.phase = phase /\ b.path = a.path BY <1>2 DEF AgentStates, Phases
  <2>2. AgentBecomes(k, b) BY <1>4
  <2> HIDE DEF b
  <2> QED BY <1>1, <1>2, <2>1, <2>2, AgentChanges
<1>5. CASE AgentFinishes(k)
  <2> DEFINE b == [a EXCEPT !.phase = "acknowledge", !.first = a.read, !.read = <<>>, !.wire = Sent(a, Trailer)]
  <2>1. AgentBecomes(k, b) BY <1>5 DEF AgentFinishes
  <2>2. Sent(a, Trailer) \in Seq(Items) BY <1>2, TrailerTyped
  <2>4. a.open = NoSource /\ a.read \in Seq(Bytes) /\ <<>> \in Seq(Bytes)
    BY <1>2, <1>5 DEF AgentStates, AgentFinishes
  <2>3. /\ b \in AgentStates /\ b.phase = "acknowledge" /\ b.path = a.path
        /\ b.read = <<>> /\ b.open = NoSource
    <3> HIDE DEF a
    <3>1. "acknowledge" \in Phases BY DEF Phases
    <3> QED BY <1>2, <2>2, <2>4, <3>1 DEF AgentStates
  <2> HIDE DEF b
  <2> QED BY <1>1, <1>2, <2>1, <2>3, AgentChanges
<1>6. CASE AgentInterrupted(k) BY <1>4, <1>6 DEF AgentInterrupted
<1>7. CASE AgentAcknowledged(k)
  <2>1. CASE AgentBecomes(k, [a EXCEPT !.phase = "verify", !.since = clock])
    <3> DEFINE b == [a EXCEPT !.phase = "verify", !.since = clock]
    <3>1. b \in AgentStates /\ b.phase = "verify" /\ b.path = a.path /\ b.read = a.read /\ b.open = a.open
      BY <1>2, <1>3 DEF AgentStates, Phases
    <3>2. AgentBecomes(k, b) BY <2>1
    <3>3. a.read = <<>> /\ a.open = NoSource
      BY <1>7 DEF AgentAcknowledged, AgentsInv
    <3> HIDE DEF b
    <3>4. Len(b.read) <= FilesOf(setting.kind[b.path])
      <4>1. Expected(k) \in 1..Files BY <1>1, LoserFacts
      <4> QED BY <3>1, <3>3, <4>1 DEF Files, Expected
    <3> QED BY <1>1, <1>2, <3>1, <3>2, <3>3, <3>4, AgentChanges
  <2> QED BY <1>4, <1>7, <2>1 DEF AgentAcknowledged
<1>8. CASE AgentVerifies(k) BY <1>4, <1>8 DEF AgentVerifies
<1>9. CASE AgentInspects(k)
  <2> DEFINE since0 == IF a.seen.kind = "regular" THEN clock ELSE a.since
             b == [a EXCEPT !.phase = "remove", !.since = since0]
  <2>1. CASE AgentBecomes(k, b)
    <3>1. since0 \in 0..MaxVersion BY <1>2, <1>3 DEF AgentStates
    <3> HIDE DEF since0
    <3>2. b \in AgentStates /\ b.phase = "remove" /\ b.path = a.path BY <1>2, <3>1 DEF AgentStates, Phases
    <3> HIDE DEF b
    <3> QED BY <1>1, <1>2, <2>1, <3>2, AgentChanges
  <2>2. CASE ~AgentBecomes(k, b) BY <1>4, <1>9, <2>2 DEF AgentInspects
  <2> QED BY <2>1, <2>2
<1>10. CASE AgentRemoves(k)
  <2> DEFINE b == [a EXCEPT !.phase = "done", !.removed = TRUE]
  <2>1. AgentBecomes(k, b) BY <1>10 DEF AgentRemoves
  <2>2. b \in AgentStates /\ b.phase = "done" /\ b.path = a.path BY <1>2 DEF AgentStates, Phases
  <2> HIDE DEF b
  <2> QED BY <1>1, <1>2, <2>1, <2>2, AgentChanges
<1> QED BY <1>5, <1>6, <1>7, <1>8, <1>9, <1>10

LEMMA TookKeepsAgents ==
  ASSUME CommandInv, AgentsInv, UNCHANGED <<setting, command>>, pc # "idle", Stream.wire # <<>>, Took PROVE AgentsInv'
<1> DEFINE b == [Stream EXCEPT !.wire = Tail(@)]
<1>1. command \in Agents /\ command \in Nat BY CommandIsAgent
<1>2. Stream \in AgentStates BY <1>1, AgentFacts DEF Stream
<1>3. Tail(Stream.wire) \in Seq(Items) BY <1>2 DEF AgentStates
<1>4. /\ b \in AgentStates /\ b.phase = Stream.phase /\ b.path = Stream.path /\ b.read = Stream.read
      /\ b.open = Stream.open
  BY <1>2, <1>3 DEF AgentStates
<1>5. AgentBecomes(command, b) BY DEF Took
<1> HIDE DEF b
<1> QED BY <1>1, <1>4, <1>5, AgentChanges DEF AgentsInv, Expected, Stream

LEMMA AgentsStep ==
  ASSUME CommandInv, EndsInv, LocalsInv, AgentsInv, [Next]_vars PROVE AgentsInv'
<1>0. command \in Nat BY ScriptPosition
<1>1. CASE Start BY <1>0, <1>1, AgentsStay DEF Start
<1>2. CASE NextPath
  <2> DEFINE b == [Idle EXCEPT !.phase = "stream", !.path = Path]
  <2>1. CASE todo # <<>> /\ Prefer = "local"
    <3>1. AgentBecomes(command, b) /\ pc = "next" /\ UNCHANGED <<setting, command>>
      BY <1>2, <2>1 DEF NextPath, AgentBecomes
    <3>2. command \in Agents BY <3>1, CommandIsAgent
    <3>3. Path \in Paths BY <2>1, TailKeepsPaths DEF LocalsInv
    <3>4. b \in AgentStates /\ b.phase = "stream" /\ b.path = Path /\ b.read = <<>> /\ b.open = NoSource
      <4>1. [Idle EXCEPT !.phase = "stream"] \in AgentStates BY IdleTyped, AgentFields DEF Phases
      <4> QED BY <3>3, <4>1, IdleTyped DEF AgentStates, Idle
    <3>5. Len(b.read) <= FilesOf(setting.kind[b.path])
      <4>1. FilesOf(setting.kind[Path]) \in 1..Files BY <3>3, KindFacts DEF CommandInv
      <4> QED BY <3>4, <4>1 DEF Files
    <3> HIDE DEF b
    <3> QED BY <1>0, <3>1, <3>2, <3>3, <3>4, <3>5, AgentChanges
  <2>2. CASE ~(todo # <<>> /\ Prefer = "local")
    <3>1. UNCHANGED <<setting, agent, command>> BY <1>2, <2>2 DEF NextPath
    <3> QED BY <1>0, <3>1, AgentsStay
  <2> QED BY <2>1, <2>2
<1>3. CASE ExtractOpens
  <2>1. pc # "idle" /\ Stream.wire # <<>> /\ UNCHANGED <<setting, command>> /\ (Took \/ UNCHANGED agent)
    BY <1>3 DEF ExtractOpens, ByClient
  <2> QED BY <1>0, <2>1, TookKeepsAgents, AgentsStay
<1>4. CASE ExtractWrites \/ ExtractEnds
  <2>1. pc # "idle" /\ UNCHANGED <<setting, command>> /\ ((Stream.wire # <<>> /\ Took) \/ UNCHANGED agent)
    BY <1>4 DEF ExtractWrites, ExtractEnds, ByClient
  <2> QED BY <1>0, <2>1, TookKeepsAgents, AgentsStay
<1>5. CASE Acknowledge
  <2>1. CASE Stream.link = "up"
    <3> DEFINE b == [Stream EXCEPT !.ack = "commit"]
    <3>1. command \in Agents /\ AgentBecomes(command, b) /\ UNCHANGED <<setting, command>>
      BY <1>5, <2>1, CommandIsAgent DEF Acknowledge, ByClient
    <3>2. Stream \in AgentStates BY <3>1, AgentFacts DEF Stream
    <3>3. /\ b \in AgentStates /\ b.phase = Stream.phase /\ b.path = Stream.path /\ b.read = Stream.read
          /\ b.open = Stream.open
      BY <3>2 DEF AgentStates
    <3> HIDE DEF b
    <3> QED BY SMTT(60), <1>0, <3>1, <3>3, AgentChanges DEF AgentsInv, Expected, Stream
  <2>2. CASE Stream.link # "up" BY <1>0, <1>5, <2>2, AgentsStay DEF Acknowledge, ByClient
  <2> QED BY <2>1, <2>2
<1>6. CASE Client /\ ~NextPath /\ ~ExtractOpens /\ ~ExtractWrites /\ ~ExtractEnds /\ ~Acknowledge
  BY <1>0, <1>6, AgentsStay DEF Client, Resolving, Pruning, Reading, Preflight, ResolveLocked, CopyOpens, CopyReads,
     CopySynced, Record, FileManifest, RemoveLocal, ResolveBarrier, ExtractTruncated, Await, ByClient, PruneSelect,
     CleanTombstone, PruneStops, PruneCleaned, PruneHides, PruneStages, PruneReclaims, PruneSettles, PruneEnds, ByPrune, OnlyPrune,
     RestoreFinds, RestoreCopies, RestoreCompares, VerifyBegins, VerifyNext, VerifyEnds, ByReader
<1>7. ASSUME NEW k \in Agents, AgentSteps(k) PROVE AgentsInv'
  BY <1>7, AgentOpensKeeps, AgentReadsKeeps, AgentPhasesKeep DEF AgentSteps
<1>8. CASE Cancel \/ Crash \/ Rots BY <1>0, <1>8, AgentsStay DEF Cancel, Crash, Rots
<1>9. CASE PowerLoss
  <2>1. /\ agent' = [k \in Agents |-> IF agent[k].phase = "none" THEN agent[k] ELSE [agent[k] EXCEPT !.link = "cut"]]
        /\ UNCHANGED <<setting, command>>
    BY <1>9 DEF PowerLoss
  <2>2. ASSUME NEW k \in Agents
        PROVE  /\ agent'[k] \in AgentStates /\ agent'[k].phase = agent[k].phase /\ agent'[k].path = agent[k].path
               /\ agent'[k].read = agent[k].read /\ agent'[k].open = agent[k].open
               /\ agent[k] = Idle => agent'[k] = Idle
    <3>1. agent[k] \in AgentStates BY AgentFacts
    <3>2. [agent[k] EXCEPT !.link = "cut"] \in AgentStates BY <3>1, AgentFields
    <3> QED BY <2>1, <3>1, <3>2 DEF AgentStates, Idle
  <2>3. agent' \in [Agents -> AgentStates] BY <2>1, <2>2
  <2> QED BY <2>1, <2>2, <2>3 DEF AgentsInv, Expected
<1>10. ASSUME NEW k \in Agents, Cut(k) PROVE AgentsInv'
  <2>1. PICK ack \in {agent[k].ack, "none"}, n \in 0..Len(agent[k].wire) :
          AgentBecomes(k, [agent[k] EXCEPT !.link = "cut", !.ack = ack, !.wire = SubSeq(@, 1, n)])
    BY <1>10 DEF Cut
  <2> DEFINE b == [agent[k] EXCEPT !.link = "cut", !.ack = ack, !.wire = SubSeq(@, 1, n)]
  <2>2. agent[k] \in AgentStates /\ k <= command /\ UNCHANGED <<setting, command>>
    BY <1>10, AgentFacts, AgentStarted DEF Cut
  <2>3. SubSeq(agent[k].wire, 1, n) \in Seq(Items) BY AgentFacts
  <2>4. /\ b \in AgentStates /\ b.phase = agent[k].phase /\ b.path = agent[k].path /\ b.read = agent[k].read
        /\ b.open = agent[k].open
    BY <2>2, <2>3 DEF AgentStates
  <2>5. AgentBecomes(k, b) BY <2>1
  <2> HIDE DEF b
  <2> QED BY <1>0, <2>2, <2>4, <2>5, AgentChanges DEF AgentsInv, Expected
<1>11. CASE Users
  <2>1. UNCHANGED <<setting, command, agent>> BY <1>11, UsersLeaveControl DEF Control
  <2> QED BY <1>0, <2>1, AgentsStay
<1>12. CASE UNCHANGED vars BY <1>0, <1>12, AgentsStay DEF vars
<1> QED BY <1>1, <1>2, <1>3, <1>4, <1>5, <1>6, <1>7, <1>8, <1>9, <1>10, <1>11, <1>12 DEF Next, Over, Faults

-----------------------------------------------------------------------------
(* What was reported preserved.  An agent goes on to the removal only with  *)
(* an acknowledgement, which the client gives once per path and after which *)
(* it reports the outcome as unknown unless the removal is confirmed.       *)

Acked(k) == agent[k].phase \in {"verify", "inspect", "remove", "done"} \/ agent[k].removed \/ agent[k].ack = "commit"
AfterAcks == {"await", "next", "barrier"}
AckedOutcomes == {"uncertain", "crashed", "resolved", "unhealthy"}

PreservedInv ==
  \A k \in Agents :
    /\ Acked(k) => outcome[k] \in AckedOutcomes \/ (k = command /\ pc \in AfterAcks)
    /\ agent[k].phase = "done" => agent[k].removed
    /\ agent[k] = Idle \/ setting.script[k] = "prefer local"
    /\ k = command /\ Kind = "prefer local" /\ (pc = "barrier" \/ (pc = "next" /\ todo = <<>>)) => agent[k].removed
    /\ outcome[k] = "resolved" /\ setting.script[k] = "prefer local" => agent[k].removed

LEMMA PreservedInit == Init => PreservedInv
  BY DEF Init, PreservedInv, Acked, Idle, Agents

\* What the agents' steps do to what is reported: nothing is acknowledged, nothing put back.
Calm == \A k \in Agents : /\ Acked(k)' => Acked(k)
                          /\ agent[k].removed => agent'[k].removed
                          /\ agent'[k].phase = "done" => agent'[k].removed
                          /\ agent'[k] = Idle \/ setting.script[k] = "prefer local"

LEMMA SameAgentsCalm == ASSUME PreservedInv, agent' = agent PROVE Calm
  BY DEF PreservedInv, Calm, Acked

LEMMA OneAgentCalm ==
  ASSUME PreservedInv, AgentsInv, NEW j \in Agents, NEW a, AgentBecomes(j, a), agent[j] # Idle,
         a.phase \in {"verify", "inspect", "remove", "done"} \/ a.removed \/ a.ack = "commit" => Acked(j),
         agent[j].removed => a.removed, a.phase = "done" => a.removed
  PROVE  Calm
<1>1. agent'[j] = a /\ \A k \in Agents : k # j => agent'[k] = agent[k] BY DEF AgentBecomes, AgentsInv
<1> QED BY <1>1 DEF PreservedInv, Calm, Acked

LEMMA PreservedGoes ==
  ASSUME PreservedInv, CommandInv, Calm, UNCHANGED <<setting, command, outcome>>,
         command \in Agents /\ Acked(command) /\ pc \in AfterAcks => pc' \in AfterAcks,
         command \in Agents /\ Kind = "prefer local" /\ (pc' = "barrier" \/ (pc' = "next" /\ todo' = <<>>)) =>
           agent[command].removed
  PROVE  PreservedInv'
  BY DEF PreservedInv, Calm, Kind, Acked

LEMMA PreservedEnds ==
  ASSUME PreservedInv, CommandInv, Calm, UNCHANGED <<setting, command>>, NEW result, Finish(result), command \in Agents,
         Acked(command) => result \in AckedOutcomes,
         result = "resolved" /\ Kind = "prefer local" => agent[command].removed
  PROVE  PreservedInv'
<1>1. pc' = "idle" /\ outcome' = [outcome EXCEPT ![command] = result] BY DEF Finish
<1>2. outcome'[command] = result /\ \A k \in Agents : k # command => outcome'[k] = outcome[k]
  BY <1>1 DEF CommandInv
<1> QED BY ZenonT(60), <1>1, <1>2 DEF PreservedInv, Calm, Kind, Acked

\* Before its acknowledgement, the running command is not acknowledged.
LEMMA NotYetAcked ==
  ASSUME PreservedInv, CommandInv, pc # "idle", pc \notin AfterAcks PROVE ~Acked(command) /\ command \in Agents
<1>1. command \in Agents /\ outcome[command] = "none" BY CommandIsAgent DEF CommandInv
<1> QED BY <1>1 DEF PreservedInv, AckedOutcomes

LEMMA TookIsCalm ==
  ASSUME CommandInv, AgentsInv, PreservedInv, pc # "idle", Stream.wire # <<>>, Took PROVE Calm
<1> DEFINE b == [Stream EXCEPT !.wire = Tail(@)]
<1>1. command \in Agents BY CommandIsAgent
<1>2. Stream \in AgentStates /\ Stream = agent[command] BY <1>1, AgentFacts DEF Stream
<1>3. b.phase = Stream.phase /\ b.removed = Stream.removed /\ b.ack = Stream.ack BY <1>2 DEF AgentStates
<1>4. AgentBecomes(command, b) BY DEF Took
<1>5. agent[command] # Idle BY <1>2 DEF Idle
<1> HIDE DEF b
<1> QED BY <1>1, <1>2, <1>3, <1>4, <1>5, OneAgentCalm DEF PreservedInv, Acked

LEMMA PreservedResolving ==
  ASSUME CommandInv, LocalsInv, AgentsInv, AgentsInv', PreservedInv, Resolving PROVE PreservedInv'
<1>a. command \in Agents /\ pc # "idle"
  <2>1. pc # "idle"
    BY DEF Resolving, Preflight, ResolveLocked, NextPath, CopyOpens, CopyReads, CopySynced, Record, FileManifest,
       RemoveLocal, ResolveBarrier, ExtractOpens, ExtractWrites, ExtractEnds, ExtractTruncated, Acknowledge, Await
  <2> QED BY <2>1, CommandIsAgent
<1>b. pc \notin AfterAcks => ~Acked(command) BY <1>a, NotYetAcked
<1>c. agent' = agent => Calm BY SameAgentsCalm
<1> USE DEF locals, Goto
<1>1. CASE Preflight
  BY <1>1, <1>a, <1>b, <1>c, PreservedGoes, PreservedEnds DEF Preflight, AfterAcks
<1>2. CASE ResolveLocked
  <2>1. UNCHANGED <<setting, command, agent>> /\ pc = "lock" BY <1>2 DEF ResolveLocked
  <2>2. CASE Finish("refused") BY <1>a, <1>b, <1>c, <2>1, <2>2, PreservedEnds DEF AfterAcks
  <2>3. CASE ~Finish("refused")
    <3>1. pc' = "next" /\ outcome' = outcome /\ todo' = todo BY <1>2, <2>3 DEF ResolveLocked
    <3>2. todo # <<>> BY <2>1 DEF LocalsInv, WithPath
    <3> QED BY <1>a, <1>b, <1>c, <2>1, <3>1, <3>2, PreservedGoes DEF AfterAcks
  <2> QED BY <2>2, <2>3
<1>3. CASE NextPath
  <2>0. UNCHANGED <<setting, command>> /\ pc = "next" BY <1>3 DEF NextPath
  <2>1. CASE todo = <<>>
    <3>1. pc' = "barrier" /\ outcome' = outcome /\ agent' = agent BY <1>3, <2>1 DEF NextPath
    <3>2. Kind = "prefer local" => agent[command].removed BY <1>a, <2>0, <2>1 DEF PreservedInv
    <3> QED BY <1>c, <2>0, <3>1, <3>2, PreservedGoes DEF AfterAcks
  <2>2. CASE todo # <<>> /\ Prefer = "local"
    <3> DEFINE b == [Idle EXCEPT !.phase = "stream", !.path = Path]
    <3>1. AgentBecomes(command, b) /\ pc' = "extract" /\ outcome' = outcome
      BY <1>3, <2>2 DEF NextPath, AgentBecomes
    <3>2. agent'[command] = b /\ \A k \in Agents : k # command => agent'[k] = agent[k]
      BY <1>a, <3>1 DEF AgentBecomes, AgentsInv
    <3>3. b.phase = "stream" /\ b.removed = FALSE /\ b.ack = "none" BY DEF Idle
    <3>4. outcome[command] = "none" /\ setting.script[command] = "prefer local"
      <4>1. setting.script[command] \in Resolves BY <2>0 DEF CommandInv, Kind, ResolvePcs, Fills
      <4> QED BY <1>a, <2>2, <4>1 DEF CommandInv, Prefer, Kind, Resolves
    <3> HIDE DEF b
    <3> QED BY <1>a, <2>0, <3>1, <3>2, <3>3, <3>4 DEF PreservedInv, Acked, Kind
  <2>3. CASE todo # <<>> /\ Prefer # "local"
    <3>1. agent' = agent BY <1>3, <2>3 DEF NextPath
    <3>2. Kind # "prefer local" BY <2>3 DEF Prefer
    <3>3. ~Acked(command)
      <4>1. agent[command] = Idle BY <1>a, <3>2 DEF PreservedInv, Kind
      <4>2. Idle.phase = "none" /\ Idle.removed = FALSE /\ Idle.ack = "none" BY DEF Idle
      <4> QED BY <4>1, <4>2 DEF Acked
    <3>4. (pc' = "copy" /\ outcome' = outcome) \/ Finish("failed") BY <1>3, <2>3 DEF NextPath
    <3> QED BY <1>a, <1>c, <2>0, <3>1, <3>2, <3>3, <3>4, PreservedGoes, PreservedEnds
  <2> QED BY <2>1, <2>2, <2>3
<1>4. CASE CopyOpens
  BY <1>4, <1>a, <1>b, <1>c, PreservedGoes, PreservedEnds DEF CopyOpens, CopyFails, Failing, AfterAcks
<1>5. CASE CopyReads
  BY <1>5, <1>a, <1>b, <1>c, PreservedGoes, PreservedEnds DEF CopyReads, CopyFails, Failing, AfterAcks
<1>6. CASE CopySynced
  BY <1>6, <1>a, <1>b, <1>c, PreservedGoes, PreservedEnds DEF CopySynced, Failing, AfterAcks
<1>7. CASE Record
  BY <1>7, <1>a, <1>b, <1>c, PreservedGoes, PreservedEnds DEF Record, Uncatalogued, AfterAcks
<1>8. CASE FileManifest
  BY <1>8, <1>a, <1>b, <1>c, PreservedGoes, PreservedEnds DEF FileManifest, Uncatalogued, AfterRecord, AfterAcks
<1>9. CASE RemoveLocal
  <2>1. UNCHANGED <<setting, command, agent>> /\ pc = "remove" BY <1>9 DEF RemoveLocal
  <2>2. Kind # "prefer local" BY <2>1 DEF CommandInv
  <2> QED BY <1>9, <1>a, <1>b, <1>c, <2>1, <2>2, PreservedGoes, PreservedEnds DEF RemoveLocal, Failing, AfterAcks
<1>10. CASE ResolveBarrier
  <2>1. Kind = "prefer local" => agent[command].removed BY <1>10, <1>a DEF ResolveBarrier, PreservedInv
  <2>2. Finish("resolved") \/ Finish("unhealthy") BY <1>10 DEF ResolveBarrier
  <2>3. UNCHANGED <<setting, command, agent>> BY <1>10 DEF ResolveBarrier
  <2> QED BY <1>a, <1>c, <2>1, <2>2, <2>3, PreservedEnds DEF AckedOutcomes
<1>11. CASE ExtractOpens
  <2>1. UNCHANGED <<setting, command, pc, outcome>> /\ pc = "extract" /\ Stream.wire # <<>> /\ (Took \/ UNCHANGED agent)
    BY <1>11 DEF ExtractOpens, ByClient
  <2>2. Calm BY <1>a, <1>c, <2>1, TookIsCalm
  <2> QED BY <1>a, <1>b, <2>1, <2>2, PreservedGoes DEF AfterAcks
<1>12. CASE ExtractWrites
  <2>1. UNCHANGED <<setting, command>> /\ pc = "extract" /\ ((Stream.wire # <<>> /\ Took) \/ UNCHANGED agent)
    BY <1>12 DEF ExtractWrites, ByClient
  <2>2. Calm BY <1>a, <1>c, <2>1, TookIsCalm
  <2>3. UNCHANGED <<pc, outcome>> \/ Finish("failed") BY <1>12 DEF ExtractWrites, ExtractFails, Failing
  <2> QED BY <1>a, <1>b, <2>1, <2>2, <2>3, PreservedGoes, PreservedEnds DEF AfterAcks
<1>13. CASE ExtractEnds
  <2>1. UNCHANGED <<setting, command>> /\ pc = "extract" /\ ((Stream.wire # <<>> /\ Took) \/ UNCHANGED agent)
    BY <1>13 DEF ExtractEnds, ByClient
  <2>2. Calm BY <1>a, <1>c, <2>1, TookIsCalm
  <2>3. (pc' = "record" /\ UNCHANGED outcome) \/ Finish("failed") BY <1>13 DEF ExtractEnds, ExtractFails, Failing
  <2> QED BY <1>a, <1>b, <2>1, <2>2, <2>3, PreservedGoes, PreservedEnds DEF AfterAcks
<1>14. CASE ExtractTruncated
  BY <1>14, <1>a, <1>b, <1>c, PreservedEnds DEF ExtractTruncated, ByClient, ExtractFails, Failing, AfterAcks
<1>15. CASE Acknowledge
  <2>0. UNCHANGED <<setting, command>> /\ pc = "acknowledge" /\ Kind = "prefer local"
    BY <1>15 DEF Acknowledge, ByClient, CommandInv
  <2>1. CASE Stream.link = "up"
    <3> DEFINE b == [Stream EXCEPT !.ack = "commit"]
    <3>1. AgentBecomes(command, b) /\ pc' = "await" /\ outcome' = outcome BY <1>15, <2>1 DEF Acknowledge
    <3>2. agent'[command] = b /\ \A k \in Agents : k # command => agent'[k] = agent[k]
      BY <1>a, <3>1 DEF AgentBecomes, AgentsInv
    <3>3. Stream \in AgentStates /\ Stream = agent[command] BY <1>a, AgentFacts DEF Stream
    <3>4. b.phase = Stream.phase /\ b.removed = Stream.removed BY <3>3 DEF AgentStates
    <3> HIDE DEF b
    <3> QED BY <1>a, <2>0, <3>1, <3>2, <3>3, <3>4 DEF PreservedInv, Acked, Kind, AfterAcks
  <2>2. CASE Stream.link # "up"
    BY <1>15, <2>0, <2>2, <1>a, <1>b, <1>c, PreservedEnds DEF Acknowledge, AfterAcks
  <2> QED BY <2>1, <2>2
<1>16. CASE Await
  <2>1. UNCHANGED <<setting, command, agent>> BY <1>16 DEF Await, ByClient
  <2>2. CASE Finish("uncertain") BY <1>a, <1>c, <2>1, <2>2, PreservedEnds DEF AckedOutcomes
  <2>3. CASE ~Finish("uncertain")
    <3>1. pc' = "next" /\ outcome' = outcome /\ Stream.phase = "done" BY <1>16, <2>3 DEF Await
    <3>2. agent[command].removed BY <1>a, <3>1 DEF PreservedInv, Stream
    <3> QED BY <1>c, <2>1, <3>1, <3>2, PreservedGoes DEF AfterAcks
  <2> QED BY <2>2, <2>3
<1> QED BY <1>1, <1>2, <1>3, <1>4, <1>5, <1>6, <1>7, <1>8, <1>9, <1>10, <1>11, <1>12, <1>13, <1>14, <1>15, <1>16 DEF Resolving

LEMMA PreservedMaintenance ==
  ASSUME CommandInv, PreservedInv, Pruning \/ Reading PROVE PreservedInv'
<1>1. pc \in PrunePcs \cup RestorePcs \cup VerifyPcs /\ UNCHANGED <<setting, command, agent>>
  BY DEF Pruning, Reading, PruneSelect, CleanTombstone, PruneStops, PruneCleaned, PruneHides, PruneStages, PruneReclaims,
     PruneSettles, PruneEnds, RestoreFinds, RestoreCopies, RestoreCompares, VerifyBegins, VerifyNext, VerifyEnds,
     ByPrune, OnlyPrune, ByReader, PrunePcs, RestorePcs, VerifyPcs
<1>2. pc # "idle" /\ pc \notin AfterAcks BY <1>1 DEF PrunePcs, RestorePcs, VerifyPcs, AfterAcks
<1>3. command \in Agents /\ ~Acked(command) /\ Calm BY <1>1, <1>2, NotYetAcked, SameAgentsCalm
<1>4. ASSUME NEW result, Finish(result), result # "resolved" PROVE PreservedInv'
  BY <1>1, <1>3, <1>4, PreservedEnds
<1>5. ASSUME outcome' = outcome, pc' \in PrunePcs \cup RestorePcs \cup VerifyPcs PROVE PreservedInv'
  <2>1. pc' # "barrier" /\ pc' # "next" BY <1>5 DEF PrunePcs, RestorePcs, VerifyPcs
  <2> QED BY <1>1, <1>3, <1>5, <2>1, PreservedGoes
<1>6. CASE PruneSelect BY <1>6, <1>1, <1>4, <1>5 DEF PruneSelect, Goto, locals, Failing, PrunePcs, RestorePcs, VerifyPcs
<1>7. CASE CleanTombstone BY <1>7, <1>1, <1>4, <1>5 DEF CleanTombstone, Goto, locals, Failing, PrunePcs, RestorePcs, VerifyPcs
<1>8. CASE PruneStops BY <1>8, <1>1, <1>4, <1>5 DEF PruneStops, Goto, locals, Failing, PrunePcs, RestorePcs, VerifyPcs
<1>9. CASE PruneCleaned BY <1>9, <1>1, <1>4, <1>5 DEF PruneCleaned, Goto, locals, Failing, PrunePcs, RestorePcs, VerifyPcs
<1>10. CASE PruneHides BY <1>10, <1>1, <1>4, <1>5 DEF PruneHides, Goto, locals, Failing, PrunePcs, RestorePcs, VerifyPcs
<1>11. CASE PruneStages BY <1>11, <1>1, <1>4, <1>5 DEF PruneStages, Goto, locals, Failing, PrunePcs, RestorePcs, VerifyPcs
<1>12. CASE PruneReclaims BY <1>12, <1>1, <1>4, <1>5 DEF PruneReclaims, Goto, locals, Failing, PrunePcs, RestorePcs, VerifyPcs
<1>13. CASE PruneSettles BY <1>13, <1>1, <1>4, <1>5 DEF PruneSettles, Goto, locals, Failing, PrunePcs, RestorePcs, VerifyPcs
<1>14. CASE PruneEnds BY <1>14, <1>1, <1>4, <1>5 DEF PruneEnds, Goto, locals, Failing, PrunePcs, RestorePcs, VerifyPcs
<1>15. CASE RestoreFinds BY <1>15, <1>1, <1>4, <1>5 DEF RestoreFinds, Goto, locals, Failing, PrunePcs, RestorePcs, VerifyPcs
<1>16. CASE RestoreCopies BY <1>16, <1>1, <1>4, <1>5 DEF RestoreCopies, Goto, locals, Failing, PrunePcs, RestorePcs, VerifyPcs
<1>17. CASE RestoreCompares BY <1>17, <1>1, <1>4, <1>5 DEF RestoreCompares, Goto, locals, Failing, PrunePcs, RestorePcs, VerifyPcs
<1>18. CASE VerifyBegins BY <1>18, <1>1, <1>4, <1>5 DEF VerifyBegins, Goto, locals, Failing, PrunePcs, RestorePcs, VerifyPcs
<1>19. CASE VerifyNext BY <1>19, <1>1, <1>4, <1>5 DEF VerifyNext, Goto, locals, Failing, PrunePcs, RestorePcs, VerifyPcs
<1>20. CASE VerifyEnds BY <1>20, <1>1, <1>4, <1>5 DEF VerifyEnds, Goto, locals, Failing, PrunePcs, RestorePcs, VerifyPcs
<1> QED BY <1>6, <1>7, <1>8, <1>9, <1>10, <1>11, <1>12, <1>13, <1>14, <1>15, <1>16, <1>17, <1>18, <1>19, <1>20 DEF Pruning, Reading

\* An agent's step, as far as its acknowledgement and its removal go.
AgentMoves(a, b) ==
  \/ b.phase = a.phase \/ b.phase = "failed"
  \/ a.phase = "stream" /\ b.phase = "acknowledge"
  \/ a.phase = "acknowledge" /\ a.ack = "commit" /\ b.phase = "verify"
  \/ a.phase = "verify" /\ b.phase = "inspect"
  \/ a.phase = "inspect" /\ b.phase = "remove"

LEMMA AgentMoved ==
  ASSUME AgentsInv, NEW k \in Agents, AgentSteps(k) \/ Cut(k), ~AgentRemoves(k)
  PROVE  \E b : /\ AgentBecomes(k, b) /\ b.removed = agent[k].removed /\ b.ack \in {agent[k].ack, "none"}
                 /\ AgentMoves(agent[k], b)
<1> DEFINE a == agent[k]
<1>0. a \in AgentStates BY AgentFacts
<1>1. ASSUME NEW b, AgentBecomes(k, b), b.removed = a.removed, b.ack \in {a.ack, "none"}, AgentMoves(a, b)
      PROVE  \E c : /\ AgentBecomes(k, c) /\ c.removed = a.removed /\ c.ack \in {a.ack, "none"} /\ AgentMoves(a, c)
  BY <1>1
<1>f. ASSUME AgentBecomes(k, [a EXCEPT !.phase = "failed"])
      PROVE  \E c : /\ AgentBecomes(k, c) /\ c.removed = a.removed /\ c.ack \in {a.ack, "none"} /\ AgentMoves(a, c)
  <2> DEFINE b == [a EXCEPT !.phase = "failed"]
  <2>1. AgentBecomes(k, b) BY <1>f
  <2>2. b.removed = a.removed /\ b.ack = a.ack /\ b.phase = "failed" BY <1>0 DEF AgentStates
  <2> HIDE DEF b
  <2> QED BY <1>1, <2>1, <2>2 DEF AgentMoves
<1>2. CASE AgentOpens(k)
  <2>1. CASE ~LoserThere(k) BY <1>2, <1>f, <2>1 DEF AgentOpens
  <2>2. CASE LoserThere(k)
    <3> DEFINE src == Observed(Loser(k), Len(a.read) + 1, a.path)
               seen == IF a.phase = "stream" /\ a.read = <<>> THEN Loser(k) ELSE a.seen
               again == IF a.phase = "verify" /\ a.read = <<>> THEN Loser(k).inode ELSE a.again
               wire == IF a.phase = "stream" /\ a.read = <<>> /\ Expected(k) > 1
                       THEN Sent(a, [item |-> "directory", bytes |-> Torn]) ELSE a.wire
               b == [a EXCEPT !.open = src, !.seen = seen, !.again = again, !.wire = wire]
    <3>1. AgentBecomes(k, b) BY <1>2, <2>2 DEF AgentOpens
    <3> HIDE DEF src, seen, again, wire
    <3>2. b.removed = a.removed /\ b.ack = a.ack /\ b.phase = a.phase BY <1>0 DEF AgentStates
    <3> HIDE DEF b
    <3> QED BY <1>1, <3>1, <3>2 DEF AgentMoves
  <2> QED BY <2>1, <2>2
<1>3. CASE AgentReads(k)
  <2> DEFINE o == Loser(k)
             i == Len(a.read) + 1
             v == ReadOf(o, i, a.open)
             sent == IF a.phase = "stream" THEN Sent(a, [item |-> "file", bytes |-> v]) ELSE a.wire
             c == [a EXCEPT !.phase = "failed", !.open = NoSource, !.wire = sent]
             d == [a EXCEPT !.read = Append(@, v), !.open = NoSource, !.wire = sent]
             b == IF Changed(o, i, a.open) THEN c ELSE d
  <2>1. AgentBecomes(k, b) BY <1>3 DEF AgentReads, Broken
  <2> HIDE DEF v, sent
  <2>2. c.removed = a.removed /\ c.ack = a.ack /\ c.phase = "failed" BY <1>0 DEF AgentStates
  <2>3. d.removed = a.removed /\ d.ack = a.ack /\ d.phase = a.phase BY <1>0 DEF AgentStates
  <2> HIDE DEF c, d
  <2>4. b = c \/ b = d OBVIOUS
  <2> HIDE DEF b
  <2> QED BY <1>1, <2>1, <2>2, <2>3, <2>4 DEF AgentMoves
<1>4. CASE AgentFinishes(k)
  <2> DEFINE b == [a EXCEPT !.phase = "acknowledge", !.first = a.read, !.read = <<>>, !.wire = Sent(a, Trailer)]
  <2>1. AgentBecomes(k, b) /\ a.phase = "stream" BY <1>4 DEF AgentFinishes
  <2>2. b.removed = a.removed /\ b.ack = a.ack /\ b.phase = "acknowledge" BY <1>0, <1>4 DEF AgentFinishes, AgentStates
  <2> HIDE DEF b
  <2> QED BY <1>1, <2>1, <2>2 DEF AgentMoves
<1>5. CASE AgentInterrupted(k) BY <1>5, <1>f DEF AgentInterrupted
<1>6. CASE AgentAcknowledged(k)
  <2>1. CASE ~Committed(k) BY <1>6, <1>f, <2>1 DEF AgentAcknowledged
  <2>2. CASE Committed(k)
    <3> DEFINE b == [a EXCEPT !.phase = "verify", !.since = clock]
    <3>1. AgentBecomes(k, b) /\ a.phase = "acknowledge" /\ a.ack = "commit"
      BY <1>6, <2>2 DEF AgentAcknowledged, Committed
    <3>2. b.removed = a.removed /\ b.ack = a.ack /\ b.phase = "verify" BY <1>0 DEF AgentStates
    <3> HIDE DEF b
    <3> QED BY <1>1, <3>1, <3>2 DEF AgentMoves
  <2> QED BY <2>1, <2>2
<1>7. CASE AgentVerifies(k)
  <2>1. CASE ~Unchanged(k) BY <1>7, <1>f, <2>1 DEF AgentVerifies
  <2>2. CASE Unchanged(k)
    <3> DEFINE b == [a EXCEPT !.phase = "inspect"]
    <3>1. AgentBecomes(k, b) /\ a.phase = "verify" BY <1>7, <2>2 DEF AgentVerifies
    <3>2. b.removed = a.removed /\ b.ack = a.ack /\ b.phase = "inspect" BY <1>0 DEF AgentStates
    <3> HIDE DEF b
    <3> QED BY <1>1, <3>1, <3>2 DEF AgentMoves
  <2> QED BY <2>1, <2>2
<1>8. CASE AgentInspects(k)
  <2> DEFINE since0 == IF a.seen.kind = "regular" THEN clock ELSE a.since
             b == [a EXCEPT !.phase = "remove", !.since = since0]
  <2>0. a.phase = "inspect" BY <1>8 DEF AgentInspects
  <2>1. CASE ~AgentBecomes(k, b) BY <1>8, <1>f, <2>1 DEF AgentInspects
  <2>2. CASE AgentBecomes(k, b)
    <3> HIDE DEF since0
    <3>1. b.removed = a.removed /\ b.ack = a.ack /\ b.phase = "remove" BY <1>0 DEF AgentStates
    <3> HIDE DEF b
    <3> QED BY <1>1, <2>0, <2>2, <3>1 DEF AgentMoves
  <2> QED BY <2>1, <2>2
<1>9. CASE Cut(k)
  <2>1. PICK ack \in {a.ack, "none"}, n \in 0..Len(a.wire) :
          AgentBecomes(k, [a EXCEPT !.link = "cut", !.ack = ack, !.wire = SubSeq(@, 1, n)])
    BY <1>9 DEF Cut
  <2> DEFINE b == [a EXCEPT !.link = "cut", !.ack = ack, !.wire = SubSeq(@, 1, n)]
  <2>2. b.removed = a.removed /\ b.ack = ack /\ b.phase = a.phase BY <1>0 DEF AgentStates
  <2>3. AgentBecomes(k, b) BY <2>1
  <2> HIDE DEF b
  <2> QED BY <1>1, <2>2, <2>3 DEF AgentMoves
<1> QED BY <1>2, <1>3, <1>4, <1>5, <1>6, <1>7, <1>8, <1>9 DEF AgentSteps

LEMMA PreservedAgents ==
  ASSUME CommandInv, AgentsInv, PreservedInv, NEW k \in Agents, AgentSteps(k) \/ Cut(k) PROVE PreservedInv'
<1> DEFINE a == agent[k]
<1>1. UNCHANGED <<setting, command, pc, outcome, todo>>
  BY AgentsLeaveControl DEF Control, locals, Cut, reports
<1>2. a # Idle /\ a \in AgentStates
  <2>1. a.phase # "none"
    BY DEF AgentSteps, AgentOpens, AgentReads, AgentFinishes, AgentInterrupted, AgentAcknowledged, AgentVerifies,
       AgentInspects, AgentRemoves, Cut
  <2> QED BY <2>1, AgentFacts DEF Idle
<1>3. Calm
  <2>1. CASE AgentRemoves(k)
    <3> DEFINE b == [a EXCEPT !.phase = "done", !.removed = TRUE]
    <3>1. AgentBecomes(k, b) /\ a.phase = "remove" BY <2>1 DEF AgentRemoves
    <3>2. b.removed = TRUE BY <1>2 DEF AgentStates
    <3> HIDE DEF b
    <3> QED BY <1>2, <3>1, <3>2, OneAgentCalm DEF Acked
  <2>2. CASE ~AgentRemoves(k)
    <3>1. PICK b : /\ AgentBecomes(k, b) /\ b.removed = a.removed /\ b.ack \in {a.ack, "none"} /\ AgentMoves(a, b)
      BY <2>2, AgentMoved
    <3> QED BY <1>2, <3>1, OneAgentCalm DEF Acked, AgentMoves, PreservedInv
  <2> QED BY <2>1, <2>2
<1>4. command \in Agents /\ Kind = "prefer local" /\ (pc' = "barrier" \/ (pc' = "next" /\ todo' = <<>>)) => agent[command].removed
  BY <1>1 DEF PreservedInv
<1> QED BY <1>1, <1>3, <1>4, PreservedGoes

LEMMA PreservedStep ==
  ASSUME CommandInv, LocalsInv, AgentsInv, AgentsInv', PreservedInv, [Next]_vars PROVE PreservedInv'
<1>a. agent' = agent => Calm BY SameAgentsCalm
<1>1. CASE Start
  <2>1. UNCHANGED <<setting, agent, outcome>> /\ command' = command + 1 /\ pc = "idle" BY <1>1 DEF Start
  <2>2. pc' # "next" /\ pc' # "barrier"
    <3>1. command' \in DOMAIN setting.script
      <4>1. command < Len(setting.script) BY <1>1 DEF Start
      <4> QED BY <2>1, <4>1, ScriptPosition
    <3>2. setting.script[command'] \in Commands BY <3>1, ScriptPosition
    <3> QED BY <1>1, <3>2 DEF Start, Commands
  <2> QED BY <2>1, <2>2 DEF PreservedInv, Acked, AfterAcks
<1>2. CASE Client BY <1>2, PreservedResolving, PreservedMaintenance DEF Client
<1>3. ASSUME NEW k \in Agents, AgentSteps(k) \/ Cut(k) PROVE PreservedInv' BY <1>3, PreservedAgents
<1>4. CASE Cancel \/ Rots
  <2>1. UNCHANGED <<setting, command, pc, outcome, todo, agent>> BY <1>4 DEF Cancel, Rots, locals, reports
  <2> QED BY <1>a, <2>1, PreservedGoes DEF PreservedInv
<1>5. CASE Crash
  <2>1. UNCHANGED <<setting, command, agent>> /\ Finish("crashed") /\ pc # "idle" BY <1>5 DEF Crash
  <2> QED BY <1>a, <2>1, CommandIsAgent, PreservedEnds DEF AckedOutcomes
<1>6. CASE PowerLoss
  <2>1. /\ agent' = [k \in Agents |-> IF agent[k].phase = "none" THEN agent[k] ELSE [agent[k] EXCEPT !.link = "cut"]]
        /\ UNCHANGED <<setting, command>>
    BY <1>6 DEF PowerLoss
  <2>2. ASSUME NEW k \in Agents
        PROVE  /\ agent'[k].phase = agent[k].phase /\ agent'[k].removed = agent[k].removed /\ agent'[k].ack = agent[k].ack
               /\ agent[k] = Idle => agent'[k] = Idle
    <3>1. agent[k] \in AgentStates BY AgentFacts
    <3> QED BY <2>1, <3>1 DEF AgentStates, Idle
  <2>3. Calm BY <2>2 DEF PreservedInv, Calm, Acked
  <2>4. CASE pc # "idle"
    <3>1. Finish("crashed") BY <1>6, <2>4 DEF PowerLoss
    <3> QED BY <2>1, <2>3, <2>4, <3>1, CommandIsAgent, PreservedEnds DEF AckedOutcomes
  <2>5. CASE pc = "idle"
    <3>1. outcome' = [k \in Agents |-> IF outcome[k] \in {"complete", "incomplete"} THEN "outdated" ELSE outcome[k]]
          /\ pc' = "idle"
      BY <1>6, <2>5 DEF PowerLoss, locals
    <3>2. \A k \in Agents : /\ outcome[k] \in AckedOutcomes => outcome'[k] = outcome[k]
                            /\ outcome'[k] = "resolved" => outcome[k] = "resolved"
      BY <3>1 DEF AckedOutcomes
    <3> QED BY <2>1, <2>3, <2>5, <3>1, <3>2 DEF PreservedInv, Calm, Acked, AfterAcks
  <2> QED BY <2>4, <2>5
<1>7. CASE Users
  <2>1. UNCHANGED <<setting, command, pc, outcome, todo, agent>> BY <1>7, UsersLeaveControl DEF Control, locals
  <2> QED BY <1>a, <2>1, PreservedGoes DEF PreservedInv
<1>8. CASE UNCHANGED vars
  <2>1. UNCHANGED <<setting, command, pc, outcome, todo, agent>> BY <1>8 DEF vars, locals, reports
  <2> QED BY <1>a, <2>1, PreservedGoes DEF PreservedInv
<1> QED BY <1>1, <1>2, <1>3, <1>4, <1>5, <1>6, <1>7, <1>8 DEF Next, Over, Faults

\* A resolution that failed, or reported the remote copy preserved, has not removed it, and no agent of
\* its will; one that succeeded has: for every script, however its stream, its acknowledgement and its
\* result are lost, and whichever process is killed (cli/remote_recovery.go, agent.go).
THEOREM PreservedIsPreserved == Spec => []PreservedMeansPreserved
<1> DEFINE Inv == CommandInv /\ EndsInv /\ LocalsInv /\ AgentsInv /\ PreservedInv
<1>1. Init => Inv BY CommandInit, EndsInit, LocalsInit, AgentsInit, PreservedInit
<1>2. Inv /\ [Next]_vars => Inv'
  <2>1. SUFFICES ASSUME Inv, [Next]_vars PROVE Inv' OBVIOUS
  <2>2. CommandInv' /\ EndsInv' BY <2>1, CommandStep, EndsStep
  <2>3. LocalsInv' /\ AgentsInv' BY <2>1, <2>2, LocalsStep, AgentsStep
  <2>4. PreservedInv' BY <2>1, <2>3, PreservedStep
  <2> QED BY <2>2, <2>3, <2>4
<1>3. Inv => PreservedMeansPreserved
  <2>1. SUFFICES ASSUME Inv, NEW k \in Agents
                 PROVE  /\ outcome[k] \in {"preserved", "failed", "refused"} => ~agent[k].removed /\ agent[k].phase \notin
                             {"verify", "inspect", "remove"}
                        /\ outcome[k] = "resolved" /\ setting.script[k] = "prefer local" => agent[k].removed
    BY DEF PreservedMeansPreserved
  <2>2. outcome[k] \in {"preserved", "failed", "refused"} => ~Acked(k)
    BY <2>1 DEF PreservedInv, AckedOutcomes, AfterAcks, CommandInv
  <2> QED BY <2>1, <2>2 DEF Acked, PreservedInv
<1> HIDE DEF Inv
<1> QED BY <1>1, <1>2, <1>3, PTL DEF Spec

-----------------------------------------------------------------------------
(* The recovery store: what a write does to one archive, and what a power   *)
(* loss does to all of them.                                                *)

\* What a manifest records of p.
WholeCopies(p) == [kind : {setting.kind[p]}, files : [1..FilesOf(setting.kind[p]) -> 1..MaxVersion]]

StoreInv ==
  /\ store \in [1..MaxArchives -> Archive]
  /\ \A n \in 1..MaxArchives : n > used => store[n] = Unused
  /\ \A n \in 1..MaxArchives, p \in Paths : store[n].entry[p] # NoCopy => store[n].entry[p] \in WholeCopies(p)

LEMMA CopyFacts ==
  ASSUME NEW c \in Copies \cup {NoCopy}
  PROVE  c.files \in Seq(Bytes) /\ Len(c.files) \in 0..Files /\ DOMAIN c.files = 1..Len(c.files)
<1>1. CASE c = NoCopy BY <1>1 DEF NoCopy, Files
<1>2. CASE c \in Copies
  <2>1. PICK n \in 0..Files : c.files \in [1..n -> Bytes] BY <1>2 DEF Copies
  <2>2. n \in Nat BY <2>1 DEF Files
  <2> QED BY <2>1, <2>2, FunctionsAreSequences
<1> QED BY <1>1, <1>2

LEMMA CopyTyped ==
  ASSUME NEW kind \in Kinds, NEW n \in 0..Files, NEW f \in [1..n -> Bytes]
  PROVE  [kind |-> kind, files |-> f] \in Copies
  BY DEF Copies

LEMMA SequenceCopy ==
  ASSUME NEW kind \in Kinds, NEW f \in Seq(Bytes), Len(f) <= Files
  PROVE  [kind |-> kind, files |-> f] \in Copies
<1>1. Len(f) \in 0..Files /\ f \in [1..Len(f) -> Bytes]
  <2>1. Len(f) \in Nat /\ f \in [1..Len(f) -> Bytes] OBVIOUS
  <2> QED BY <2>1 DEF Files
<1> QED BY <1>1, CopyTyped

LEMMA WholeFacts ==
  ASSUME setting \in Settings, NEW p \in Paths, NEW c \in WholeCopies(p)
  PROVE  /\ c \in Copies /\ c # NoCopy /\ c.kind = setting.kind[p] /\ c.kind \in Kinds
         /\ c.files \in Seq(1..MaxVersion) /\ Len(c.files) = FilesOf(c.kind)
         /\ Len(c.files) \in 1..Files /\ DOMAIN c.files = 1..Len(c.files)
         /\ \A i \in DOMAIN c.files : c.files[i] \in 1..MaxVersion
<1>1. /\ setting.kind[p] \in Kinds /\ FilesOf(setting.kind[p]) \in 1..Files BY KindFacts
<1>2. c.kind = setting.kind[p] /\ c.files \in [1..FilesOf(setting.kind[p]) -> 1..MaxVersion]
      /\ c = [kind |-> c.kind, files |-> c.files]
  BY DEF WholeCopies
<1>3. FilesOf(setting.kind[p]) \in Nat /\ FilesOf(setting.kind[p]) \in 0..Files BY <1>1 DEF Files
<1>4. c.files \in Seq(1..MaxVersion) /\ Len(c.files) = FilesOf(c.kind) /\ DOMAIN c.files = 1..Len(c.files)
  BY <1>2, <1>3, FunctionsAreSequences
<1>5. c.files \in [1..FilesOf(setting.kind[p]) -> Bytes] BY <1>2, ByteFacts
<1>6. c \in Copies BY <1>1, <1>2, <1>3, <1>5, CopyTyped
<1>7. c # NoCopy BY <1>1, <1>2 DEF NoCopy, Kinds
<1> QED BY <1>1, <1>2, <1>4, <1>6, <1>7

\* One archive with another copy of p, and with another entry of p.
LEMMA CopyReplaced ==
  ASSUME NEW a \in Archive, NEW p \in Paths, NEW c \in Copies \cup {NoCopy}
  PROVE  LET b == [a EXCEPT !.copy[p] = c]
         IN  /\ b \in Archive /\ b.copy[p] = c /\ \A q \in Paths : q # p => b.copy[q] = a.copy[q]
             /\ b.place = a.place /\ b.durable = a.durable /\ b.synced = a.synced
             /\ b.entry = a.entry /\ b.filed = a.filed
  BY DEF Archive

LEMMA EntryReplaced ==
  ASSUME NEW a \in Archive, NEW p \in Paths, NEW c \in Copies \cup {NoCopy}
  PROVE  LET b == [a EXCEPT !.entry[p] = c]
         IN  /\ b \in Archive /\ b.entry[p] = c /\ \A q \in Paths : q # p => b.entry[q] = a.entry[q]
             /\ b.place = a.place /\ b.durable = a.durable /\ b.synced = a.synced
             /\ b.copy = a.copy /\ b.filed = a.filed
  BY DEF Archive

LEMMA BegunFacts ==
  ASSUME NEW a \in Archive, NEW p \in Paths, NEW kind \in Kinds \cup {"none"}
  PROVE  LET b == Begun(a, p, kind)
         IN  /\ b \in Archive /\ b.place = "visible" /\ b.durable = a.durable /\ b.synced = a.synced
             /\ b.entry = a.entry /\ b.filed = a.filed
             /\ b.copy[p] = IF kind = "directory" THEN [kind |-> "directory", files |-> <<>>] ELSE NoCopy
             /\ \A q \in Paths : q # p => b.copy[q] = a.copy[q]
<1>1. [kind |-> "directory", files |-> <<>>] \in Copies
  <2>1. <<>> \in Seq(Bytes) /\ Len(<<>>) <= Files BY DEF Files
  <2> QED BY <2>1, SequenceCopy DEF Kinds
<1>2. Prefer \in {"local", "remote"} BY DEF Prefer
<1>3. a.parents \cup (setting.nested \cap {p}) \in SUBSET Paths BY DEF Archive
<1> DEFINE c == IF kind = "directory" THEN [kind |-> kind, files |-> <<>>] ELSE NoCopy
           parents == a.parents \cup (setting.nested \cap {p})
<1>4. Begun(a, p, kind) = [a EXCEPT !.place = "visible", !.winner = Prefer, !.parents = parents, !.copy[p] = c]
  BY DEF Begun
<1>5. c \in Copies \cup {NoCopy} BY <1>1
<1>6. c = IF kind = "directory" THEN [kind |-> "directory", files |-> <<>>] ELSE NoCopy OBVIOUS
<1>7. parents \in SUBSET Paths BY <1>3
<1> DEFINE b == [a EXCEPT !.place = "visible", !.winner = Prefer, !.parents = parents, !.copy[p] = c]
<1> HIDE DEF c, parents
<1>8. /\ b \in Archive /\ b.place = "visible" /\ b.durable = a.durable /\ b.synced = a.synced
      /\ b.entry = a.entry /\ b.filed = a.filed /\ b.copy[p] = c /\ \A q \in Paths : q # p => b.copy[q] = a.copy[q]
  BY <1>2, <1>5, <1>7 DEF Archive, Places
<1>9. Begun(a, p, kind) = b BY <1>4
<1> HIDE DEF b
<1> QED BY <1>6, <1>8, <1>9

LEMMA StoreSet ==
  ASSUME store \in [1..MaxArchives -> Archive], NEW n \in 1..MaxArchives, NEW a, Set(n, a)
  PROVE  /\ store'[n] = a /\ \A m \in 1..MaxArchives : m # n => store'[m] = store[m]
         /\ a \in Archive => store' \in [1..MaxArchives -> Archive]
  BY DEF Set

LEMMA PowerFacts ==
  ASSUME NEW a \in Archive, NEW b \in AfterPowerLoss(a)
  PROVE  /\ b \in Archive /\ b.place \in {a.place, a.durable} /\ b.durable = b.place
         /\ \A p \in Paths : /\ b.copy[p] \in {a.copy[p], NoCopy} /\ (p \in a.synced => b.copy[p] = a.copy[p])
                             /\ b.entry[p] \in {a.entry[p], NoCopy}
         /\ b.synced = {p \in Paths : b.copy[p] # NoCopy}
         /\ b.winner = a.winner /\ b.parents = a.parents
         /\ b.filed = {p \in Paths : b.entry[p] # NoCopy}
<1>1. PICK place \in {a.place, a.durable}, copy \in CopiesLeft(a), entry \in EntriesLeft(a) :
        b = LeftOf(a, place, copy, entry)
  BY DEF AfterPowerLoss
<1>0. PICK gone \in SUBSET (Paths \ a.synced) : copy = [p \in Paths |-> IF p \in gone THEN NoCopy ELSE a.copy[p]]
  BY <1>1 DEF CopiesLeft
<1> DEFINE synced == {p \in Paths : copy[p] # NoCopy}
           filed == {p \in Paths : entry[p] # NoCopy}
<1>2. b = [a EXCEPT !.place = place, !.durable = place, !.copy = copy, !.entry = entry, !.synced = synced, !.filed = filed]
  BY <1>1 DEF LeftOf
<1>3. a \in Archive /\ a.copy \in [Paths -> Copies \cup {NoCopy}] /\ a.entry \in [Paths -> Copies \cup {NoCopy}]
      /\ a.place \in Places /\ a.durable \in Places
  BY DEF Archive
<1>4. /\ copy \in [Paths -> Copies \cup {NoCopy}]
      /\ \A p \in Paths : copy[p] \in {a.copy[p], NoCopy} /\ (p \in a.synced => copy[p] = a.copy[p])
  BY <1>0, <1>3
<1>5. entry \in [Paths -> Copies \cup {NoCopy}] /\ \A p \in Paths : entry[p] \in {a.entry[p], NoCopy}
  BY <1>1, <1>3 DEF EntriesLeft
<1>6. synced \in SUBSET Paths /\ filed \in SUBSET Paths OBVIOUS
<1>7. place \in Places BY <1>1, <1>3
<1>8. /\ b.place = place /\ b.durable = place /\ b.copy = copy /\ b.entry = entry /\ b.synced = synced /\ b.filed = filed
      /\ b.winner = a.winner /\ b.parents = a.parents /\ b \in Archive
  <2> HIDE DEF synced, filed
  <2> QED BY <1>2, <1>3, <1>4, <1>5, <1>6, <1>7 DEF Archive
<1> QED BY <1>4, <1>5, <1>8

LEMMA UnusedFacts == Unused \in Archive /\ \A b \in AfterPowerLoss(Unused) : b = Unused
<1>1. Unused \in Archive BY DEF Unused, Archive, Places
<1>2. ASSUME NEW b \in AfterPowerLoss(Unused) PROVE b = Unused
  <2>1. /\ b \in Archive /\ b.place = "absent" /\ b.durable = "absent" /\ b.synced = {p \in Paths : b.copy[p] # NoCopy}
        /\ \A p \in Paths : b.copy[p] = NoCopy /\ b.entry[p] = NoCopy
        /\ b.winner = "local" /\ b.parents = {} /\ b.filed = {p \in Paths : b.entry[p] # NoCopy}
    BY <1>1, PowerFacts DEF Unused
  <2>2. b.synced = {} /\ b.filed = {} BY <2>1
  <2>3. b.copy = [p \in Paths |-> NoCopy] /\ b.entry = [p \in Paths |-> NoCopy] BY <2>1 DEF Archive
  <2>4. b = [place |-> b.place, durable |-> b.durable, winner |-> b.winner, copy |-> b.copy, synced |-> b.synced,
             entry |-> b.entry, filed |-> b.filed, parents |-> b.parents]
    BY <2>1 DEF Archive
  <2> QED BY <2>1, <2>2, <2>3, <2>4 DEF Unused
<1> QED BY <1>1, <1>2

-----------------------------------------------------------------------------
(* The copy a resolution makes.                                            *)

Copying == {"copy", "extract"}
Having == Len(Copied.files) - (IF open = NoSource THEN 0 ELSE 1)  \* files received in full

\* The archive has nothing durable yet of the paths the resolution is to come to.
FreshInv ==
  /\ pc \notin Copying => open = NoSource
  /\ pc \in Fills =>
       /\ (Kept = Unused /\ pc = "next") \/ Kept.place = "visible"
       /\ \A i \in DOMAIN todo : i > 1 \/ pc \in Copying \cup {"next"} => todo[i] \notin Kept.synced

\* A local copy in progress.
CopyInv ==
  pc = "copy" =>
    /\ Copied # NoCopy => Copied.kind = setting.kind[Path]
    /\ Len(Copied.files) <= FilesOf(setting.kind[Path])
    /\ \A i \in 1..Having : Copied.files[i] \in 1..MaxVersion
    /\ open # NoSource => Len(Copied.files) > 0 /\ open.version \in 1..MaxVersion

Header(wire) == IF wire # <<>> /\ wire[1].item = "directory" THEN 1 ELSE 0

\* What is on the stream of a continues the files received; n files are expected.
WireOK(a, having, n) ==
  /\ \A i \in DOMAIN a.wire : a.wire[i].item = "directory" => i = 1 /\ having = 0
  /\ \A i \in DOMAIN a.wire : a.wire[i].item = "trailer" =>
       /\ i = Len(a.wire) /\ having + i - 1 - Header(a.wire) = n
       /\ a.phase # "stream" \/ a.link = "cut"
  /\ \A i \in DOMAIN a.wire : a.wire[i].item = "file" =>
       /\ having + i - Header(a.wire) <= n
       /\ \/ a.wire[i].bytes \in 1..MaxVersion
          \/ a.wire[i].bytes = Torn /\ i = Len(a.wire) /\ (a.phase = "failed" \/ a.link = "cut")
  /\ a.phase = "stream" /\ a.link = "up" =>
       /\ having + Len(a.wire) - Header(a.wire) = Len(a.read)
       /\ a.read = <<>> /\ a.open = NoSource => a.wire = <<>>
\* ... unless the stream broke and its last item was taken.
Broke(a) == a.wire = <<>> /\ (a.phase = "failed" \/ a.link = "cut")

StreamInv ==
  pc = "extract" =>
    /\ Stream.path = Path /\ Stream.phase # "none"
    /\ Copied.files # <<>> => Copied.kind = setting.kind[Path]
    /\ Len(Copied.files) <= FilesOf(setting.kind[Path])
    /\ open # NoSource => /\ Len(Copied.files) > 0 /\ open.version \in 1..MaxVersion \cup {Torn}
                          /\ Stream.wire # <<>> => Item.item = "file" /\ Item.bytes = open.version
                          /\ Stream.wire # <<>> \/ Stream.link = "cut"
    /\ \/ Broke(Stream)
       \/ /\ \A i \in 1..Having : Copied.files[i] \in 1..MaxVersion
          /\ WireOK(Stream, Having, FilesOf(setting.kind[Path]))

\* The copy that is recorded is the one that was digested, whole and synced.
DigestInv ==
  /\ digest \in Copies \cup {NoCopy}
  /\ pc = "record" => digest \in WholeCopies(Path) /\ Path \in Kept.synced /\ Same(Copied, digest)

FillInv == FreshInv /\ CopyInv /\ StreamInv /\ DigestInv

\* One file of a copy with other bytes, and one file more.
LEMMA FileReplaced ==
  ASSUME NEW c \in Copies \cup {NoCopy}, NEW i \in 1..Len(c.files), NEW v \in Bytes
  PROVE  LET b == [c EXCEPT !.files[i] = v]
         IN  /\ b \in Copies /\ b.kind = c.kind /\ Len(b.files) = Len(c.files) /\ b.files[i] = v
             /\ \A j \in 1..Len(c.files) : j # i => b.files[j] = c.files[j]
<1>1. c \in Copies
  <2>1. Len(NoCopy.files) = 0 BY DEF NoCopy
  <2> QED BY <2>1
<1>2. c.files \in Seq(Bytes) /\ Len(c.files) \in 0..Files BY CopyFacts
<1>3. c.kind \in Kinds /\ c = [kind |-> c.kind, files |-> c.files] BY <1>1 DEF Copies
<1> DEFINE f == [c.files EXCEPT ![i] = v]
<1>4. f \in Seq(Bytes) /\ Len(f) = Len(c.files) /\ f[i] = v /\ \A j \in 1..Len(c.files) : j # i => f[j] = c.files[j]
  BY <1>2
<1>5. [c EXCEPT !.files[i] = v] = [kind |-> c.kind, files |-> f] BY <1>3
<1>6. Len(f) <= Files BY <1>2, <1>4 DEF Files
<1> HIDE DEF f
<1>7. [kind |-> c.kind, files |-> f] \in Copies BY <1>3, <1>4, <1>6, SequenceCopy
<1> QED BY <1>4, <1>5, <1>7

LEMMA FileAppended ==
  ASSUME NEW c \in Copies \cup {NoCopy}, NEW kind \in Kinds, NEW v \in Bytes, Len(c.files) < Files
  PROVE  LET b == WithFile(c, kind, v)
         IN  /\ b \in Copies /\ b.kind = kind /\ Len(b.files) = Len(c.files) + 1 /\ b.files[Len(b.files)] = v
             /\ \A j \in 1..Len(c.files) : b.files[j] = c.files[j]
<1> DEFINE f == Append(c.files, v)
<1>1. c.files \in Seq(Bytes) /\ Len(c.files) \in 0..Files BY CopyFacts
<1>2. /\ f \in Seq(Bytes) /\ Len(f) = Len(c.files) + 1 /\ f[Len(f)] = v
      /\ \A j \in 1..Len(c.files) : f[j] = c.files[j]
  BY <1>1
<1>3. Len(f) <= Files BY <1>1, <1>2 DEF Files
<1> HIDE DEF f
<1>4. [kind |-> kind, files |-> f] \in Copies BY <1>2, <1>3, SequenceCopy
<1>5. WithFile(c, kind, v) = [kind |-> kind, files |-> f] BY DEF WithFile, f
<1> QED BY <1>2, <1>4, <1>5

\* The archive and the path a resolution is at.
LEMMA KeptFacts ==
  ASSUME CommandInv, LocalsInv, StoreInv, FreshInv, pc \in Fills
  PROVE  /\ archive \in 1..MaxArchives /\ archive <= used /\ archive > setting.old /\ used \in Nat
         /\ Kept \in Archive /\ Kept = store[archive]
         /\ Kept = Unused \/ Kept.place = "visible"
         /\ pc # "next" => Kept.place = "visible"
<1>1. archive \in 1..MaxArchives /\ archive = used /\ archive > setting.old /\ used \in Nat
  BY UsedBounded DEF LocalsInv
<1> QED BY <1>1 DEF StoreInv, FreshInv, Kept

LEMMA PathFacts ==
  ASSUME CommandInv, LocalsInv, StoreInv, FreshInv, pc \in Fills, todo # <<>>
  PROVE  /\ Path \in Paths /\ 1 \in DOMAIN todo /\ Path = todo[1]
         /\ setting.kind[Path] \in Kinds /\ FilesOf(setting.kind[Path]) \in 1..Files
         /\ Copied \in Copies \cup {NoCopy} /\ Copied = Kept.copy[Path]
         /\ Copied.files \in Seq(Bytes) /\ Len(Copied.files) \in Nat
         /\ pc \in Copying \cup {"next"} => Path \notin Kept.synced
<1>1. Path \in Paths BY TailKeepsPaths DEF LocalsInv
<1>2. 1 \in DOMAIN todo /\ Path = todo[1]
  <2>1. todo \in Seq(Paths) BY DEF LocalsInv
  <2>2. Len(todo) \in Nat /\ Len(todo) > 0 /\ DOMAIN todo = 1..Len(todo) BY <2>1
  <2> QED BY <2>1, <2>2 DEF Path
<1>3. Copied \in Copies \cup {NoCopy} BY <1>1, KeptFacts DEF Archive, Copied
<1>4. Copied.files \in Seq(Bytes) /\ Len(Copied.files) \in Nat BY <1>3, CopyFacts
<1>5. setting.kind[Path] \in Kinds /\ FilesOf(setting.kind[Path]) \in 1..Files BY <1>1, KindFacts DEF CommandInv
<1> QED BY <1>1, <1>2, <1>3, <1>4, <1>5 DEF FreshInv, Copied

\* What a step of a resolution may do to its archive: replace the copy of the path it is at, which
\* is not durable yet; make it durable; record it; make the record durable.
Refilled(b) ==
  /\ b.entry = Kept.entry /\ b.filed = Kept.filed /\ b.synced = Kept.synced /\ b.durable = Kept.durable
  /\ Path \notin Kept.synced /\ \A q \in Paths : q # Path => b.copy[q] = Kept.copy[q]
MadeDurable(b) ==
  /\ b.entry = Kept.entry /\ b.filed = Kept.filed /\ b.copy = Kept.copy
  /\ b.synced = Kept.synced \cup {Path} /\ b.durable = "visible"
EntryMade(b) ==
  /\ b.copy = Kept.copy /\ b.filed = Kept.filed /\ b.synced = Kept.synced /\ b.durable = Kept.durable
  /\ pc = "record" /\ b.entry[Path] = digest /\ Kept.entry[Path] = NoCopy /\ \A q \in Paths : q # Path => b.entry[q] = Kept.entry[q]
EntryFiled(b) ==
  /\ b.copy = Kept.copy /\ b.entry = Kept.entry /\ b.synced = Kept.synced /\ b.durable = Kept.durable
  /\ b.filed = Catalogued(Kept)
Wrote(b) == /\ b \in Archive /\ b.place = "visible"
            /\ Refilled(b) \/ MadeDurable(b) \/ EntryMade(b) \/ EntryFiled(b)

LEMMA CopyReplacedIsRefill ==
  ASSUME CommandInv, LocalsInv, StoreInv, FreshInv, pc \in Copying, NEW c \in Copies \cup {NoCopy},
         NEW b, b = [Kept EXCEPT !.copy[Path] = c]
  PROVE  Wrote(b)
<1>1. pc \in Fills /\ pc # "next" /\ todo # <<>> BY DEF Copying, Fills, LocalsInv, WithPath
<1>2. Kept \in Archive /\ Kept.place = "visible" /\ Path \in Paths /\ Path \notin Kept.synced
  BY <1>1, KeptFacts, PathFacts
<1> QED BY <1>2, CopyReplaced DEF Wrote, Refilled

\* The copy of the path the resolution is at becomes c.
Put(c) == Set(archive, [Kept EXCEPT !.copy[Path] = c])

LEMMA OpensPuts ==
  ASSUME CommandInv, LocalsInv, StoreInv, FreshInv, CopyInv, CopyOpens
  PROVE  \/ /\ Put(WithFile(Copied, setting.kind[Path], Torn)) /\ WithFile(Copied, setting.kind[Path], Torn) \in Copies
            /\ Exists(Source) /\ open' = Observed(Source, Len(Copied.files) + 1, Path)
            /\ Len(Copied.files) < FilesOf(setting.kind[Path])
            /\ UNCHANGED <<pc, todo, archive, since, digest, chosen, outcome>>
         \/ Put(NoCopy) /\ Finish("failed")
<1>1. pc \in Fills /\ pc # "next" /\ todo # <<>> BY DEF CopyOpens, Fills, LocalsInv, WithPath
<1>2. CASE StillThere
  <2>1. Len(Copied.files) < FilesOf(setting.kind[Path]) /\ FilesOf(setting.kind[Path]) <= Files
        /\ setting.kind[Path] \in Kinds /\ Copied \in Copies \cup {NoCopy}
    <3>1. FilesOf(setting.kind[Path]) \in 1..Files /\ Len(Copied.files) \in Nat BY <1>1, PathFacts
    <3>2. Len(Copied.files) <= FilesOf(setting.kind[Path]) BY DEF CopyOpens, CopyInv
    <3>3. Copied # NoCopy => Len(Copied.files) # FilesOf(setting.kind[Path]) BY DEF CopyOpens, CopyDone
    <3>4. Len(NoCopy.files) = 0 BY DEF NoCopy
    <3> QED BY <1>1, <3>1, <3>2, <3>3, <3>4, PathFacts DEF Files
  <2>2. Len(Copied.files) < Files
    <3>1. FilesOf(setting.kind[Path]) \in 1..Files /\ Len(Copied.files) \in Nat BY <1>1, PathFacts
    <3> QED BY <2>1, <3>1 DEF Files
  <2>3. WithFile(Copied, setting.kind[Path], Torn) \in Copies BY <2>1, <2>2, FileAppended, ByteFacts
  <2>4. Put(WithFile(Copied, setting.kind[Path], Torn)) BY <1>2 DEF CopyOpens, Put, Copied
  <2> QED BY <1>2, <2>1, <2>3, <2>4 DEF CopyOpens, StillThere
<1>3. CASE ~StillThere BY <1>3 DEF CopyOpens, CopyFails, Failing, Put
<1> QED BY <1>2, <1>3

LEMMA ReadsPut ==
  ASSUME CommandInv, LocalsInv, StoreInv, FreshInv, CopyInv, CopyReads
  PROVE  \/ \E v \in 1..MaxVersion :
              /\ Put([Copied EXCEPT !.files[Len(Copied.files)] = v])
              /\ [Copied EXCEPT !.files[Len(Copied.files)] = v] \in Copies
              /\ open' = NoSource /\ UNCHANGED <<pc, todo, archive, since, digest, chosen, outcome>>
         \/ Put(NoCopy) /\ Finish("failed")
<1> DEFINE i == Len(Copied.files)
<1>1. pc \in Fills /\ pc # "next" /\ todo # <<>> /\ open # NoSource /\ pc = "copy"
  BY DEF CopyReads, Fills, LocalsInv, WithPath
<1>2. CASE CopyFails BY <1>2 DEF CopyFails, Failing, Put
<1>3. CASE ~CopyFails
  <2>1. /\ ~Changed(Source, i, open)
        /\ Set(archive, [Kept EXCEPT !.copy[Path].files[i] = ReadOf(Source, i, open)])
        /\ open' = NoSource /\ UNCHANGED <<pc, todo, archive, since, digest, chosen, outcome>>
    BY <1>3 DEF CopyReads
  <2>2. ReadOf(Source, i, open) = open.version /\ open.version \in 1..MaxVersion
    BY <1>1, <2>1 DEF CopyInv, Changed, ReadOf
  <2>3. Copied \in Copies \cup {NoCopy} /\ i \in 1..Len(Copied.files)
    <3>1. i \in Nat /\ i > 0 /\ Copied \in Copies \cup {NoCopy} BY <1>1, PathFacts DEF CopyInv
    <3> QED BY <3>1
  <2>4. [Copied EXCEPT !.files[i] = open.version] \in Copies BY <2>2, <2>3, FileReplaced, ByteFacts
  <2>5. Put([Copied EXCEPT !.files[i] = open.version])
    <3>1. Set(archive, [Kept EXCEPT !.copy[Path].files[i] = open.version]) BY <2>1, <2>2
    <3>2. [Kept EXCEPT !.copy[Path].files[i] = open.version] = [Kept EXCEPT !.copy[Path] = [Copied EXCEPT !.files[i] = open.version]]
      BY DEF Copied
    <3> QED BY <3>1, <3>2 DEF Put
  <2> QED BY <2>1, <2>2, <2>4, <2>5
<1> QED BY <1>2, <1>3

\* The first item of a stream, and what follows it.
LEMMA FirstItem ==
  ASSUME NEW a \in AgentStates, NEW having \in Nat, NEW n \in Nat, WireOK(a, having, n), a.wire # <<>>
  PROVE  LET item == Head(a.wire)
         IN  /\ item = a.wire[1] /\ item \in Items /\ Len(a.wire) \in Nat /\ Len(a.wire) > 0
             /\ item.item = "directory" => having = 0 /\ Header(a.wire) = 1
             /\ item.item # "directory" => Header(a.wire) = 0
             /\ item.item = "trailer" => Len(a.wire) = 1 /\ having = n
             /\ item.item = "file" =>
                  /\ having < n
                  /\ \/ item.bytes \in 1..MaxVersion
                     \/ item.bytes = Torn /\ Len(a.wire) = 1 /\ (a.phase = "failed" \/ a.link = "cut")
<1>1. a.wire \in Seq(Items) BY DEF AgentStates
<1>2. Head(a.wire) = a.wire[1] /\ a.wire[1] \in Items /\ Len(a.wire) \in Nat /\ Len(a.wire) > 0 /\ 1 \in DOMAIN a.wire
  BY <1>1
<1>3. Header(a.wire) = IF a.wire[1].item = "directory" THEN 1 ELSE 0 BY DEF Header
<1>4. a.wire[1].item = "directory" => having = 0 BY <1>2 DEF WireOK
<1>5. a.wire[1].item = "trailer" => 1 = Len(a.wire) /\ having + 1 - 1 - Header(a.wire) = n BY <1>2 DEF WireOK
<1>6. a.wire[1].item = "file" =>
        /\ having + 1 - Header(a.wire) <= n
        /\ \/ a.wire[1].bytes \in 1..MaxVersion
           \/ a.wire[1].bytes = Torn /\ 1 = Len(a.wire) /\ (a.phase = "failed" \/ a.link = "cut")
  BY <1>2 DEF WireOK
<1> QED BY <1>2, <1>3, <1>4, <1>5, <1>6

LEMMA RestOfWire ==
  ASSUME NEW a \in AgentStates, NEW having \in Nat, NEW n \in Nat, WireOK(a, having, n), a.wire # <<>>,
         NEW b, b = [a EXCEPT !.wire = Tail(a.wire)], Head(a.wire).item \in {"directory", "file"},
         a.open = NoSource => a.read # <<>> \/ a.phase # "stream" \/ a.link # "up"
  PROVE  WireOK(b, having + (IF Head(a.wire).item = "file" THEN 1 ELSE 0), n)
<1> DEFINE w == a.wire
           r == Tail(a.wire)
           had == having + (IF Head(a.wire).item = "file" THEN 1 ELSE 0)
<1>1. w \in Seq(Items) /\ Len(w) \in Nat /\ Len(w) > 0 /\ DOMAIN w = 1..Len(w) BY FirstItem DEF AgentStates
<1>2. r \in Seq(Items) /\ Len(r) = Len(w) - 1 /\ DOMAIN r = 1..(Len(w) - 1) /\ \A i \in 1..(Len(w) - 1) : r[i] = w[i + 1]
  BY <1>1
<1>3. b.wire = r /\ b.phase = a.phase /\ b.link = a.link /\ b.read = a.read /\ b.open = a.open BY DEF AgentStates
<1>4. Header(w) = (IF Head(w).item = "directory" THEN 1 ELSE 0) /\ Header(w) \in {0, 1}
      /\ (Head(w).item = "directory" => having = 0)
  BY FirstItem
<1>5. had = having + 1 - Header(w) /\ had \in Nat BY <1>4
<1>6. \A i \in DOMAIN r : i + 1 \in DOMAIN w /\ i + 1 # 1 /\ r[i] = w[i + 1] BY <1>1, <1>2
<1>7. \A i \in DOMAIN r : r[i].item # "directory" BY <1>6 DEF WireOK
<1>8. Header(r) = 0
  <2>1. r # <<>> => 1 \in DOMAIN r BY <1>2
  <2> QED BY <1>7, <2>1 DEF Header
<1> HIDE DEF had, r, w
<1>9. ASSUME NEW i \in DOMAIN r, r[i].item = "trailer"
      PROVE  i = Len(r) /\ had + i - 1 - Header(r) = n /\ (a.phase # "stream" \/ a.link = "cut")
  <2>1. i + 1 = Len(w) /\ having + (i + 1) - 1 - Header(w) = n /\ (a.phase # "stream" \/ a.link = "cut")
    BY <1>6, <1>9 DEF WireOK, w
  <2> QED BY <1>1, <1>2, <1>4, <1>5, <1>8, <2>1
<1>10. ASSUME NEW i \in DOMAIN r, r[i].item = "file"
       PROVE  /\ had + i - Header(r) <= n
              /\ \/ r[i].bytes \in 1..MaxVersion
                 \/ r[i].bytes = Torn /\ i = Len(r) /\ (a.phase = "failed" \/ a.link = "cut")
  <2>1. /\ having + (i + 1) - Header(w) <= n
        /\ \/ r[i].bytes \in 1..MaxVersion
           \/ r[i].bytes = Torn /\ i + 1 = Len(w) /\ (a.phase = "failed" \/ a.link = "cut")
    BY <1>6, <1>10 DEF WireOK, w
  <2> QED BY <1>1, <1>2, <1>4, <1>5, <1>8, <2>1
<1>11. a.phase = "stream" /\ a.link = "up" => had + Len(r) - Header(r) = Len(a.read)
  <2>1. a.phase = "stream" /\ a.link = "up" => having + Len(w) - Header(w) = Len(a.read) BY DEF WireOK, w
  <2> QED BY <1>1, <1>2, <1>4, <1>5, <1>8, <2>1
<1> QED BY <1>3, <1>7, <1>9, <1>10, <1>11 DEF WireOK, had

LEMMA ExtractOpensPuts ==
  ASSUME CommandInv, LocalsInv, AgentsInv, StoreInv, FreshInv, StreamInv, ExtractOpens
  PROVE  \/ /\ Item.item = "directory" /\ Took /\ UNCHANGED open
            /\ Put([kind |-> "directory", files |-> <<>>]) /\ [kind |-> "directory", files |-> <<>>] \in Copies
         \/ /\ Item.item = "file" /\ UNCHANGED agent /\ open' = [path |-> Path, inode |-> 0, version |-> Item.bytes]
            /\ Len(Copied.files) < FilesOf(setting.kind[Path])
            /\ Put(WithFile(Copied, setting.kind[Path], Torn)) /\ WithFile(Copied, setting.kind[Path], Torn) \in Copies
<1>1. pc \in Fills /\ pc # "next" /\ todo # <<>> /\ pc = "extract" /\ open = NoSource /\ Stream.wire # <<>>
  BY DEF ExtractOpens, Fills, LocalsInv, WithPath
<1>2. CASE Item.item = "directory"
  <2>1. [kind |-> "directory", files |-> <<>>] \in Copies
    <3>1. <<>> \in Seq(Bytes) /\ Len(<<>>) <= Files BY DEF Files
    <3> QED BY <3>1, SequenceCopy DEF Kinds
  <2> QED BY <1>2, <2>1 DEF ExtractOpens, Put
<1>3. CASE Item.item # "directory"
  <2>1. /\ Item.item = "file" /\ UNCHANGED agent /\ open' = [path |-> Path, inode |-> 0, version |-> Item.bytes]
        /\ Put(WithFile(Copied, setting.kind[Path], Torn))
    BY <1>3 DEF ExtractOpens, Put, Copied
  <2>2. Len(Copied.files) < FilesOf(setting.kind[Path])
    <3>1. WireOK(Stream, Having, FilesOf(setting.kind[Path])) /\ Having = Len(Copied.files)
      <4>1. Len(Copied.files) \in Nat BY <1>1, PathFacts
      <4>2. Having = Len(Copied.files) BY <1>1, <4>1 DEF Having
      <4> QED BY <1>1, <4>2 DEF StreamInv, Broke
    <3>2. FilesOf(setting.kind[Path]) \in Nat /\ Len(Copied.files) \in Nat
      <4>1. FilesOf(setting.kind[Path]) \in 1..Files BY <1>1, PathFacts
      <4> QED BY <1>1, <4>1, PathFacts DEF Files
    <3>3. Stream \in AgentStates BY <1>1, AgentFacts, CommandIsAgent DEF Stream
    <3> QED BY <1>1, <2>1, <3>1, <3>2, <3>3, FirstItem DEF Item
  <2>3. WithFile(Copied, setting.kind[Path], Torn) \in Copies
    <3>1. FilesOf(setting.kind[Path]) \in 1..Files /\ Len(Copied.files) \in Nat BY <1>1, PathFacts
    <3>2. Len(Copied.files) < Files BY <2>2, <3>1 DEF Files
    <3> QED BY <1>1, <3>2, PathFacts, FileAppended, ByteFacts
  <2> QED BY <2>1, <2>2, <2>3
<1> QED BY <1>2, <1>3

LEMMA ExtractWritesPuts ==
  ASSUME CommandInv, LocalsInv, AgentsInv, StoreInv, FreshInv, StreamInv, ExtractWrites
  PROVE  \/ /\ Put([Copied EXCEPT !.files[Len(Copied.files)] = open.version])
            /\ [Copied EXCEPT !.files[Len(Copied.files)] = open.version] \in Copies
            /\ Stream.wire # <<>> /\ Took /\ open' = NoSource /\ UNCHANGED <<pc, todo, archive, since, digest, chosen, outcome>>
         \/ Put(NoCopy) /\ Finish("failed") /\ UNCHANGED agent
<1> DEFINE i == Len(Copied.files)
<1>1. pc \in Fills /\ pc # "next" /\ todo # <<>> /\ open # NoSource /\ pc = "extract"
  BY DEF ExtractWrites, Fills, LocalsInv, WithPath
<1>2. CASE ExtractFails /\ UNCHANGED agent BY <1>2 DEF ExtractFails, Failing, Put
<1>3. CASE ~(ExtractFails /\ UNCHANGED agent)
  <2>1. /\ Set(archive, [Kept EXCEPT !.copy[Path].files[i] = open.version])
        /\ Stream.wire # <<>> /\ Took /\ open' = NoSource /\ UNCHANGED <<pc, todo, archive, since, digest, chosen, outcome>>
    BY <1>3 DEF ExtractWrites
  <2>2. open.version \in Bytes BY <1>1, ByteFacts DEF StreamInv
  <2>3. Copied \in Copies \cup {NoCopy} /\ i \in 1..Len(Copied.files)
    <3>1. i \in Nat /\ i > 0 /\ Copied \in Copies \cup {NoCopy} BY <1>1, PathFacts DEF StreamInv
    <3> QED BY <3>1
  <2>4. [Copied EXCEPT !.files[i] = open.version] \in Copies BY <2>2, <2>3, FileReplaced
  <2>5. Put([Copied EXCEPT !.files[i] = open.version])
    <3>1. [Kept EXCEPT !.copy[Path].files[i] = open.version] = [Kept EXCEPT !.copy[Path] = [Copied EXCEPT !.files[i] = open.version]]
      BY DEF Copied
    <3> QED BY <2>1, <3>1 DEF Put
  <2> QED BY <2>1, <2>4, <2>5
<1> QED BY <1>2, <1>3

-----------------------------------------------------------------------------
(* What a step of a resolution does to the store.                           *)

LEMMA NextBegins ==
  ASSUME CommandInv, EndsInv, LocalsInv, StoreInv, FreshInv, NextPath
  PROVE  store' = store \/ \E b : Set(archive, b) /\ Wrote(b)
<1>1. pc = "next" /\ pc \in Fills BY DEF NextPath, Fills
<1>2. CASE todo = <<>> BY <1>2 DEF NextPath
<1>3. CASE todo # <<>>
  <2>1. Kept \in Archive /\ Path \in Paths /\ Path \notin Kept.synced BY <1>1, <1>3, KeptFacts, PathFacts DEF Copying
  <2>2. ASSUME NEW kind \in Kinds \cup {"none"}, Set(archive, Begun(Kept, Path, kind))
        PROVE  \E b : Set(archive, b) /\ Wrote(b)
    <3> DEFINE b == Begun(Kept, Path, kind)
    <3>1. /\ b \in Archive /\ b.place = "visible" /\ b.durable = Kept.durable /\ b.synced = Kept.synced
          /\ b.entry = Kept.entry /\ b.filed = Kept.filed /\ \A q \in Paths : q # Path => b.copy[q] = Kept.copy[q]
      BY <2>1, BegunFacts
    <3>2. Wrote(b) BY <2>1, <3>1 DEF Wrote, Refilled
    <3>3. Set(archive, b) BY <2>2
    <3> HIDE DEF b
    <3> QED BY <3>2, <3>3
  <2>3. Exists(Source) => Source.kind \in Kinds
    <3>1. Source \in Objects \cup {NoObject} BY <2>1 DEF EndsInv, Source, Endpoints
    <3> QED BY <3>1 DEF Exists, Objects
  <2>4. \E kind \in Kinds \cup {"none"} : Set(archive, Begun(Kept, Path, kind)) BY <1>3, <2>3 DEF NextPath
  <2> QED BY <2>2, <2>4
<1> QED BY <1>2, <1>3

LEMMA PutWrites ==
  ASSUME CommandInv, LocalsInv, StoreInv, FreshInv, pc \in Copying, NEW c \in Copies \cup {NoCopy}, Put(c)
  PROVE  \E b : Set(archive, b) /\ Wrote(b)
<1> DEFINE b == [Kept EXCEPT !.copy[Path] = c]
<1>1. Set(archive, b) BY DEF Put
<1>2. b = [Kept EXCEPT !.copy[Path] = c] OBVIOUS
<1> HIDE DEF b
<1> QED BY <1>1, <1>2, CopyReplacedIsRefill

LEMMA SyncWrites ==
  ASSUME CommandInv, LocalsInv, StoreInv, FreshInv, pc \in Copying, Set(archive, Synced(Kept, Path))
  PROVE  \E b : Set(archive, b) /\ Wrote(b)
<1> DEFINE b == [Kept EXCEPT !.synced = @ \cup {Path}, !.durable = Kept.place]
<1>1. pc \in Fills /\ pc # "next" /\ todo # <<>> BY DEF Copying, Fills, LocalsInv, WithPath
<1>2. Kept \in Archive /\ Kept.place = "visible" /\ Path \in Paths BY <1>1, KeptFacts, PathFacts
<1>3. /\ b \in Archive /\ b.place = "visible" /\ b.entry = Kept.entry /\ b.filed = Kept.filed /\ b.copy = Kept.copy
      /\ b.synced = Kept.synced \cup {Path} /\ b.durable = "visible"
  BY <1>2 DEF Archive
<1>4. Set(archive, b) BY DEF Synced
<1> HIDE DEF b
<1> QED BY <1>3, <1>4 DEF Wrote, MadeDurable

LEMMA RecordWrites ==
  ASSUME CommandInv, LocalsInv, StoreInv, FreshInv, DigestInv, pc = "record", MayRecord(Kept, Path, digest),
         Set(archive, Recorded(Kept, Path, digest))
  PROVE  \E b : Set(archive, b) /\ Wrote(b)
<1> DEFINE b == [Kept EXCEPT !.entry[Path] = digest]
<1>1. pc \in Fills /\ pc # "next" /\ todo # <<>> BY DEF Fills, LocalsInv, WithPath
<1>2. Kept \in Archive /\ Kept.place = "visible" /\ Path \in Paths BY <1>1, KeptFacts, PathFacts
<1>3. /\ b \in Archive /\ b.entry[Path] = digest /\ \A q \in Paths : q # Path => b.entry[q] = Kept.entry[q]
      /\ b.place = Kept.place /\ b.durable = Kept.durable /\ b.synced = Kept.synced
      /\ b.copy = Kept.copy /\ b.filed = Kept.filed
  BY <1>2, EntryReplaced DEF DigestInv
<1>4. Set(archive, b) BY DEF Recorded
<1>5. Kept.entry[Path] = NoCopy BY DEF MayRecord
<1> HIDE DEF b
<1> QED BY <1>2, <1>3, <1>4, <1>5 DEF Wrote, EntryMade

LEMMA FileWrites ==
  ASSUME CommandInv, LocalsInv, StoreInv, FreshInv, pc = "file", Set(archive, [Kept EXCEPT !.filed = Catalogued(Kept)])
  PROVE  \E b : /\ Set(archive, b) /\ Wrote(b)
<1> DEFINE filed == Catalogued(Kept)
           b == [Kept EXCEPT !.filed = filed]
<1>1. Kept \in Archive /\ Kept.place = "visible" BY KeptFacts DEF Fills
<1>2. filed \in SUBSET Paths BY DEF Catalogued
<1>4. Set(archive, b) OBVIOUS
<1> HIDE DEF filed
<1>3. /\ b \in Archive /\ b.place = "visible" /\ b.entry = Kept.entry /\ b.copy = Kept.copy
      /\ b.synced = Kept.synced /\ b.durable = Kept.durable /\ b.filed = filed
  BY <1>1, <1>2 DEF Archive
<1>5. b.filed = Catalogued(Kept) BY <1>3 DEF filed
<1> HIDE DEF b
<1> QED BY <1>3, <1>4, <1>5 DEF Wrote, EntryFiled

LEMMA ResolveWrites ==
  ASSUME CommandInv, EndsInv, LocalsInv, AgentsInv, StoreInv, FillInv, Resolving
  PROVE  store' = store \/ (pc \in Fills /\ \E b : Set(archive, b) /\ Wrote(b))
<1> USE DEF FillInv, disk
<1>n. NoCopy \in Copies \cup {NoCopy} OBVIOUS
<1>1. CASE Preflight \/ ResolveLocked \/ RemoveLocal \/ ResolveBarrier \/ Acknowledge \/ Await
  BY <1>1 DEF Preflight, ResolveLocked, RemoveLocal, ResolveBarrier, Acknowledge, Await
<1>2. CASE NextPath
  <2>1. pc \in Fills BY <1>2 DEF NextPath, Fills
  <2> QED BY <1>2, <2>1, NextBegins
<1>3. CASE CopyOpens
  <2>1. pc \in Fills /\ pc \in Copying BY <1>3 DEF CopyOpens, Fills, Copying
  <2> QED BY <1>3, <1>n, <2>1, OpensPuts, PutWrites
<1>4. CASE CopyReads
  <2>1. pc \in Fills /\ pc \in Copying BY <1>4 DEF CopyReads, Fills, Copying
  <2> QED BY <1>4, <1>n, <2>1, ReadsPut, PutWrites
<1>5. CASE CopySynced
  <2>1. pc \in Fills /\ pc \in Copying BY <1>5 DEF CopySynced, Fills, Copying
  <2> QED BY <1>5, <2>1, SyncWrites DEF CopySynced
<1>6. CASE Record
  <2>1. pc \in Fills /\ pc = "record" BY <1>6 DEF Record, Fills
  <2> QED BY <1>6, <2>1, RecordWrites DEF Record
<1>7. CASE FileManifest
  <2>1. pc \in Fills /\ pc = "file" BY <1>7 DEF FileManifest, Fills
  <2> QED BY <1>7, <2>1, FileWrites DEF FileManifest
<1>8. CASE ExtractOpens
  <2>1. pc \in Fills /\ pc \in Copying BY <1>8 DEF ExtractOpens, Fills, Copying
  <2> QED BY <1>8, <1>n, <2>1, ExtractOpensPuts, PutWrites
<1>9. CASE ExtractWrites
  <2>1. pc \in Fills /\ pc \in Copying BY <1>9 DEF ExtractWrites, Fills, Copying
  <2> QED BY <1>9, <1>n, <2>1, ExtractWritesPuts, PutWrites
<1>10. CASE ExtractEnds
  <2>1. pc \in Fills /\ pc \in Copying BY <1>10 DEF ExtractEnds, Fills, Copying
  <2>2. ExtractFails => Put(NoCopy) BY DEF ExtractFails, Put
  <2> QED BY <1>10, <1>n, <2>1, <2>2, SyncWrites, PutWrites DEF ExtractEnds
<1>11. CASE ExtractTruncated
  <2>1. pc \in Fills /\ pc \in Copying BY <1>11 DEF ExtractTruncated, Fills, Copying
  <2>2. Put(NoCopy) BY <1>11 DEF ExtractTruncated, ExtractFails, Put
  <2> QED BY <1>n, <2>1, <2>2, PutWrites
<1> QED BY <1>1, <1>2, <1>3, <1>4, <1>5, <1>6, <1>7, <1>8, <1>9, <1>10, <1>11 DEF Resolving

-----------------------------------------------------------------------------
(* A prune: which archives it may still touch, and what it has done so far. *)

LEMMA NewestIn ==
  ASSUME NEW S, S \subseteq 1..MaxArchives, S # {} PROVE Newest(S) \in S /\ \A m \in S : m <= Newest(S)
<1> DEFINE T == {MaxArchives - n : n \in S}
<1>1. MaxArchives \in Nat BY CatalogAssumption
<1>2. T \subseteq Nat /\ T # {}
  <2>1. \A n \in S : MaxArchives - n \in Nat BY <1>1
  <2>2. PICK n \in S : TRUE OBVIOUS
  <2>3. MaxArchives - n \in T BY <2>2
  <2> QED BY <2>1, <2>3
<1> HIDE DEF T
<1>3. PICK x \in T : \A y \in T : ~ (<<y, x>> \in OpToRel(<, Nat)) BY <1>2, NatLessThanWellFounded, WFMin
<1>4. \A y \in T : ~(y < x) BY <1>2, <1>3 DEF OpToRel
<1>5. PICK n \in S : x = MaxArchives - n BY DEF T
<1>6. ASSUME NEW m \in S PROVE m <= n
  <2>1. MaxArchives - m \in T BY DEF T
  <2>2. ~(MaxArchives - m < MaxArchives - n) BY <1>4, <1>5, <2>1
  <2> QED BY <1>1, <2>2
<1> QED BY <1>6 DEF Newest

Hiding == {"stage", "reclaim", "settle"}
PruneInv ==
  /\ pc \in {"clean", "hide"} \cup Hiding =>
       /\ chosen \subseteq 1..used /\ chosen \subseteq condemned
       /\ status \in [1..MaxArchives -> {"none", "not-run", "pruned"}]
       /\ \A n \in 1..MaxArchives : status[n] = "pruned" => store[n].place = "absent"
       /\ \A n \in 1..MaxArchives : status[n] = "not-run" <=> n \in chosen
       /\ \A n \in chosen : store[n].place = "visible" \/ (n = Victim /\ pc \in Hiding)
  /\ pc \in Hiding => chosen # {}
  /\ pc = "stage" => store[Victim].place = "tombstone"
  /\ pc = "reclaim" => store[Victim].place = "tombstone" /\ store[Victim].durable = "tombstone"
  /\ pc = "settle" => store[Victim].place = "absent"
  /\ pc \in {"hide"} \cup Hiding =>
       \A n \in 1..MaxArchives : store[n].place = "tombstone" => n = Victim /\ pc \in {"stage", "reclaim"}

\* What a prune makes of an archive: it moves it, and may remove copies.
Reduced(a, b) ==
  /\ b \in Archive /\ b.entry = a.entry /\ b.filed = a.filed /\ b.synced = a.synced
  /\ \A p \in Paths : b.copy[p] \in {a.copy[p], NoCopy}

LEMMA PlaceReduces ==
  ASSUME NEW a \in Archive, NEW place \in Places, NEW durable \in Places
  PROVE  /\ Reduced(a, [a EXCEPT !.place = place]) /\ Reduced(a, [a EXCEPT !.durable = durable])
         /\ Reduced(a, [a EXCEPT !.place = place, !.durable = durable])
         /\ [a EXCEPT !.place = place].place = place /\ [a EXCEPT !.place = place].durable = a.durable
         /\ [a EXCEPT !.durable = durable].place = a.place /\ [a EXCEPT !.durable = durable].durable = durable
         /\ [a EXCEPT !.place = place, !.durable = durable].place = place
         /\ [a EXCEPT !.place = place, !.durable = durable].durable = durable
  BY DEF Archive, Reduced

LEMMA PartReduces ==
  ASSUME NEW a \in Archive, NEW b \in PartlyRemoved(a)
  PROVE  Reduced(a, b) /\ b.place = a.place /\ b.durable = a.durable
<1>1. PICK gone \in SUBSET Paths : b = [a EXCEPT !.copy = [p \in Paths |-> IF p \in gone THEN NoCopy ELSE a.copy[p]]]
  BY DEF PartlyRemoved
<1> DEFINE copy == [p \in Paths |-> IF p \in gone THEN NoCopy ELSE a.copy[p]]
<1>2. copy \in [Paths -> Copies \cup {NoCopy}] /\ \A p \in Paths : copy[p] \in {a.copy[p], NoCopy}
  BY DEF Archive
<1>3. b = [a EXCEPT !.copy = copy] BY <1>1
<1> HIDE DEF copy
<1> QED BY <1>2, <1>3 DEF Reduced, Archive

LEMMA VictimFacts ==
  ASSUME CommandInv, LocalsInv, StoreInv, PruneInv, pc \in {"clean", "hide"} \cup Hiding, chosen # {}
  PROVE  /\ Victim \in chosen /\ Victim \in 1..MaxArchives /\ Victim <= used /\ Victim \in condemned
         /\ store[Victim] \in Archive /\ \A n \in chosen : n \in 1..MaxArchives
<1>1. used \in 0..MaxArchives /\ MaxArchives \in Nat BY UsedBounded
<1>2. chosen \subseteq 1..used /\ chosen \subseteq condemned BY DEF PruneInv
<1>3. chosen \subseteq 1..MaxArchives BY <1>1, <1>2
<1>4. Victim \in chosen BY <1>3, NewestIn DEF Victim
<1>5. Victim \in 1..used BY <1>2, <1>4
<1> QED BY <1>1, <1>2, <1>3, <1>4, <1>5 DEF StoreInv

\* The archive a step of a prune touches.
LEMMA PruneReduces ==
  ASSUME CommandInv, LocalsInv, StoreInv, PruneInv, Pruning
  PROVE  \/ store' = store
         \/ \E n \in 1..MaxArchives : n <= used /\ \E b : Set(n, b) /\ Reduced(store[n], b)
<1>0. store \in [1..MaxArchives -> Archive] BY DEF StoreInv
<1>1. CASE PruneSelect \/ PruneStops \/ PruneCleaned \/ PruneEnds
  BY <1>1 DEF PruneSelect, PruneStops, PruneCleaned, PruneEnds
<1>2. CASE CleanTombstone
  <2>1. CASE UNCHANGED store BY <2>1
  <2>2. CASE ~UNCHANGED store
    <3>1. PICK n \in Stale : \/ \E a \in PartlyRemoved(store[n]) : Set(n, a)
                             \/ Set(n, [store[n] EXCEPT !.place = "absent", !.durable = "absent"])
      BY <1>2, <2>2 DEF CleanTombstone
    <3>2. n \in 1..MaxArchives /\ store[n].place = "tombstone" BY DEF Stale, Tombstones
    <3>3. n <= used
      <4>1. store[n] # Unused BY <3>2 DEF Unused
      <4>2. used \in 0..MaxArchives /\ MaxArchives \in Nat BY UsedBounded
      <4> QED BY <3>2, <4>1, <4>2 DEF StoreInv
    <3>4. Reduced(store[n], [store[n] EXCEPT !.place = "absent", !.durable = "absent"])
      <4> DEFINE a == store[n]
      <4>1. a \in Archive /\ "absent" \in Places BY <1>0, <3>2 DEF Places
      <4> HIDE DEF a
      <4>2. Reduced(a, [a EXCEPT !.place = "absent", !.durable = "absent"]) BY <4>1, PlaceReduces
      <4> QED BY <4>2 DEF a
    <3>5. \E b : Set(n, b) /\ Reduced(store[n], b) BY <1>0, <3>1, <3>2, <3>4, PartReduces
    <3> QED BY <3>2, <3>3, <3>5
  <2> QED BY <2>1, <2>2
<1>3. CASE PruneHides \/ PruneStages \/ PruneReclaims \/ PruneSettles
  <2> DEFINE a == store[Victim]
  <2>1. pc \in {"clean", "hide"} \cup Hiding /\ chosen # {}
    BY <1>3 DEF PruneHides, PruneStages, PruneReclaims, PruneSettles, Hiding, PruneInv
  <2>2. Victim \in 1..MaxArchives /\ Victim <= used /\ a \in Archive BY <2>1, VictimFacts
  <2>3. /\ Reduced(a, [a EXCEPT !.place = "tombstone"]) /\ Reduced(a, [a EXCEPT !.durable = "tombstone"])
        /\ Reduced(a, [a EXCEPT !.place = "visible"]) /\ Reduced(a, [a EXCEPT !.place = "absent"])
        /\ Reduced(a, [a EXCEPT !.durable = "absent"])
    BY <2>2, PlaceReduces DEF Places
  <2>4. store' = store \/ \E b : Set(Victim, b) /\ Reduced(a, b)
    BY <1>3, <2>2, <2>3, PartReduces DEF PruneHides, PruneStages, PruneReclaims, PruneSettles, Hidden
  <2> QED BY <2>2, <2>4
<1> QED BY <1>1, <1>2, <1>3 DEF Pruning

-----------------------------------------------------------------------------
(* The store keeps its shape.                                              *)

LEMMA StoreWritten ==
  ASSUME StoreInv, UNCHANGED <<setting, used>>, used \in Nat, NEW n \in 1..MaxArchives, n <= used,
         NEW b \in Archive, Set(n, b), \A p \in Paths : b.entry[p] # NoCopy => b.entry[p] \in WholeCopies(p)
  PROVE  StoreInv'
<1>1. /\ store'[n] = b /\ \A m \in 1..MaxArchives : m # n => store'[m] = store[m]
      /\ store' \in [1..MaxArchives -> Archive]
  BY StoreSet DEF StoreInv
<1>2. \A m \in 1..MaxArchives : m > used => m # n BY CatalogAssumption
<1> QED BY <1>1, <1>2 DEF StoreInv, WholeCopies

LEMMA StoreStays ==
  ASSUME StoreInv, UNCHANGED <<setting, store>>, used \in Nat, used' = used \/ used' = used + 1
  PROVE  StoreInv'
<1>1. \A n \in 1..MaxArchives : n > used' => n > used BY CatalogAssumption
<1> QED BY <1>1 DEF StoreInv, WholeCopies

LEMMA OldFacts ==
  ASSUME NEW s \in Settings, setting = s
  PROVE  /\ OldArchive(s) \in Archive /\ OldArchive(s).place = "visible" /\ OldArchive(s).durable = "visible"
         /\ \A p \in Paths : /\ OldArchive(s).entry[p] = OldArchive(s).copy[p]
                             /\ OldArchive(s).entry[p] # NoCopy =>
                                  OldArchive(s).entry[p] \in WholeCopies(p) /\ p \in OldArchive(s).synced
<1>1. setting \in Settings OBVIOUS
<1>2. s.conflicts \subseteq Paths /\ s.kind \in [Paths -> Kinds] BY <1>1, ScriptFacts
<1>3. 3 \in 1..MaxVersion
  <2>1. 3 + s.edits + Cardinality(s.conflicts) <= MaxVersion BY RecoveryAssumption
  <2>2. s.edits \in Nat /\ MaxVersion \in Nat BY <1>1, ScriptFacts
  <2>3. Cardinality(s.conflicts) \in Nat BY <1>2, CatalogAssumption, FS_Subset, FS_CardinalityType
  <2> QED BY <2>1, <2>2, <2>3
<1>4. ASSUME NEW p \in Paths PROVE OldCopy(s.kind[p]) \in WholeCopies(p)
  <2>1. [i \in 1..FilesOf(s.kind[p]) |-> 3] \in [1..FilesOf(s.kind[p]) -> 1..MaxVersion] BY <1>3
  <2> QED BY <2>1 DEF OldCopy, WholeCopies
<1> DEFINE whole == [p \in Paths |-> IF p \in s.conflicts THEN OldCopy(s.kind[p]) ELSE NoCopy]
<1>5. /\ whole \in [Paths -> Copies \cup {NoCopy}]
      /\ \A p \in Paths : whole[p] # NoCopy => whole[p] \in WholeCopies(p) /\ p \in s.conflicts
  <2>1. \A p \in Paths : whole[p] = NoCopy \/ (whole[p] = OldCopy(s.kind[p]) /\ p \in s.conflicts) OBVIOUS
  <2>2. \A p \in Paths : OldCopy(s.kind[p]) \in Copies BY <1>1, <1>4, WholeFacts
  <2> QED BY <1>4, <2>1, <2>2
<1>6. OldArchive(s) = [place |-> "visible", durable |-> "visible", winner |-> "local", copy |-> whole,
                       synced |-> s.conflicts, entry |-> whole, filed |-> s.conflicts, parents |-> s.conflicts]
  BY DEF OldArchive
<1> HIDE DEF whole
<1> QED BY <1>2, <1>5, <1>6 DEF Archive, Places

LEMMA StoreInit == Init => StoreInv
<1>1. SUFFICES ASSUME Init PROVE StoreInv OBVIOUS
<1>2. /\ setting \in Settings /\ used = setting.old
      /\ store = [n \in 1..MaxArchives |-> IF n <= setting.old THEN OldArchive(setting) ELSE Unused]
  BY <1>1 DEF Init
<1>3. store \in [1..MaxArchives -> Archive] BY <1>2, OldFacts, UnusedFacts
<1>4. \A n \in 1..MaxArchives : n > used => store[n] = Unused
  <2>1. setting.old \in 0..MaxArchives /\ MaxArchives \in Nat BY <1>2, ScriptFacts
  <2> QED BY <1>2, <2>1
<1>5. \A p \in Paths : Unused.entry[p] = NoCopy BY DEF Unused
<1> QED BY <1>2, <1>3, <1>4, <1>5, OldFacts DEF StoreInv

LEMMA StoreStep ==
  ASSUME CommandInv, EndsInv, LocalsInv, AgentsInv, StoreInv, FillInv, PruneInv, [Next]_vars PROVE StoreInv'
<1>0. used \in Nat /\ used <= MaxArchives /\ store \in [1..MaxArchives -> Archive]
  <2>1. used \in 0..MaxArchives /\ MaxArchives \in Nat BY UsedBounded
  <2> QED BY <2>1 DEF StoreInv
<1>1. CASE Start BY <1>0, <1>1, StoreStays DEF Start, disk
<1>2. CASE Resolving
  <2>1. CASE store' = store
    <3>1. setting' = setting /\ (used' = used \/ used' = used + 1)
      BY <1>2 DEF Resolving, Preflight, ResolveLocked, NextPath, CopyOpens, CopyReads, CopySynced, Record, FileManifest,
         RemoveLocal, ResolveBarrier, ExtractOpens, ExtractWrites, ExtractEnds, ExtractTruncated, Acknowledge, Await,
         ByClient, disk
    <3> QED BY <1>0, <2>1, <3>1, StoreStays
  <2>2. CASE store' # store
    <3>1. pc \in Fills /\ \E b : Set(archive, b) /\ Wrote(b) BY <1>2, <2>2, ResolveWrites
    <3>2. PICK b : Set(archive, b) /\ Wrote(b) BY <3>1
    <3>3. UNCHANGED <<setting, used>>
      BY <1>2, <2>2 DEF Resolving, Preflight, ResolveLocked, NextPath, CopyOpens, CopyReads, CopySynced, Record, FileManifest,
         RemoveLocal, ResolveBarrier, ExtractOpens, ExtractWrites, ExtractEnds, ExtractTruncated, Acknowledge, Await,
         ByClient, disk
    <3>4. archive \in 1..MaxArchives /\ archive <= used /\ Kept = store[archive] BY <3>1, KeptFacts DEF FillInv
    <3>5. \A p \in Paths : b.entry[p] # NoCopy => b.entry[p] \in WholeCopies(p)
      <4>1. \A p \in Paths : Kept.entry[p] # NoCopy => Kept.entry[p] \in WholeCopies(p) BY <3>4 DEF StoreInv
      <4>2. CASE b.entry = Kept.entry BY <4>1, <4>2
      <4>3. CASE EntryMade(b) BY <4>1, <4>3 DEF EntryMade, FillInv, DigestInv
      <4> QED BY <3>2, <4>2, <4>3 DEF Wrote, Refilled, MadeDurable, EntryFiled
    <3> QED BY <1>0, <3>2, <3>3, <3>4, <3>5, StoreWritten DEF Wrote
  <2> QED BY <2>1, <2>2
<1>3. CASE Pruning
  <2>1. UNCHANGED <<setting, used>>
    BY <1>3 DEF Pruning, PruneSelect, CleanTombstone, PruneStops, PruneCleaned, PruneHides, PruneStages, PruneReclaims,
       PruneSettles, PruneEnds, ByPrune, OnlyPrune
  <2>2. CASE store' = store BY <1>0, <2>1, <2>2, StoreStays
  <2>3. CASE store' # store
    <3>1. PICK n \in 1..MaxArchives : n <= used /\ \E b : Set(n, b) /\ Reduced(store[n], b)
      BY <1>3, <2>3, PruneReduces
    <3>2. PICK b : Set(n, b) /\ Reduced(store[n], b) BY <3>1
    <3> QED BY <1>0, <2>1, <3>1, <3>2, StoreWritten DEF Reduced, StoreInv
  <2> QED BY <2>2, <2>3
<1>4. CASE Reading
  BY <1>0, <1>4, StoreStays DEF Reading, RestoreFinds, RestoreCopies, RestoreCompares, VerifyBegins, VerifyNext, VerifyEnds,
     ByReader, disk
<1>5. ASSUME NEW k \in Agents, AgentSteps(k) PROVE StoreInv'
  BY <1>0, <1>5, AgentsLeaveControl, StoreStays DEF Control, disk
<1>6. CASE Cancel \/ Crash \/ \E k \in Agents : Cut(k) BY <1>0, <1>6, StoreStays DEF Cancel, Crash, Cut, disk
<1>7. CASE PowerLoss
  <2> DEFINE left == UNION {AfterPowerLoss(store[n]) : n \in 1..MaxArchives}
  <2>0. store' \in [1..MaxArchives -> left] BY <1>7 DEF PowerLoss
  <2>1. UNCHANGED <<setting, used>> /\ \A n \in 1..MaxArchives : store'[n] \in AfterPowerLoss(store[n])
    BY <1>7 DEF PowerLoss
  <2> HIDE DEF left
  <2>2. \A n \in 1..MaxArchives :
          /\ store'[n] \in Archive
          /\ \A p \in Paths : store'[n].entry[p] \in {store[n].entry[p], NoCopy}
    BY <1>0, <2>1, PowerFacts
  <2>3. store' \in [1..MaxArchives -> Archive]
    <3>1. \A n \in 1..MaxArchives : store'[n] \in Archive BY <2>2
    <3> QED BY <2>0, <3>1
  <2>4. \A n \in 1..MaxArchives : n > used => store'[n] = Unused BY <2>1, UnusedFacts DEF StoreInv
  <2> QED BY <2>1, <2>2, <2>3, <2>4 DEF StoreInv, WholeCopies
<1>8. CASE Rots
  <2>1. PICK n \in 1..MaxArchives, p \in Paths : 
          /\ store[n].place = "visible"
          /\ \E i \in 1..Len(store[n].copy[p].files), damage \in {Rot, Short} :
               Set(n, [store[n] EXCEPT !.copy[p].files[i] = damage])
    BY <1>8 DEF Rots
  <2>2. PICK i \in 1..Len(store[n].copy[p].files), damage \in {Rot, Short} :
          Set(n, [store[n] EXCEPT !.copy[p].files[i] = damage])
    BY <2>1
  <2> DEFINE c == [store[n].copy[p] EXCEPT !.files[i] = damage]
             b == [store[n] EXCEPT !.copy[p] = c]
  <2>3. Set(n, b) BY <2>2
  <2>4. store[n] \in Archive /\ store[n].copy[p] \in Copies \cup {NoCopy} BY <1>0 DEF Archive
  <2>5. c \in Copies BY <2>4, FileReplaced, ByteFacts
  <2> HIDE DEF c
  <2>6. b \in Archive /\ b.entry = store[n].entry BY <2>4, <2>5, CopyReplaced
  <2>7. n <= used
    <3>1. store[n] # Unused BY <2>1 DEF Unused
    <3> QED BY <1>0, <3>1, CatalogAssumption DEF StoreInv
  <2> HIDE DEF b
  <2>8. UNCHANGED <<setting, used>> BY <1>8 DEF Rots
  <2> QED BY <1>0, <2>3, <2>6, <2>7, <2>8, StoreWritten DEF StoreInv
<1>9. CASE Users BY <1>0, <1>9, UsersLeaveControl, StoreStays DEF Control, disk
<1>10. CASE UNCHANGED vars BY <1>0, <1>10, StoreStays DEF vars, disk
<1> QED BY <1>1, <1>2, <1>3, <1>4, <1>5, <1>6, <1>7, <1>8, <1>9, <1>10 DEF Next, Over, Client, Faults

-----------------------------------------------------------------------------
(* The copy in progress, step by step.                                     *)

LEMMA FillIdle ==
  ASSUME pc' \notin Fills, open' = NoSource, digest' \in Copies \cup {NoCopy} PROVE FillInv'
  BY DEF FillInv, FreshInv, CopyInv, StreamInv, DigestInv, Fills

LEMMA FillEnds == ASSUME NEW result, Finish(result) PROVE FillInv'
  BY FillIdle DEF Finish, Fills

LEMMA FillStays ==
  ASSUME FillInv, UNCHANGED <<setting, store, command, pc, todo, archive, open, digest, agent>> PROVE FillInv'
<1>1. Kept' = Kept /\ Path' = Path /\ Stream' = Stream BY DEF Kept, Path, Stream
<1>2. Copied' = Copied /\ Item' = Item BY <1>1 DEF Copied, Item
<1>3. Having' = Having BY <1>2 DEF Having
<1>4. FreshInv' BY <1>1 DEF FillInv, FreshInv
<1>5. CopyInv' BY <1>1, <1>2, <1>3 DEF FillInv, CopyInv
<1>6. StreamInv' BY <1>1, <1>2, <1>3 DEF FillInv, StreamInv
<1>7. DigestInv' BY <1>1, <1>2 DEF FillInv, DigestInv, WholeCopies
<1> QED BY <1>4, <1>5, <1>6, <1>7 DEF FillInv

\* What a refill leaves of the archive.
LEMMA PutFacts ==
  ASSUME CommandInv, LocalsInv, StoreInv, FreshInv, pc \in Copying, NEW c \in Copies \cup {NoCopy}, Put(c),
         UNCHANGED <<setting, command, pc, todo, archive, digest>>
  PROVE  /\ Copied' = c /\ Path' = Path /\ Path \in Paths /\ Kept'.place = "visible" /\ Kept'.synced = Kept.synced
         /\ FreshInv'
<1>1. pc \in Fills /\ pc # "next" /\ todo # <<>> BY DEF Copying, Fills, LocalsInv, WithPath
<1>2. Kept \in Archive /\ Kept.place = "visible" /\ Path \in Paths /\ archive \in 1..MaxArchives
  BY <1>1, KeptFacts, PathFacts
<1> DEFINE b == [Kept EXCEPT !.copy[Path] = c]
<1>3. Set(archive, b) BY DEF Put
<1>4. b.copy[Path] = c /\ b.place = "visible" /\ b.synced = Kept.synced BY ZenonT(60), <1>2, CopyReplaced
<1> HIDE DEF b
<1>5. store'[archive] = b BY <1>2, <1>3, StoreSet DEF StoreInv
<1>6. Kept' = b /\ Path' = Path BY <1>5 DEF Kept, Path
<1>7. Copied' = c BY <1>4, <1>6 DEF Copied
<1>8. FreshInv' BY <1>4, <1>6 DEF FreshInv, Copying
<1> QED BY <1>2, <1>4, <1>6, <1>7, <1>8

LEMMA CopyOpensFills ==
  ASSUME CommandInv, EndsInv, LocalsInv, StoreInv, FillInv, CopyOpens PROVE FillInv'
<1>1. pc = "copy" /\ open = NoSource /\ UNCHANGED <<setting, command>> BY DEF CopyOpens
<1>2. pc \in Fills /\ pc \in Copying /\ todo # <<>> BY <1>1 DEF Copying, Fills, LocalsInv, WithPath
<1>3. CASE Put(NoCopy) /\ Finish("failed") BY <1>3, FillEnds
<1>4. CASE ~(Put(NoCopy) /\ Finish("failed"))
  <2> DEFINE c == WithFile(Copied, setting.kind[Path], Torn)
             n == Len(Copied.files)
  <2>1. /\ Put(c) /\ c \in Copies /\ Exists(Source) /\ open' = Observed(Source, n + 1, Path)
        /\ n < FilesOf(setting.kind[Path]) /\ UNCHANGED <<pc, todo, archive, since, digest, chosen, outcome>>
    BY <1>4, OpensPuts DEF FillInv
  <2>2. /\ n \in Nat /\ FilesOf(setting.kind[Path]) \in 1..Files /\ Copied \in Copies \cup {NoCopy}
        /\ setting.kind[Path] \in Kinds /\ Path \in Paths
    BY <1>2, PathFacts DEF FillInv
  <2>3. c.kind = setting.kind[Path] /\ Len(c.files) = n + 1 /\ \A j \in 1..n : c.files[j] = Copied.files[j]
    BY <2>1, <2>2, FileAppended, ByteFacts DEF Files
  <2>4. Source.files \in Seq(1..MaxVersion) /\ Len(Source.files) = FilesOf(setting.kind[Path])
    <3>1. Source \in ObjectsAt(Path) \cup {NoObject} BY <2>2 DEF EndsInv, Source, Endpoints
    <3> QED BY <2>1, <2>2, <3>1, KindFacts DEF Exists, CommandInv
  <2>5. n + 1 \in 1..Len(Source.files) BY <2>1, <2>2, <2>4 DEF Files
  <2>6. Source.files[n + 1] \in 1..MaxVersion BY <2>4, <2>5, ElementsTyped
  <2>7. open'.version \in 1..MaxVersion /\ open' # NoSource
    BY <2>1, <2>2, <2>6, RecoveryAssumption DEF Observed, NoSource, Nobody
  <2>8. Having = n BY <1>1, <2>2 DEF Having
  <2>9. \A j \in 1..n : Copied.files[j] \in 1..MaxVersion BY <1>1, <2>8 DEF FillInv, CopyInv
  <2> HIDE DEF c
  <2>10. Copied' = c /\ Path' = Path /\ FreshInv' BY <1>1, <1>2, <2>1, PutFacts DEF FillInv
  <2>11. Having' = n BY <2>2, <2>3, <2>7, <2>10 DEF Having
  <2>12. CopyInv' BY <1>1, <2>1, <2>2, <2>3, <2>7, <2>9, <2>10, <2>11 DEF CopyInv
  <2> QED BY <1>1, <2>1, <2>10, <2>12 DEF FillInv, StreamInv, DigestInv
<1> QED BY <1>3, <1>4

\* A copy with its last file rewritten.
LEMMA LastRewritten ==
  ASSUME NEW c \in Copies \cup {NoCopy}, Len(c.files) > 0, NEW v \in Bytes
  PROVE  LET b == [c EXCEPT !.files[Len(c.files)] = v]
         IN  /\ b \in Copies /\ b.kind = c.kind /\ Len(b.files) = Len(c.files) /\ Len(c.files) \in Nat
             /\ b.files[Len(c.files)] = v /\ \A j \in 1..(Len(c.files) - 1) : b.files[j] = c.files[j]
<1>1. Len(c.files) \in Nat BY CopyFacts DEF Files
<1>2. Len(c.files) \in 1..Len(c.files) BY <1>1
<1>3. \A j \in 1..(Len(c.files) - 1) : j \in 1..Len(c.files) /\ j # Len(c.files) BY <1>1
<1> QED BY <1>1, <1>2, <1>3, FileReplaced

LEMMA CopyReadsFills ==
  ASSUME CommandInv, LocalsInv, StoreInv, FillInv, CopyReads PROVE FillInv'
<1>1. pc = "copy" /\ open # NoSource /\ UNCHANGED <<setting, command>> BY DEF CopyReads
<1>2. pc \in Fills /\ pc \in Copying /\ todo # <<>> BY <1>1 DEF Copying, Fills, LocalsInv, WithPath
<1>3. CASE Put(NoCopy) /\ Finish("failed") BY <1>3, FillEnds
<1>4. CASE ~(Put(NoCopy) /\ Finish("failed"))
  <2> DEFINE n == Len(Copied.files)
  <2>1. PICK v \in 1..MaxVersion :
              /\ Put([Copied EXCEPT !.files[n] = v]) /\ [Copied EXCEPT !.files[n] = v] \in Copies
              /\ open' = NoSource /\ UNCHANGED <<pc, todo, archive, since, digest, chosen, outcome>>
    BY <1>4, ReadsPut DEF FillInv
  <2> DEFINE c == [Copied EXCEPT !.files[n] = v]
  <2>2. n \in Nat /\ n > 0 /\ Copied \in Copies \cup {NoCopy} BY <1>1, <1>2, PathFacts DEF FillInv, CopyInv
  <2>3. c.kind = Copied.kind /\ Len(c.files) = n /\ c.files[n] = v /\ \A j \in 1..(n - 1) : c.files[j] = Copied.files[j]
    BY <2>2, LastRewritten, ByteFacts
  <2>4. Having = n - 1 BY <1>1, <2>2 DEF Having
  <2>5. \A j \in 1..(n - 1) : Copied.files[j] \in 1..MaxVersion BY <1>1, <2>4 DEF FillInv, CopyInv
  <2>6. \A j \in 1..n : c.files[j] \in 1..MaxVersion
    <3>1. \A j \in 1..n : j = n \/ j \in 1..(n - 1) BY <2>2
    <3> QED BY <2>3, <2>5, <3>1
  <2>7. Put(c) /\ c \in Copies BY <2>1
  <2> HIDE DEF c
  <2>8. Copied' = c /\ Path' = Path /\ FreshInv' BY <1>1, <1>2, <2>1, <2>7, PutFacts DEF FillInv
  <2>9. Having' = n BY <2>1, <2>2, <2>3, <2>8 DEF Having
  <2>10. Copied.kind = setting.kind[Path] /\ n <= FilesOf(setting.kind[Path])
    <3>1. Len(NoCopy.files) = 0 BY DEF NoCopy
    <3> QED BY <1>1, <2>2, <3>1 DEF FillInv, CopyInv
  <2>11. CopyInv' BY <1>1, <2>1, <2>3, <2>6, <2>8, <2>9, <2>10 DEF CopyInv
  <2> QED BY <1>1, <2>1, <2>8, <2>11 DEF FillInv, StreamInv, DigestInv
<1> QED BY <1>3, <1>4

\* A complete copy is made durable and digested.
LEMMA SyncFills ==
  ASSUME CommandInv, LocalsInv, StoreInv, FillInv, pc \in Copying, open = NoSource, Copied \in WholeCopies(Path),
         Set(archive, Synced(Kept, Path)), digest' = Copied, pc' = "record",
         UNCHANGED <<setting, command, todo, archive, open>>
  PROVE  FillInv'
<1>1. pc \in Fills /\ pc # "next" /\ todo # <<>> BY DEF Copying, Fills, LocalsInv, WithPath
<1>2. Kept \in Archive /\ Kept.place = "visible" /\ Path \in Paths /\ archive \in 1..MaxArchives
      /\ 1 \in DOMAIN todo /\ Path = todo[1]
  BY <1>1, KeptFacts, PathFacts DEF FillInv
<1> DEFINE b == [Kept EXCEPT !.synced = @ \cup {Path}, !.durable = Kept.place]
<1>3. b.place = "visible" /\ b.copy = Kept.copy /\ b.synced = Kept.synced \cup {Path} BY <1>2 DEF Archive
<1>4. Set(archive, b) BY DEF Synced
<1> HIDE DEF b
<1>5. Kept' = b /\ Path' = Path BY <1>2, <1>4, StoreSet DEF StoreInv, Kept, Path
<1>6. Copied' = Copied BY <1>3, <1>5 DEF Copied
<1>7. ASSUME NEW i \in DOMAIN todo, i > 1 PROVE todo[i] \notin Kept'.synced
  <2>1. todo[i] # Path BY <1>2, <1>7 DEF LocalsInv, Unique
  <2>2. todo[i] \notin Kept.synced BY <1>1, <1>7 DEF FillInv, FreshInv
  <2> QED BY <1>3, <1>5, <2>1, <2>2
<1>8. FreshInv' BY <1>3, <1>5, <1>7 DEF FreshInv, Copying
<1>9. Copied \in Copies /\ Same(Copied, Copied)
  BY <1>2, WholeFacts DEF CommandInv, Same
<1>10. DigestInv' BY <1>3, <1>5, <1>6, <1>9 DEF DigestInv, WholeCopies
<1> QED BY <1>8, <1>10 DEF FillInv, CopyInv, StreamInv

LEMMA WholeCopy ==
  ASSUME NEW p, NEW c \in Copies \cup {NoCopy}, c.kind = setting.kind[p], Len(c.files) = FilesOf(setting.kind[p]),
         Len(c.files) > 0, \A j \in 1..Len(c.files) : c.files[j] \in 1..MaxVersion
  PROVE  c \in WholeCopies(p)
<1>1. c.files \in Seq(Bytes) /\ Len(c.files) \in 0..Files /\ DOMAIN c.files = 1..Len(c.files) BY CopyFacts
<1>2. c \in Copies
  <2>1. Len(NoCopy.files) = 0 BY DEF NoCopy
  <2> QED BY <2>1
<1>3. c = [kind |-> c.kind, files |-> c.files] BY <1>2 DEF Copies
<1>4. c.files \in [1..Len(c.files) -> 1..MaxVersion] BY <1>1
<1> QED BY <1>3, <1>4 DEF WholeCopies

LEMMA CopySyncedFills ==
  ASSUME CommandInv, LocalsInv, StoreInv, FillInv, CopySynced PROVE FillInv'
<1>1. pc = "copy" /\ CopyDone(Copied, setting.kind[Path]) /\ UNCHANGED <<setting, command>> BY DEF CopySynced
<1>2. pc \in Fills /\ pc \in Copying /\ todo # <<>> BY <1>1 DEF Copying, Fills, LocalsInv, WithPath
<1>3. CASE Finish("failed") BY <1>3, FillEnds
<1>4. CASE ~Finish("failed")
  <2>1. /\ Set(archive, Synced(Kept, Path)) /\ digest' = Copied /\ pc' = "record"
        /\ UNCHANGED <<todo, archive, open>>
    BY <1>4 DEF CopySynced, Failing, Goto, Digest
  <2>2. /\ Copied # NoCopy /\ Len(Copied.files) = FilesOf(setting.kind[Path]) /\ open = NoSource BY <1>1 DEF CopyDone
  <2>3. Copied \in Copies \cup {NoCopy} /\ FilesOf(setting.kind[Path]) \in 1..Files BY <1>2, PathFacts DEF FillInv
  <2>4. Having = Len(Copied.files) /\ Len(Copied.files) > 0 BY <2>2, <2>3 DEF Having, Files
  <2>5. Copied.kind = setting.kind[Path] /\ \A j \in 1..Len(Copied.files) : Copied.files[j] \in 1..MaxVersion
    BY <1>1, <2>2, <2>4 DEF FillInv, CopyInv
  <2>6. Copied \in WholeCopies(Path) BY <2>2, <2>3, <2>4, <2>5, WholeCopy
  <2> QED BY <1>1, <1>2, <2>1, <2>2, <2>6, SyncFills
<1> QED BY <1>3, <1>4

\* A step to a pc at which nothing is being copied or recorded.
LEMMA FillGoes ==
  ASSUME FreshInv', open' = NoSource, digest' \in Copies \cup {NoCopy}, pc' \notin Copying \cup {"record"} PROVE FillInv'
  BY DEF FillInv, CopyInv, StreamInv, DigestInv, Copying

LEMMA LockedFills ==
  ASSUME CommandInv, LocalsInv, StoreInv, FillInv, ResolveLocked PROVE FillInv'
<1>1. pc = "lock" /\ UNCHANGED <<setting, store, command>> BY DEF ResolveLocked
<1>2. CASE Finish("refused") BY <1>2, FillEnds
<1>3. CASE ~Finish("refused")
  <2>1. used' = used + 1 /\ archive' = used + 1 /\ pc' = "next" /\ UNCHANGED <<todo, open, digest>>
    BY <1>3 DEF ResolveLocked, Goto
  <2>2. used + 1 \in 1..MaxArchives /\ used \in Nat BY <1>1, UsedBounded DEF Naming, LocalsInv
  <2>3. store[used + 1] = Unused BY <2>2 DEF StoreInv
  <2>4. Kept' = Unused BY <1>1, <2>1, <2>3 DEF Kept
  <2>5. Unused.synced = {} BY DEF Unused
  <2>7. open' = NoSource BY <1>1, <2>1 DEF FillInv, FreshInv, Copying
  <2>6. FreshInv' BY <2>1, <2>4, <2>5, <2>7 DEF FreshInv, Copying
  <2> QED BY <2>1, <2>6, <2>7, FillGoes DEF FillInv, DigestInv, Copying
<1> QED BY <1>2, <1>3

LEMMA NextFills ==
  ASSUME CommandInv, EndsInv, LocalsInv, AgentsInv, StoreInv, FillInv, NextPath PROVE FillInv'
<1>1. pc = "next" /\ pc \in Fills /\ UNCHANGED <<setting, command>> BY DEF NextPath, Fills
<1>2. open = NoSource /\ digest \in Copies \cup {NoCopy} BY <1>1 DEF FillInv, FreshInv, DigestInv, Copying
<1>3. CASE todo = <<>>
  <2>1. pc' = "barrier" /\ UNCHANGED <<open, digest>> BY <1>3 DEF NextPath, Goto, Keeping
  <2> QED BY <1>2, <2>1, FillIdle DEF Fills
<1>4. CASE Finish("failed") BY <1>4, FillEnds
<1>5. ASSUME todo # <<>>, ~Finish("failed") PROVE FillInv'
  <2>0. /\ Kept \in Archive /\ Path \in Paths /\ archive \in 1..MaxArchives
        /\ setting.kind[Path] \in Kinds /\ FilesOf(setting.kind[Path]) \in 1..Files
    BY <1>1, <1>5, KeptFacts, PathFacts DEF FillInv
  <2>1. \A i \in DOMAIN todo : todo[i] \notin Kept.synced BY <1>1 DEF FillInv, FreshInv
  <2>2. ASSUME NEW kind \in Kinds \cup {"none"}, Set(archive, Begun(Kept, Path, kind)), UNCHANGED <<todo, archive, open, digest>>,
               pc' \in Copying
        PROVE  /\ FreshInv' /\ Path' = Path /\ Having' = 0 /\ Copied'.files = <<>>
               /\ Copied' # NoCopy => Copied'.kind = kind
    <3> DEFINE b == Begun(Kept, Path, kind)
    <3>1. /\ b.place = "visible" /\ b.synced = Kept.synced
          /\ b.copy[Path] = IF kind = "directory" THEN [kind |-> "directory", files |-> <<>>] ELSE NoCopy
      BY <2>0, BegunFacts
    <3>2. Set(archive, b) BY <2>2
    <3> HIDE DEF b
    <3>3. Kept' = b /\ Path' = Path BY <2>0, <2>2, <3>2, StoreSet DEF StoreInv, Kept, Path
    <3>4. Copied' = b.copy[Path] BY <3>3 DEF Copied
    <3>5. Copied'.files = <<>> /\ (Copied' # NoCopy => Copied'.kind = kind) BY <3>1, <3>4 DEF NoCopy
    <3>6. Having' = 0 BY <1>2, <2>2, <3>5 DEF Having
    <3>7. FreshInv' BY <2>1, <2>2, <3>1, <3>3 DEF FreshInv, Copying
    <3> QED BY <3>3, <3>5, <3>6, <3>7
  <2>3. CASE Prefer = "local"
    <3> DEFINE a == [Idle EXCEPT !.phase = "stream", !.path = Path]
    <3>1. /\ agent' = [agent EXCEPT ![command] = a] /\ Set(archive, Begun(Kept, Path, "none")) /\ pc' = "extract"
          /\ UNCHANGED <<todo, archive, open, digest>>
      BY <1>5, <2>3 DEF NextPath, Goto, Keeping
    <3>2. /\ a.phase = "stream" /\ a.path = Path /\ a.link = "up" /\ a.wire = <<>> /\ a.read = <<>>
      BY DEF Idle
    <3> HIDE DEF a
    <3>3. command \in Agents BY <1>1, CommandIsAgent
    <3>4. Stream' = a BY <1>1, <3>1, <3>3 DEF Stream, AgentsInv
    <3>5. FreshInv' /\ Path' = Path /\ Having' = 0 /\ Copied'.files = <<>> BY <2>2, <3>1 DEF Copying
    <3>6. WireOK(a, 0, FilesOf(setting.kind[Path]))
      <4>1. DOMAIN a.wire = {} /\ Len(a.wire) = 0 /\ Len(a.read) = 0 /\ Header(a.wire) = 0 BY <3>2 DEF Header
      <4> QED BY <3>2, <4>1 DEF WireOK
    <3>7. StreamInv'
      <4>1. Len(Copied'.files) <= FilesOf(setting'.kind[Path']) BY <1>1, <2>0, <3>5 DEF Files
      <4>2. open' = NoSource BY <1>2, <3>1
      <4>3. \A i \in 1..Having' : Copied'.files[i] \in 1..MaxVersion BY <3>5
      <4> QED BY <1>1, <3>2, <3>4, <3>5, <3>6, <4>1, <4>2, <4>3 DEF StreamInv
    <3> QED BY <1>2, <3>1, <3>5, <3>7 DEF FillInv, CopyInv, DigestInv
  <2>4. CASE Prefer # "local"
    <3>1. /\ Exists(Source) /\ Set(archive, Begun(Kept, Path, Source.kind)) /\ pc' = "copy"
          /\ UNCHANGED <<todo, archive, open, digest>>
      BY <1>4, <1>5, <2>4 DEF NextPath, Goto
    <3>2. Source.kind = setting.kind[Path]
      <4>1. Source \in ObjectsAt(Path) \cup {NoObject} BY <2>0 DEF EndsInv, Source, Endpoints
      <4> QED BY <3>1, <4>1 DEF Exists, ObjectsAt
    <3>3. /\ FreshInv' /\ Path' = Path /\ Having' = 0 /\ Copied'.files = <<>>
          /\ Copied' # NoCopy => Copied'.kind = setting.kind[Path]
      BY <2>0, <2>2, <3>1, <3>2 DEF Copying
    <3>4. CopyInv'
      <4>1. Len(Copied'.files) <= FilesOf(setting'.kind[Path']) BY <1>1, <2>0, <3>3 DEF Files
      <4> QED BY <1>1, <1>2, <3>1, <3>3, <4>1 DEF CopyInv
    <3> QED BY <1>2, <3>1, <3>3, <3>4 DEF FillInv, StreamInv, DigestInv
  <2> QED BY <2>3, <2>4
<1> QED BY <1>3, <1>4, <1>5

\* The archive and the list stay, and nothing is copied.
LEMMA FillKeeps ==
  ASSUME CommandInv, LocalsInv, StoreInv, FillInv, pc \in Fills \ (Copying \cup {"next"}),
         pc' \in Fills \ (Copying \cup {"next", "record"}),
         UNCHANGED <<todo, archive, open, digest>>, Kept'.place = "visible", Kept'.synced = Kept.synced
  PROVE  FillInv'
<1>1. FreshInv' BY DEF FillInv, FreshInv
<1>2. open' = NoSource BY DEF FillInv, FreshInv
<1> QED BY <1>1, <1>2, FillGoes DEF FillInv, DigestInv

LEMMA FillAdvances ==
  ASSUME CommandInv, LocalsInv, StoreInv, FillInv, pc \in Fills \ (Copying \cup {"next"}), pc' = "next",
         todo' = Tail(todo), digest' = NoCopy, UNCHANGED <<archive, open, store>>
  PROVE  FillInv'
<1>1. todo # <<>> BY DEF LocalsInv, WithPath
<1>2. Kept' = Kept /\ Kept.place = "visible" BY KeptFacts DEF FillInv, Kept
<1>3. \A i \in DOMAIN Tail(todo) : i + 1 \in DOMAIN todo /\ Tail(todo)[i] = todo[i + 1]
  BY <1>1, TailKeepsPaths DEF LocalsInv
<1>4. \A i \in DOMAIN Tail(todo) : i + 1 > 1
  <2>1. DOMAIN Tail(todo) \subseteq Nat \ {0}
    <3>1. Tail(todo) \in Seq(Paths) BY <1>1 DEF LocalsInv
    <3> QED BY <3>1
  <2> QED BY <2>1
<1>5. \A i \in DOMAIN Tail(todo) : Tail(todo)[i] \notin Kept.synced BY <1>3, <1>4 DEF FillInv, FreshInv
<1>6. open' = NoSource BY DEF FillInv, FreshInv
<1>7. FreshInv' BY <1>2, <1>5, <1>6 DEF FreshInv
<1> QED BY <1>6, <1>7, FillGoes DEF Copying

LEMMA RecordingFills ==
  ASSUME CommandInv, LocalsInv, StoreInv, FillInv, Record \/ FileManifest \/ RemoveLocal \/ Acknowledge \/ Await
  PROVE  FillInv'
<1>0. /\ pc \in Fills \ (Copying \cup {"next"}) /\ UNCHANGED <<setting, command>> /\ pc # "next"
  BY DEF Record, FileManifest, RemoveLocal, Acknowledge, Await, Fills, Copying, ByClient
<1>1. Kept \in Archive /\ Kept.place = "visible" /\ archive \in 1..MaxArchives BY <1>0, KeptFacts DEF FillInv
<1>2. ASSUME NEW result, Finish(result) PROVE FillInv' BY <1>2, FillEnds
<1>3. ASSUME UNCHANGED <<store, archive>> PROVE Kept' = Kept BY <1>3 DEF Kept
<1>4. ASSUME NEW b, Set(archive, b), archive' = archive PROVE Kept' = b
  BY <1>1, <1>4, StoreSet DEF StoreInv, Kept
<1>5. CASE Record
  <2>1. CASE \E result : Finish(result) BY <1>2, <2>1
  <2>2. CASE ~\E result : Finish(result)
    <3> DEFINE b == [Kept EXCEPT !.entry[Path] = digest]
    <3>1. Set(archive, b) /\ pc' = "file" /\ UNCHANGED <<todo, archive, open, digest>>
      BY <1>5, <2>2 DEF Record, Uncatalogued, Recorded, Goto, Keeping
    <3>2. b.place = "visible" /\ b.synced = Kept.synced BY <1>1 DEF Archive
    <3> HIDE DEF b
    <3>3. Kept' = b BY <1>4, <3>1
    <3> QED BY <1>0, <3>1, <3>2, <3>3, FillKeeps DEF Fills, Copying
  <2> QED BY <2>1, <2>2
<1>6. CASE FileManifest
  <2>1. CASE \E result : Finish(result) BY <1>2, <2>1
  <2>2. CASE ~\E result : Finish(result)
    <3> DEFINE filed == Catalogued(Kept)
               b == [Kept EXCEPT !.filed = filed]
    <3>1. Set(archive, b) /\ pc' \in {"acknowledge", "remove"} /\ UNCHANGED <<todo, archive, open, digest>>
      BY <1>6, <2>2 DEF FileManifest, Uncatalogued, AfterRecord, Goto, Keeping
    <3> HIDE DEF filed
    <3>2. b.place = "visible" /\ b.synced = Kept.synced BY <1>1 DEF Archive
    <3> HIDE DEF b
    <3>3. Kept' = b BY <1>4, <3>1
    <3> QED BY <1>0, <3>1, <3>2, <3>3, FillKeeps DEF Fills, Copying
  <2> QED BY <2>1, <2>2
<1>7. CASE RemoveLocal
  BY <1>0, <1>2, <1>7, FillAdvances DEF RemoveLocal, Failing, Goto, disk
<1>8. CASE Acknowledge
  <2>1. CASE \E result : Finish(result) BY <1>2, <2>1
  <2>2. CASE ~\E result : Finish(result)
    <3>1. pc' = "await" /\ UNCHANGED <<todo, archive, open, digest, store>> BY <1>8, <2>2 DEF Acknowledge, Goto, Keeping
    <3> QED BY <1>0, <1>1, <1>3, <3>1, FillKeeps DEF Fills, Copying
  <2> QED BY <2>1, <2>2
<1>9. CASE Await
  BY <1>0, <1>2, <1>9, FillAdvances DEF Await, Goto
<1> QED BY <1>5, <1>6, <1>7, <1>8, <1>9

\* Items are taken from a stream only while its agent has a file open or has sent one.
LEMMA StreamBusy ==
  ASSUME NEW a \in AgentStates, NEW having \in Nat, NEW n \in Nat, WireOK(a, having, n), a.wire # <<>>
  PROVE  a.open = NoSource => a.read # <<>> \/ a.phase # "stream" \/ a.link # "up"
  BY DEF WireOK, AgentStates

LEMMA TookFacts ==
  ASSUME CommandInv, AgentsInv, pc # "idle", Stream.wire # <<>>, Took, UNCHANGED command
  PROVE  /\ Stream \in AgentStates /\ Stream' = [Stream EXCEPT !.wire = Tail(Stream.wire)]
         /\ Stream'.wire = Tail(Stream.wire) /\ Stream'.phase = Stream.phase /\ Stream'.link = Stream.link
         /\ Stream'.path = Stream.path
<1>1. command \in Agents BY CommandIsAgent
<1>2. Stream \in AgentStates /\ Stream = agent[command] BY <1>1, AgentFacts DEF Stream
<1> DEFINE b == [Stream EXCEPT !.wire = Tail(Stream.wire)]
<1>3. agent' = [agent EXCEPT ![command] = b] BY DEF Took, AgentBecomes
<1>4. b.wire = Tail(Stream.wire) /\ b.phase = Stream.phase /\ b.link = Stream.link /\ b.path = Stream.path
  BY <1>2 DEF AgentStates
<1> HIDE DEF b
<1>5. Stream' = b BY <1>1, <1>3 DEF AgentsInv, Stream
<1> QED BY <1>2, <1>4, <1>5 DEF b

LEMMA StreamKept ==
  ASSUME CommandInv, pc # "idle", UNCHANGED <<command, agent>> PROVE Stream' = Stream /\ Item' = Item
  BY DEF Stream, Item

LEMMA ExtractOpensFills ==
  ASSUME CommandInv, LocalsInv, AgentsInv, StoreInv, FillInv, ExtractOpens PROVE FillInv'
<1> DEFINE n == FilesOf(setting.kind[Path])
           m == Len(Copied.files)
<1>1. /\ pc = "extract" /\ open = NoSource /\ Stream.wire # <<>> /\ pc # "idle"
      /\ UNCHANGED <<setting, command, pc, todo, archive, digest>>
  BY DEF ExtractOpens, ByClient
<1>2. pc \in Fills /\ pc \in Copying /\ todo # <<>> BY <1>1 DEF Copying, Fills, LocalsInv, WithPath
<1>3. /\ m \in Nat /\ n \in 1..Files /\ n \in Nat /\ Copied \in Copies \cup {NoCopy}
      /\ setting.kind[Path] \in Kinds /\ Path \in Paths
  BY <1>2, PathFacts DEF FillInv, Files
<1>4. Stream \in AgentStates BY <1>1, AgentFacts, CommandIsAgent DEF Stream
<1>5. Having = m BY <1>1, <1>3 DEF Having
<1>6. /\ Stream.path = Path /\ Stream.phase # "none" /\ (Copied.files # <<>> => Copied.kind = setting.kind[Path])
      /\ m <= n /\ WireOK(Stream, m, n) /\ \A i \in 1..m : Copied.files[i] \in 1..MaxVersion
  BY <1>1, <1>5 DEF FillInv, StreamInv, Broke
<1>7. /\ Item = Stream.wire[1] /\ Item \in Items /\ (Item.item = "directory" => m = 0)
      /\ Item.item = "file" => m < n /\ (Item.bytes \in 1..MaxVersion \/ Item.bytes = Torn)
  BY <1>1, <1>3, <1>4, <1>6, FirstItem DEF Item
<1>8. CASE Item.item = "directory"
  <2> DEFINE c == [kind |-> "directory", files |-> <<>>]
  <2>1. Took /\ open' = NoSource /\ Put(c) /\ c \in Copies
    BY <1>1, <1>8, ExtractOpensPuts DEF FillInv
  <2>2. Copied' = c /\ Path' = Path /\ FreshInv' BY <1>1, <1>2, <2>1, PutFacts DEF FillInv
  <2>3. c.files = <<>> /\ Len(c.files) = 0 OBVIOUS
  <2> HIDE DEF c
  <2>4. Having' = 0 BY <2>1, <2>2, <2>3 DEF Having
  <2>5. WireOK(Stream', m + (IF Head(Stream.wire).item = "file" THEN 1 ELSE 0), n)
    <3>1. Stream' = [Stream EXCEPT !.wire = Tail(Stream.wire)] BY <1>1, <2>1, TookFacts
    <3>2. Head(Stream.wire).item \in {"directory", "file"} BY <1>8 DEF Item
    <3>3. Stream.open = NoSource => Stream.read # <<>> \/ Stream.phase # "stream" \/ Stream.link # "up"
      BY <1>1, <1>3, <1>4, <1>6, StreamBusy
    <3> HIDE DEF m, n
    <3> QED BY <1>1, <1>3, <1>4, <1>6, <3>1, <3>2, <3>3, RestOfWire
  <2>6. WireOK(Stream', 0, n)
    <3>1. m + (IF Head(Stream.wire).item = "file" THEN 1 ELSE 0) = 0
      <4>1. m = 0 BY <1>7, <1>8
      <4>2. Head(Stream.wire).item # "file" BY <1>8 DEF Item
      <4> QED BY <4>1, <4>2
    <3> QED BY <2>5, <3>1
  <2>7. Stream'.path = Path /\ Stream'.phase # "none" BY <1>1, <1>6, <2>1, TookFacts
  <2>8. StreamInv'
    <3>1. Len(Copied'.files) <= FilesOf(setting'.kind[Path']) BY <1>1, <1>3, <2>2, <2>3
    <3>2. \A i \in 1..Having' : Copied'.files[i] \in 1..MaxVersion BY <2>4
    <3> QED BY <1>1, <2>1, <2>2, <2>3, <2>4, <2>6, <2>7, <3>1, <3>2 DEF StreamInv
  <2> QED BY <1>1, <2>2, <2>8 DEF FillInv, CopyInv, DigestInv
<1>9. CASE Item.item # "directory"
  <2> DEFINE c == WithFile(Copied, setting.kind[Path], Torn)
  <2>1. /\ Item.item = "file" /\ UNCHANGED agent /\ open' = [path |-> Path, inode |-> 0, version |-> Item.bytes]
        /\ m < n /\ Put(c) /\ c \in Copies
    BY <1>9, ExtractOpensPuts DEF FillInv
  <2>2. c.kind = setting.kind[Path] /\ Len(c.files) = m + 1 /\ \A j \in 1..m : c.files[j] = Copied.files[j]
    BY <1>3, <2>1, FileAppended, ByteFacts DEF Files
  <2> HIDE DEF c
  <2>3. Copied' = c /\ Path' = Path /\ FreshInv' BY <1>1, <1>2, <2>1, PutFacts DEF FillInv
  <2>4. open' # NoSource /\ open'.version \in 1..MaxVersion \cup {Torn} /\ open'.version = Item.bytes
    BY <1>3, <1>7, <2>1, RecoveryAssumption DEF NoSource, Nobody
  <2>5. Having' = m BY <1>3, <2>2, <2>3, <2>4 DEF Having
  <2>6. Stream' = Stream /\ Item' = Item BY <1>1, <2>1, StreamKept
  <2>7. StreamInv'
    <3>1. Len(Copied'.files) <= FilesOf(setting'.kind[Path']) /\ Len(Copied'.files) > 0 BY <1>1, <1>3, <2>1, <2>2, <2>3
    <3>2. \A i \in 1..Having' : Copied'.files[i] \in 1..MaxVersion BY <1>6, <2>2, <2>3, <2>5
    <3> QED BY <1>1, <1>6, <2>1, <2>2, <2>3, <2>4, <2>5, <2>6, <3>1, <3>2 DEF StreamInv
  <2> QED BY <1>1, <2>3, <2>7 DEF FillInv, CopyInv, DigestInv
<1> QED BY <1>8, <1>9

LEMMA ExtractWritesFills ==
  ASSUME CommandInv, LocalsInv, AgentsInv, StoreInv, FillInv, ExtractWrites PROVE FillInv'
<1> DEFINE n == FilesOf(setting.kind[Path])
           m == Len(Copied.files)
<1>1. pc = "extract" /\ open # NoSource /\ pc # "idle" /\ UNCHANGED <<setting, command>> BY DEF ExtractWrites, ByClient
<1>2. pc \in Fills /\ pc \in Copying /\ todo # <<>> BY <1>1 DEF Copying, Fills, LocalsInv, WithPath
<1>3. /\ m \in Nat /\ n \in 1..Files /\ n \in Nat /\ Copied \in Copies \cup {NoCopy}
      /\ setting.kind[Path] \in Kinds /\ Path \in Paths
  BY <1>2, PathFacts DEF FillInv, Files
<1>4. CASE \E result : Finish(result) BY <1>4, FillEnds
<1>5. CASE ~\E result : Finish(result)
  <2> DEFINE v == open.version
             c == [Copied EXCEPT !.files[m] = v]
  <2>1. /\ Put(c) /\ c \in Copies /\ Stream.wire # <<>> /\ Took /\ open' = NoSource
        /\ UNCHANGED <<pc, todo, archive, since, digest, chosen, outcome>>
    BY <1>5, ExtractWritesPuts DEF FillInv
  <2>2. Stream \in AgentStates BY <1>1, AgentFacts, CommandIsAgent DEF Stream
  <2>3. /\ Stream.path = Path /\ Stream.phase # "none" /\ (Copied.files # <<>> => Copied.kind = setting.kind[Path])
        /\ m <= n /\ m > 0 /\ v \in 1..MaxVersion \cup {Torn} /\ Item.item = "file" /\ Item.bytes = v
    BY <1>1, <2>1 DEF FillInv, StreamInv
  <2>4. Having = m - 1 /\ m - 1 \in Nat BY <1>1, <1>3, <2>3 DEF Having
  <2>5. WireOK(Stream, m - 1, n) /\ \A i \in 1..(m - 1) : Copied.files[i] \in 1..MaxVersion
    BY <1>1, <2>1, <2>4 DEF FillInv, StreamInv, Broke
  <2>6. \/ v \in 1..MaxVersion
        \/ v = Torn /\ Len(Stream.wire) = 1 /\ (Stream.phase = "failed" \/ Stream.link = "cut")
    BY <1>3, <2>1, <2>2, <2>3, <2>4, <2>5, FirstItem DEF Item
  <2>7. c.kind = Copied.kind /\ Len(c.files) = m /\ c.files[m] = v /\ \A j \in 1..(m - 1) : c.files[j] = Copied.files[j]
    BY <1>3, <2>3, LastRewritten, ByteFacts
  <2> HIDE DEF c
  <2>8. Copied' = c /\ Path' = Path /\ FreshInv' BY <1>1, <1>2, <2>1, PutFacts DEF FillInv
  <2>9. Having' = m BY <1>3, <2>1, <2>7, <2>8 DEF Having
  <2>10. /\ Stream' = [Stream EXCEPT !.wire = Tail(Stream.wire)] /\ Stream'.wire = Tail(Stream.wire)
         /\ Stream'.phase = Stream.phase /\ Stream'.link = Stream.link /\ Stream'.path = Stream.path
    BY <1>1, <2>1, TookFacts
  <2>11. \/ Broke(Stream')
         \/ /\ \A i \in 1..Having' : Copied'.files[i] \in 1..MaxVersion
            /\ WireOK(Stream', Having', n)
    <3>1. CASE v \in 1..MaxVersion
      <4>1. \A i \in 1..m : i = m \/ i \in 1..(m - 1) BY <1>3
      <4>2. \A i \in 1..m : c.files[i] \in 1..MaxVersion BY <2>5, <2>7, <3>1, <4>1
      <4>3. WireOK(Stream', (m - 1) + (IF Head(Stream.wire).item = "file" THEN 1 ELSE 0), n)
        <5>1. Head(Stream.wire).item \in {"directory", "file"} BY <2>3 DEF Item
        <5> QED BY <1>3, <2>1, <2>2, <2>4, <2>5, <2>10, <5>1, StreamBusy, RestOfWire
      <4>4. (m - 1) + (IF Head(Stream.wire).item = "file" THEN 1 ELSE 0) = m BY <1>3, <2>3 DEF Item
      <4> QED BY <2>8, <2>9, <4>2, <4>3, <4>4
    <3>2. CASE v \notin 1..MaxVersion
      <4>1. Len(Stream.wire) = 1 /\ (Stream.phase = "failed" \/ Stream.link = "cut") BY <2>6, <3>2
      <4>2. Stream.wire \in Seq(Items) BY <2>2 DEF AgentStates
      <4>3. Tail(Stream.wire) = <<>>
        <5>1. \A w \in Seq(Items) : Len(w) = 1 => Tail(w) \in Seq(Items) /\ Len(Tail(w)) = 0 OBVIOUS
        <5>2. \A w \in Seq(Items) : Len(w) = 0 => w = <<>> OBVIOUS
        <5> QED BY <4>1, <4>2, <5>1, <5>2
      <4> QED BY <2>10, <4>1, <4>3 DEF Broke
    <3> QED BY <3>1, <3>2
  <2>12. StreamInv'
    <3>1. Len(Copied'.files) <= FilesOf(setting'.kind[Path']) BY <1>1, <1>3, <2>3, <2>7, <2>8
    <3>2. Copied.kind = setting.kind[Path]
      <4>1. Len(<<>>) = 0 OBVIOUS
      <4> QED BY <2>3, <4>1
    <3> QED BY <1>1, <2>1, <2>3, <2>7, <2>8, <2>10, <2>11, <3>1, <3>2 DEF StreamInv
  <2> QED BY <1>1, <2>1, <2>8, <2>12 DEF FillInv, CopyInv, DigestInv
<1> QED BY <1>4, <1>5

LEMMA ExtractEndsFills ==
  ASSUME CommandInv, LocalsInv, AgentsInv, StoreInv, FillInv, ExtractEnds PROVE FillInv'
<1> DEFINE n == FilesOf(setting.kind[Path])
           m == Len(Copied.files)
<1>1. /\ pc = "extract" /\ open = NoSource /\ pc # "idle" /\ UNCHANGED <<setting, command>>
      /\ Stream.wire # <<>> /\ Item.item = "trailer"
  BY DEF ExtractEnds, ByClient
<1>2. pc \in Fills /\ pc \in Copying /\ todo # <<>> BY <1>1 DEF Copying, Fills, LocalsInv, WithPath
<1>3. m \in Nat /\ n \in 1..Files /\ n \in Nat /\ n > 0 /\ Copied \in Copies \cup {NoCopy}
  BY <1>2, PathFacts DEF FillInv, Files
<1>4. CASE \E result : Finish(result) BY <1>4, FillEnds
<1>5. CASE ~\E result : Finish(result)
  <2>1. /\ Set(archive, Synced(Kept, Path)) /\ digest' = Copied /\ pc' = "record" /\ UNCHANGED <<todo, archive, open>>
    BY <1>5 DEF ExtractEnds, ExtractFails, Failing, Goto, Digest
  <2>2. Stream \in AgentStates BY <1>1, AgentFacts, CommandIsAgent DEF Stream
  <2>3. Having = m BY <1>1, <1>3 DEF Having
  <2>4. WireOK(Stream, m, n) /\ (Copied.files # <<>> => Copied.kind = setting.kind[Path])
        /\ \A i \in 1..m : Copied.files[i] \in 1..MaxVersion
    BY <1>1, <2>3 DEF FillInv, StreamInv, Broke
  <2>5. m = n BY <1>1, <1>3, <2>2, <2>4, FirstItem DEF Item
  <2>6. Copied.kind = setting.kind[Path]
    <3>1. Len(<<>>) = 0 OBVIOUS
    <3> QED BY <1>3, <2>4, <2>5, <3>1
  <2>7. Copied \in WholeCopies(Path) BY <1>3, <2>4, <2>5, <2>6, WholeCopy
  <2> QED BY <1>1, <1>2, <2>1, <2>7, SyncFills
<1> QED BY <1>4, <1>5

LEMMA ResolvingFills ==
  ASSUME CommandInv, EndsInv, LocalsInv, AgentsInv, StoreInv, FillInv, Resolving PROVE FillInv'
<1>1. CASE Preflight
  <2>1. CASE \E result : Finish(result) BY <2>1, FillEnds
  <2>2. CASE ~\E result : Finish(result)
    <3>1. pc' = "lock" /\ pc = "preflight" /\ UNCHANGED <<open, digest>> BY <1>1, <2>2 DEF Preflight, Goto
    <3> QED BY <3>1, FillIdle DEF FillInv, FreshInv, DigestInv, Fills, Copying
  <2> QED BY <2>1, <2>2
<1>2. CASE ResolveBarrier \/ ExtractTruncated
  BY <1>2, FillEnds DEF ResolveBarrier, ExtractTruncated, ExtractFails, Failing
<1> QED BY <1>1, <1>2, LockedFills, NextFills, CopyOpensFills, CopyReadsFills, CopySyncedFills, RecordingFills,
           ExtractOpensFills, ExtractWritesFills, ExtractEndsFills DEF Resolving

-----------------------------------------------------------------------------
(* What an agent, or the loss of its connection, does to a stream of n files. *)

WireKept(a, b) ==
  /\ b.wire = a.wire /\ (a.phase = "failed" => b.phase = "failed") /\ (a.link = "cut" => b.link = "cut")
  /\ b.phase = "stream" /\ b.link = "up" =>
       /\ a.phase = "stream" /\ a.link = "up" /\ b.read = a.read
       /\ b.read = <<>> /\ b.open = NoSource => a.open = NoSource
WireAppended(a, b, n) ==
  /\ a.phase = "stream" /\ a.link = "up" /\ b.link = "up"
  /\ \E item \in Items :
       /\ b.wire = Append(a.wire, item)
       /\ item.item = "directory" => a.read = <<>> /\ a.open = NoSource /\ b.read = <<>>
       /\ item.item = "trailer" => Len(a.read) = n /\ b.phase # "stream"
       /\ item.item = "file" =>
            /\ Len(a.read) < n
            /\ item.bytes \in 1..MaxVersion \/ (item.bytes = Torn /\ b.phase = "failed")
            /\ b.phase = "stream" => Len(b.read) = Len(a.read) + 1
       /\ b.phase = "stream" => b.read # <<>> \/ b.open # NoSource
WireCut(a, b) == b.link = "cut" /\ b.phase = a.phase /\ \E i \in 0..Len(a.wire) : b.wire = SubSeq(a.wire, 1, i)
Sends(a, b, n) == WireKept(a, b) \/ WireAppended(a, b, n) \/ WireCut(a, b)

LEMMA PrefixFacts ==
  ASSUME NEW w \in Seq(Items), NEW i \in 0..Len(w)
  PROVE  /\ SubSeq(w, 1, i) \in Seq(Items) /\ Len(SubSeq(w, 1, i)) = i /\ DOMAIN SubSeq(w, 1, i) = 1..i
         /\ \A j \in 1..i : j \in DOMAIN w /\ SubSeq(w, 1, i)[j] = w[j]
  OBVIOUS

LEMMA AppendFacts ==
  ASSUME NEW w \in Seq(Items), NEW item \in Items
  PROVE  /\ Append(w, item) \in Seq(Items) /\ Len(Append(w, item)) = Len(w) + 1 /\ Len(w) \in Nat /\ DOMAIN w = 1..Len(w)
         /\ DOMAIN Append(w, item) = 1..(Len(w) + 1) /\ Append(w, item)[Len(w) + 1] = item
         /\ \A j \in 1..Len(w) : Append(w, item)[j] = w[j]
  OBVIOUS

LEMMA HeaderFacts ==
  ASSUME NEW w \in Seq(Items)
  PROVE  /\ Header(w) \in {0, 1} /\ (w = <<>> => Header(w) = 0)
         /\ (w # <<>> => Header(w) = IF w[1].item = "directory" THEN 1 ELSE 0)
         /\ Len(w) = 0 <=> w = <<>>
  BY DEF Header

\* Appending keeps the first item and the header, except that of an empty stream.
LEMMA SendsKeepWire ==
  ASSUME NEW a \in AgentStates, NEW b \in AgentStates, NEW having \in Nat, NEW n \in Nat, WireOK(a, having, n), Sends(a, b, n)
  PROVE  WireOK(b, having, n)
<1>1. a.wire \in Seq(Items) /\ b.wire \in Seq(Items) /\ a.read \in Seq(Bytes) /\ b.read \in Seq(Bytes)
      /\ a.link \in {"up", "cut"} /\ b.link \in {"up", "cut"}
  BY DEF AgentStates
<1>2. CASE WireKept(a, b) BY <1>1, <1>2 DEF WireKept, WireOK
<1>3. CASE WireCut(a, b)
  <2>1. PICK m \in 0..Len(a.wire) : b.wire = SubSeq(a.wire, 1, m) BY <1>3 DEF WireCut
  <2> DEFINE v == a.wire
             w == b.wire
  <2>2. /\ v \in Seq(Items) /\ w \in Seq(Items) /\ Len(v) \in Nat /\ m \in 0..Len(v) /\ Len(w) = m /\ DOMAIN w = 1..m
        /\ \A j \in 1..m : j \in DOMAIN v /\ w[j] = v[j]
    BY SMTT(60), <1>1, <2>1, PrefixFacts
  <2>3. m > 0 => Header(w) = Header(v)
    <3>1. m > 0 => 1 \in 1..m /\ v # <<>> /\ w # <<>> BY <2>2
    <3> QED BY <2>2, <3>1 DEF Header
  <2>4. Header(v) \in {0, 1} BY <1>1, HeaderFacts
  <2> HIDE DEF v, w
  <2>5. \A i \in DOMAIN w : w[i].item = "directory" => i = 1 /\ having = 0 BY <2>2 DEF WireOK, v
  <2>6. ASSUME NEW i \in DOMAIN w, w[i].item = "trailer" PROVE i = Len(w) /\ having + i - 1 - Header(w) = n
    <3>1. i = Len(v) /\ having + i - 1 - Header(v) = n BY <2>2, <2>6 DEF WireOK, v
    <3> QED BY <2>2, <2>3, <3>1
  <2>7. ASSUME NEW i \in DOMAIN w, w[i].item = "file"
        PROVE  /\ having + i - Header(w) <= n
               /\ w[i].bytes \in 1..MaxVersion \/ (w[i].bytes = Torn /\ i = Len(w))
    <3>1. /\ having + i - Header(v) <= n
          /\ w[i].bytes \in 1..MaxVersion \/ (w[i].bytes = Torn /\ i = Len(v))
      BY <2>2, <2>7 DEF WireOK, v
    <3> QED BY <2>2, <2>3, <3>1
  <2> QED BY <1>3, <2>5, <2>6, <2>7 DEF WireCut, WireOK, w
<1>4. CASE WireAppended(a, b, n)
  <2>1. PICK item \in Items :
          /\ b.wire = Append(a.wire, item)
          /\ item.item = "directory" => a.read = <<>> /\ a.open = NoSource /\ b.read = <<>>
          /\ item.item = "trailer" => Len(a.read) = n /\ b.phase # "stream"
          /\ item.item = "file" =>
               /\ Len(a.read) < n
               /\ item.bytes \in 1..MaxVersion \/ (item.bytes = Torn /\ b.phase = "failed")
               /\ b.phase = "stream" => Len(b.read) = Len(a.read) + 1
          /\ b.phase = "stream" => b.read # <<>> \/ b.open # NoSource
    BY <1>4 DEF WireAppended
  <2> DEFINE v == a.wire
             w == b.wire
             l == Len(v)
  <2>2. /\ v \in Seq(Items) /\ w \in Seq(Items) /\ l \in Nat /\ Len(w) = l + 1 /\ DOMAIN w = 1..(l + 1) /\ DOMAIN v = 1..l
        /\ w[l + 1] = item /\ \A j \in 1..l : w[j] = v[j]
    BY <1>1, <2>1, AppendFacts
  <2>3. /\ a.phase = "stream" /\ a.link = "up" /\ b.link = "up" BY <1>4 DEF WireAppended
  <2>4. /\ having + l - Header(v) = Len(a.read) /\ Len(a.read) \in Nat /\ Len(b.read) \in Nat
        /\ (a.read = <<>> /\ a.open = NoSource => v = <<>>) /\ Header(v) \in {0, 1} /\ Header(w) \in {0, 1}
    BY <1>1, <2>3, HeaderFacts DEF WireOK
  <2>5. l > 0 => Header(w) = Header(v)
    <3>1. l > 0 => 1 \in 1..l /\ v # <<>> /\ w # <<>> /\ w[1] = v[1] BY <2>2
    <3> QED BY <3>1 DEF Header
  <2>6. l = 0 => Header(v) = 0 /\ v = <<>> /\ w[1] = item /\ Header(w) = IF item.item = "directory" THEN 1 ELSE 0
    <3>1. l = 0 => v = <<>> BY <1>1, HeaderFacts
    <3>2. l = 0 => w # <<>> /\ w[1] = item BY <2>2
    <3> QED BY <3>1, <3>2 DEF Header
  <2>7. item.item = "directory" => l = 0 /\ having = 0 /\ Len(a.read) = 0
    <3>1. Len(<<>>) = 0 OBVIOUS
    <3> HIDE DEF w
    <3>2. item.item = "directory" => l = 0 /\ Len(a.read) = 0 BY <2>1, <2>4, <3>1
    <3> QED BY <2>4, <2>6, <3>2
  <2> HIDE DEF v, w, l
  <2>8. ASSUME NEW i \in DOMAIN w, w[i].item = "directory" PROVE i = 1 /\ having = 0
    <3>1. CASE i \in 1..l
      <4>1. i \in DOMAIN v /\ v[i].item = "directory" BY <2>2, <2>8, <3>1
      <4> QED BY <4>1 DEF WireOK, v
    <3>2. CASE i = l + 1 BY <2>2, <2>7, <2>8, <3>2
    <3> QED BY <2>2, <3>1, <3>2
  <2>9. ASSUME NEW i \in DOMAIN w, w[i].item = "trailer"
        PROVE  i = Len(w) /\ having + i - 1 - Header(w) = n /\ b.phase # "stream"
    <3>1. i \notin 1..l
      <4>1. ASSUME i \in 1..l PROVE FALSE
        <5>1. i \in DOMAIN v /\ v[i].item = "trailer" BY <2>2, <2>9, <4>1
        <5>2. a.phase # "stream" \/ a.link = "cut" BY <5>1 DEF WireOK, v
        <5> QED BY <2>3, <5>2
      <4> QED BY <4>1
    <3>2. i = l + 1 /\ item.item = "trailer" BY <2>2, <2>9, <3>1
    <3>3. Len(a.read) = n /\ b.phase # "stream" BY <2>1, <3>2
    <3>4. Header(w) = Header(v) BY <2>2, <2>5, <2>6, <3>2
    <3> QED BY <2>2, <2>4, <3>2, <3>3, <3>4
  <2>10. ASSUME NEW i \in DOMAIN w, w[i].item = "file"
         PROVE  /\ having + i - Header(w) <= n
                /\ w[i].bytes \in 1..MaxVersion \/ (w[i].bytes = Torn /\ i = Len(w) /\ b.phase = "failed")
    <3>1. CASE i \in 1..l
      <4>1. i \in DOMAIN v /\ v[i] = w[i] BY <2>2, <3>1
      <4>2. having + i - Header(v) <= n /\ w[i].bytes \in 1..MaxVersion BY <2>3, <2>10, <4>1 DEF WireOK, v
      <4>3. l > 0 BY <2>2, <3>1
      <4> QED BY <2>2, <2>5, <3>1, <4>2, <4>3
    <3>2. CASE i = l + 1
      <4>1. item.item = "file" /\ w[i] = item BY <2>2, <2>10, <3>2
      <4>2. Header(w) = Header(v) BY <2>2, <2>5, <2>6, <4>1
      <4>3. Len(a.read) < n /\ (item.bytes \in 1..MaxVersion \/ (item.bytes = Torn /\ b.phase = "failed")) BY <2>1, <4>1
      <4>4. having + i - Header(w) <= n BY <2>2, <2>4, <3>2, <4>2, <4>3
      <4> QED BY <2>2, <3>2, <4>1, <4>3, <4>4
    <3> QED BY <2>2, <3>1, <3>2
  <2>11. ASSUME b.phase = "stream" PROVE having + Len(w) - Header(w) = Len(b.read)
    <3>1. CASE item.item = "directory"
      <4>1. Len(b.read) = 0
        <5>1. Len(<<>>) = 0 OBVIOUS
        <5> QED BY <2>1, <3>1, <5>1
      <4> QED BY <2>2, <2>6, <2>7, <3>1, <4>1
    <3>2. CASE item.item = "file"
      <4>1. Header(w) = Header(v) /\ Len(b.read) = Len(a.read) + 1 BY <2>1, <2>2, <2>5, <2>6, <2>11, <3>2
      <4> QED BY <2>2, <2>4, <4>1
    <3>3. item.item # "trailer" BY <2>1, <2>11
    <3> QED BY <3>1, <3>2, <3>3 DEF Items
  <2> QED BY <2>1, <2>3, <2>8, <2>9, <2>10, <2>11 DEF WireOK, w
<1> QED BY <1>2, <1>3, <1>4 DEF Sends

LEMMA SendsKeepHead ==
  ASSUME NEW a \in AgentStates, NEW b \in AgentStates, NEW n, Sends(a, b, n)
  PROVE  /\ a.wire # <<>> /\ b.wire # <<>> => Head(b.wire) = Head(a.wire)
         /\ a.wire = <<>> /\ a.link = "cut" => b.wire = <<>>
         /\ a.link = "cut" => b.link = "cut"
         /\ a.wire # <<>> => b.wire # <<>> \/ b.link = "cut"
         /\ Broke(a) => Broke(b)
<1>1. a.wire \in Seq(Items) /\ b.wire \in Seq(Items) BY DEF AgentStates
<1>2. CASE WireKept(a, b) BY <1>2 DEF WireKept, Broke
<1>3. CASE WireAppended(a, b, n)
  <2>1. PICK item \in Items : b.wire = Append(a.wire, item) BY <1>3 DEF WireAppended
  <2>2. Len(b.wire) = Len(a.wire) + 1 /\ Len(a.wire) \in Nat BY <1>1, <2>1
  <2>3. b.wire # <<>>
    <3>1. Len(<<>>) = 0 OBVIOUS
    <3> QED BY <2>2, <3>1
  <2>4. ASSUME a.wire # <<>> PROVE Head(b.wire) = Head(a.wire)
    <3>1. 1 \in 1..Len(a.wire) BY <1>1, <2>4
    <3>2. Append(a.wire, item)[1] = a.wire[1] BY <1>1, <3>1
    <3>3. Head(b.wire) = b.wire[1] /\ Head(a.wire) = a.wire[1] BY <1>1, <2>3, <2>4
    <3> QED BY <2>1, <3>2, <3>3
  <2> QED BY <1>3, <2>3, <2>4 DEF WireAppended, Broke
<1>4. CASE WireCut(a, b)
  <2>1. PICK m \in 0..Len(a.wire) : b.wire = SubSeq(a.wire, 1, m) BY <1>4 DEF WireCut
  <2>2. Len(b.wire) = m /\ \A j \in 1..m : j \in DOMAIN a.wire /\ b.wire[j] = a.wire[j] BY <1>1, <2>1, PrefixFacts
  <2>3. a.wire = <<>> => b.wire = <<>> BY <1>1, <2>2
  <2>4. b.wire # <<>> => m > 0 BY <1>1, <2>2
  <2>5. a.wire # <<>> /\ b.wire # <<>> => Head(b.wire) = Head(a.wire) BY <1>1, <2>2, <2>4
  <2> QED BY <1>4, <2>3, <2>5 DEF WireCut, Broke
<1> QED BY <1>2, <1>3, <1>4 DEF Sends

\* The client's stream moves, and nothing of what it fills.
LEMMA StreamMoves ==
  ASSUME CommandInv, LocalsInv, AgentsInv, StoreInv, FillInv, pc = "extract",
         UNCHANGED <<setting, store, command, pc, todo, archive, open, digest>>,
         NEW b \in AgentStates, AgentBecomes(command, b), b.path = Stream.path, b.phase # "none",
         Sends(Stream, b, FilesOf(setting.kind[Path]))
  PROVE  FillInv'
<1> DEFINE n == FilesOf(setting.kind[Path])
           a == Stream
<1>1. pc \in Fills /\ pc # "next" /\ pc # "idle" /\ todo # <<>> BY DEF Fills, LocalsInv, WithPath
<1>2. n \in Nat /\ Len(Copied.files) \in Nat
  <2>1. n \in 1..Files BY <1>1, PathFacts DEF FillInv
  <2> QED BY <1>1, <2>1, PathFacts DEF FillInv, Files
<1>3. command \in Agents /\ a \in AgentStates BY <1>1, CommandIsAgent, AgentFacts DEF Stream
<1>4. Stream' = b BY <1>3 DEF Stream, AgentBecomes, AgentsInv
<1>5. Kept' = Kept /\ Path' = Path BY DEF Kept, Path
<1>6. Copied' = Copied BY <1>5 DEF Copied
<1>7. Having' = Having BY <1>6 DEF Having
<1>8. FreshInv' /\ CopyInv' /\ DigestInv' BY <1>5, <1>6, <1>7 DEF FillInv, FreshInv, CopyInv, DigestInv, WholeCopies
<1>9. Having \in Nat
  <2>1. open # NoSource => Len(Copied.files) > 0 BY DEF FillInv, StreamInv
  <2> QED BY <1>2, <2>1 DEF Having
<1>10. /\ a.wire # <<>> /\ b.wire # <<>> => Head(b.wire) = Head(a.wire)
       /\ a.wire = <<>> /\ a.link = "cut" => b.wire = <<>>
       /\ a.link = "cut" => b.link = "cut"
       /\ a.wire # <<>> => b.wire # <<>> \/ b.link = "cut"
       /\ Broke(a) => Broke(b)
  BY <1>3, SendsKeepHead
<1>11. WireOK(a, Having, n) => WireOK(b, Having, n)
  <2> HIDE DEF n, a
  <2> QED BY <1>2, <1>3, <1>9, SendsKeepWire DEF n, a
<1>12. open # NoSource =>
         /\ b.wire # <<>> => Head(b.wire).item = "file" /\ Head(b.wire).bytes = open.version
         /\ b.wire # <<>> \/ b.link = "cut"
  BY <1>10 DEF FillInv, StreamInv, Item
<1>13. Item' = Head(b.wire) BY <1>4 DEF Item
<1>14. StreamInv'
  <2>1. /\ Stream.path = Path /\ (Copied.files # <<>> => Copied.kind = setting.kind[Path])
        /\ Len(Copied.files) <= n
        /\ open # NoSource => Len(Copied.files) > 0 /\ open.version \in 1..MaxVersion \cup {Torn}
        /\ \/ Broke(a)
           \/ (\A i \in 1..Having : Copied.files[i] \in 1..MaxVersion) /\ WireOK(a, Having, n)
    BY DEF FillInv, StreamInv
  <2>2. \/ Broke(b)
        \/ (\A i \in 1..Having : Copied.files[i] \in 1..MaxVersion) /\ WireOK(b, Having, n)
    BY <1>10, <1>11, <2>1
  <2> QED BY <1>4, <1>5, <1>6, <1>7, <1>12, <1>13, <2>1, <2>2 DEF StreamInv
<1> QED BY <1>8, <1>14 DEF FillInv

LEMMA OpensSends ==
  ASSUME CommandInv, AgentsInv, NEW k \in Agents, AgentOpens(k)
  PROVE  LET a == agent[k]  b == agent'[k]
         IN  AgentBecomes(k, b) /\ b.path = a.path /\ b.phase # "none" /\ Sends(a, b, Expected(k))
<1> DEFINE a == agent[k]
<1>1. a.phase \in {"stream", "verify"} /\ a.open = NoSource /\ a \in AgentStates /\ a.wire \in Seq(Items)
  BY AgentFacts DEF AgentOpens
<1>2. ASSUME NEW c, AgentBecomes(k, c) PROVE agent'[k] = c BY <1>2 DEF AgentBecomes, AgentsInv
<1>3. CASE ~LoserThere(k)
  <2> DEFINE b == [a EXCEPT !.phase = "failed"]
  <2>1. AgentBecomes(k, b) BY <1>3 DEF AgentOpens
  <2>2. b.phase = "failed" /\ b.wire = a.wire /\ b.link = a.link /\ b.path = a.path BY <1>1 DEF AgentStates
  <2> HIDE DEF b
  <2>3. WireKept(a, b) BY <2>2 DEF WireKept
  <2> QED BY <1>2, <2>1, <2>2, <2>3 DEF Sends
<1>4. CASE LoserThere(k)
  <2> DEFINE item == [item |-> "directory", bytes |-> Torn]
             heads == a.phase = "stream" /\ a.read = <<>> /\ Expected(k) > 1
             src == Observed(Loser(k), Len(a.read) + 1, a.path)
             seen == IF a.phase = "stream" /\ a.read = <<>> THEN Loser(k) ELSE a.seen
             again == IF a.phase = "verify" /\ a.read = <<>> THEN Loser(k).inode ELSE a.again
             wire == IF heads THEN Sent(a, item) ELSE a.wire
             b == [a EXCEPT !.open = src, !.seen = seen, !.again = again, !.wire = wire]
  <2>1. AgentBecomes(k, b) BY <1>4 DEF AgentOpens
  <2>2. b.phase = a.phase /\ b.link = a.link /\ b.path = a.path /\ b.read = a.read /\ b.open = src /\ b.wire = wire
    BY <1>1 DEF AgentStates
  <2>3. src # NoSource
    <3>1. a.phase # "none" BY <1>1
    <3>2. a.path \in Paths BY <3>1 DEF AgentsInv
    <3> QED BY <3>2, RecoveryAssumption DEF Observed, NoSource, Nobody
  <2>4. item \in Items /\ item.item = "directory" BY ByteFacts DEF Items
  <2>5. CASE heads /\ a.link = "up"
    <3>1. wire = Append(a.wire, item) BY <2>5 DEF Sent
    <3> HIDE DEF src, seen, again, wire, b, item
    <3>2. WireAppended(a, b, Expected(k)) BY <1>1, <2>2, <2>3, <2>4, <2>5, <3>1 DEF WireAppended
    <3> QED BY <1>1, <1>2, <2>1, <2>2, <3>2 DEF Sends
  <2>6. CASE ~(heads /\ a.link = "up")
    <3>1. wire = a.wire BY <2>6 DEF Sent
    <3> HIDE DEF src, seen, again, wire, b, item
    <3>2. WireKept(a, b) BY <2>2, <2>3, <3>1 DEF WireKept
    <3> QED BY <1>1, <1>2, <2>1, <2>2, <3>2 DEF Sends
  <2> QED BY <2>5, <2>6
<1> QED BY <1>3, <1>4

LEMMA ReadsSends ==
  ASSUME CommandInv, EndsInv, AgentsInv, NEW k \in Agents, AgentReads(k)
  PROVE  LET a == agent[k]  b == agent'[k]
         IN  AgentBecomes(k, b) /\ b.path = a.path /\ b.phase # "none" /\ Sends(a, b, Expected(k))
<1> DEFINE a == agent[k]
           o == Loser(k)
           i == Len(a.read) + 1
           v == ReadOf(o, i, a.open)
           item == [item |-> "file", bytes |-> v]
           sent == IF a.phase = "stream" THEN Sent(a, item) ELSE a.wire
           fails == Changed(o, i, a.open)
           b == IF fails THEN [a EXCEPT !.phase = "failed", !.open = NoSource, !.wire = sent]
                ELSE [a EXCEPT !.read = Append(a.read, v), !.open = NoSource, !.wire = sent]
<1>1. a.phase \in {"stream", "verify"} /\ a.open # NoSource /\ a \in AgentStates /\ a.wire \in Seq(Items)
  BY AgentFacts DEF AgentReads
<1>2. AgentBecomes(k, b) BY DEF AgentReads, Broken
<1>3. agent'[k] = b BY <1>2 DEF AgentBecomes, AgentsInv
<1>4. a.open.version \in 1..MaxVersion /\ Len(a.read) < Expected(k) BY <1>1 DEF AgentsInv
<1>5. v \in 1..MaxVersion \/ (v = Torn /\ fails) BY <1>4 DEF ReadOf, Changed
<1>6. a.read \in Seq(Bytes) /\ v \in Bytes BY <1>1, <1>5, ByteFacts DEF AgentStates
<1>7. item \in Items /\ item.item = "file" /\ item.bytes = v BY <1>6 DEF Items
<1>8. /\ b.path = a.path /\ b.link = a.link /\ b.wire = sent /\ b.phase = (IF fails THEN "failed" ELSE a.phase)
      /\ ~fails => b.read = Append(a.read, v)
  <2> HIDE DEF fails, sent, v
  <2> QED BY <1>1 DEF AgentStates
<1>9. Len(Append(a.read, v)) = Len(a.read) + 1 /\ Append(a.read, v) # <<>>
  <2> HIDE DEF a, v
  <2> QED BY <1>6
<1>10. CASE a.phase = "stream" /\ a.link = "up"
  <2>1. sent = Append(a.wire, item) BY <1>10 DEF Sent
  <2> HIDE DEF b, sent, item, v, fails
  <2>2. WireAppended(a, b, Expected(k)) BY <1>4, <1>5, <1>7, <1>8, <1>9, <1>10, <2>1 DEF WireAppended
  <2> QED BY <1>1, <1>2, <1>3, <1>8, <2>2 DEF Sends
<1>11. CASE ~(a.phase = "stream" /\ a.link = "up")
  <2>1. sent = a.wire BY <1>11 DEF Sent
  <2> HIDE DEF b, sent, item, v, fails
  <2>2. WireKept(a, b) BY <1>1, <1>8, <1>11, <2>1 DEF WireKept
  <2> QED BY <1>1, <1>2, <1>3, <1>8, <2>2 DEF Sends
<1> QED BY <1>10, <1>11

\* The agent's other steps end its stream, or come after its end.
LEMMA PhasesSend ==
  ASSUME CommandInv, AgentsInv, NEW k \in Agents,
         AgentFinishes(k) \/ AgentInterrupted(k) \/ AgentAcknowledged(k) \/ AgentVerifies(k) \/ AgentInspects(k)
         \/ AgentRemoves(k)
  PROVE  LET a == agent[k]  b == agent'[k]
         IN  AgentBecomes(k, b) /\ b.path = a.path /\ b.phase # "none" /\ Sends(a, b, Expected(k))
<1> DEFINE a == agent[k]
<1>1. a \in AgentStates /\ a.phase \notin {"none", "failed"}
  BY AgentFacts DEF AgentFinishes, AgentInterrupted, AgentAcknowledged, AgentVerifies, AgentInspects, AgentRemoves
<1>2. ASSUME NEW c, AgentBecomes(k, c) PROVE agent'[k] = c BY <1>2 DEF AgentBecomes, AgentsInv
<1>3. ASSUME NEW c, AgentBecomes(k, c), c.wire = a.wire, c.link = a.link, c.path = a.path, c.phase \notin {"stream", "none"}
      PROVE  AgentBecomes(k, agent'[k]) /\ agent'[k].path = a.path /\ agent'[k].phase # "none" /\ Sends(a, agent'[k], Expected(k))
  <2>1. agent'[k] = c BY <1>2, <1>3
  <2>2. WireKept(a, c) BY <1>1, <1>3 DEF WireKept
  <2> QED BY <1>3, <2>1, <2>2 DEF Sends
<1>4. CASE AgentFinishes(k)
  <2> DEFINE sent == Sent(a, Trailer)
             b == [a EXCEPT !.phase = "acknowledge", !.first = a.read, !.read = <<>>, !.wire = sent]
  <2>1. AgentBecomes(k, b) BY <1>4 DEF AgentFinishes
  <2>2. b.phase = "acknowledge" /\ b.link = a.link /\ b.path = a.path /\ b.wire = sent BY <1>1 DEF AgentStates
  <2>3. Trailer \in Items /\ Trailer.item = "trailer" BY ByteFacts DEF Items, Trailer
  <2>4. a.phase = "stream" /\ Len(a.read) = Expected(k) BY <1>4 DEF AgentFinishes
  <2>5. a.link = "up" => sent = Append(a.wire, Trailer) BY DEF Sent
  <2>6. a.link # "up" => sent = a.wire BY DEF Sent
  <2> HIDE DEF b, sent
  <2>7. CASE a.link = "up"
    <3>1. WireAppended(a, b, Expected(k)) BY <2>2, <2>3, <2>4, <2>5, <2>7 DEF WireAppended
    <3> QED BY <1>2, <2>1, <2>2, <3>1 DEF Sends
  <2>8. CASE a.link # "up" BY <1>3, <2>1, <2>2, <2>6, <2>8
  <2> QED BY <2>7, <2>8
<1>5. ASSUME NEW phase \in {"failed", "inspect"}, AgentBecomes(k, [a EXCEPT !.phase = phase])
      PROVE  AgentBecomes(k, agent'[k]) /\ agent'[k].path = a.path /\ agent'[k].phase # "none" /\ Sends(a, agent'[k], Expected(k))
  <2> DEFINE b == [a EXCEPT !.phase = phase]
  <2>1. AgentBecomes(k, b) /\ b.wire = a.wire /\ b.link = a.link /\ b.path = a.path /\ b.phase = phase
    BY <1>1, <1>5 DEF AgentStates
  <2> HIDE DEF b
  <2> QED BY <1>3, <2>1
<1>6. ASSUME NEW phase \in {"verify", "remove"}, NEW since0, AgentBecomes(k, [a EXCEPT !.phase = phase, !.since = since0])
      PROVE  AgentBecomes(k, agent'[k]) /\ agent'[k].path = a.path /\ agent'[k].phase # "none" /\ Sends(a, agent'[k], Expected(k))
  <2> DEFINE b == [a EXCEPT !.phase = phase, !.since = since0]
  <2>1. AgentBecomes(k, b) /\ b.wire = a.wire /\ b.link = a.link /\ b.path = a.path /\ b.phase = phase
    BY <1>1, <1>6 DEF AgentStates
  <2> HIDE DEF b
  <2> QED BY <1>3, <2>1
<1>7. CASE AgentInterrupted(k) BY <1>5, <1>7 DEF AgentInterrupted
<1>8. CASE AgentAcknowledged(k) BY <1>5, <1>6, <1>8 DEF AgentAcknowledged
<1>9. CASE AgentVerifies(k) BY <1>5, <1>9 DEF AgentVerifies
<1>10. CASE AgentInspects(k)
  <2> DEFINE since0 == IF a.seen.kind = "regular" THEN clock ELSE a.since
  <2>1. CASE AgentBecomes(k, [a EXCEPT !.phase = "remove", !.since = since0])
    <3> HIDE DEF since0
    <3> QED BY <1>6, <2>1
  <2>2. CASE AgentBecomes(k, [a EXCEPT !.phase = "failed"]) BY <1>5, <2>2
  <2> QED BY <1>10, <2>1, <2>2 DEF AgentInspects
<1>11. CASE AgentRemoves(k)
  <2> DEFINE b == [a EXCEPT !.phase = "done", !.removed = TRUE]
  <2>1. AgentBecomes(k, b) /\ b.wire = a.wire /\ b.link = a.link /\ b.path = a.path /\ b.phase = "done"
    BY <1>1, <1>11 DEF AgentRemoves, AgentStates
  <2> HIDE DEF b
  <2> QED BY <1>3, <2>1
<1> QED BY <1>4, <1>7, <1>8, <1>9, <1>10, <1>11

LEMMA CutSends ==
  ASSUME CommandInv, AgentsInv, NEW k \in Agents, Cut(k)
  PROVE  LET a == agent[k]  b == agent'[k]
         IN  AgentBecomes(k, b) /\ b.path = a.path /\ b.phase # "none" /\ Sends(a, b, Expected(k))
<1> DEFINE a == agent[k]
<1>1. a \in AgentStates /\ a.phase # "none" BY AgentFacts DEF Cut
<1>2. PICK ack \in {a.ack, "none"}, n \in 0..Len(a.wire) :
        AgentBecomes(k, [a EXCEPT !.link = "cut", !.ack = ack, !.wire = SubSeq(@, 1, n)])
  BY DEF Cut
<1> DEFINE w == SubSeq(a.wire, 1, n)
           b == [a EXCEPT !.link = "cut", !.ack = ack, !.wire = w]
<1>3. AgentBecomes(k, b) BY <1>2
<1>4. b.wire = w /\ b.link = "cut" /\ b.path = a.path /\ b.phase = a.phase BY <1>1 DEF AgentStates
<1> HIDE DEF b
<1>5. agent'[k] = b BY <1>3 DEF AgentBecomes, AgentsInv
<1>6. WireCut(a, b) BY <1>2, <1>4 DEF WireCut
<1> QED BY <1>1, <1>3, <1>4, <1>5, <1>6 DEF Sends

\* A change of other agents, or of the client's when it does not extract.
LEMMA FillOthers ==
  ASSUME FillInv, UNCHANGED <<setting, store, command, pc, todo, archive, open, digest>>, pc = "extract" => Stream' = Stream
  PROVE  FillInv'
<1>1. Kept' = Kept /\ Path' = Path BY DEF Kept, Path
<1>2. Copied' = Copied /\ (pc = "extract" => Item' = Item) BY <1>1 DEF Copied, Item
<1>3. Having' = Having BY <1>2 DEF Having
<1>4. FreshInv' BY <1>1 DEF FillInv, FreshInv
<1>5. CopyInv' BY <1>1, <1>2, <1>3 DEF FillInv, CopyInv
<1>6. StreamInv' BY <1>1, <1>2, <1>3 DEF FillInv, StreamInv
<1>7. DigestInv' BY <1>1, <1>2 DEF FillInv, DigestInv, WholeCopies
<1> QED BY <1>4, <1>5, <1>6, <1>7 DEF FillInv

LEMMA AgentsFill ==
  ASSUME CommandInv, EndsInv, LocalsInv, AgentsInv, AgentsInv', StoreInv, FillInv, NEW k \in Agents, AgentSteps(k) \/ Cut(k)
  PROVE  FillInv'
<1> DEFINE a == agent[k]
           b == agent'[k]
<1>1. AgentBecomes(k, b) /\ b.path = a.path /\ b.phase # "none" /\ Sends(a, b, Expected(k))
  BY OpensSends, ReadsSends, PhasesSend, CutSends DEF AgentSteps
<1>2. UNCHANGED <<setting, store, command, pc, todo, archive, open, digest>>
  BY AgentsLeaveControl DEF Control, disk, locals, Cut
<1>3. b \in AgentStates BY DEF AgentsInv
<1>4. CASE k = command /\ pc = "extract"
  <2>1. a = Stream /\ a.path = Path BY <1>4 DEF Stream, FillInv, StreamInv
  <2>2. Expected(k) = FilesOf(setting.kind[Path]) BY <2>1 DEF Expected
  <2> HIDE DEF a, b
  <2> QED BY <1>1, <1>2, <1>3, <1>4, <2>1, <2>2, StreamMoves
<1>5. CASE ~(k = command /\ pc = "extract")
  <2>1. pc = "extract" => Stream' = Stream
    <3>1. ASSUME pc = "extract" PROVE Stream' = Stream
      <4>1. command \in Agents /\ k # command BY <1>5, <3>1, CommandIsAgent
      <4> QED BY <1>1, <1>2, <4>1 DEF AgentBecomes, AgentsInv, Stream
    <3> QED BY <3>1
  <2> QED BY <1>2, <2>1, FillOthers
<1> QED BY <1>4, <1>5

LEMMA RotFills ==
  ASSUME CommandInv, LocalsInv, StoreInv, FillInv, Rots PROVE FillInv'
<1>1. PICK n \in 1..MaxArchives, p \in Paths :
        /\ store[n].place = "visible" /\ p \in store[n].synced
        /\ \E i \in 1..Len(store[n].copy[p].files), damage \in {Rot, Short} :
             Set(n, [store[n] EXCEPT !.copy[p].files[i] = damage])
  BY DEF Rots
<1>2. PICK i \in 1..Len(store[n].copy[p].files), damage \in {Rot, Short} :
        Set(n, [store[n] EXCEPT !.copy[p].files[i] = damage])
  BY <1>1
<1>3. UNCHANGED <<setting, command, pc, todo, archive, open, digest, agent>> BY DEF Rots, locals
<1> DEFINE c == [store[n].copy[p] EXCEPT !.files[i] = damage]
           b == [store[n] EXCEPT !.copy[p] = c]
<1>4. Set(n, b) BY <1>2
<1>5. store[n] \in Archive /\ store[n].copy[p] \in Copies \cup {NoCopy} BY DEF StoreInv, Archive
<1>6. /\ c \in Copies /\ c.kind = store[n].copy[p].kind /\ Len(c.files) = Len(store[n].copy[p].files) /\ c.files[i] = damage
      /\ \A j \in 1..Len(c.files) : j # i => c.files[j] = store[n].copy[p].files[j]
  BY <1>5, FileReplaced, ByteFacts
<1> HIDE DEF c
<1>7. /\ b.place = store[n].place /\ b.synced = store[n].synced /\ b.copy[p] = c
      /\ \A q \in Paths : q # p => b.copy[q] = store[n].copy[q]
  <2> DEFINE a == store[n]
  <2>1. a \in Archive /\ p \in Paths /\ c \in Copies \cup {NoCopy} BY <1>5, <1>6
  <2>2. b = [a EXCEPT !.copy[p] = c] OBVIOUS
  <2> HIDE DEF a, b
  <2>3. /\ b.place = a.place /\ b.synced = a.synced /\ b.copy[p] = c
        /\ \A q \in Paths : q # p => b.copy[q] = a.copy[q]
    BY <2>1, <2>2, CopyReplaced
  <2> QED BY <2>3 DEF a
<1> HIDE DEF b
<1>8. CASE pc \notin Fills
  BY <1>3, <1>8, FillIdle DEF FillInv, FreshInv, DigestInv, Fills, Copying
<1>9. CASE pc \in Fills
  <2>1. archive \in 1..MaxArchives /\ Kept = store[archive] BY <1>9, KeptFacts DEF FillInv
  <2>2. Kept' = IF archive = n THEN b ELSE Kept BY <1>3, <1>4, <2>1, StoreSet DEF StoreInv, Kept
  <2>3. Kept'.place = Kept.place /\ Kept'.synced = Kept.synced /\ (Kept = Unused => Kept' = Kept)
    BY <1>1, <1>7, <2>1, <2>2 DEF Unused
  <2>4. FreshInv' BY <1>3, <2>3 DEF FillInv, FreshInv
  <2>5. Path' = Path /\ Stream' = Stream BY <1>3 DEF Path, Stream
  <2>6. pc # "next" => Path \in Paths BY <1>9, PathFacts DEF FillInv, Fills, LocalsInv, WithPath
  <2>7. CASE pc \in Copying
    <3>1. Path \in Paths /\ Path \notin Kept.synced
      BY <1>9, <2>7, PathFacts DEF FillInv, Copying, LocalsInv, WithPath, Fills
    <3>2. Copied' = Copied
      <4>1. archive = n => Path # p BY <1>1, <2>1, <3>1
      <4> QED BY <1>7, <2>1, <2>2, <2>5, <3>1, <4>1 DEF Copied
    <3>3. Having' = Having /\ Item' = Item BY <1>3, <2>5, <3>2 DEF Having, Item
    <3>4. CopyInv' BY <1>3, <2>5, <3>2, <3>3 DEF FillInv, CopyInv
    <3>5. StreamInv' BY <1>3, <2>5, <3>2, <3>3 DEF FillInv, StreamInv
    <3>6. DigestInv' BY <1>3, <2>7 DEF FillInv, DigestInv, Copying
    <3> QED BY <2>4, <3>4, <3>5, <3>6 DEF FillInv
  <2>8. CASE pc = "record"
    <3>1. digest \in WholeCopies(Path) /\ Path \in Kept.synced /\ Same(Copied, digest) BY <2>8 DEF FillInv, DigestInv
    <3>2. Same(Copied', digest)
      <4>1. CASE archive = n /\ Path = p
        <5>1. Copied' = c /\ Copied = store[n].copy[p] BY <1>7, <2>1, <2>2, <2>5, <4>1 DEF Copied
        <5>2. DOMAIN c.files = 1..Len(c.files) /\ DOMAIN Copied.files = 1..Len(Copied.files)
          BY <1>5, <1>6, <5>1, CopyFacts
        <5>3. ASSUME NEW j \in DOMAIN c.files PROVE c.files[j] \in {digest.files[j], Rot, Short}
          <6>1. CASE j = i BY <1>2, <1>6, <6>1
          <6>2. CASE j # i BY <1>6, <3>1, <5>1, <5>2, <5>3, <6>2 DEF Same
          <6> QED BY <6>1, <6>2
        <5> QED BY <1>6, <3>1, <5>1, <5>3 DEF Same
      <4>2. CASE ~(archive = n /\ Path = p)
        <5>1. Copied' = Copied BY <1>7, <2>1, <2>2, <2>5, <2>6, <2>8, <4>2 DEF Copied
        <5> QED BY <3>1, <5>1
      <4> QED BY <4>1, <4>2
    <3>3. DigestInv' BY <1>3, <2>3, <2>5, <2>8, <3>1, <3>2 DEF FillInv, DigestInv, WholeCopies
    <3> QED BY <1>3, <2>4, <2>8, <3>3 DEF FillInv, CopyInv, StreamInv
  <2>9. CASE pc \notin Copying \cup {"record"}
    BY <1>3, <2>4, <2>9, FillGoes DEF FillInv, FreshInv, DigestInv
  <2> QED BY <2>7, <2>8, <2>9
<1> QED BY <1>8, <1>9

LEMMA EntryDigests ==
  ASSUME StoreInv, NEW e \in ListForVerification(store)
  PROVE  /\ e \in Entry /\ e.archive \in 1..MaxArchives /\ e.path \in Paths /\ store[e.archive].place = "visible"
         /\ e.digest # NoCopy => e.digest = store[e.archive].entry[e.path] /\ e.digest \in WholeCopies(e.path)
         /\ e.digest = NoCopy => e.leaf \in 0..Len(Stored(e).files)
<1>1. PICK n \in 1..MaxArchives : e \in EntriesOf(n, store[n]) BY DEF ListForVerification
<1> DEFINE a == store[n]
<1>2. a \in Archive BY DEF StoreInv
<1>3. a.place = "visible" BY <1>1 DEF EntriesOf
<1>0. Files \in Nat BY DEF Files
<1>4. CASE e \in ManifestEntries(n, a)
  <2>1. PICK p \in Catalogued(a) : e = [archive |-> n, path |-> p, leaf |-> 0, digest |-> a.entry[p]]
    BY <1>4 DEF ManifestEntries
  <2>2. p \in Paths /\ a.entry[p] # NoCopy BY <2>1 DEF Catalogued
  <2>3. a.entry[p] \in WholeCopies(p) /\ a.entry[p] \in Copies \cup {NoCopy} BY <1>2, <2>2 DEF StoreInv, Archive
  <2>4. e \in Entry BY <1>0, <2>1, <2>2, <2>3 DEF Entry
  <2> QED BY <1>3, <2>1, <2>2, <2>3, <2>4
<1>5. CASE e \in LegacyEntries(n, a)
  <2>0. PICK p \in Paths : \E i \in 0..Len(a.copy[p].files) : e = [archive |-> n, path |-> p, leaf |-> i, digest |-> NoCopy]
    <3>1. ASSUME NEW p \in Paths PROVE Len(a.copy[p].files) \in Nat
      <4>1. a.copy[p] \in Copies \cup {NoCopy} BY <1>2, <3>1 DEF Archive
      <4> QED BY SMTT(60), <4>1, CopyFacts DEF Files
    <3> HIDE DEF a
    <3>2. \/ \E p \in Paths : \E i \in 1..Len(a.copy[p].files) : e = [archive |-> n, path |-> p, leaf |-> i, digest |-> NoCopy]
          \/ \E p \in Paths : e = [archive |-> n, path |-> p, leaf |-> 0, digest |-> NoCopy]
      <4> DEFINE leaves(p) == {[archive |-> n, path |-> p, leaf |-> i, digest |-> NoCopy] : i \in 1..Len(a.copy[p].files)}
                 bare == {r \in Paths : \/ a.copy[r].kind = "directory" /\ a.copy[r].files = <<>>
                                        \/ a.copy[r] = NoCopy /\ r \in a.parents}
                 all == {leaves(p) : p \in Paths}
                 empties == {[archive |-> n, path |-> p, leaf |-> 0, digest |-> NoCopy] : p \in bare}
      <4>1. e \in (UNION all) \cup empties BY <1>5 DEF LegacyEntries
      <4>2. bare \subseteq Paths OBVIOUS
      <4> HIDE DEF bare
      <4>3. e \in empties => \E p \in Paths : e = [archive |-> n, path |-> p, leaf |-> 0, digest |-> NoCopy] BY <4>2
      <4>4. e \in UNION all => \E p \in Paths : e \in leaves(p)
        <5> HIDE DEF leaves
        <5> QED OBVIOUS
      <4>5. \A p \in Paths : e \in leaves(p) =>
              \E i \in 1..Len(a.copy[p].files) : e = [archive |-> n, path |-> p, leaf |-> i, digest |-> NoCopy]
        OBVIOUS
      <4> HIDE DEF leaves, all, empties
      <4> QED BY <4>1, <4>3, <4>4, <4>5
    <3>3. \A p \in Paths : 0 \in 0..Len(a.copy[p].files) /\ \A i \in 1..Len(a.copy[p].files) : i \in 0..Len(a.copy[p].files)
      BY <3>1
    <3> QED BY <3>2, <3>3
  <2>1. PICK i \in 0..Len(a.copy[p].files) : e = [archive |-> n, path |-> p, leaf |-> i, digest |-> NoCopy] BY <2>0
  <2>2. a.copy[p] \in Copies \cup {NoCopy} BY <1>2 DEF Archive
  <2>3. Len(a.copy[p].files) \in 0..Files BY <2>2, CopyFacts
  <2>4. i \in 0..Files BY <1>0, <2>3
  <2>5. e \in Entry BY <2>1, <2>4 DEF Entry
  <2> QED BY <1>3, <2>1, <2>5 DEF Stored
<1> QED BY <1>1, <1>4, <1>5 DEF EntriesOf

LEMMA FillStep ==
  ASSUME CommandInv, EndsInv, LocalsInv, AgentsInv, AgentsInv', StoreInv, FillInv, [Next]_vars PROVE FillInv'
<1>0. /\ pc \notin Copying => open = NoSource
      /\ digest \in Copies \cup {NoCopy}
  BY DEF FillInv, FreshInv, DigestInv
<1>1. CASE Start
  <2>1. pc = "idle" /\ pc' \in {"preflight", "select", "find", "enumerate"} /\ UNCHANGED <<open, digest>>
    <3>1. CommandInv' BY <1>1, CommandStep
    <3>2. pc = "idle" /\ UNCHANGED <<open, digest, setting>> BY <1>1 DEF Start
    <3>3. setting.script[command'] \in Commands
      <4>1. command < Len(setting.script) /\ command' = command + 1 /\ command \in Nat /\ Len(setting.script) \in Nat
            /\ setting.script \in Seq(Commands)
        BY <1>1, ScriptPosition DEF Start
      <4> QED BY <4>1
    <3> QED BY <1>1, <3>2, <3>3 DEF Start, Commands
  <2> QED BY <1>0, <2>1, FillIdle DEF Copying, Fills
<1>2. CASE Resolving BY <1>2, ResolvingFills
<1>3. CASE Pruning
  <2>1. CASE \E result : Finish(result) BY <2>1, FillEnds
  <2>2. CASE ~\E result : Finish(result)
    <3>1. pc \notin Copying /\ pc' \notin Fills /\ UNCHANGED <<open, digest>>
      BY <1>3, <2>2 DEF Pruning, PruneSelect, CleanTombstone, PruneStops, PruneCleaned, PruneHides, PruneStages, PruneReclaims,
         PruneSettles, PruneEnds, Goto, Keeping, locals, Copying, Fills
    <3> QED BY <1>0, <3>1, FillIdle
  <2> QED BY <2>1, <2>2
<1>4. CASE Reading
  <2>1. CASE \E result : Finish(result) BY <2>1, FillEnds
  <2>2. CASE ~\E result : Finish(result)
    <3>1. pc \notin Copying /\ pc' \notin Fills /\ UNCHANGED open
      BY <1>4, <2>2 DEF Reading, RestoreFinds, RestoreCopies, RestoreCompares, VerifyBegins, VerifyNext, VerifyEnds, Failing,
         Goto, Keeping, locals, Copying, Fills
    <3>2. digest' = digest \/ \E e \in ListForVerification(store) : digest' = e.digest
      BY <1>4, <2>2 DEF Reading, RestoreFinds, RestoreCopies, RestoreCompares, VerifyBegins, VerifyNext, VerifyEnds, Failing,
         Goto, Keeping, locals
    <3>3. digest' \in Copies \cup {NoCopy} BY <1>0, <3>2, EntryDigests DEF Entry
    <3> QED BY <1>0, <3>1, <3>3, FillIdle
  <2> QED BY <2>1, <2>2
<1>5. ASSUME NEW k \in Agents, AgentSteps(k) \/ Cut(k) PROVE FillInv' BY <1>5, AgentsFill
<1>6. CASE Cancel BY <1>6, FillStays DEF Cancel, disk, locals
<1>7. CASE Crash BY <1>7, FillEnds DEF Crash
<1>8. CASE PowerLoss
  <2>1. CASE pc # "idle" BY <1>8, <2>1, FillEnds DEF PowerLoss
  <2>2. CASE pc = "idle"
    <3>1. pc' = "idle" /\ UNCHANGED <<open, digest>> BY <1>8, <2>2 DEF PowerLoss, locals
    <3> QED BY <1>0, <2>2, <3>1, FillIdle DEF Copying, Fills
  <2> QED BY <2>1, <2>2
<1>9. CASE Rots BY <1>9, RotFills
<1>10. CASE Users BY <1>10, UsersLeaveControl, FillStays DEF Control, disk, locals
<1>11. CASE UNCHANGED vars BY <1>11, FillStays DEF vars, disk, locals
<1> QED BY <1>1, <1>2, <1>3, <1>4, <1>5, <1>6, <1>7, <1>8, <1>9, <1>10, <1>11 DEF Next, Over, Client, Faults

LEMMA FillInit == Init => FillInv
  BY DEF Init, FillInv, FreshInv, CopyInv, StreamInv, DigestInv, Copying, Fills

-----------------------------------------------------------------------------
(* A prune, step by step.                                                  *)

Maintaining == {"clean", "hide"} \cup Hiding

LEMMA PruneIdle == ASSUME pc' \notin Maintaining PROVE PruneInv'
  BY DEF PruneInv, Maintaining, Hiding

\* The archives stay where they are.
SamePlaces == \A n \in 1..MaxArchives : store'[n].place = store[n].place /\ store'[n].durable = store[n].durable

LEMMA PruneStays ==
  ASSUME CommandInv, LocalsInv, StoreInv, PruneInv, UNCHANGED <<pc, used, chosen, condemned, status>>, SamePlaces
  PROVE  PruneInv'
<1>1. CASE pc \notin Maintaining BY <1>1, PruneIdle
<1>2. CASE pc \in Maintaining
  <2>1. Victim' = Victim BY DEF Victim, Newest
  <2>2. pc \in Hiding => Victim \in 1..MaxArchives BY VictimFacts DEF PruneInv, Hiding
  <2>3. chosen \subseteq 1..MaxArchives
    <3>1. used \in 0..MaxArchives /\ MaxArchives \in Nat /\ chosen \subseteq 1..used
      BY <1>2, UsedBounded DEF PruneInv, Maintaining
    <3> QED BY <3>1
  <2>4. \A n \in chosen : n \in 1..MaxArchives BY <2>3
  <2>5. (pc \in Hiding) => store'[Victim].place = store[Victim].place /\ store'[Victim].durable = store[Victim].durable
    BY <2>2 DEF SamePlaces
  <2> QED BY <2>1, <2>4, <2>5 DEF PruneInv, SamePlaces, Hiding
<1> QED BY <1>1, <1>2

\* Commands of another kind do not come to maintain.
LEMMA OtherCommands ==
  ASSUME CommandInv, CommandInv', UNCHANGED <<setting, command>>, pc \in ResolvePcs \cup RestorePcs \cup VerifyPcs
  PROVE  pc' \notin Maintaining /\ pc' \notin PrunePcs
<1>1. Kind' = Kind BY DEF Kind
<1>2. Kind # "prune" BY DEF CommandInv, Resolves
<1>3. pc' \notin PrunePcs BY <1>1, <1>2 DEF CommandInv
<1> QED BY <1>3 DEF Maintaining, Hiding, PrunePcs

LEMMA ResolvingPcs == Resolving => pc \in ResolvePcs /\ UNCHANGED <<setting, command, condemned, status, spoilt, restored, checked>>
  BY DEF Resolving, Preflight, ResolveLocked, NextPath, CopyOpens, CopyReads, CopySynced, Record, FileManifest,
     RemoveLocal, ResolveBarrier, ExtractOpens, ExtractWrites, ExtractEnds, ExtractTruncated, Acknowledge, Await,
     ByClient, ResolvePcs, Fills, histories

LEMMA PruningPcs == Pruning => pc \in PrunePcs /\ UNCHANGED <<setting, command, used, spoilt, restored, checked>>
  BY DEF Pruning, PruneSelect, CleanTombstone, PruneStops, PruneCleaned, PruneHides, PruneStages, PruneReclaims,
     PruneSettles, PruneEnds, ByPrune, OnlyPrune, PrunePcs

LEMMA ReadingPcs == Reading => pc \in RestorePcs \cup VerifyPcs /\ UNCHANGED <<setting, command, store, used, condemned, status>>
  BY DEF Reading, RestoreFinds, RestoreCopies, RestoreCompares, VerifyBegins, VerifyNext, VerifyEnds, ByReader, disk,
     RestorePcs, VerifyPcs

LEMMA PlacesKept == ASSUME store' = store PROVE SamePlaces
  BY DEF SamePlaces

LEMMA RotPlaces == ASSUME StoreInv, Rots PROVE SamePlaces
<1>1. PICK n \in 1..MaxArchives, p \in Paths :
        \E i \in 1..Len(store[n].copy[p].files), damage \in {Rot, Short} :
          Set(n, [store[n] EXCEPT !.copy[p].files[i] = damage])
  BY DEF Rots
<1>2. PICK i \in 1..Len(store[n].copy[p].files), damage \in {Rot, Short} :
        Set(n, [store[n] EXCEPT !.copy[p].files[i] = damage])
  BY <1>1
<1> DEFINE b == [store[n] EXCEPT !.copy[p].files[i] = damage]
<1>3. store[n] \in Archive BY DEF StoreInv
<1>4. b.place = store[n].place /\ b.durable = store[n].durable BY <1>3 DEF Archive
<1>5. Set(n, b) BY <1>2
<1> HIDE DEF b
<1>6. store'[n] = b /\ \A m \in 1..MaxArchives : m # n => store'[m] = store[m] BY <1>5 DEF Set, StoreInv
<1> QED BY <1>4, <1>6 DEF SamePlaces

\* One archive moves.
LEMMA MovesTo ==
  ASSUME StoreInv, NEW n \in 1..MaxArchives, NEW b, Set(n, b)
  PROVE  store'[n] = b /\ \A m \in 1..MaxArchives : m # n => store'[m] = store[m]
  BY DEF Set, StoreInv

LEMMA Selected ==
  ASSUME LocalsInv, StoreInv, CommandInv
  PROVE  \A n \in SelectForPrune(store, setting.keep) : n \in 1..MaxArchives /\ n \in 1..used /\ store[n].place = "visible"
<1>1. SUFFICES ASSUME NEW n \in SelectForPrune(store, setting.keep)
               PROVE  n \in 1..MaxArchives /\ n \in 1..used /\ store[n].place = "visible"
  OBVIOUS
<1>2. n \in ListArchives(store) BY DEF SelectForPrune
<1>3. n \in 1..MaxArchives /\ EntriesOf(n, store[n]) # {} BY <1>2 DEF ListArchives
<1>4. store[n].place = "visible" BY <1>3 DEF EntriesOf
<1>5. store[n] # Unused BY <1>4 DEF Unused
<1>6. used \in 0..MaxArchives /\ MaxArchives \in Nat BY UsedBounded
<1>7. n <= used BY <1>3, <1>5, <1>6 DEF StoreInv
<1> QED BY <1>3, <1>4, <1>6, <1>7

LEMMA PruningStep ==
  ASSUME CommandInv, LocalsInv, StoreInv, PruneInv, Pruning PROVE PruneInv'
<1> DEFINE v == Victim
           a == store[v]
<1>0. MaxArchives \in Nat /\ used' = used BY CatalogAssumption, PruningPcs
<1>1. ASSUME NEW result, Finish(result) PROVE PruneInv' BY <1>1, PruneIdle DEF Finish, Maintaining, Hiding
<1>2. CASE PruneSelect
  <2>1. CASE Finish("previewed") BY <1>1, <2>1
  <2>2. CASE ~Finish("previewed")
    <3> DEFINE selected == SelectForPrune(store, setting.keep)
    <3>1. /\ chosen' = selected /\ condemned' = condemned \cup selected /\ pc' = "clean" /\ store' = store
          /\ status' = [n \in 1..MaxArchives |-> IF n \in selected THEN "not-run" ELSE "none"]
      BY <1>2, <2>2 DEF PruneSelect, Goto
    <3>2. \A n \in selected : n \in 1..MaxArchives /\ n \in 1..used /\ store[n].place = "visible" BY Selected
    <3> HIDE DEF selected
    <3> QED BY <1>0, <3>1, <3>2 DEF PruneInv, Hiding
  <2> QED BY <2>1, <2>2
<1>3. CASE CleanTombstone
  <2>1. CASE UNCHANGED store
    <3>1. CASE \E result : Finish(result) BY <1>1, <3>1
    <3>2. CASE ~\E result : Finish(result)
      <4>1. UNCHANGED <<pc, chosen, condemned, status>> BY <1>3, <3>2 DEF CleanTombstone, locals
      <4> QED BY <1>0, <2>1, <4>1, PlacesKept, PruneStays
    <3> QED BY <3>1, <3>2
  <2>2. CASE ~UNCHANGED store
    <3>1. PICK n \in Stale : \/ \E b \in PartlyRemoved(store[n]) : Set(n, b)
                             \/ Set(n, [store[n] EXCEPT !.place = "absent", !.durable = "absent"])
      BY <1>3, <2>2 DEF CleanTombstone
    <3>2. n \in 1..MaxArchives /\ store[n].place = "tombstone" /\ store[n] \in Archive
      BY DEF Stale, Tombstones, StoreInv
    <3>3. pc = "clean" /\ UNCHANGED <<pc, chosen, condemned, status>> BY <1>3, <2>2 DEF CleanTombstone, locals
    <3>4. store'[n].place \in {"tombstone", "absent"} /\ \A m \in 1..MaxArchives : m # n => store'[m] = store[m]
      <4>1. CASE \E b \in PartlyRemoved(store[n]) : Set(n, b)
        <5>1. PICK b \in PartlyRemoved(store[n]) : Set(n, b) BY <4>1
        <5>2. b.place = "tombstone" BY <3>2, PartReduces
        <5> QED BY <3>2, <5>1, <5>2, MovesTo
      <4>2. CASE Set(n, [store[n] EXCEPT !.place = "absent", !.durable = "absent"])
        <5> DEFINE c == store[n]
                   b == [c EXCEPT !.place = "absent", !.durable = "absent"]
        <5>1. Set(n, b) /\ c \in Archive BY <3>2, <4>2
        <5> HIDE DEF c
        <5>2. b.place = "absent" BY <5>1 DEF Archive
        <5> HIDE DEF b
        <5> QED BY <3>2, <5>1, <5>2, MovesTo
      <4> QED BY <3>1, <4>1, <4>2
    <3>5. n \notin chosen /\ status[n] # "pruned" BY <3>2, <3>3 DEF PruneInv, Hiding
    <3>6. \A m \in chosen : m \in 1..MaxArchives
      <4>1. used \in 0..MaxArchives /\ chosen \subseteq 1..used BY <3>3, UsedBounded DEF PruneInv
      <4> QED BY <1>0, <4>1
    <3> QED BY <1>0, <3>2, <3>3, <3>4, <3>5, <3>6 DEF PruneInv, Hiding
  <2> QED BY <2>1, <2>2
<1>4. CASE PruneStops \/ PruneEnds BY <1>1, <1>4 DEF PruneStops, PruneEnds
<1>5. CASE PruneCleaned
  <2>1. pc = "clean" /\ pc' = "hide" /\ UNCHANGED <<store, chosen, condemned, status>> /\ Tombstones = {}
    BY <1>5 DEF PruneCleaned, Goto, Keeping, Stale
  <2>2. \A n \in 1..MaxArchives : store[n].place # "tombstone" BY <2>1 DEF Tombstones
  <2> QED BY <1>0, <2>1, <2>2 DEF PruneInv, Hiding
<1>6. ASSUME pc \in {"clean", "hide"} \cup Hiding, chosen # {}
      PROVE  /\ v \in chosen /\ v \in 1..MaxArchives /\ a \in Archive /\ \A n \in chosen : n \in 1..MaxArchives
             /\ (chosen' = chosen => Victim' = v)
             /\ (UNCHANGED chosen /\ UNCHANGED <<condemned, status>> => chosen' \subseteq 1..used')
  <2>1. chosen \subseteq 1..used BY <1>6 DEF PruneInv
  <2> QED BY <1>0, <1>6, <2>1, VictimFacts DEF Victim, Newest
<1>7. CASE PruneHides
  <2> DEFINE b == [a EXCEPT !.place = "tombstone"]
  <2>1. /\ pc = "hide" /\ chosen # {} /\ pc' = "stage" /\ UNCHANGED <<chosen, condemned, status>> /\ Set(v, b)
    BY <1>7 DEF PruneHides, Goto, Keeping, Hidden
  <2>2. v \in chosen /\ v \in 1..MaxArchives /\ a \in Archive /\ Victim' = v /\ \A n \in chosen : n \in 1..MaxArchives
    BY <1>6, <2>1
  <2> HIDE DEF v, a
  <2>3. b.place = "tombstone" BY <2>2 DEF Archive
  <2> HIDE DEF b
  <2>4. store'[v].place = "tombstone" /\ \A m \in 1..MaxArchives : m # v => store'[m] = store[m]
    BY <2>1, <2>2, <2>3, MovesTo
  <2>5. status[v] = "not-run" BY <2>1, <2>2 DEF PruneInv
  <2> QED BY ZenonT(60), <1>0, <2>1, <2>2, <2>4, <2>5 DEF PruneInv, Hiding
<1>8. CASE PruneStages
  <2>1. CASE \E result : Finish(result) BY <1>1, <2>1
  <2>2. CASE ~\E result : Finish(result)
    <3> DEFINE b == [a EXCEPT !.durable = "tombstone"]
    <3>1. pc = "stage" /\ pc' = "reclaim" /\ UNCHANGED <<chosen, condemned, status>> /\ Set(v, b)
      BY <1>8, <2>2 DEF PruneStages, Goto, Keeping
    <3>2. v \in chosen /\ v \in 1..MaxArchives /\ a \in Archive /\ Victim' = v /\ \A n \in chosen : n \in 1..MaxArchives
      BY <1>6, <3>1 DEF PruneInv, Hiding
    <3>3. a.place = "tombstone" BY <3>1 DEF PruneInv
    <3>7. \A m \in 1..MaxArchives : store[m].place = "tombstone" => m = v BY <3>1 DEF PruneInv, Hiding
    <3>8. \A m \in chosen : m # v => store[m].place = "visible" BY <3>1 DEF PruneInv, Hiding
    <3> HIDE DEF v, a
    <3>4. b.place = "tombstone" /\ b.durable = "tombstone" BY <3>2, <3>3 DEF Archive
    <3> HIDE DEF b
    <3>5. /\ store'[v].place = "tombstone" /\ store'[v].durable = "tombstone"
          /\ \A m \in 1..MaxArchives : m # v => store'[m] = store[m]
      BY <3>1, <3>2, <3>4, MovesTo
    <3>6. status[v] = "not-run" BY <3>1, <3>2 DEF PruneInv, Hiding
    <3>9. \A m \in 1..MaxArchives : store'[m].place = "tombstone" => m = v BY <3>5, <3>7
    <3>10. \A m \in chosen : store'[m].place = "visible" \/ m = v BY <3>2, <3>5, <3>8
    <3>11. \A m \in 1..MaxArchives : status[m] = "pruned" => store'[m].place = "absent"
      BY <3>1, <3>5, <3>6 DEF PruneInv, Hiding
    <3> QED BY <1>0, <3>1, <3>2, <3>5, <3>9, <3>10, <3>11 DEF PruneInv, Hiding
  <2> QED BY <2>1, <2>2
<1>9. CASE PruneReclaims
  <2>1. CASE \E result : Finish(result) BY <1>1, <2>1
  <2>2. CASE ~\E result : Finish(result)
    <3> DEFINE b == [a EXCEPT !.place = "absent"]
    <3>1. pc = "reclaim" /\ pc' = "settle" /\ UNCHANGED <<chosen, condemned, status>> /\ Set(v, b)
      BY <1>9, <2>2 DEF PruneReclaims, Goto, Keeping
    <3>2. v \in chosen /\ v \in 1..MaxArchives /\ a \in Archive /\ Victim' = v /\ \A n \in chosen : n \in 1..MaxArchives
      BY <1>6, <3>1 DEF PruneInv, Hiding
    <3>7. \A m \in 1..MaxArchives : store[m].place = "tombstone" => m = v BY <3>1 DEF PruneInv, Hiding
    <3> HIDE DEF v, a
    <3>4. b.place = "absent" BY <3>2 DEF Archive
    <3> HIDE DEF b
    <3>5. store'[v].place = "absent" /\ \A m \in 1..MaxArchives : m # v => store'[m] = store[m]
      BY <3>1, <3>2, <3>4, MovesTo
    <3> QED BY ZenonT(60), <1>0, <3>1, <3>2, <3>5, <3>7 DEF PruneInv, Hiding
  <2> QED BY <2>1, <2>2
<1>10. CASE PruneSettles
  <2>1. CASE \E result : Finish(result) BY <1>1, <2>1
  <2>2. CASE ~\E result : Finish(result)
    <3> DEFINE b == [a EXCEPT !.durable = "absent"]
    <3>1. /\ pc = "settle" /\ pc' = "hide" /\ chosen' = chosen \ {v} /\ condemned' = condemned /\ Set(v, b)
          /\ status' = [status EXCEPT ![v] = "pruned"]
      BY <1>10, <2>2 DEF PruneSettles, Goto
    <3>2. v \in chosen /\ v \in 1..MaxArchives /\ a \in Archive /\ \A n \in chosen : n \in 1..MaxArchives
      BY <1>6, <3>1 DEF PruneInv, Hiding
    <3>3. a.place = "absent" BY <3>1 DEF PruneInv
    <3>6. \A m \in 1..MaxArchives : store[m].place # "tombstone" BY <3>1 DEF PruneInv, Hiding
    <3>7. \A m \in chosen : m # v => store[m].place = "visible" BY <3>1 DEF PruneInv, Hiding
    <3> HIDE DEF v, a
    <3>4. b.place = "absent" BY <3>2, <3>3 DEF Archive
    <3> HIDE DEF b
    <3>5. store'[v].place = "absent" /\ \A m \in 1..MaxArchives : m # v => store'[m] = store[m]
      BY <3>1, <3>2, <3>4, MovesTo
    <3>8. /\ status' \in [1..MaxArchives -> {"none", "not-run", "pruned"}] /\ status'[v] = "pruned"
          /\ \A m \in 1..MaxArchives : m # v => status'[m] = status[m]
      BY <3>1, <3>2 DEF PruneInv, Hiding
    <3>9. \A m \in 1..MaxArchives : status'[m] = "not-run" <=> m \in chosen'
      BY <3>1, <3>2, <3>8 DEF PruneInv, Hiding
    <3>10. chosen' \subseteq 1..used' /\ chosen' \subseteq condemned' BY <1>0, <3>1 DEF PruneInv, Hiding
    <3>11. \A m \in 1..MaxArchives : status'[m] = "pruned" => store'[m].place = "absent"
      BY <3>1, <3>5, <3>8 DEF PruneInv, Hiding
    <3>12. \A m \in chosen' : store'[m].place = "visible" BY <3>1, <3>2, <3>5, <3>7
    <3>13. \A m \in 1..MaxArchives : store'[m].place # "tombstone" BY <3>5, <3>6
    <3> QED BY <3>1, <3>8, <3>9, <3>10, <3>11, <3>12, <3>13 DEF PruneInv, Hiding
  <2> QED BY <2>1, <2>2
<1> QED BY <1>2, <1>3, <1>4, <1>5, <1>7, <1>8, <1>9, <1>10 DEF Pruning

LEMMA PruneInit == Init => PruneInv
  BY DEF Init, PruneInv, Hiding

LEMMA StartPcs == ASSUME CommandInv, Start PROVE pc = "idle" /\ pc' \in {"preflight", "select", "find", "enumerate"}
<1>1. command < Len(setting.script) /\ command' = command + 1 /\ command \in Nat /\ Len(setting.script) \in Nat
      /\ setting.script \in Seq(Commands)
  BY ScriptPosition DEF Start
<1>2. setting.script[command'] \in Commands BY <1>1
<1> QED BY <1>2 DEF Start, Commands

LEMMA PruneStep ==
  ASSUME CommandInv, LocalsInv, StoreInv, PruneInv, [Next]_vars PROVE PruneInv'
<1>0. CommandInv' BY CommandStep
<1>1. CASE Start BY <1>1, StartPcs, PruneIdle DEF Maintaining, Hiding
<1>2. CASE Resolving BY <1>0, <1>2, ResolvingPcs, OtherCommands, PruneIdle
<1>3. CASE Pruning BY <1>3, PruningStep
<1>4. CASE Reading BY <1>0, <1>4, ReadingPcs, OtherCommands, PruneIdle
<1>5. ASSUME NEW k \in Agents, AgentSteps(k) PROVE PruneInv'
  <2>1. UNCHANGED condemned
    BY <1>5 DEF AgentSteps, AgentOpens, AgentReads, AgentFinishes, AgentInterrupted, AgentAcknowledged, AgentVerifies,
       AgentInspects, AgentRemoves, OnlyAgents, histories
  <2> QED BY <1>5, <2>1, AgentsLeaveControl, PlacesKept, PruneStays DEF Control, disk, locals, reports
<1>6. CASE Cancel \/ \E k \in Agents : Cut(k)
  BY <1>6, PlacesKept, PruneStays DEF Cancel, Cut, disk, locals, reports, histories
<1>7. CASE Crash BY <1>7, PruneIdle DEF Crash, Finish, Maintaining, Hiding
<1>8. CASE PowerLoss
  <2>1. pc' = "idle" BY <1>8 DEF PowerLoss, Finish, locals
  <2> QED BY <2>1, PruneIdle DEF Maintaining, Hiding
<1>9. CASE Rots
  <2>1. UNCHANGED <<pc, used, chosen, condemned, status>> BY <1>9 DEF Rots, locals, reports, histories
  <2> QED BY <1>9, <2>1, RotPlaces, PruneStays
<1>10. CASE Users BY <1>10, UsersLeaveControl, PlacesKept, PruneStays DEF Control, disk, locals, reports, histories
<1>11. CASE UNCHANGED vars BY <1>11, PlacesKept, PruneStays DEF vars, disk, locals, reports, histories
<1> QED BY <1>1, <1>2, <1>3, <1>4, <1>5, <1>6, <1>7, <1>8, <1>9, <1>10, <1>11 DEF Next, Over, Client, Faults

-----------------------------------------------------------------------------
(* What a prune reports, and which archives it may have touched.           *)

Maintained == {"complete", "incomplete"}
ReportInv ==
  pc = "idle" /\ command > 0 /\ outcome[command] \in Maintained =>
    \A n \in 1..MaxArchives :
      /\ status[n] = "pruned" => store[n].place = "absent"
      /\ status[n] = "pending-cleanup" => store[n].place = "tombstone"
      /\ status[n] = "not-run" => store[n].place = "visible"
      /\ outcome[command] = "complete" => store[n].place # "tombstone" /\ status[n] # "not-run"

CondemnedInv ==
  \A n \in 1..MaxArchives :
    n <= setting.old /\ (store[n].place # "visible" \/ store[n].durable # "visible") => n \in condemned

LEMMA ReportStays ==
  ASSUME ReportInv, UNCHANGED <<pc, command, outcome, status>>, SamePlaces PROVE ReportInv'
  BY DEF ReportInv, SamePlaces, Maintained

LEMMA OutcomeSet ==
  ASSUME CommandInv, pc # "idle", NEW result, Finish(result), command' = command
  PROVE  outcome'[command'] = result /\ pc' = "idle" /\ command \in Agents
<1>1. command \in Agents BY CommandIsAgent
<1> QED BY <1>1 DEF Finish, CommandInv

LEMMA EndsUnreported ==
  ASSUME CommandInv, pc # "idle", NEW result, result \notin Maintained, Finish(result), command' = command
  PROVE  ReportInv'
  BY OutcomeSet DEF ReportInv

LEMMA ResolvingEnds ==
  ASSUME CommandInv, Resolving PROVE pc' # "idle" \/ \E result : result \notin Maintained \cup {"restored", "verified"} /\ Finish(result)
<1>1. pc # "idle" BY ResolvingPcs DEF ResolvePcs, Fills
<1>2. UNCHANGED pc => pc' # "idle" BY <1>1
<1> USE DEF Maintained
<1>3. CASE Preflight BY <1>3 DEF Preflight, Goto
<1>4. CASE ResolveLocked BY <1>4 DEF ResolveLocked, Goto
<1>5. CASE NextPath BY <1>5 DEF NextPath, Goto
<1>6. CASE CopyOpens BY <1>2, <1>6 DEF CopyOpens, CopyFails, Failing
<1>7. CASE CopyReads BY <1>2, <1>7 DEF CopyReads, CopyFails, Failing
<1>8. CASE CopySynced BY <1>8 DEF CopySynced, Goto, Failing
<1>9. CASE Record BY <1>9 DEF Record, Uncatalogued, Goto
<1>10. CASE FileManifest BY <1>10 DEF FileManifest, Uncatalogued, AfterRecord, Goto
<1>11. CASE RemoveLocal BY <1>11 DEF RemoveLocal, Failing, Goto
<1>12. CASE ResolveBarrier BY <1>12 DEF ResolveBarrier
<1>13. CASE ExtractOpens BY <1>2, <1>13 DEF ExtractOpens
<1>14. CASE ExtractWrites BY <1>2, <1>14 DEF ExtractWrites, ExtractFails, Failing
<1>15. CASE ExtractEnds BY <1>15 DEF ExtractEnds, ExtractFails, Failing, Goto
<1>16. CASE ExtractTruncated BY <1>16 DEF ExtractTruncated, ExtractFails, Failing
<1>17. CASE Acknowledge BY <1>17 DEF Acknowledge, Goto
<1>18. CASE Await BY <1>18 DEF Await, Goto
<1> QED BY <1>3, <1>4, <1>5, <1>6, <1>7, <1>8, <1>9, <1>10, <1>11, <1>12, <1>13, <1>14, <1>15, <1>16, <1>17, <1>18 DEF Resolving

LEMMA ReadingEnds ==
  ASSUME CommandInv, Reading PROVE pc' # "idle" \/ \E result : result \notin Maintained /\ Finish(result)
<1>1. pc # "idle" BY ReadingPcs DEF RestorePcs, VerifyPcs
<1>2. UNCHANGED pc => pc' # "idle" BY <1>1
<1> USE DEF Maintained
<1>3. CASE RestoreFinds BY <1>3 DEF RestoreFinds, Failing, Goto
<1>4. CASE RestoreCopies BY <1>2, <1>4 DEF RestoreCopies, Failing, Goto, locals
<1>5. CASE RestoreCompares BY <1>5 DEF RestoreCompares, Failing
<1>6. CASE VerifyBegins BY <1>6 DEF VerifyBegins, Goto
<1>7. CASE VerifyNext BY <1>2, <1>7 DEF VerifyNext
<1>8. CASE VerifyEnds BY <1>8 DEF VerifyEnds
<1> QED BY <1>3, <1>4, <1>5, <1>6, <1>7, <1>8 DEF Reading

LEMMA PruningReports ==
  ASSUME CommandInv, LocalsInv, StoreInv, PruneInv, Pruning PROVE ReportInv'
<1> DEFINE v == Victim
           a == store[v]
<1>1. pc # "idle" /\ pc \in PrunePcs /\ command' = command BY PruningPcs DEF PrunePcs
<1>2. ASSUME pc' # "idle" PROVE ReportInv' BY <1>2 DEF ReportInv
<1>3. ASSUME NEW result \in Maintained, Finish(result), UNCHANGED <<store, status>>, pc \in {"clean", "hide"},
             result = "complete" => pc = "hide" /\ chosen = {}
      PROVE  ReportInv'
  <2>1. outcome'[command'] = result BY <1>1, <1>3, OutcomeSet
  <2>2. \A n \in 1..MaxArchives :
          /\ status[n] = "pruned" => store[n].place = "absent"
          /\ status[n] # "pending-cleanup"
          /\ status[n] = "not-run" => store[n].place = "visible"
    BY <1>3 DEF PruneInv, Hiding
  <2>3. result = "complete" => \A n \in 1..MaxArchives : store[n].place # "tombstone" /\ status[n] # "not-run"
    BY <1>3 DEF PruneInv, Hiding
  <2> QED BY <1>3, <2>1, <2>2, <2>3 DEF ReportInv
<1>4. CASE PruneSelect
  <2>1. CASE Finish("previewed") BY <1>1, <2>1, EndsUnreported DEF Maintained
  <2>2. CASE ~Finish("previewed") BY <1>2, <1>4, <2>2 DEF PruneSelect, Goto
  <2> QED BY <2>1, <2>2
<1>5. CASE CleanTombstone
  <2>1. CASE Finish("incomplete") /\ UNCHANGED store
    BY <1>3, <1>5, <2>1 DEF CleanTombstone, Maintained
  <2>2. CASE ~(Finish("incomplete") /\ UNCHANGED store)
    <3>1. pc' = pc BY <1>5, <2>2 DEF CleanTombstone, locals
    <3> QED BY <1>1, <1>2, <3>1
  <2> QED BY <2>1, <2>2
<1>6. CASE PruneStops BY <1>3, <1>6 DEF PruneStops, Maintained
<1>7. CASE PruneEnds BY <1>3, <1>7 DEF PruneEnds, Maintained
<1>8. CASE PruneCleaned \/ PruneHides BY <1>2, <1>8 DEF PruneCleaned, PruneHides, Goto
\* A failure with a victim in hand.
<1>9. ASSUME pc \in Hiding
      PROVE  /\ v \in 1..MaxArchives /\ a \in Archive /\ status[v] = "not-run" /\ v \in DOMAIN status
             /\ \A n \in 1..MaxArchives : n # v =>
                  /\ status[n] = "pruned" => store[n].place = "absent"
                  /\ status[n] # "pending-cleanup"
                  /\ status[n] = "not-run" => store[n].place = "visible"
  <2>1. chosen # {} /\ pc \in Maintaining BY <1>9 DEF PruneInv, Maintaining
  <2>2. v \in chosen /\ v \in 1..MaxArchives /\ a \in Archive BY <2>1, VictimFacts DEF Maintaining
  <2> QED BY <1>9, <2>1, <2>2 DEF PruneInv
<1>10. ASSUME pc \in Hiding, Finish("incomplete"),
              \A n \in 1..MaxArchives : n # v => store'[n] = store[n] /\ status'[n] = status[n],
              /\ status'[v] = "pruned" => store'[v].place = "absent"
              /\ status'[v] = "pending-cleanup" => store'[v].place = "tombstone"
              /\ status'[v] = "not-run" => store'[v].place = "visible"
       PROVE  ReportInv'
  <2>1. outcome'[command'] = "incomplete" BY <1>1, <1>10, OutcomeSet
  <2>2. \A n \in 1..MaxArchives : n # v =>
                  /\ status[n] = "pruned" => store[n].place = "absent"
                  /\ status[n] # "pending-cleanup"
                  /\ status[n] = "not-run" => store[n].place = "visible"
    BY <1>9, <1>10
  <2> HIDE DEF v
  <2> QED BY <1>10, <2>1, <2>2 DEF ReportInv
<1>11. CASE PruneStages
  <2>1. pc = "stage" /\ pc \in Hiding BY <1>11 DEF PruneStages, Hiding
  <2>2. a.place = "tombstone" BY <2>1 DEF PruneInv
  <2>3. CASE pc' = "idle"
    <3>1. /\ Finish("incomplete")
          /\ \/ Set(v, [a EXCEPT !.place = "visible"]) /\ UNCHANGED status
             \/ status' = [status EXCEPT ![v] = "pending-cleanup"] /\ UNCHANGED store
      BY <1>11, <2>3 DEF PruneStages, Goto
    <3>2. CASE Set(v, [a EXCEPT !.place = "visible"]) /\ UNCHANGED status
      <4> DEFINE b == [a EXCEPT !.place = "visible"]
      <4>1. Set(v, b) BY <3>2
      <4>2. v \in 1..MaxArchives /\ a \in Archive /\ status[v] = "not-run" BY <1>9, <2>1
      <4>3. b.place = "visible"
        <5> HIDE DEF a
        <5> QED BY <4>2 DEF Archive
      <4> HIDE DEF b
      <4>4. store'[v] = b /\ \A n \in 1..MaxArchives : n # v => store'[n] = store[n] BY <4>1, <4>2, MovesTo
      <4> QED BY <1>10, <2>1, <3>1, <3>2, <4>2, <4>3, <4>4
    <3>3. CASE status' = [status EXCEPT ![v] = "pending-cleanup"] /\ UNCHANGED store
      <4>1. status'[v] = "pending-cleanup" /\ \A n \in 1..MaxArchives : n # v => status'[n] = status[n]
        <5>1. v \in DOMAIN status /\ status \in [1..MaxArchives -> {"none", "not-run", "pruned"}]
          BY <1>9, <2>1 DEF PruneInv
        <5> HIDE DEF v
        <5> QED BY <3>3, <5>1
      <4> QED BY <1>10, <2>1, <2>2, <3>1, <3>3, <4>1
    <3> QED BY <3>1, <3>2, <3>3
  <2> QED BY <1>2, <2>3
<1>12. CASE PruneReclaims
  <2>1. pc = "reclaim" /\ pc \in Hiding BY <1>12 DEF PruneReclaims, Hiding
  <2>2. a.place = "tombstone" BY <2>1 DEF PruneInv
  <2>3. CASE pc' = "idle"
    <3>1. /\ Finish("incomplete") /\ status' = [status EXCEPT ![v] = "pending-cleanup"]
          /\ \E b \in PartlyRemoved(a) : Set(v, b)
      BY <1>12, <2>3 DEF PruneReclaims, Goto
    <3>2. PICK b \in PartlyRemoved(a) : Set(v, b) BY <3>1
    <3>3. v \in 1..MaxArchives /\ a \in Archive BY <1>9, <2>1
    <3>4. b.place = "tombstone" BY <2>2, <3>3, PartReduces
    <3>5. store'[v] = b /\ \A n \in 1..MaxArchives : n # v => store'[n] = store[n] BY <3>2, <3>3, MovesTo
    <3>6. status'[v] = "pending-cleanup" /\ \A n \in 1..MaxArchives : n # v => status'[n] = status[n]
      <4>1. v \in DOMAIN status /\ status \in [1..MaxArchives -> {"none", "not-run", "pruned"}]
        BY <1>9, <2>1 DEF PruneInv
      <4> HIDE DEF v
      <4> QED BY <3>1, <4>1
    <3> QED BY <1>10, <2>1, <3>1, <3>4, <3>5, <3>6
  <2> QED BY <1>2, <2>3
<1>13. CASE PruneSettles
  <2>1. pc = "settle" /\ pc \in Hiding BY <1>13 DEF PruneSettles, Hiding
  <2>2. a.place = "absent" BY <2>1 DEF PruneInv
  <2>3. CASE pc' = "idle"
    <3>1. Finish("incomplete") /\ status' = [status EXCEPT ![v] = "pruned"] /\ UNCHANGED store
      BY <1>13, <2>3 DEF PruneSettles, Goto
    <3>2. status'[v] = "pruned" /\ \A n \in 1..MaxArchives : n # v => status'[n] = status[n]
      <4>1. v \in DOMAIN status /\ status \in [1..MaxArchives -> {"none", "not-run", "pruned"}]
        BY <1>9, <2>1 DEF PruneInv
      <4> HIDE DEF v
      <4> QED BY <3>1, <4>1
    <3> QED BY <1>10, <2>1, <2>2, <3>1, <3>2
  <2> QED BY <1>2, <2>3
<1> QED BY <1>4, <1>5, <1>6, <1>7, <1>8, <1>11, <1>12, <1>13 DEF Pruning

LEMMA ReportInit == Init => ReportInv
<1>1. Init => command = 0 BY DEF Init
<1> QED BY <1>1 DEF ReportInv

LEMMA ReportStep ==
  ASSUME CommandInv, LocalsInv, StoreInv, PruneInv, ReportInv, [Next]_vars PROVE ReportInv'
<1>1. CASE Start BY <1>1, StartPcs DEF ReportInv
<1>2. CASE Resolving
  <2>1. pc # "idle" /\ command' = command BY <1>2, ResolvingPcs DEF ResolvePcs, Fills
  <2>2. CASE pc' # "idle" BY <2>2 DEF ReportInv
  <2> QED BY <1>2, <2>1, <2>2, ResolvingEnds, EndsUnreported
<1>3. CASE Pruning BY <1>3, PruningReports
<1>4. CASE Reading
  <2>1. pc # "idle" /\ command' = command BY <1>4, ReadingPcs DEF RestorePcs, VerifyPcs
  <2>2. CASE pc' # "idle" BY <2>2 DEF ReportInv
  <2> QED BY <1>4, <2>1, <2>2, ReadingEnds, EndsUnreported
<1>5. ASSUME NEW k \in Agents, AgentSteps(k) PROVE ReportInv'
  BY <1>5, AgentsLeaveControl, PlacesKept, ReportStays DEF Control, disk, reports
<1>6. CASE Cancel \/ \E k \in Agents : Cut(k)
  BY <1>6, PlacesKept, ReportStays DEF Cancel, Cut, disk, locals, reports
<1>7. CASE Crash
  BY <1>7, EndsUnreported DEF Crash, Maintained
<1>8. CASE PowerLoss
  <2>1. CASE pc # "idle" BY <1>8, <2>1, EndsUnreported DEF PowerLoss, Maintained
  <2>2. CASE pc = "idle"
    <3>1. outcome' = [k \in Agents |-> IF outcome[k] \in Maintained THEN "outdated" ELSE outcome[k]] /\ command' = command
      BY <1>8, <2>2 DEF PowerLoss, Maintained
    <3>2. command > 0 => command \in Agents
      <4>1. command \in Nat /\ command <= Len(setting.script) BY ScriptPosition
      <4>2. Len(setting.script) \in 1..MaxCommands /\ MaxCommands \in Nat BY ScriptFacts DEF CommandInv
      <4> QED BY <4>1, <4>2 DEF Agents
    <3>3. command > 0 => outcome'[command'] \notin Maintained BY <3>1, <3>2 DEF Maintained
    <3> QED BY <3>1, <3>3 DEF ReportInv
  <2> QED BY <2>1, <2>2
<1>9. CASE Rots
  <2>1. UNCHANGED <<pc, command, outcome, status>> BY <1>9 DEF Rots, locals, reports
  <2> QED BY <1>9, <2>1, RotPlaces, ReportStays
<1>10. CASE Users BY <1>10, UsersLeaveControl, PlacesKept, ReportStays DEF Control, disk, reports
<1>11. CASE UNCHANGED vars BY <1>11, PlacesKept, ReportStays DEF vars, disk, locals, reports
<1> QED BY <1>1, <1>2, <1>3, <1>4, <1>5, <1>6, <1>7, <1>8, <1>9, <1>10, <1>11 DEF Next, Over, Client, Faults

LEMMA CondemnedInit == Init => CondemnedInv
<1>1. SUFFICES ASSUME Init, NEW n \in 1..MaxArchives, n <= setting.old
               PROVE  store[n].place = "visible" /\ store[n].durable = "visible"
  BY DEF CondemnedInv
<1>2. setting \in Settings /\ store[n] = OldArchive(setting) BY <1>1 DEF Init
<1> QED BY <1>2, OldFacts

LEMMA CondemnedStays ==
  ASSUME CondemnedInv, setting' = setting, condemned \subseteq condemned', SamePlaces PROVE CondemnedInv'
  BY DEF CondemnedInv, SamePlaces

\* Only a tombstone or the victim of a prune moves.
LEMMA PruneTouches ==
  ASSUME CommandInv, LocalsInv, StoreInv, PruneInv, Pruning
  PROVE  \/ SamePlaces
         \/ \E n \in 1..MaxArchives : /\ \A m \in 1..MaxArchives : m # n => store'[m] = store[m]
                                      /\ store[n].place # "visible" \/ n \in condemned
<1>1. CASE PruneSelect \/ PruneStops \/ PruneCleaned \/ PruneEnds
  BY <1>1, PlacesKept DEF PruneSelect, PruneStops, PruneCleaned, PruneEnds
<1>2. CASE CleanTombstone
  <2>1. CASE UNCHANGED store BY <2>1, PlacesKept
  <2>2. CASE ~UNCHANGED store
    <3>1. PICK n \in Stale : \/ \E b \in PartlyRemoved(store[n]) : Set(n, b)
                             \/ Set(n, [store[n] EXCEPT !.place = "absent", !.durable = "absent"])
      BY <1>2, <2>2 DEF CleanTombstone
    <3>2. n \in 1..MaxArchives /\ store[n].place # "visible" BY DEF Stale, Tombstones
    <3>3. \A m \in 1..MaxArchives : m # n => store'[m] = store[m]
      BY <3>1, <3>2, MovesTo
    <3> QED BY <3>2, <3>3
  <2> QED BY <2>1, <2>2
<1>3. CASE PruneHides \/ PruneStages \/ PruneReclaims \/ PruneSettles
  <2>1. pc \in Maintaining /\ chosen # {}
    BY <1>3 DEF PruneHides, PruneStages, PruneReclaims, PruneSettles, Hiding, Maintaining, PruneInv
  <2>2. Victim \in 1..MaxArchives /\ Victim \in condemned BY <2>1, VictimFacts DEF Maintaining
  <2>3. CASE UNCHANGED store BY <2>3, PlacesKept
  <2>4. CASE ~UNCHANGED store
    <3>1. \E b : Set(Victim, b)
      BY <1>3, <2>4 DEF PruneHides, PruneStages, PruneReclaims, PruneSettles
    <3> QED BY <2>2, <3>1, MovesTo
  <2> QED BY <2>3, <2>4
<1> QED BY <1>1, <1>2, <1>3 DEF Pruning

LEMMA CondemnedStep ==
  ASSUME CommandInv, EndsInv, LocalsInv, AgentsInv, StoreInv, FillInv, PruneInv, CondemnedInv, [Next]_vars PROVE CondemnedInv'
<1>1. CASE Start BY <1>1, PlacesKept, CondemnedStays DEF Start, disk
<1>2. CASE Resolving
  <2>1. setting' = setting /\ condemned' = condemned BY <1>2, ResolvingPcs
  <2>2. CASE store' = store BY <2>1, <2>2, PlacesKept, CondemnedStays
  <2>3. CASE store' # store
    <3>1. PICK b : Set(archive, b) /\ pc \in Fills BY <1>2, <2>3, ResolveWrites
    <3>2. archive \in 1..MaxArchives /\ archive > setting.old BY <3>1, KeptFacts DEF FillInv
    <3>3. \A n \in 1..MaxArchives : n # archive => store'[n] = store[n] BY <3>1, <3>2, MovesTo
    <3>4. setting.old \in 0..MaxArchives /\ MaxArchives \in Nat BY ScriptFacts DEF CommandInv
    <3>5. \A n \in 1..MaxArchives : n <= setting.old => n # archive BY <3>2, <3>4
    <3> QED BY <2>1, <3>3, <3>5 DEF CondemnedInv
  <2> QED BY <2>2, <2>3
<1>3. CASE Pruning
  <2>1. setting' = setting /\ condemned \subseteq condemned'
    BY <1>3 DEF Pruning, PruneSelect, CleanTombstone, PruneStops, PruneCleaned, PruneHides, PruneStages, PruneReclaims,
       PruneSettles, PruneEnds, ByPrune, OnlyPrune
  <2>2. CASE SamePlaces BY <2>1, <2>2, CondemnedStays
  <2>3. CASE ~SamePlaces
    <3>1. PICK n \in 1..MaxArchives : /\ \A m \in 1..MaxArchives : m # n => store'[m] = store[m]
                                      /\ store[n].place # "visible" \/ n \in condemned
      BY <1>3, <2>3, PruneTouches
    <3> QED BY <2>1, <3>1 DEF CondemnedInv
  <2> QED BY <2>2, <2>3
<1>4. CASE Reading
  <2>1. UNCHANGED <<setting, store, condemned>> BY <1>4, ReadingPcs
  <2> QED BY <2>1, PlacesKept, CondemnedStays
<1>5. ASSUME NEW k \in Agents, AgentSteps(k) PROVE CondemnedInv'
  <2>1. UNCHANGED condemned
    BY <1>5 DEF AgentSteps, AgentOpens, AgentReads, AgentFinishes, AgentInterrupted, AgentAcknowledged, AgentVerifies,
       AgentInspects, AgentRemoves, OnlyAgents, histories
  <2> QED BY <1>5, <2>1, AgentsLeaveControl, PlacesKept, CondemnedStays DEF Control, disk
<1>6. CASE Cancel \/ Crash \/ \E k \in Agents : Cut(k)
  BY <1>6, PlacesKept, CondemnedStays DEF Cancel, Crash, Cut, disk, histories
<1>7. CASE PowerLoss
  <2>1. UNCHANGED <<setting, condemned>> /\ \A n \in 1..MaxArchives : store'[n] \in AfterPowerLoss(store[n])
    BY <1>7 DEF PowerLoss, histories
  <2>2. \A n \in 1..MaxArchives : store[n] \in Archive BY DEF StoreInv
  <2>3. \A n \in 1..MaxArchives : store'[n].place \in {store[n].place, store[n].durable} /\ store'[n].durable = store'[n].place
    BY <2>1, <2>2, PowerFacts
  <2> QED BY <2>1, <2>3 DEF CondemnedInv
<1>8. CASE Rots
  <2>1. UNCHANGED <<setting, condemned>> BY <1>8 DEF Rots, histories
  <2> QED BY <1>8, <2>1, RotPlaces, CondemnedStays
<1>9. CASE Users BY <1>9, UsersLeaveControl, PlacesKept, CondemnedStays DEF Control, disk, histories
<1>10. CASE UNCHANGED vars BY <1>10, PlacesKept, CondemnedStays DEF vars, disk, histories
<1> QED BY <1>1, <1>2, <1>3, <1>4, <1>5, <1>6, <1>7, <1>8, <1>9, <1>10 DEF Next, Over, Client, Faults

-----------------------------------------------------------------------------
(* What a restore and a verification report.                               *)

Whole(d) == \E p \in Paths : d \in WholeCopies(p)
RestoreInv ==
  /\ pc \in {"restore", "compare"} => digest = NoCopy \/ Whole(digest)
  /\ pc = "compare" => digest # NoCopy
  /\ RestoreDelivers

\* A damaged entry differs from its record until it has been looked at, and then is
\* reported as something else than verified.
Damaged(e) == /\ e.archive \in 1..MaxArchives /\ e.path \in Paths
              /\ e.digest \in WholeCopies(e.path) /\ Stored(e) # e.digest
              /\ e \in chosen \/ \E r \in checked : r.entry = e /\ r.is # "verified"
VerifyInv ==
  /\ pc = "verify" => \A e \in spoilt : Damaged(e)
  /\ DamageIsReported

Delivered == {"restored", "verified"}

LEMMA WholeIsSound == ASSUME NEW c, Whole(c) PROVE {Rot, Short, Torn} \cap {c.files[i] : i \in DOMAIN c.files} = {}
<1>1. PICK p \in Paths : c \in WholeCopies(p) BY DEF Whole
<1>2. \A i \in DOMAIN c.files : c.files[i] \in 1..MaxVersion BY <1>1 DEF WholeCopies
<1>3. MaxVersion \in Nat BY CatalogAssumption
<1> QED BY <1>2, <1>3 DEF Rot, Short, Torn

\* Both are invariant under the steps that leave a report alone.
LEMMA ReadsStay ==
  ASSUME RestoreInv, VerifyInv, UNCHANGED <<setting, pc, command, outcome, digest, chosen, store, restored, checked, spoilt>>
  PROVE  RestoreInv' /\ VerifyInv'
<1>1. \A d : Whole(d)' <=> Whole(d) BY DEF Whole, WholeCopies
<1>2. \A e \in spoilt : Damaged(e) => Damaged(e)' BY DEF Damaged, WholeCopies, Stored
<1> QED BY <1>1, <1>2 DEF RestoreInv, VerifyInv, RestoreDelivers, DamageIsReported

LEMMA ReadsEnd ==
  ASSUME CommandInv, pc # "idle", NEW result, result \notin Delivered, Finish(result), command' = command
  PROVE  RestoreInv' /\ VerifyInv'
<1>1. outcome'[command'] = result /\ pc' = "idle" BY OutcomeSet
<1> QED BY <1>1 DEF RestoreInv, VerifyInv, RestoreDelivers, DamageIsReported, Delivered

LEMMA ReadsElsewhere ==
  ASSUME pc' \notin {"restore", "compare", "verify", "idle"} PROVE RestoreInv' /\ VerifyInv'
  BY DEF RestoreInv, VerifyInv, RestoreDelivers, DamageIsReported

LEMMA PruningEnds ==
  ASSUME CommandInv, Pruning PROVE pc' # "idle" \/ \E result : result \notin Delivered /\ Finish(result)
<1>1. pc # "idle" BY PruningPcs DEF PrunePcs
<1>2. UNCHANGED pc => pc' # "idle" BY <1>1
<1> USE DEF Delivered
<1>3. CASE PruneSelect BY <1>3 DEF PruneSelect, Goto
<1>4. CASE CleanTombstone BY <1>2, <1>4 DEF CleanTombstone, locals
<1>5. CASE PruneStops BY <1>5 DEF PruneStops
<1>6. CASE PruneCleaned BY <1>6 DEF PruneCleaned, Goto
<1>7. CASE PruneHides BY <1>7 DEF PruneHides, Goto
<1>8. CASE PruneStages BY <1>8 DEF PruneStages, Goto
<1>9. CASE PruneReclaims BY <1>9 DEF PruneReclaims, Goto
<1>10. CASE PruneSettles BY <1>10 DEF PruneSettles, Goto
<1>11. CASE PruneEnds BY <1>11 DEF PruneEnds
<1> QED BY <1>3, <1>4, <1>5, <1>6, <1>7, <1>8, <1>9, <1>10, <1>11 DEF Pruning

LEMMA ReadingReads ==
  ASSUME CommandInv, StoreInv, RestoreInv, VerifyInv, Reading PROVE RestoreInv' /\ VerifyInv'
<1>1. pc # "idle" /\ command' = command /\ setting' = setting /\ store' = store BY ReadingPcs DEF RestorePcs, VerifyPcs
<1>2. \A d : Whole(d)' <=> Whole(d) BY <1>1 DEF Whole, WholeCopies
<1>3. \A e \in ListForVerification(store) : e.digest = NoCopy \/ Whole(e.digest) BY EntryDigests DEF Whole
<1>4. CASE RestoreFinds
  <2>1. CASE pc' = "idle" 
    <3>1. Finish("refused") \/ Finish("failed") BY <1>4, <2>1 DEF RestoreFinds, Failing, Goto
    <3> QED BY <1>1, <3>1, ReadsEnd DEF Delivered
  <2>2. CASE pc' # "idle"
    <3>1. pc' = "restore" /\ \E e \in ListForVerification(store) : digest' = e.digest
      BY <1>4, <2>2 DEF RestoreFinds, Failing, Finish, Goto
    <3> QED BY <1>2, <1>3, <3>1 DEF RestoreInv, VerifyInv, RestoreDelivers, DamageIsReported
  <2> QED BY <2>1, <2>2
<1>5. CASE RestoreCopies
  <2>1. CASE Finish("failed") \/ Finish("copied") BY <1>1, <2>1, ReadsEnd DEF Delivered
  <2>2. CASE ~(Finish("failed") \/ Finish("copied"))
    <3>1. pc = "restore" /\ digest' = digest /\ (pc' = "restore" \/ (pc' = "compare" /\ digest # NoCopy))
      BY <1>5, <2>2 DEF RestoreCopies, Failing, Goto, Keeping, locals
    <3> QED BY <1>2, <3>1 DEF RestoreInv, VerifyInv, RestoreDelivers, DamageIsReported
  <2> QED BY <2>1, <2>2
<1>6. CASE RestoreCompares
  <2>1. CASE Finish("failed") BY <1>1, <2>1, ReadsEnd DEF Delivered
  <2>2. CASE ~Finish("failed")
    <3>1. pc = "compare" /\ Compared /\ Finish("restored") /\ restored' = restored
      BY <1>6, <2>2 DEF RestoreCompares, Failing
    <3>2. Whole(restored') BY <3>1 DEF RestoreInv, Compared, Digest
    <3>3. outcome'[command'] = "restored" /\ pc' = "idle" BY <1>1, <3>1, OutcomeSet
    <3>4. RestoreDelivers' BY <3>2, WholeIsSound DEF RestoreDelivers
    <3> QED BY <3>3, <3>4 DEF RestoreInv, VerifyInv, DamageIsReported
  <2> QED BY <2>1, <2>2
<1>7. CASE VerifyBegins
  <2>1. PICK S \in SUBSET ListForVerification(store) :
          chosen' = S /\ spoilt' = {e \in S : e.digest # NoCopy /\ Digest(Stored(e)) # e.digest}
    BY <1>7 DEF VerifyBegins
  <2>2. pc' = "verify" BY <1>7 DEF VerifyBegins, Goto
  <2>3. ASSUME NEW e \in spoilt' PROVE Damaged(e)'
    <3>1. e \in S /\ e.digest # NoCopy /\ Stored(e) # e.digest BY <2>1 DEF Digest
    <3>2. e.archive \in 1..MaxArchives /\ e.path \in Paths /\ e.digest \in WholeCopies(e.path) BY <3>1, EntryDigests
    <3> QED BY <1>1, <2>1, <3>1, <3>2 DEF Damaged, WholeCopies, Stored
  <2> QED BY <2>2, <2>3 DEF RestoreInv, VerifyInv, RestoreDelivers, DamageIsReported
<1>8. CASE VerifyNext
  <2>1. PICK e \in chosen : /\ checked' = checked \cup {[entry |-> e, is |-> VerifyStatus(store, e)]}
                            /\ chosen' = chosen \ {e}
    BY <1>8 DEF VerifyNext
  <2>2. pc = "verify" /\ pc' = "verify" /\ spoilt' = spoilt BY <1>8 DEF VerifyNext
  <2>3. ASSUME NEW f \in spoilt' PROVE Damaged(f)'
    <3>1. Damaged(f) BY <2>2 DEF VerifyInv
    <3>2. CASE f # e \/ f \notin chosen
      <4>1. f \in chosen => f \in chosen' BY <2>1, <3>2
      <4>2. checked \subseteq checked' BY <2>1
      <4> QED BY <1>1, <3>1, <4>1, <4>2 DEF Damaged, WholeCopies, Stored
    <3>3. CASE f = e
      <4>1. MaxVersion \in Nat BY CatalogAssumption
      <4>2. e.digest.kind # "none"
        <5>1. e.digest.kind = setting.kind[e.path] /\ e.path \in Paths BY <3>1, <3>3 DEF Damaged, WholeCopies
        <5> QED BY <5>1, ScriptFacts DEF CommandInv, Kinds
      <4>3. e.digest # NoCopy BY <4>2 DEF NoCopy
      <4>4. VerifyStatus(store, e) = "failed" BY <3>1, <3>3, <4>3 DEF Damaged, VerifyStatus, Digest, Stored
      <4> DEFINE r == [entry |-> e, is |-> VerifyStatus(store, e)]
      <4>5. r \in checked' /\ r.entry = e /\ r.is # "verified" BY <2>1, <4>4
      <4> HIDE DEF r
      <4> QED BY <1>1, <3>1, <3>3, <4>5 DEF Damaged, WholeCopies, Stored
    <3> QED BY <3>2, <3>3
  <2> QED BY <2>2, <2>3 DEF RestoreInv, VerifyInv, RestoreDelivers, DamageIsReported
<1>9. CASE VerifyEnds
  <2>1. PICK result \in {"interrupted", "verified", "damaged"} : Finish(result) BY <1>9 DEF VerifyEnds
  <2>2. CASE result # "verified" BY <1>1, <2>1, <2>2, ReadsEnd DEF Delivered
  <2>3. CASE result = "verified"
    <3>1. outcome'[command'] = "verified" /\ pc' = "idle" BY <1>1, <2>1, <2>3, OutcomeSet
    <3>2. \A r2 \in {"interrupted", "damaged"} : ~Finish(r2)
      <4>1. ASSUME NEW r2 \in {"interrupted", "damaged"}, Finish(r2) PROVE FALSE
        <5>1. outcome'[command'] = r2 BY <1>1, <4>1, OutcomeSet
        <5> QED BY <3>1, <5>1
      <4> QED BY <4>1
    <3>3. pc = "verify" /\ ~Cancelled /\ chosen = {} /\ (\A r \in checked : r.is = "verified") /\ spoilt' = spoilt
      BY <1>9, <3>2 DEF VerifyEnds
    <3>4. spoilt' = {} BY <3>3 DEF VerifyInv, Damaged
    <3> QED BY <3>1, <3>4 DEF RestoreInv, VerifyInv, RestoreDelivers, DamageIsReported
  <2> QED BY <2>2, <2>3
<1> QED BY <1>4, <1>5, <1>6, <1>7, <1>8, <1>9 DEF Reading

\* A damaged file is none of the versions that were recorded, so damage is never repaired.
LEMMA RotReads == ASSUME CommandInv, StoreInv, RestoreInv, VerifyInv, Rots PROVE RestoreInv' /\ VerifyInv'
<1>1. UNCHANGED <<setting, pc, command, outcome, digest, chosen, restored, checked, spoilt>>
  BY DEF Rots, locals, reports, histories
<1>2. PICK n \in 1..MaxArchives, p \in Paths :
        \E i \in 1..Len(store[n].copy[p].files), damage \in {Rot, Short} :
             Set(n, [store[n] EXCEPT !.copy[p].files[i] = damage])
  BY DEF Rots
<1>3. PICK i \in 1..Len(store[n].copy[p].files), damage \in {Rot, Short} :
        Set(n, [store[n] EXCEPT !.copy[p].files[i] = damage])
  BY <1>2
<1> DEFINE a == store[n]
           c == [a.copy[p] EXCEPT !.files[i] = damage]
           b == [a EXCEPT !.copy[p] = c]
<1>4. Set(n, b) BY <1>3
<1>5. a \in Archive /\ a.copy[p] \in Copies \cup {NoCopy} BY DEF StoreInv, Archive
<1>6. c \in Copies /\ i \in 1..Len(c.files) /\ c.files[i] = damage BY <1>5, FileReplaced, ByteFacts
<1> HIDE DEF c
<1>7. b.copy[p] = c /\ \A q \in Paths : q # p => b.copy[q] = a.copy[q]
  <2>1. b = [a EXCEPT !.copy[p] = c] OBVIOUS
  <2>2. p \in Paths /\ c \in Copies \cup {NoCopy} BY <1>6
  <2> HIDE DEF a, b
  <2> QED BY <1>5, <2>1, <2>2, CopyReplaced
<1> HIDE DEF b
<1>8. store'[n] = b /\ \A m \in 1..MaxArchives : m # n => store'[m] = store[m] BY <1>4, MovesTo
<1>9. \A d : Whole(d)' <=> Whole(d) BY <1>1 DEF Whole, WholeCopies
<1>10. \A q \in Paths : c \notin WholeCopies(q)
  <2>1. SUFFICES ASSUME NEW q \in Paths, c \in WholeCopies(q) PROVE FALSE OBVIOUS
  <2>2. DOMAIN c.files = 1..Len(c.files) BY <1>6, CopyFacts
  <2>3. c.files[i] \in 1..MaxVersion BY <1>6, <2>1, <2>2 DEF WholeCopies
  <2>4. MaxVersion \in Nat BY CatalogAssumption
  <2> QED BY <1>6, <2>3, <2>4 DEF Rot, Short
<1>11. ASSUME NEW e \in spoilt, Damaged(e) PROVE Damaged(e)'
  <2>1. e.archive \in 1..MaxArchives /\ e.path \in Paths /\ e.digest \in WholeCopies(e.path) /\ Stored(e) # e.digest
    BY <1>11 DEF Damaged
  <2>2. store'[e.archive].copy[e.path] # e.digest
    <3>1. CASE e.archive = n /\ e.path = p BY <1>7, <1>8, <1>10, <2>1, <3>1
    <3>2. CASE ~(e.archive = n /\ e.path = p) BY <1>7, <1>8, <2>1, <3>2 DEF Stored
    <3> QED BY <3>1, <3>2
  <2>3. Stored(e)' # e.digest BY <2>2 DEF Stored
  <2> QED BY <1>1, <1>11, <2>3 DEF Damaged, WholeCopies
<1> QED BY <1>1, <1>9, <1>11 DEF RestoreInv, VerifyInv, RestoreDelivers, DamageIsReported

LEMMA ReadsInit == Init => RestoreInv /\ VerifyInv
  BY DEF Init, RestoreInv, VerifyInv, RestoreDelivers, DamageIsReported

LEMMA ReadsStep ==
  ASSUME CommandInv, StoreInv, RestoreInv, VerifyInv, [Next]_vars PROVE RestoreInv' /\ VerifyInv'
<1>1. CASE Start BY <1>1, StartPcs, ReadsElsewhere
<1>0. CommandInv' BY CommandStep
<1>2. CASE Resolving
  <2>1. pc # "idle" /\ command' = command /\ setting' = setting /\ pc \in ResolvePcs BY <1>2, ResolvingPcs DEF ResolvePcs, Fills
  <2>2. CASE pc' # "idle"
    <3>1. pc' \notin {"restore", "compare", "verify"}
      <4>1. Kind \in Resolves /\ Kind' = Kind BY <2>1 DEF CommandInv, Kind
      <4> QED BY <1>0, <4>1 DEF CommandInv, RestorePcs, VerifyPcs, Resolves
    <3> QED BY <2>2, <3>1, ReadsElsewhere
  <2> QED BY <1>2, <2>1, <2>2, ResolvingEnds, ReadsEnd DEF Delivered
<1>3. CASE Pruning
  <2>1. pc # "idle" /\ command' = command /\ setting' = setting /\ pc \in PrunePcs BY <1>3, PruningPcs DEF PrunePcs
  <2>2. CASE pc' # "idle"
    <3>1. pc' \notin {"restore", "compare", "verify"}
      <4>1. Kind = "prune" /\ Kind' = Kind BY <2>1 DEF CommandInv, Kind
      <4> QED BY <1>0, <4>1 DEF CommandInv, RestorePcs, VerifyPcs
    <3> QED BY <2>2, <3>1, ReadsElsewhere
  <2> QED BY <1>3, <2>1, <2>2, PruningEnds, ReadsEnd
<1>4. CASE Reading BY <1>4, ReadingReads
<1>5. ASSUME NEW k \in Agents, AgentSteps(k) PROVE RestoreInv' /\ VerifyInv'
  <2>1. UNCHANGED spoilt
    BY <1>5 DEF AgentSteps, AgentOpens, AgentReads, AgentFinishes, AgentInterrupted, AgentAcknowledged, AgentVerifies,
       AgentInspects, AgentRemoves, OnlyAgents, histories
  <2> QED BY <1>5, <2>1, AgentsLeaveControl, ReadsStay DEF Control, disk, locals, reports
<1>6. CASE Cancel \/ \E k \in Agents : Cut(k)
  BY <1>6, ReadsStay DEF Cancel, Cut, disk, locals, reports, histories
<1>7. CASE Crash BY <1>7, ReadsEnd DEF Crash, Delivered
<1>8. CASE PowerLoss
  <2>1. CASE pc # "idle" BY <1>8, <2>1, ReadsEnd DEF PowerLoss, Delivered
  <2>2. CASE pc = "idle"
    <3>1. /\ outcome' = [k \in Agents |-> IF outcome[k] \in {"complete", "incomplete"} THEN "outdated" ELSE outcome[k]]
          /\ UNCHANGED <<pc, command, restored, spoilt>>
      BY <1>8, <2>2 DEF PowerLoss, locals, histories
    <3>2. command > 0 => command \in Agents
      <4>1. command \in Nat /\ command <= Len(setting.script) BY ScriptPosition
      <4>2. Len(setting.script) \in 1..MaxCommands /\ MaxCommands \in Nat BY ScriptFacts DEF CommandInv
      <4> QED BY <4>1, <4>2 DEF Agents
    <3>3. command > 0 /\ outcome'[command'] \in Delivered => outcome'[command'] = outcome[command]
      BY <3>1, <3>2 DEF Delivered
    <3> QED BY <2>2, <3>1, <3>3 DEF RestoreInv, VerifyInv, RestoreDelivers, DamageIsReported, Delivered
  <2> QED BY <2>1, <2>2
<1>9. CASE Rots BY <1>9, RotReads
<1>10. CASE Users BY <1>10, UsersLeaveControl, ReadsStay DEF Control, disk, locals, reports, histories
<1>11. CASE UNCHANGED vars BY <1>11, ReadsStay DEF vars, disk, locals, reports, histories
<1> QED BY <1>1, <1>2, <1>3, <1>4, <1>5, <1>6, <1>7, <1>8, <1>9, <1>10, <1>11 DEF Next, Over, Client, Faults

\* Every command reports what is so, whatever faults strike and whatever runs beside it:
\* what a prune reports of an archive is the case and no other archive has gone, a restore
\* that succeeds delivered whole files, and a verification that succeeds overlooked no damage
\* that was there when it began (cli/recovery.go).
THEOREM ReportsAreTrue == Spec => []ReportsTrue
<1> DEFINE Inv == /\ CommandInv /\ EndsInv /\ LocalsInv /\ AgentsInv /\ StoreInv /\ FillInv /\ PruneInv
                  /\ ReportInv /\ CondemnedInv /\ RestoreInv /\ VerifyInv
<1>1. Init => Inv
  BY CommandInit, EndsInit, LocalsInit, AgentsInit, StoreInit, FillInit, PruneInit, ReportInit, CondemnedInit, ReadsInit
<1>2. Inv /\ [Next]_vars => Inv'
  <2>1. SUFFICES ASSUME Inv, [Next]_vars PROVE Inv' OBVIOUS
  <2>2. CommandInv' /\ EndsInv' /\ LocalsInv' BY <2>1, CommandStep, EndsStep, LocalsStep
  <2>3. AgentsInv' BY <2>1, AgentsStep
  <2>4. StoreInv' BY <2>1, StoreStep
  <2>5. FillInv' BY <2>1, <2>3, FillStep
  <2>6. PruneInv' BY <2>1, PruneStep
  <2>7. ReportInv' BY <2>1, ReportStep
  <2>8. CondemnedInv' BY <2>1, CondemnedStep
  <2>9. RestoreInv' /\ VerifyInv' BY <2>1, ReadsStep
  <2> QED BY <2>2, <2>3, <2>4, <2>5, <2>6, <2>7, <2>8, <2>9
<1>3. Inv => ReportsTrue
  <2>1. SUFFICES ASSUME Inv PROVE PruneReportHonest BY DEF ReportsTrue, RestoreInv, VerifyInv
  <2>2. setting.old \in 0..MaxArchives /\ MaxArchives \in Nat BY <2>1, ScriptFacts DEF CommandInv
  <2>3. \A n \in 1..setting.old : n \in 1..MaxArchives /\ n <= setting.old BY <2>2
  <2>4. \A n \in 1..setting.old : store[n].place # "visible" => n \in condemned BY <2>1, <2>3 DEF CondemnedInv
  <2> QED BY <2>1, <2>4 DEF PruneReportHonest, ReportInv, Maintained
<1> QED BY <1>1, <1>2, <1>3, PTL DEF Spec

-----------------------------------------------------------------------------
(* What a restore delivers is typed: a recorded object, one file or an      *)
(* empty directory.                                                        *)

Readable(e) == /\ e.digest # NoCopy => Stored(e) # NoCopy
               /\ e.digest = NoCopy => e.leaf \in 0..Len(Stored(e).files)
TargetInv ==
  /\ restored \in Copies \cup {NoCopy} /\ condemned \subseteq 1..MaxArchives
  /\ pc \in {"restore", "compare"} => \E e \in Entry : chosen = {e} /\ Readable(e)

LEMMA TargetStays ==
  ASSUME TargetInv, UNCHANGED <<restored, condemned, pc, chosen, store>> PROVE TargetInv'
<1>1. \A e \in Entry : Readable(e) => Readable(e)' BY DEF Readable, Stored
<1> QED BY <1>1 DEF TargetInv

LEMMA TargetElsewhere ==
  ASSUME pc' \notin {"restore", "compare"}, restored' \in Copies \cup {NoCopy}, condemned' \subseteq 1..MaxArchives
  PROVE  TargetInv'
  BY DEF TargetInv

LEMMA WantedTyped ==
  ASSUME StoreInv, NEW e \in Entry, Readable(e)
  PROVE  Wanted(e) \in Copies /\ Wanted(e).files \in Seq(Bytes) /\ Len(Wanted(e).files) \in 0..Files
<1>1. e.archive \in 1..MaxArchives /\ e.path \in Paths /\ e.leaf \in 0..Files BY DEF Entry
<1>2. Stored(e) \in Copies \cup {NoCopy} BY <1>1 DEF StoreInv, Archive, Stored
<1>3. Stored(e).files \in Seq(Bytes) /\ Len(Stored(e).files) \in 0..Files BY <1>2, CopyFacts
<1>4. CASE e.digest # NoCopy BY <1>2, <1>3, <1>4 DEF Readable, Wanted
<1>5. CASE e.digest = NoCopy /\ e.leaf > 0
  <2>1. e.leaf \in 1..Len(Stored(e).files) BY <1>1, <1>5 DEF Readable, Files
  <2>2. Stored(e).files[e.leaf] \in Bytes BY <1>3, <2>1, ElementsTyped
  <2> DEFINE f == <<Stored(e).files[e.leaf]>>
  <2>3. f \in Seq(Bytes) /\ Len(f) = 1 BY <2>2
  <2>4. Wanted(e) = [kind |-> "regular", files |-> f] BY <1>5 DEF Wanted
  <2> HIDE DEF f
  <2>5. Len(f) <= Files /\ Len(f) \in 0..Files BY <2>3 DEF Files
  <2>6. [kind |-> "regular", files |-> f] \in Copies BY <2>3, <2>5, SequenceCopy DEF Kinds
  <2>7. [kind |-> "regular", files |-> f].files = f OBVIOUS
  <2>8. Wanted(e).files = f BY <2>4, <2>7
  <2> QED BY <2>3, <2>4, <2>5, <2>6, <2>8
<1>6. CASE e.digest = NoCopy /\ ~(e.leaf > 0)
  <2>1. <<>> \in Seq(Bytes) /\ Len(<<>>) <= Files /\ Len(<<>>) \in 0..Files BY DEF Files
  <2>2. [kind |-> "directory", files |-> <<>>] \in Copies BY <2>1, SequenceCopy DEF Kinds
  <2>3. Wanted(e) = [kind |-> "directory", files |-> <<>>] BY <1>6 DEF Wanted
  <2> QED BY <2>1, <2>2, <2>3
<1> QED BY <1>4, <1>5, <1>6

LEMMA CopiesTarget ==
  ASSUME CommandInv, StoreInv, TargetInv, RestoreCopies PROVE TargetInv'
<1>1. pc = "restore" /\ UNCHANGED <<condemned, store>> BY DEF RestoreCopies, ByReader, disk
<1>2. PICK e \in Entry : chosen = {e} /\ Readable(e) BY <1>1 DEF TargetInv
<1>3. TheEntry = e BY <1>2 DEF TheEntry
<1> DEFINE wanted == Wanted(e)
           n == Len(restored.files)
<1>4. wanted \in Copies /\ wanted.files \in Seq(Bytes) /\ Len(wanted.files) \in 0..Files BY <1>2, WantedTyped
<1>5. restored \in Copies \cup {NoCopy} /\ condemned' \subseteq 1..MaxArchives BY <1>1 DEF TargetInv
<1>6. restored.files \in Seq(Bytes) /\ n \in 0..Files BY <1>5, CopyFacts
<1>7. wanted.kind \in Kinds BY <1>4 DEF Copies
<1>8. CASE n < Len(wanted.files)
  <2>1. \/ restored' = WithFile(restored, wanted.kind, wanted.files[n + 1]) /\ UNCHANGED locals
        \/ restored' = NoCopy /\ Finish("failed")
    BY <1>3, <1>8 DEF RestoreCopies, Failing
  <2>2. CASE restored' = WithFile(restored, wanted.kind, wanted.files[n + 1]) /\ UNCHANGED locals
    <3>1. n + 1 \in 1..Len(wanted.files) /\ n < Files BY <1>4, <1>6, <1>8 DEF Files
    <3>2. wanted.files[n + 1] \in Bytes
      <4> DEFINE f == wanted.files
      <4>1. f \in Seq(Bytes) /\ n + 1 \in 1..Len(f) BY <1>4, <3>1
      <4> HIDE DEF f
      <4>2. f[n + 1] \in Bytes BY <4>1, ElementsTyped
      <4> QED BY <4>2 DEF f
    <3> DEFINE v == wanted.files[n + 1]
               kind == wanted.kind
    <3>3. v \in Bytes /\ kind \in Kinds /\ restored' = WithFile(restored, kind, v) BY <1>7, <2>2, <3>2
    <3> HIDE DEF v, kind
    <3>4. restored' \in Copies BY <1>5, <3>1, <3>3, FileAppended
    <3>5. Readable(e)' /\ chosen' = {e} BY <1>1, <1>2, <2>2 DEF Readable, Stored, locals
    <3> QED BY <1>5, <3>4, <3>5 DEF TargetInv
  <2>3. CASE restored' = NoCopy /\ Finish("failed")
    BY <1>5, <2>3, TargetElsewhere DEF Finish
  <2> QED BY <2>1, <2>2, <2>3
<1>9. CASE ~(n < Len(wanted.files))
  <2>1. /\ restored' = [kind |-> wanted.kind, files |-> restored.files]
        /\ Finish("copied") \/ Keeping
    BY <1>3, <1>9 DEF RestoreCopies
  <2>0. \A m \in 0..Files : m <= Files BY DEF Files
  <2>2. Len(restored.files) <= Files BY <1>6, <2>0
  <2>3. restored' \in Copies BY <1>6, <1>7, <2>1, <2>2, SequenceCopy
  <2>4. CASE Finish("copied") BY <1>5, <2>3, <2>4, TargetElsewhere DEF Finish
  <2>5. CASE Keeping
    <3>1. Readable(e)' /\ chosen' = {e} BY <1>1, <1>2, <2>5 DEF Readable, Stored, Keeping
    <3> QED BY <1>5, <2>3, <3>1 DEF TargetInv
  <2> QED BY <2>1, <2>4, <2>5
<1> QED BY <1>8, <1>9

LEMMA FindsTarget == ASSUME CommandInv, StoreInv, TargetInv, RestoreFinds PROVE TargetInv'
<1>1. UNCHANGED <<restored, condemned, store>> BY DEF RestoreFinds, ByReader, disk
<1>2. CASE pc' = "idle" BY <1>1, <1>2, TargetElsewhere DEF TargetInv
<1>3. CASE pc' # "idle"
  <2>1. PICK e \in ListForVerification(store) : (e.digest # NoCopy => Digest(Stored(e)) = e.digest) /\ chosen' = {e}
    BY <1>3 DEF RestoreFinds, Failing, Finish
  <2>2. e \in Entry /\ (e.digest = NoCopy => e.leaf \in 0..Len(Stored(e).files)) BY EntryDigests
  <2>3. Readable(e) BY <2>1, <2>2 DEF Readable, Digest
  <2>4. Readable(e)' BY <1>1, <2>3 DEF Readable, Stored
  <2> QED BY <1>1, <2>1, <2>2, <2>4 DEF TargetInv
<1> QED BY <1>2, <1>3

\* One file of one copy is damaged.
LEMMA RotFacts ==
  ASSUME StoreInv, Rots
  PROVE  \E n \in 1..MaxArchives, p \in Paths : \E i \in 1..Len(store[n].copy[p].files), damage \in {Rot, Short} :
           /\ store[n].place = "visible" /\ p \in store[n].synced
           /\ store'[n].copy[p] = [store[n].copy[p] EXCEPT !.files[i] = damage]
           /\ store[n].copy[p] \in Copies \cup {NoCopy} /\ store'[n].copy[p] \in Copies
           /\ Len(store'[n].copy[p].files) = Len(store[n].copy[p].files)
           /\ \A q \in Paths : q # p => store'[n].copy[q] = store[n].copy[q]
           /\ store'[n].entry = store[n].entry /\ store'[n].synced = store[n].synced
           /\ \A m \in 1..MaxArchives : m # n => store'[m] = store[m]
<1>1. PICK n \in 1..MaxArchives, p \in Paths :
        /\ store[n].place = "visible" /\ p \in store[n].synced
        /\ \E i \in 1..Len(store[n].copy[p].files), damage \in {Rot, Short} :
             Set(n, [store[n] EXCEPT !.copy[p].files[i] = damage])
  BY DEF Rots
<1>2. PICK i \in 1..Len(store[n].copy[p].files), damage \in {Rot, Short} :
        Set(n, [store[n] EXCEPT !.copy[p].files[i] = damage])
  BY <1>1
<1> DEFINE a == store[n]
           c == [a.copy[p] EXCEPT !.files[i] = damage]
           b == [a EXCEPT !.copy[p] = c]
<1>3. Set(n, b) BY <1>2
<1>4. a \in Archive /\ a.copy[p] \in Copies \cup {NoCopy} BY DEF StoreInv, Archive
<1>5. c \in Copies /\ Len(c.files) = Len(a.copy[p].files) BY <1>4, FileReplaced, ByteFacts
<1>6. c = [a.copy[p] EXCEPT !.files[i] = damage] OBVIOUS
<1> HIDE DEF c
<1>7. b.copy[p] = c /\ b.entry = a.entry /\ b.synced = a.synced /\ \A q \in Paths : q # p => b.copy[q] = a.copy[q]
  <2>1. b = [a EXCEPT !.copy[p] = c] OBVIOUS
  <2>2. p \in Paths /\ c \in Copies \cup {NoCopy} BY <1>5
  <2> HIDE DEF a, b
  <2> QED BY <1>4, <2>1, <2>2, CopyReplaced
<1> HIDE DEF b
<1>8. store'[n] = b /\ \A m \in 1..MaxArchives : m # n => store'[m] = store[m] BY <1>3, MovesTo
<1>9. store'[n].copy[p] = c /\ store'[n].entry = a.entry /\ store'[n].synced = a.synced
      /\ \A q \in Paths : q # p => store'[n].copy[q] = a.copy[q]
  BY <1>7, <1>8
<1>10. a.place = "visible" /\ p \in a.synced BY <1>1
<1>11. \A m \in 1..MaxArchives : m # n => store'[m] = store[m] BY <1>8
<1> WITNESS n \in 1..MaxArchives, p \in Paths
<1> WITNESS i \in 1..Len(store[n].copy[p].files), damage \in {Rot, Short}
<1> QED BY <1>4, <1>5, <1>6, <1>9, <1>10, <1>11

LEMMA RotsTarget == ASSUME StoreInv, TargetInv, Rots PROVE TargetInv'
<1>1. UNCHANGED <<restored, condemned, pc, chosen>> BY DEF Rots, locals, reports, histories
<1>2. PICK n \in 1..MaxArchives, p \in Paths :
        /\ store'[n].copy[p] \in Copies /\ Len(store'[n].copy[p].files) = Len(store[n].copy[p].files)
        /\ \A q \in Paths : q # p => store'[n].copy[q] = store[n].copy[q]
        /\ \A m \in 1..MaxArchives : m # n => store'[m] = store[m]
  BY RotFacts
<1>3. ASSUME NEW e \in Entry, Readable(e) PROVE Readable(e)'
  <2>1. e.archive \in 1..MaxArchives /\ e.path \in Paths BY DEF Entry
  <2>2. NoCopy \notin Copies BY DEF NoCopy, Copies, Kinds
  <2>3. CASE e.archive = n /\ e.path = p
    <3>1. Stored(e)' # NoCopy /\ Len(Stored(e)'.files) = Len(Stored(e).files) BY <1>2, <2>2, <2>3 DEF Stored
    <3> QED BY <1>3, <3>1 DEF Readable
  <2>4. CASE ~(e.archive = n /\ e.path = p)
    <3>1. Stored(e)' = Stored(e) BY <1>2, <2>1, <2>4 DEF Stored
    <3> QED BY <1>3, <3>1 DEF Readable
  <2> QED BY <2>3, <2>4
<1> QED BY <1>1, <1>3 DEF TargetInv

LEMMA TargetInit == Init => TargetInv
  BY DEF Init, TargetInv

LEMMA TargetStep == ASSUME CommandInv, LocalsInv, StoreInv, TargetInv, [Next]_vars PROVE TargetInv'
<1>0. CommandInv' BY CommandStep
<1>t. restored \in Copies \cup {NoCopy} /\ condemned \subseteq 1..MaxArchives BY DEF TargetInv
<1>1. CASE Start BY <1>1, <1>t, StartPcs, TargetElsewhere DEF Start
<1>2. CASE Resolving
  <2>1. pc \in ResolvePcs /\ UNCHANGED <<setting, command, restored, condemned>> BY <1>2, ResolvingPcs
  <2>2. pc' \notin {"restore", "compare"}
    <3>1. Kind \in Resolves /\ Kind' = Kind BY <2>1 DEF CommandInv, Kind
    <3> QED BY <1>0, <3>1 DEF CommandInv, RestorePcs, Resolves
  <2> QED BY <1>t, <2>1, <2>2, TargetElsewhere
<1>3. CASE Pruning
  <2>1. pc \in PrunePcs /\ UNCHANGED <<setting, command, restored>> BY <1>3, PruningPcs
  <2>2. pc' \notin {"restore", "compare"}
    <3>1. Kind = "prune" /\ Kind' = Kind BY <2>1 DEF CommandInv, Kind
    <3> QED BY <1>0, <3>1 DEF CommandInv, RestorePcs
  <2>3. condemned' \subseteq 1..MaxArchives
    <3>1. condemned' = condemned \/ condemned' = condemned \cup SelectForPrune(store, setting.keep)
      BY <1>3 DEF Pruning, PruneSelect, CleanTombstone, PruneStops, PruneCleaned, PruneHides, PruneStages, PruneReclaims,
         PruneSettles, PruneEnds
    <3> QED BY <1>t, <3>1, Selected
  <2> QED BY <1>t, <2>1, <2>2, <2>3, TargetElsewhere
<1>4. CASE RestoreFinds BY <1>4, FindsTarget
<1>5. CASE RestoreCopies BY <1>5, CopiesTarget
<1>6. CASE RestoreCompares
  <2>1. pc' = "idle" /\ restored' \in Copies \cup {NoCopy} /\ condemned' = condemned
    BY <1>6, <1>t DEF RestoreCompares, Failing, Finish, ByReader
  <2> QED BY <1>t, <2>1, TargetElsewhere
<1>7. CASE VerifyBegins \/ VerifyNext \/ VerifyEnds
  <2>1. pc' \in {"verify", "idle"} /\ UNCHANGED <<restored, condemned>>
    BY <1>7 DEF VerifyBegins, VerifyNext, VerifyEnds, Goto, Finish, ByReader
  <2> QED BY <1>t, <2>1, TargetElsewhere
<1>8. ASSUME NEW k \in Agents, AgentSteps(k) PROVE TargetInv'
  <2>1. UNCHANGED condemned
    BY <1>8 DEF AgentSteps, AgentOpens, AgentReads, AgentFinishes, AgentInterrupted, AgentAcknowledged, AgentVerifies,
       AgentInspects, AgentRemoves, OnlyAgents, histories
  <2> QED BY <1>8, <2>1, AgentsLeaveControl, TargetStays DEF Control, disk, locals, reports
<1>9. CASE Cancel \/ \E k \in Agents : Cut(k)
  BY <1>9, TargetStays DEF Cancel, Cut, disk, locals, reports, histories
<1>10. CASE Crash BY <1>10, <1>t, TargetElsewhere DEF Crash, Finish, histories
<1>11. CASE PowerLoss
  <2>1. CASE pc # "idle" BY <1>11, <1>t, <2>1, TargetElsewhere DEF PowerLoss, Finish, histories
  <2>2. CASE pc = "idle" BY <1>11, <1>t, <2>2, TargetElsewhere DEF PowerLoss, locals, histories
  <2> QED BY <2>1, <2>2
<1>12. CASE Rots BY <1>12, RotsTarget
<1>13. CASE Users BY <1>13, UsersLeaveControl, TargetStays DEF Control, disk, locals, reports, histories
<1>14. CASE UNCHANGED vars BY <1>14, TargetStays DEF vars, disk, locals, reports, histories
<1> QED BY <1>1, <1>2, <1>3, <1>4, <1>5, <1>6, <1>7, <1>8, <1>9, <1>10, <1>11, <1>12, <1>13, <1>14
     DEF Next, Over, Client, Faults, Reading

\* Every variable keeps its shape: an instance with room for its edits and conflicts never
\* runs out of versions or archives.
LEMMA TypesHold ==
  ASSUME CommandInv, EndsInv, LocalsInv, AgentsInv, StoreInv, FillInv, TargetInv PROVE TypeOK
<1>1. setting.conflicts \subseteq Paths /\ setting.edits \in 0..MaxVersion
  <2>1. setting \in Setting BY RecoveryAssumption DEF CommandInv
  <2> QED BY <2>1 DEF Setting
<1>2. conflicted \subseteq Paths /\ clock \in 3..MaxVersion BY <1>1, ClockBounded DEF EndsInv, CommandInv
<1>3. edits \in 0..MaxVersion
  <2>1. MaxVersion \in Nat BY CatalogAssumption
  <2>2. edits \in 0..setting.edits BY DEF EndsInv
  <2> QED BY <1>1, <2>1, <2>2
<1>4. command \in 0..MaxCommands
  <2>1. Len(setting.script) \in 1..MaxCommands /\ MaxCommands \in Nat BY ScriptFacts DEF CommandInv
  <2>2. command \in Nat /\ command <= Len(setting.script) BY ScriptPosition
  <2> QED BY <2>1, <2>2
<1>5. used \in 0..MaxArchives BY UsedBounded
<1>6. \A k \in Agents : agent[k].phase \in Phases /\ outcome[k] \in Outcomes
  BY DEF AgentsInv, AgentStates, CommandInv
<1> QED BY <1>2, <1>3, <1>4, <1>5, <1>6
     DEF TypeOK, EndsInv, StoreInv, LocalsInv, FillInv, DigestInv, TargetInv, CommandInv

-----------------------------------------------------------------------------
(* The catalogue is honest.                                                *)

\* Every entry of the manifest has the copy its digest was taken of, and durably so.
SoundArchive(a) == \A p \in Paths : a.entry[p] # NoCopy => p \in a.synced /\ Same(a.copy[p], a.entry[p])

\* Archives that a listing shows, or may show again: after a renaming is undone, or a power
\* loss has taken it back.
Exposed(n) == \/ store[n].place = "visible"
              \/ pc = "stage" /\ n = Victim
              \/ "power" \in setting.faults /\ store[n].durable = "visible"
SoundInv == \A n \in 1..MaxArchives : Exposed(n) => SoundArchive(store[n]) \/ n \in halved

\* No archive that is being filled is one that a prune has begun to remove.
HalvedInv == halved \subseteq 1..used /\ (pc \in Fills => archive \notin halved)

LEMMA UnusedIsSound == SoundArchive(Unused)
  BY DEF SoundArchive, Unused

LEMMA DamageIsSame ==
  ASSUME NEW c \in Copies, NEW b \in Copies, NEW i \in 1..Len(c.files), NEW damage \in {Rot, Short},
         b = [c EXCEPT !.files[i] = damage], NEW d, Same(c, d)
  PROVE  Same(b, d)
<1>1. /\ b.kind = c.kind /\ Len(b.files) = Len(c.files) /\ b.files[i] = damage
      /\ \A j \in 1..Len(c.files) : j # i => b.files[j] = c.files[j]
  BY FileReplaced, ByteFacts
<1>2. DOMAIN b.files = 1..Len(b.files) /\ DOMAIN c.files = 1..Len(c.files) BY CopyFacts
<1>3. ASSUME NEW j \in DOMAIN b.files PROVE b.files[j] \in {d.files[j], Rot, Short}
  <2>1. CASE j = i BY <1>1, <2>1
  <2>2. CASE j # i BY <1>1, <1>2, <2>2 DEF Same
  <2> QED BY <2>1, <2>2
<1> QED BY <1>1, <1>3 DEF Same

LEMMA SoundAfterPower ==
  ASSUME StoreInv, setting \in Settings, NEW n \in 1..MaxArchives, SoundArchive(store[n]),
         NEW b \in AfterPowerLoss(store[n])
  PROVE  SoundArchive(b)
<1> DEFINE a == store[n]
<1>1. a \in Archive BY DEF StoreInv
<1>2. /\ \A p \in Paths : (p \in a.synced => b.copy[p] = a.copy[p]) /\ b.entry[p] \in {a.entry[p], NoCopy}
      /\ b.synced = {p \in Paths : b.copy[p] # NoCopy}
  BY <1>1, PowerFacts
<1>3. ASSUME NEW p \in Paths, b.entry[p] # NoCopy PROVE p \in b.synced /\ Same(b.copy[p], b.entry[p])
  <2>1. b.entry[p] = a.entry[p] /\ a.entry[p] # NoCopy BY <1>2, <1>3
  <2>2. p \in a.synced /\ Same(a.copy[p], a.entry[p]) BY <2>1 DEF SoundArchive
  <2>3. b.copy[p] = a.copy[p] BY <1>2, <2>2
  <2>4. a.entry[p] \in WholeCopies(p) BY <2>1 DEF StoreInv
  <2>5. b.copy[p].kind \in Kinds
    <3>1. a.entry[p].kind \in Kinds BY <2>4, WholeFacts
    <3> QED BY <2>2, <2>3, <3>1 DEF Same
  <2>6. b.copy[p] # NoCopy BY <2>5 DEF NoCopy, Kinds
  <2> QED BY <1>2, <2>1, <2>2, <2>3, <2>6
<1> QED BY <1>3 DEF SoundArchive

\* What a step of a resolution writes is sound if what it writes to is.
LEMMA WroteIsSound ==
  ASSUME CommandInv, LocalsInv, StoreInv, FillInv, SoundInv, HalvedInv, pc \in Fills, NEW b, Wrote(b)
  PROVE  SoundArchive(b)
<1>1. SoundArchive(Kept)
  <2>1. archive \in 1..MaxArchives /\ Kept = store[archive] /\ (Kept = Unused \/ Kept.place = "visible")
    BY KeptFacts DEF FillInv
  <2>2. Kept.place = "visible" => Exposed(archive) BY <2>1 DEF Exposed
  <2> QED BY <2>1, <2>2, UnusedIsSound DEF SoundInv, HalvedInv
<1>2. CASE Refilled(b)
  <2>1. SUFFICES ASSUME NEW p \in Paths, b.entry[p] # NoCopy PROVE p \in b.synced /\ Same(b.copy[p], b.entry[p])
    BY DEF SoundArchive
  <2>2. p \in Kept.synced /\ Same(Kept.copy[p], Kept.entry[p]) BY <1>1, <1>2, <2>1 DEF SoundArchive, Refilled
  <2>3. b.copy[p] = Kept.copy[p] BY <1>2, <2>2 DEF Refilled
  <2> QED BY <1>2, <2>2, <2>3 DEF Refilled
<1>3. CASE MadeDurable(b) BY <1>1, <1>3 DEF SoundArchive, MadeDurable
<1>4. CASE EntryMade(b)
  <2>1. SUFFICES ASSUME NEW p \in Paths, b.entry[p] # NoCopy PROVE p \in b.synced /\ Same(b.copy[p], b.entry[p])
    BY DEF SoundArchive
  <2>2. CASE p = Path
    <3>1. Path \in Kept.synced /\ Same(Kept.copy[Path], digest) BY <1>4 DEF EntryMade, FillInv, DigestInv, Copied
    <3> QED BY <1>4, <2>2, <3>1 DEF EntryMade
  <2>3. CASE p # Path
    <3>1. b.entry[p] = Kept.entry[p] BY <1>4, <2>3 DEF EntryMade
    <3> QED BY <1>1, <1>4, <2>1, <3>1 DEF EntryMade, SoundArchive
  <2> QED BY <2>2, <2>3
<1>5. CASE EntryFiled(b) BY <1>1, <1>5 DEF SoundArchive, EntryFiled
<1> QED BY <1>2, <1>3, <1>4, <1>5 DEF Wrote

\* No step but a renaming exposes an archive.
LEMMA SoundStays ==
  ASSUME SoundInv, UNCHANGED <<setting, store>>, halved \subseteq halved', pc' = "stage" => pc = "stage" /\ Victim' = Victim
  PROVE  SoundInv'
<1>1. \A n \in 1..MaxArchives : Exposed(n)' => Exposed(n) BY DEF Exposed
<1> QED BY <1>1 DEF SoundInv, SoundArchive

LEMMA SoundMoves ==
  ASSUME StoreInv, SoundInv, setting' = setting, halved \subseteq halved', NEW n \in 1..MaxArchives, NEW b, Set(n, b),
         pc' = "stage" => Victim' = n, Exposed(n)' => SoundArchive(b) \/ n \in halved'
  PROVE  SoundInv'
<1>1. store'[n] = b /\ \A m \in 1..MaxArchives : m # n => store'[m] = store[m] BY MovesTo
<1>2. ASSUME NEW m \in 1..MaxArchives, m # n, Exposed(m)' PROVE SoundArchive(store'[m]) \/ m \in halved'
  <2>1. Exposed(m) BY <1>1, <1>2 DEF Exposed
  <2> QED BY <1>1, <1>2, <2>1 DEF SoundInv
<1>3. \A m \in 1..MaxArchives : SoundArchive(store'[m]) <=> SoundArchive(store[m])' BY DEF SoundArchive
<1> QED BY <1>1, <1>2, <1>3 DEF SoundInv

LEMMA SoundInit == Init => SoundInv /\ HalvedInv
<1>1. SUFFICES ASSUME Init PROVE SoundInv /\ HalvedInv OBVIOUS
<1>2. setting \in Settings /\ pc = "idle" BY <1>1 DEF Init
<1>3. \A n \in 1..MaxArchives : store[n] = OldArchive(setting) \/ store[n] = Unused BY <1>1 DEF Init
<1>4. SoundArchive(OldArchive(setting)) /\ OldArchive(setting).place = "visible"
  <2>1. /\ OldArchive(setting).place = "visible"
        /\ \A p \in Paths : /\ OldArchive(setting).entry[p] = OldArchive(setting).copy[p]
                            /\ OldArchive(setting).entry[p] # NoCopy => p \in OldArchive(setting).synced
    BY <1>2, OldFacts
  <2> QED BY <2>1 DEF SoundArchive, Same
<1>5. HalvedInv BY <1>1 DEF Init, HalvedInv, Fills
<1> QED BY <1>3, <1>4, <1>5, UnusedIsSound DEF SoundInv

LEMMA PruningSound ==
  ASSUME CommandInv, LocalsInv, StoreInv, PruneInv, SoundInv, halved \subseteq halved', Pruning
  PROVE  SoundInv'
<1>v. PICK v : v = Victim OBVIOUS
<1> DEFINE a == store[v]
<1>0. setting' = setting BY PruningPcs
<1>1. CASE PruneSelect \/ PruneStops \/ PruneCleaned \/ PruneEnds
  <2>1. store' = store /\ pc' # "stage"
    BY <1>1 DEF PruneSelect, PruneStops, PruneCleaned, PruneEnds, Goto, Finish
  <2> QED BY <1>0, <2>1, SoundStays
<1>2. CASE CleanTombstone
  <2>1. pc = "clean" /\ pc' # "stage" BY <1>2 DEF CleanTombstone, Finish, locals
  <2>2. CASE store' = store BY <1>0, <2>1, <2>2, SoundStays
  <2>3. CASE store' # store
    <3>1. PICK n \in Stale : /\ \/ \E b \in PartlyRemoved(store[n]) : Set(n, b)
                                \/ Set(n, [store[n] EXCEPT !.place = "absent", !.durable = "absent"])
                             /\ halved' = halved \cup {m \in {n} : store[m].durable = "visible"}
      BY <1>2, <2>3 DEF CleanTombstone
    <3>2. n \in 1..MaxArchives /\ store[n].place = "tombstone" /\ store[n] \in Archive
      BY DEF Stale, Tombstones, StoreInv
    <3>3. store[n].durable = "visible" => n \in halved' BY <3>1
    <3>4. \E b : Set(n, b) /\ b.place # "visible" /\ b.durable \in {store[n].durable, "absent"}
      <4>1. ASSUME NEW b \in PartlyRemoved(store[n]), Set(n, b) PROVE b.place = "tombstone" /\ b.durable = store[n].durable
        BY <3>2, PartReduces
      <4> DEFINE e == store[n]
                 b == [e EXCEPT !.place = "absent", !.durable = "absent"]
      <4>2. b.place = "absent" /\ b.durable = "absent"
        <5>1. e \in Archive /\ "absent" \in Places BY <3>2 DEF Places
        <5> HIDE DEF e
        <5> QED BY <5>1 DEF Archive
      <4>3. (\E c \in PartlyRemoved(store[n]) : Set(n, c)) \/ Set(n, b) BY <3>1
      <4> HIDE DEF b
      <4> QED BY <4>1, <4>2, <4>3
    <3>5. PICK b : Set(n, b) /\ b.place # "visible" /\ b.durable \in {store[n].durable, "absent"} BY <3>4
    <3>6. store'[n] = b BY <3>2, <3>5, MovesTo
    <3>7. Exposed(n)' => n \in halved' BY <1>0, <2>1, <3>3, <3>5, <3>6 DEF Exposed
    <3> QED BY <1>0, <2>1, <3>2, <3>5, <3>7, SoundMoves
  <2> QED BY <2>2, <2>3
<1>3. ASSUME pc \in {"hide"} \cup Hiding, chosen # {}
      PROVE  v \in chosen /\ v \in 1..MaxArchives /\ a \in Archive /\ a.entry \in [Paths -> Copies \cup {NoCopy}]
  BY <1>3, <1>v, VictimFacts DEF Archive
<1>4. CASE PruneHides
  <2>1. pc = "hide" /\ chosen # {} /\ pc' = "stage" /\ chosen' = chosen /\ Set(v, Hidden(a))
    BY <1>4, <1>v DEF PruneHides, Goto, Keeping
  <2>2. v \in chosen /\ v \in 1..MaxArchives /\ a \in Archive BY <1>3, <2>1
  <2>3. Victim' = v BY <1>v, <2>1 DEF Victim, Newest
  <2>4. a.place = "visible" BY <2>1, <2>2 DEF PruneInv, Hiding
  <2>5. SoundArchive(a) \/ v \in halved BY <2>2, <2>4 DEF SoundInv, Exposed
  <2>6. SoundArchive(Hidden(a)) \/ v \in halved
    <3>1. Hidden(a).entry = a.entry /\ Hidden(a).copy = a.copy /\ Hidden(a).synced = a.synced
      <4>1. a \in Archive BY <2>2
      <4> HIDE DEF a
      <4> QED BY <4>1 DEF Hidden, Archive
    <3> QED BY <2>5, <3>1 DEF SoundArchive
  <2> HIDE DEF a
  <2> QED BY <1>0, <2>1, <2>2, <2>3, <2>6, SoundMoves
<1>5. CASE PruneStages
  <2>1. pc = "stage" /\ pc \in Hiding BY <1>5 DEF PruneStages, Hiding
  <2>2. v \in chosen /\ v \in 1..MaxArchives /\ a \in Archive /\ a.place = "tombstone" BY <1>3, <1>v, <2>1 DEF PruneInv
  <2>3. SoundArchive(a) \/ v \in halved BY <1>v, <2>1, <2>2 DEF SoundInv, Exposed
  <2>4. pc' # "stage" BY <1>5 DEF PruneStages, Goto, Finish
  <2>5. \/ Set(v, [a EXCEPT !.durable = "tombstone"]) \/ Set(v, [a EXCEPT !.place = "visible"]) \/ store' = store
    BY <1>5, <1>v DEF PruneStages
  <2>6. CASE store' = store BY <1>0, <2>4, <2>6, SoundStays
  <2>7. CASE \E b : Set(v, b) /\ b.entry = a.entry /\ b.copy = a.copy /\ b.synced = a.synced
    <3>1. PICK b : Set(v, b) /\ b.entry = a.entry /\ b.copy = a.copy /\ b.synced = a.synced BY <2>7
    <3>2. SoundArchive(b) \/ v \in halved BY <2>3, <3>1 DEF SoundArchive
    <3> HIDE DEF a
    <3> QED BY <1>0, <2>2, <2>4, <3>1, <3>2, SoundMoves
  <2>8. ASSUME store' # store PROVE \E b : Set(v, b) /\ b.entry = a.entry /\ b.copy = a.copy /\ b.synced = a.synced
    <3> DEFINE b == [a EXCEPT !.durable = "tombstone"]
               c == [a EXCEPT !.place = "visible"]
    <3>1. b.entry = a.entry /\ b.copy = a.copy /\ b.synced = a.synced
      <4>1. a \in Archive BY <2>2
      <4> HIDE DEF a
      <4> QED BY <4>1 DEF Archive
    <3>2. c.entry = a.entry /\ c.copy = a.copy /\ c.synced = a.synced
      <4>1. a \in Archive BY <2>2
      <4> HIDE DEF a
      <4> QED BY <4>1 DEF Archive
    <3>3. Set(v, b) \/ Set(v, c) BY <2>5, <2>8
    <3> HIDE DEF b, c
    <3> QED BY <3>1, <3>2, <3>3
  <2> QED BY <2>6, <2>7, <2>8
<1>6. ASSUME pc \in Hiding, pc' # "stage", chosen # {},
             NEW b, Set(v, b), b.place # "visible", b.durable # "visible"
      PROVE  SoundInv'
  <2>1. v \in 1..MaxArchives BY <1>3, <1>6
  <2>2. store'[v] = b BY <1>6, <2>1, MovesTo
  <2>3. ~Exposed(v)' BY <1>6, <2>2 DEF Exposed
  <2> QED BY <1>0, <1>6, <1>v, <2>1, <2>3, SoundMoves
<1>7. CASE PruneReclaims
  <2>1. pc = "reclaim" /\ pc \in Hiding /\ chosen # {} BY <1>7 DEF PruneReclaims, Hiding, PruneInv
  <2>2. a \in Archive /\ a.place = "tombstone" /\ a.durable = "tombstone" BY <1>3, <1>v, <2>1 DEF PruneInv
  <2>3. pc' # "stage" BY <1>7 DEF PruneReclaims, Goto, Finish
  <2>4. Set(v, [a EXCEPT !.place = "absent"]) \/ \E b \in PartlyRemoved(a) : Set(v, b) BY <1>7, <1>v DEF PruneReclaims
  <2>5. ASSUME NEW b \in PartlyRemoved(a) PROVE b.place = "tombstone" /\ b.durable = "tombstone" BY <2>2, PartReduces
  <2> DEFINE b == [a EXCEPT !.place = "absent"]
  <2>6. b.place = "absent" /\ b.durable = "tombstone"
    <3>1. a \in Archive /\ a.durable = "tombstone" /\ "absent" \in Places BY <2>2 DEF Places
    <3> HIDE DEF a
    <3> QED BY ZenonT(60), <3>1, PlaceReduces
  <2>7. Set(v, b) \/ \E c \in PartlyRemoved(a) : Set(v, c) BY <2>4
  <2> HIDE DEF b
  <2> QED BY <1>6, <2>1, <2>3, <2>5, <2>6, <2>7
<1>8. CASE PruneSettles
  <2>1. pc = "settle" /\ pc \in Hiding /\ chosen # {} BY <1>8 DEF PruneSettles, Hiding, PruneInv
  <2>2. a \in Archive /\ a.place = "absent" BY <1>3, <1>v, <2>1 DEF PruneInv
  <2>3. pc' # "stage" BY <1>8 DEF PruneSettles, Goto, Finish
  <2> DEFINE b == [a EXCEPT !.durable = "absent"]
  <2>4. Set(v, b) \/ store' = store BY <1>8, <1>v DEF PruneSettles
  <2>5. b.place = "absent" /\ b.durable = "absent"
    <3>1. a \in Archive /\ a.place = "absent" /\ "absent" \in Places BY <2>2 DEF Places
    <3> HIDE DEF a
    <3> QED BY <3>1, PlaceReduces
  <2> HIDE DEF b
  <2> QED BY <1>0, <1>6, <1>v, <2>1, <2>3, <2>4, <2>5, SoundStays
<1> QED BY <1>1, <1>2, <1>4, <1>5, <1>7, <1>8 DEF Pruning

\* Only a resolution that has just named its archive begins to fill one.
LEMMA FillsEntered ==
  ASSUME CommandInv, [Next]_vars
  PROVE  used' \in {used, used + 1} /\ (pc' \in Fills => used' = used + 1 \/ (pc \in Fills /\ used' = used))
<1>1. CASE Start BY <1>1, StartPcs DEF Start, disk, Fills
<1>2. CASE Resolving
  <2>1. CASE ResolveLocked BY <2>1 DEF ResolveLocked, Finish, Goto, Fills
  <2>2. CASE ~ResolveLocked
    BY <1>2, <2>2 DEF Resolving, Preflight, NextPath, CopyOpens, CopyReads, CopySynced, Record, FileManifest,
       RemoveLocal, ResolveBarrier, ExtractOpens, ExtractWrites, ExtractEnds, ExtractTruncated, Acknowledge, Await,
       ByClient, Finish, Failing, CopyFails, ExtractFails, Uncatalogued, AfterRecord, Goto, Keeping, Fills, disk
  <2> QED BY <2>1, <2>2
<1>3. CASE Pruning
  <2>1. used' = used BY <1>3, PruningPcs
  <2>2. pc' \notin Fills
    BY <1>3 DEF Pruning, PruneSelect, CleanTombstone, PruneStops, PruneCleaned, PruneHides, PruneStages, PruneReclaims,
       PruneSettles, PruneEnds, Finish, Goto, Keeping, locals, Fills
  <2> QED BY <2>1, <2>2
<1>4. CASE Reading
  <2>1. used' = used BY <1>4, ReadingPcs
  <2>2. pc' \notin Fills
    BY <1>4 DEF Reading, RestoreFinds, RestoreCopies, RestoreCompares, VerifyBegins, VerifyNext, VerifyEnds,
       Finish, Failing, Goto, Keeping, locals, Fills
  <2> QED BY <2>1, <2>2
<1>5. ASSUME NEW k \in Agents, AgentSteps(k) PROVE UNCHANGED <<used, pc>>
  BY <1>5, AgentsLeaveControl DEF disk, locals
<1>6. CASE Cancel \/ \E k \in Agents : Cut(k) BY <1>6 DEF Cancel, Cut, disk, locals
<1>7. CASE Crash \/ PowerLoss \/ Rots BY <1>7 DEF Crash, PowerLoss, Rots, Finish, disk, locals, Fills
<1>8. CASE Users BY <1>8, UsersLeaveControl DEF disk, locals
<1>9. CASE UNCHANGED vars BY <1>9 DEF vars, disk, locals
<1> QED BY <1>1, <1>2, <1>3, <1>4, <1>5, <1>6, <1>7, <1>8, <1>9 DEF Next, Over, Client, Faults

\* Only the cleaning of a tombstone that is there adds to `halved'.
LEMMA HalvedMoves ==
  ASSUME [Next]_vars
  PROVE  \/ halved' = halved
         \/ pc' \notin Fills /\ used' = used /\ \E n \in Stale : halved' \in {halved, halved \cup {n}}
<1>1. CASE CleanTombstone
  <2>1. CASE halved' = halved BY <2>1
  <2>2. CASE halved' # halved
    <3>1. PICK n \in Stale : halved' = halved \cup {m \in {n} : store[m].durable = "visible"}
      BY <1>1, <2>2 DEF CleanTombstone
    <3>2. halved' \in {halved, halved \cup {n}} BY <3>1
    <3>3. pc' \notin Fills /\ used' = used
      BY <1>1 DEF CleanTombstone, OnlyPrune, Finish, locals, Fills
    <3> QED BY <3>1, <3>2, <3>3
  <2> QED BY <2>1, <2>2
<1>2. CASE Next /\ ~CleanTombstone
  BY <1>2 DEF Next, Start, Client, Resolving, Pruning, Reading, Faults, Users, Over, vars, histories, AgentSteps,
     Preflight, ResolveLocked, NextPath, CopyOpens, CopyReads, CopySynced, Record, FileManifest, RemoveLocal,
     ResolveBarrier, ExtractOpens, ExtractWrites, ExtractEnds, ExtractTruncated, Acknowledge, Await, ByClient,
     PruneSelect, PruneStops, PruneCleaned, PruneHides, PruneStages, PruneReclaims, PruneSettles, PruneEnds, ByPrune,
     RestoreFinds, RestoreCopies, RestoreCompares, VerifyBegins, VerifyNext, VerifyEnds, ByReader, AgentOpens,
     AgentReads, AgentFinishes, AgentInterrupted, AgentAcknowledged, AgentVerifies, AgentInspects, AgentRemoves,
     OnlyAgents, Cancel, Crash, PowerLoss, Rots, Cut, Edit, Propagate, PropagateRemoval
<1>3. CASE UNCHANGED vars BY <1>3 DEF vars, histories
<1> QED BY <1>1, <1>2, <1>3

LEMMA HalvedGrows == ASSUME [Next]_vars PROVE halved \subseteq halved'
  BY HalvedMoves

LEMMA HalvedStep == ASSUME CommandInv, LocalsInv, LocalsInv', StoreInv, HalvedInv, [Next]_vars PROVE HalvedInv'
<1>1. used \in Nat /\ used' \in {used, used + 1} BY FillsEntered DEF LocalsInv
<1>2. CASE halved' = halved
  <2>1. halved' \subseteq 1..used' BY <1>1, <1>2 DEF HalvedInv
  <2>2. ASSUME pc' \in Fills PROVE archive' \notin halved'
    <3>1. archive' = used' BY <2>2 DEF LocalsInv
    <3>2. CASE used' = used + 1
      <4>1. used + 1 \notin 1..used BY <1>1
      <4> QED BY <1>2, <3>1, <3>2, <4>1 DEF HalvedInv
    <3>3. CASE pc \in Fills /\ used' = used
      <4>1. archive = used BY <3>3 DEF LocalsInv
      <4> QED BY <1>2, <3>1, <3>3, <4>1 DEF HalvedInv
    <3> QED BY <2>2, <3>2, <3>3, FillsEntered
  <2> QED BY <2>1, <2>2 DEF HalvedInv
<1>3. CASE pc' \notin Fills /\ used' = used /\ \E n \in Stale : halved' \in {halved, halved \cup {n}}
  <2>1. PICK n \in Stale : halved' \in {halved, halved \cup {n}} BY <1>3
  <2>2. n \in 1..MaxArchives /\ store[n].place = "tombstone" BY DEF Stale, Tombstones
  <2>3. store[n] # Unused BY <2>2 DEF Unused
  <2>4. n \in 1..used BY <1>1, <2>2, <2>3, CatalogAssumption DEF StoreInv
  <2> QED BY <1>3, <2>1, <2>4 DEF HalvedInv
<1> QED BY <1>2, <1>3, HalvedMoves

LEMMA SoundStep ==
  ASSUME CommandInv, EndsInv, LocalsInv, AgentsInv, StoreInv, FillInv, PruneInv, SoundInv, HalvedInv, [Next]_vars
  PROVE  SoundInv'
<1>0. CommandInv' /\ halved \subseteq halved' BY CommandStep, HalvedGrows
<1>1. CASE Start BY <1>0, <1>1, StartPcs, SoundStays DEF Start, disk
<1>2. CASE Resolving
  <2>1. setting' = setting /\ command' = command /\ pc \in ResolvePcs BY <1>2, ResolvingPcs
  <2>2. pc' # "stage" BY <1>0, <2>1, OtherCommands DEF PrunePcs
  <2>3. CASE store' = store BY <1>0, <2>1, <2>2, <2>3, SoundStays
  <2>4. CASE store' # store
    <3>1. pc \in Fills /\ \E b : Set(archive, b) /\ Wrote(b) BY <1>2, <2>4, ResolveWrites
    <3>2. PICK b : Set(archive, b) /\ Wrote(b) BY <3>1
    <3>3. archive \in 1..MaxArchives BY <3>1, KeptFacts DEF FillInv
    <3>4. SoundArchive(b) BY <3>1, <3>2, WroteIsSound
    <3> QED BY <1>0, <2>1, <2>2, <3>2, <3>3, <3>4, SoundMoves
  <2> QED BY <2>3, <2>4
<1>3. CASE Pruning BY <1>0, <1>3, PruningSound
<1>4. CASE Reading
  <2>1. pc \in RestorePcs \cup VerifyPcs /\ UNCHANGED <<setting, command, store>> BY <1>4, ReadingPcs
  <2>2. pc' # "stage" BY <1>0, <2>1, OtherCommands DEF PrunePcs
  <2> QED BY <1>0, <2>1, <2>2, SoundStays
<1>5. ASSUME NEW k \in Agents, AgentSteps(k) PROVE SoundInv'
  BY <1>0, <1>5, AgentsLeaveControl, SoundStays DEF Control, disk, locals, Victim, Newest
<1>6. CASE Cancel \/ \E k \in Agents : Cut(k)
  BY <1>0, <1>6, SoundStays DEF Cancel, Cut, disk, locals, Victim, Newest
<1>7. CASE Crash BY <1>0, <1>7, SoundStays DEF Crash, Finish, disk
<1>8. CASE PowerLoss
  <2>1. /\ setting' = setting /\ \A n \in 1..MaxArchives : store'[n] \in AfterPowerLoss(store[n])
        /\ "power" \in setting.faults /\ setting \in Settings
    BY <1>8 DEF PowerLoss, CommandInv
  <2>2. pc' = "idle" BY <1>8 DEF PowerLoss, Finish, locals
  <2>3. ASSUME NEW n \in 1..MaxArchives, n \notin halved, Exposed(n)' PROVE SoundArchive(store[n])'
    <3>1. store[n] \in Archive BY DEF StoreInv
    <3>2. store'[n].place \in {store[n].place, store[n].durable} /\ store'[n].durable = store'[n].place
      BY <2>1, <3>1, PowerFacts
    <3>3. store'[n].place = "visible" BY <2>2, <2>3, <3>2 DEF Exposed
    <3>4. SoundArchive(store[n]) BY <2>1, <2>3, <3>2, <3>3 DEF SoundInv, Exposed
    <3>5. SoundArchive(store'[n]) BY <2>1, <3>4, SoundAfterPower
    <3> QED BY <3>5 DEF SoundArchive
  <2> QED BY <1>0, <2>3 DEF SoundInv
<1>9. CASE Rots
  <2>1. UNCHANGED <<setting, pc, chosen>> BY <1>9 DEF Rots, locals
  <2>2. PICK n \in 1..MaxArchives, p \in Paths : \E i \in 1..Len(store[n].copy[p].files), damage \in {Rot, Short} :
           /\ store[n].place = "visible" /\ p \in store[n].synced
           /\ store'[n].copy[p] = [store[n].copy[p] EXCEPT !.files[i] = damage]
           /\ store[n].copy[p] \in Copies \cup {NoCopy} /\ store'[n].copy[p] \in Copies
           /\ Len(store'[n].copy[p].files) = Len(store[n].copy[p].files)
           /\ \A q \in Paths : q # p => store'[n].copy[q] = store[n].copy[q]
           /\ store'[n].entry = store[n].entry /\ store'[n].synced = store[n].synced
           /\ \A m \in 1..MaxArchives : m # n => store'[m] = store[m]
    BY <1>9, RotFacts
  <2>3. PICK i \in 1..Len(store[n].copy[p].files), damage \in {Rot, Short} :
           /\ store[n].place = "visible" /\ p \in store[n].synced
           /\ store'[n].copy[p] = [store[n].copy[p] EXCEPT !.files[i] = damage]
           /\ store[n].copy[p] \in Copies \cup {NoCopy} /\ store'[n].copy[p] \in Copies
           /\ Len(store'[n].copy[p].files) = Len(store[n].copy[p].files)
           /\ \A q \in Paths : q # p => store'[n].copy[q] = store[n].copy[q]
           /\ store'[n].entry = store[n].entry /\ store'[n].synced = store[n].synced
           /\ \A m \in 1..MaxArchives : m # n => store'[m] = store[m]
    BY <2>2
  <2>4. SoundArchive(store[n]) \/ n \in halved BY <2>3 DEF SoundInv, Exposed
  <2>5. store[n].copy[p] \in Copies
    <3>1. Len(NoCopy.files) = 0 BY DEF NoCopy
    <3> QED BY <2>3, <3>1
  <2>6. SoundArchive(store'[n]) \/ n \in halved
    <3>1. SUFFICES ASSUME n \notin halved, NEW q \in Paths, store'[n].entry[q] # NoCopy
                   PROVE  q \in store'[n].synced /\ Same(store'[n].copy[q], store'[n].entry[q])
      BY DEF SoundArchive
    <3>2. q \in store[n].synced /\ Same(store[n].copy[q], store[n].entry[q]) BY <2>3, <2>4, <3>1 DEF SoundArchive
    <3>3. CASE q = p
      <4>1. Same(store'[n].copy[p], store[n].entry[p]) BY <2>3, <2>5, <3>2, <3>3, DamageIsSame
      <4> QED BY <2>3, <3>2, <3>3, <4>1
    <3>4. CASE q # p BY <2>3, <3>2, <3>4
    <3> QED BY <3>3, <3>4
  <2>7. SamePlaces BY <1>9, RotPlaces
  <2>8. ASSUME NEW m \in 1..MaxArchives, m \notin halved, Exposed(m)' PROVE SoundArchive(store[m])'
    <3>1. Victim' = Victim BY <2>1 DEF Victim, Newest
    <3>2. Exposed(m) BY <2>1, <2>7, <2>8, <3>1 DEF Exposed, SamePlaces
    <3>3. SoundArchive(store[m]) BY <2>8, <3>2 DEF SoundInv
    <3>4. SoundArchive(store'[m]) BY <2>3, <2>6, <2>8, <3>3
    <3> QED BY <3>4 DEF SoundArchive
  <2> QED BY <1>0, <2>8 DEF SoundInv
<1>10. CASE Users BY <1>0, <1>10, UsersLeaveControl, SoundStays DEF Control, disk, locals, Victim, Newest
<1>11. CASE UNCHANGED vars BY <1>0, <1>11, SoundStays DEF vars, disk, locals, Victim, Newest
<1> QED BY <1>1, <1>2, <1>3, <1>4, <1>5, <1>6, <1>7, <1>8, <1>9, <1>10, <1>11 DEF Next, Over, Client, Faults

LEMMA SettingStays == [Next]_vars => setting' = setting
<1>1. CASE Next
  BY <1>1 DEF Next, Start, Client, Resolving, Pruning, Reading, Faults, Users, Over, vars, AgentSteps, Preflight, ResolveLocked,
     NextPath, CopyOpens, CopyReads, CopySynced, Record, FileManifest, RemoveLocal, ResolveBarrier, ExtractOpens,
     ExtractWrites, ExtractEnds, ExtractTruncated, Acknowledge, Await, ByClient, PruneSelect, CleanTombstone, PruneStops,
     PruneCleaned, PruneHides, PruneStages, PruneReclaims, PruneSettles, PruneEnds, ByPrune, OnlyPrune, RestoreFinds, RestoreCopies,
     RestoreCompares, VerifyBegins, VerifyNext, VerifyEnds, ByReader, AgentOpens, AgentReads, AgentFinishes,
     AgentInterrupted, AgentAcknowledged, AgentVerifies, AgentInspects, AgentRemoves, OnlyAgents, Cancel, Crash, PowerLoss,
     Rots, Cut, Edit, Propagate, PropagateRemoval
<1> QED BY <1>1 DEF vars

\* The entries of an archive that a listing shows are those of StoreSound.
LEMMA SoundMeansHonest ==
  ASSUME CommandInv, StoreInv, SoundInv, NEW n \in 1..MaxArchives, n \notin halved PROVE EntriesHonest(store[n])
<1>1. SUFFICES ASSUME store[n].place = "visible", NEW p \in Catalogued(store[n])
               PROVE  LET d == store[n].entry[p]
                      IN  /\ Same(store[n].copy[p], d)
                          /\ Len(d.files) = FilesOf(d.kind) /\ Torn \notin {d.files[i] : i \in DOMAIN d.files}
  BY DEF EntriesHonest
<1> DEFINE d == store[n].entry[p]
<1>2. p \in Paths /\ d # NoCopy BY DEF Catalogued
<1>3. Same(store[n].copy[p], d) BY <1>1, <1>2 DEF SoundInv, Exposed, SoundArchive
<1>4. d \in WholeCopies(p) /\ setting \in Settings BY <1>2 DEF StoreInv, CommandInv
<1> HIDE DEF d
<1>5. Len(d.files) = FilesOf(d.kind) /\ \A i \in DOMAIN d.files : d.files[i] \in 1..MaxVersion
  BY <1>2, <1>4, WholeFacts
<1>6. Torn \notin {d.files[i] : i \in DOMAIN d.files} BY <1>5, ByteFacts
<1> QED BY <1>3, <1>5, <1>6 DEF d

\* The catalogue names only backups that are there and whole, through crashes, power losses,
\* truncated streams and interrupted prunes (recovery.go: RecordSummary records what was synced;
\* PruneProgress hides an archive before it removes it), for every script of commands and every
\* choice of faults; except an archive that a later prune began to remove as a stale tombstone
\* whose renaming was not on the disk (cleanPruneTombstones does not sync the root first).  And
\* every variable keeps its shape.
THEOREM StoreIsSound == Spec => []StoreSound
<1> DEFINE Inv == /\ CommandInv /\ EndsInv /\ LocalsInv /\ AgentsInv /\ StoreInv /\ FillInv /\ PruneInv
                  /\ TargetInv /\ SoundInv /\ HalvedInv
<1>1. Init => Inv
  BY CommandInit, EndsInit, LocalsInit, AgentsInit, StoreInit, FillInit, PruneInit, TargetInit, SoundInit
<1>2. Inv /\ [Next]_vars => Inv'
  <2>1. SUFFICES ASSUME Inv, [Next]_vars PROVE Inv' OBVIOUS
  <2>2. CommandInv' /\ EndsInv' /\ LocalsInv' BY <2>1, CommandStep, EndsStep, LocalsStep
  <2>3. AgentsInv' BY <2>1, AgentsStep
  <2>4. StoreInv' BY <2>1, StoreStep
  <2>5. FillInv' BY <2>1, <2>3, FillStep
  <2>6. PruneInv' BY <2>1, PruneStep
  <2>7. TargetInv' BY <2>1, TargetStep
  <2>8. SoundInv' BY <2>1, SoundStep
  <2>9. HalvedInv' BY <2>1, <2>2, HalvedStep
  <2> QED BY <2>2, <2>3, <2>4, <2>5, <2>6, <2>7, <2>8, <2>9
<1>3. Inv => StoreSound
  <2>1. SUFFICES ASSUME Inv PROVE StoreSound OBVIOUS
  <2>2. TypeOK BY <2>1, TypesHold
  <2>3. \A n \in 1..MaxArchives : n \in halved \/ EntriesHonest(store[n]) BY <2>1, SoundMeansHonest
  <2> QED BY <2>2, <2>3 DEF StoreSound
<1> QED BY <1>1, <1>2, <1>3, PTL DEF Spec

=============================================================================

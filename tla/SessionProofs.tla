---------------------------- MODULE SessionProofs ----------------------------
(***************************************************************************)
(* Theorems about SessionLifecycle for every number of sessions, commands  *)
(* and hosts, whatever fails.                                              *)
(***************************************************************************)
EXTENDS SessionLifecycle, TLAPS

LEMMA NoneFacts ==
  /\ None \notin Procs /\ None \notin Sessions /\ None \notin Endpoints /\ None \notin SyncIds
  /\ Sessions \subseteq Procs /\ Admins \subseteq Procs
  /\ \A p \in Procs : H(p) \in Hosts
  BY LifecycleAssumption DEF Procs, H

-----------------------------------------------------------------------------
(* Typing.                                                                 *)

\* What Quit, GiveUp and LeaveWorkspace change, and the rest of the state.
LocksTyped ==
  /\ pc \in [Procs -> PC]
  /\ hostLock \in [Hosts -> Procs \cup {None}]
  /\ wsLock \in [Hosts -> Procs \cup {None}]
  /\ lease \in [Sessions -> Procs \cup {None}]
  /\ todo \in [Procs -> SUBSET Sessions]
  /\ found \in [Procs -> SUBSET Sessions]
  /\ probing \in [Procs -> Sessions \cup {None}]
RestTyped ==
  /\ config \in [Hosts -> Endpoints \cup {None}]
  /\ stored \in [Hosts -> State]
  /\ remote \in [Hosts -> SUBSET (Endpoints \cup {None})]
  /\ sync \in [Hosts -> [SyncIds -> {"unused", "running", "paused", "gone"}]]
  /\ record \in [Sessions -> BOOLEAN]
  /\ view \in [Procs -> View]
  /\ signalled \in [Sessions -> BOOLEAN]

\* Steps that leave the locks and scans alone, and only move a process.
LEMMA GotoType ==
  ASSUME TypeOK, NEW p \in Procs, NEW w \in PC, Goto(p, w)
  PROVE  /\ pc' \in [Procs -> PC]
         /\ UNCHANGED <<locks, scanner>> => LocksTyped'
<1>1. pc' \in [Procs -> PC] BY DEF Goto, TypeOK
<1> QED BY <1>1 DEF TypeOK, LocksTyped, locks, scanner

LEMMA QuitType ==
  ASSUME TypeOK, NEW p \in Procs, NEW how \in PC, Quit(p, how)
  PROVE  LocksTyped'
<1>1. pc' \in [Procs -> PC] BY DEF Quit, Goto, TypeOK
<1>2. hostLock' \in [Hosts -> Procs \cup {None}] BY DEF Quit, Dropped, TypeOK
<1>3. wsLock' \in [Hosts -> Procs \cup {None}] BY DEF Quit, Dropped, TypeOK
<1>4. lease' \in [Sessions -> Procs \cup {None}] BY DEF Quit, Dropped, TypeOK
<1>5. todo' \in [Procs -> SUBSET Sessions] BY DEF Quit, TypeOK
<1>6. found' \in [Procs -> SUBSET Sessions] BY DEF Quit, TypeOK
<1>7. probing' \in [Procs -> Sessions \cup {None}] BY DEF Quit, TypeOK
<1> QED BY <1>1, <1>2, <1>3, <1>4, <1>5, <1>6, <1>7 DEF LocksTyped

LEMMA LeaveType ==
  ASSUME TypeOK, NEW p \in Procs, NEW w \in PC, LeaveWorkspace(p, w)
  PROVE  LocksTyped'
<1>1. pc' \in [Procs -> PC] BY GotoType DEF LeaveWorkspace
<1>2. wsLock' \in [Hosts -> Procs \cup {None}] BY DEF LeaveWorkspace, TypeOK
<1> QED BY <1>1, <1>2 DEF LeaveWorkspace, TypeOK, LocksTyped, scanner

LEMMA GiveUpType ==
  ASSUME TypeOK, NEW p \in Procs, GiveUp(p)
  PROVE  LocksTyped'
<1>1. "running" \in PC /\ "unpublish" \in PC /\ "failed" \in PC BY DEF PC, Live, Close, Ended
<1> QED BY <1>1, LeaveType, QuitType DEF GiveUp

LEMMA ResumeDomain ==
  /\ DOMAIN AfterResume = {"resume", "replace", "firstResume", "barrier", "final",
                           "stopBarrier", "cliBarrier"}
  /\ \A w \in DOMAIN AfterResume : AfterResume[w] \in PC
  BY DEF AfterResume, PC, Start, Live, Close, Work

LEMMA ForgetType ==
  ASSUME TypeOK, NEW p \in Procs, Forget(p)
  PROVE  view' \in [Procs -> View]
<1>1. view \in [Procs -> View] BY DEF TypeOK
<1>2. [view[p] EXCEPT !.id = None, !.fp = None] \in View BY ZenonT(60), <1>1 DEF View, Fingerprints
<1>3. view' = [view EXCEPT ![p] = [view[p] EXCEPT !.id = None, !.fp = None]] BY DEF Forget
<1> QED BY <1>1, <1>2, <1>3

LEMMA SetSyncType ==
  ASSUME TypeOK, NEW p \in Procs, NEW st \in {"running", "paused", "gone"},
         ~Missing(p), SetSync(p, st)
  PROVE  sync' \in [Hosts -> [SyncIds -> {"unused", "running", "paused", "gone"}]]
<1>1. view[p].id \in SyncIds BY DEF TypeOK, View, Missing, SyncState
<1>2. [sync[H(p)] EXCEPT ![view[p].id] = st] \in [SyncIds -> {"unused", "running", "paused", "gone"}]
  BY NoneFacts, <1>1 DEF TypeOK
<1>3. sync' = [sync EXCEPT ![H(p)] = [sync[H(p)] EXCEPT ![view[p].id] = st]] BY DEF SetSync
<1> QED BY NoneFacts, <1>2, <1>3 DEF TypeOK

LEMMA ResumeType == ASSUME TypeOK, NEW p \in Procs, Resume(p) PROVE TypeOK'
<1>a. sync' \in [Hosts -> [SyncIds -> {"unused", "running", "paused", "gone"}]]
  BY SetSyncType DEF Resume, TypeOK
<1>b. view' \in [Procs -> View]
  BY ForgetType DEF Resume, TypeOK
<1>3. LocksTyped'
  <2>1. "create" \in PC BY DEF PC, Start
  <2> QED BY <2>1, ResumeDomain, GotoType, GiveUpType DEF Resume
<1>4. RestTyped' BY <1>a, <1>b DEF Resume, TypeOK, RestTyped, durable
<1> QED BY <1>3, <1>4 DEF TypeOK, LocksTyped, RestTyped

LEMMA PauseType == ASSUME TypeOK, NEW p \in Procs, Pause(p) PROVE TypeOK'
<1>a. sync' \in [Hosts -> [SyncIds -> {"unused", "running", "paused", "gone"}]]
  BY SetSyncType DEF Pause, TypeOK
<1>3. LocksTyped'
  <2>1. "unpublish" \in PC /\ "done" \in PC /\ "failed" \in PC BY DEF PC, Start, Live, Close, Work, Ended
  <2> QED BY <2>1, NoneFacts, GotoType, QuitType DEF Pause
<1>4. RestTyped' BY <1>a DEF Pause, TypeOK, RestTyped, durable
<1> QED BY <1>3, <1>4 DEF TypeOK, LocksTyped, RestTyped

LEMMA LoadType == ASSUME TypeOK, NEW p \in Procs, Load(p) PROVE TypeOK'
<1>a. view' \in [Procs -> View]
  <2>1. config[H(p)] # None => [id |-> stored[H(p)].id, fp |-> stored[H(p)].fp,
          retained |-> stored[H(p)].retained, endpoint |-> config[H(p)]] \in View
    BY NoneFacts DEF TypeOK, State, View
  <2> QED BY <2>1 DEF Load, TypeOK
<1>3. LocksTyped'
  <2>1. "loaded" \in PC /\ "failed" \in PC BY DEF PC, Start, Live, Close, Work, Ended
  <2> QED BY <2>1, NoneFacts, GotoType DEF Load
<1>4. RestTyped' BY <1>a DEF Load, TypeOK, RestTyped, durable
<1> QED BY <1>3, <1>4 DEF TypeOK, LocksTyped, RestTyped

LEMMA ReplaceSyncType == ASSUME TypeOK, NEW s \in Sessions, ReplaceSync(s) PROVE TypeOK'
<1>a. sync' \in [Hosts -> [SyncIds -> {"unused", "running", "paused", "gone"}]]
  BY NoneFacts, SetSyncType DEF ReplaceSync, TypeOK
<1>b. view' \in [Procs -> View]
  BY NoneFacts, ForgetType DEF ReplaceSync, TypeOK
<1>3. LocksTyped'
  <2>1. "create" \in PC /\ "failed" \in PC BY DEF PC, Start, Live, Close, Work, Ended
  <2> QED BY <2>1, NoneFacts, GotoType, QuitType DEF ReplaceSync
<1>4. RestTyped' BY <1>a, <1>b DEF ReplaceSync, TypeOK, RestTyped, durable
<1> QED BY <1>3, <1>4 DEF TypeOK, LocksTyped, RestTyped

LEMMA CreateSyncType == ASSUME TypeOK, NEW s \in Sessions, CreateSync(s) PROVE TypeOK'
<1>a. sync' \in [Hosts -> [SyncIds -> {"unused", "running", "paused", "gone"}]]
  <2>0. H(s) \in Hosts BY NoneFacts
  <2>1. \A i \in SyncIds : [sync[H(s)] EXCEPT ![i] = "running"]
          \in [SyncIds -> {"unused", "running", "paused", "gone"}]
    BY <2>0 DEF TypeOK
  <2>2. \/ UNCHANGED sync
        \/ \E i \in SyncIds : sync' = [sync EXCEPT ![H(s)] = [sync[H(s)] EXCEPT ![i] = "running"]]
    BY DEF CreateSync
  <2> QED BY ZenonT(60), <2>0, <2>1, <2>2 DEF TypeOK
<1>b. view' \in [Procs -> View]
  <2>1. s \in Procs /\ view[s] \in View BY NoneFacts DEF TypeOK
  <2>2. Fingerprint(s) \in Fingerprints BY <2>1 DEF Fingerprint, Fingerprints, View
  <2>3. \A i \in SyncIds : [view[s] EXCEPT !.id = i, !.fp = Fingerprint(s)] \in View
    BY <2>1, <2>2 DEF View
  <2>4. \/ UNCHANGED view
        \/ \E i \in SyncIds : view' = [view EXCEPT ![s] = [view[s] EXCEPT !.id = i, !.fp = Fingerprint(s)]]
    BY ZenonT(60) DEF CreateSync
  <2> QED BY <2>1, <2>3, <2>4 DEF TypeOK
<1>3. LocksTyped'
  <2>1. "firstResume" \in PC /\ "failed" \in PC BY DEF PC, Start, Live, Close, Work, Ended
  <2> QED BY <2>1, NoneFacts, GotoType, QuitType DEF CreateSync
<1>4. RestTyped' BY <1>a, <1>b DEF CreateSync, TypeOK, RestTyped, durable
<1> QED BY <1>3, <1>4 DEF TypeOK, LocksTyped, RestTyped

LEMMA EnsureSyncType == ASSUME TypeOK, NEW s \in Sessions, EnsureSync(s) PROVE TypeOK'
<1>a. remote' \in [Hosts -> SUBSET (Endpoints \cup {None})]
  <2>1. view[s].endpoint \in Endpoints \cup {None} BY NoneFacts DEF TypeOK, View
  <2>2. s \in Procs /\ H(s) \in Hosts BY NoneFacts
  <2>3. remote[H(s)] \cup {view[s].endpoint} \in SUBSET (Endpoints \cup {None}) BY <2>1, <2>2 DEF TypeOK
  <2> QED BY <2>2, <2>3 DEF EnsureSync, TypeOK
<1>3. LocksTyped'
  <2>1. "create" \in PC /\ "resume" \in PC /\ "replace" \in PC /\ "failed" \in PC BY DEF PC, Start, Live, Close, Work, Ended
  <2>2. CASE Quit(s, "failed") BY <2>1, <2>2, NoneFacts, QuitType
  <2>3. CASE ~Quit(s, "failed")
    <3>1. s \in Procs /\ H(s) \in Hosts BY NoneFacts
    <3>2. pc' \in [Procs -> PC] BY <2>1, <2>3, <3>1, GotoType DEF EnsureSync
    <3>3. wsLock' = [wsLock EXCEPT ![H(s)] = s] BY <2>3 DEF EnsureSync
    <3>4. wsLock' \in [Hosts -> Procs \cup {None}] BY <3>1, <3>3 DEF TypeOK
    <3> QED BY <2>3, <3>2, <3>4 DEF EnsureSync, TypeOK, LocksTyped, scanner
  <2> QED BY <2>2, <2>3
<1>4. RestTyped' BY <1>a DEF EnsureSync, TypeOK, RestTyped, durable
<1> QED BY <1>3, <1>4 DEF TypeOK, LocksTyped, RestTyped

LEMMA SaveStateType == ASSUME TypeOK, NEW s \in Sessions, SaveState(s) PROVE TypeOK'
<1>a. stored' \in [Hosts -> State]
  <2>1. view[s] \in View BY NoneFacts DEF TypeOK
  <2>2. [id |-> view[s].id, fp |-> view[s].fp, retained |-> TRUE] \in State BY <2>1 DEF View, State
  <2> QED BY <2>2, NoneFacts DEF SaveState, TypeOK
<1>b. view' \in [Procs -> View]
  <2>1. s \in Procs /\ view[s] \in View BY NoneFacts DEF TypeOK
  <2>2. [view[s] EXCEPT !.retained = TRUE] \in View BY <2>1 DEF View
  <2>3. view' = [view EXCEPT ![s] = [view[s] EXCEPT !.retained = TRUE]] BY DEF SaveState
  <2> QED BY <2>1, <2>2, <2>3 DEF TypeOK
<1>3. LocksTyped'
  <2>1. "agent" \in PC /\ "failed" \in PC BY DEF PC, Start, Live, Close, Work, Ended
  <2> QED BY <2>1, NoneFacts, LeaveType, QuitType DEF SaveState
<1>4. RestTyped' BY <1>a, <1>b DEF SaveState, TypeOK, RestTyped, durable
<1> QED BY <1>3, <1>4 DEF TypeOK, LocksTyped, RestTyped

LEMMA PublishType == ASSUME TypeOK, NEW s \in Sessions, Publish(s) PROVE TypeOK'
<1>a. record' \in [Sessions -> BOOLEAN]
  BY DEF Publish, TypeOK
<1>3. LocksTyped'
  <2>1. "running" \in PC /\ "failed" \in PC BY DEF PC, Live, Ended
  <2>2. CASE Quit(s, "failed") BY <2>1, <2>2, NoneFacts, QuitType
  <2>3. CASE ~Quit(s, "failed")
    <3>1. pc' \in [Procs -> PC] BY <2>1, <2>3, NoneFacts, GotoType DEF Publish
    <3>2. hostLock' \in [Hosts -> Procs \cup {None}] BY <2>3 DEF Publish, TypeOK
    <3> QED BY <2>3, <3>1, <3>2 DEF Publish, TypeOK, LocksTyped, scanner
  <2> QED BY <2>2, <2>3
<1>4. RestTyped' BY <1>a DEF Publish, TypeOK, RestTyped, durable
<1> QED BY <1>3, <1>4 DEF TypeOK, LocksTyped, RestTyped

LEMMA TakeLeaseType == ASSUME TypeOK, NEW s \in Sessions, TakeLease(s) PROVE TypeOK'
<1>3. LocksTyped'
  <2>1. "leased" \in PC /\ "failed" \in PC BY DEF PC, Start, Ended
  <2>2. CASE Quit(s, "failed") BY <2>1, <2>2, NoneFacts, QuitType
  <2>3. CASE ~Quit(s, "failed")
    <3>1. pc' \in [Procs -> PC] BY <2>1, <2>3, NoneFacts, GotoType DEF TakeLease
    <3>0. s \in Procs /\ lease' = [lease EXCEPT ![s] = s] BY <2>3, NoneFacts DEF TakeLease
    <3>2. lease' \in [Sessions -> Procs \cup {None}] BY <3>0 DEF TypeOK
    <3> QED BY <2>3, <3>1, <3>2 DEF TakeLease, TypeOK, LocksTyped, scanner
  <2> QED BY <2>2, <2>3
<1>4. RestTyped' BY DEF TakeLease, TypeOK, RestTyped, durable
<1> QED BY <1>3, <1>4 DEF TypeOK, LocksTyped, RestTyped

LEMMA FinishType == ASSUME TypeOK, NEW s \in Sessions, Finish(s) PROVE TypeOK'
<1>3. LocksTyped'
  <2>1. "closing" \in PC BY DEF PC, Start, Live, Close, Work, Ended
  <2> QED BY <2>1, NoneFacts, GotoType DEF Finish
<1>4. RestTyped' BY DEF Finish, TypeOK, RestTyped, durable
<1> QED BY <1>3, <1>4 DEF TypeOK, LocksTyped, RestTyped

LEMMA UnpublishType == ASSUME TypeOK, NEW s \in Sessions, Unpublish(s) PROVE TypeOK'
<1>a. record' \in [Sessions -> BOOLEAN]
  BY DEF Unpublish, TypeOK
<1>3. LocksTyped'
  <2>1. "release" \in PC BY DEF PC, Start, Live, Close, Work, Ended
  <2> QED BY <2>1, NoneFacts, GotoType DEF Unpublish
<1>4. RestTyped' BY <1>a DEF Unpublish, TypeOK, RestTyped, durable
<1> QED BY <1>3, <1>4 DEF TypeOK, LocksTyped, RestTyped

LEMMA DropLeaseType == ASSUME TypeOK, NEW s \in Sessions, DropLease(s) PROVE TypeOK'
<1>3. LocksTyped'
  <2>1. "done" \in PC BY DEF PC, Start, Live, Close, Work, Ended
  <2> QED BY <2>1, NoneFacts, QuitType DEF DropLease
<1>4. RestTyped' BY DEF DropLease, TypeOK, RestTyped, durable
<1> QED BY <1>3, <1>4 DEF TypeOK, LocksTyped, RestTyped

LEMMA StopWithoutSyncType == ASSUME TypeOK, NEW a \in Admins, StopWithoutSync(a) PROVE TypeOK'
<1>3. LocksTyped'
  <2>1. "failed" \in PC BY DEF PC, Start, Live, Close, Work, Ended
  <2> QED BY <2>1, NoneFacts, QuitType DEF StopWithoutSync
<1>4. RestTyped' BY DEF StopWithoutSync, TypeOK, RestTyped, durable
<1> QED BY <1>3, <1>4 DEF TypeOK, LocksTyped, RestTyped

LEMMA CleanSyncType == ASSUME TypeOK, NEW a \in Admins, CleanSync(a) PROVE TypeOK'
<1>a. sync' \in [Hosts -> [SyncIds -> {"unused", "running", "paused", "gone"}]]
  BY NoneFacts, SetSyncType DEF CleanSync, TypeOK
<1>3. LocksTyped'
  <2>1. "rm" \in PC /\ "failed" \in PC BY DEF PC, Start, Live, Close, Work, Ended
  <2> QED BY <2>1, NoneFacts, GotoType, QuitType DEF CleanSync
<1>4. RestTyped' BY <1>a DEF CleanSync, TypeOK, RestTyped, durable
<1> QED BY <1>3, <1>4 DEF TypeOK, LocksTyped, RestTyped

LEMMA RemoveRootType == ASSUME TypeOK, NEW a \in Admins, RemoveRoot(a) PROVE TypeOK'
<1>a. remote' \in [Hosts -> SUBSET (Endpoints \cup {None})]
  <2>1. H(a) \in Hosts BY NoneFacts
  <2>2. remote[H(a)] \ {view[a].endpoint} \in SUBSET (Endpoints \cup {None}) BY <2>1 DEF TypeOK
  <2> QED BY <2>1, <2>2 DEF RemoveRoot, WithoutRoot, TypeOK
<1>3. LocksTyped'
  <2>1. "saveKept" \in PC /\ "saveGone" \in PC /\ "failed" \in PC BY DEF PC, Start, Live, Close, Work, Ended
  <2> QED BY <2>1, NoneFacts, GotoType, QuitType DEF RemoveRoot
<1>4. RestTyped' BY <1>a DEF RemoveRoot, TypeOK, RestTyped, durable
<1> QED BY <1>3, <1>4 DEF TypeOK, LocksTyped, RestTyped

LEMMA SaveCleanedType == ASSUME TypeOK, NEW a \in Admins, SaveCleaned(a) PROVE TypeOK'
<1>a. stored' \in [Hosts -> State]
  <2>1. \A kept \in BOOLEAN : [id |-> None, fp |-> None, retained |-> kept] \in State
    BY DEF State, Fingerprints
  <2>2. view[a].retained \in BOOLEAN BY NoneFacts DEF TypeOK, View
  <2> QED BY NoneFacts, <2>1, <2>2 DEF SaveCleaned, TypeOK
<1>3. LocksTyped'
  <2>1. "done" \in PC /\ "failed" \in PC BY DEF PC, Start, Live, Close, Work, Ended
  <2> QED BY <2>1, NoneFacts, QuitType DEF SaveCleaned
<1>4. RestTyped' BY <1>a DEF SaveCleaned, TypeOK, RestTyped, durable
<1> QED BY <1>3, <1>4 DEF TypeOK, LocksTyped, RestTyped

LEMMA AddHostType == ASSUME TypeOK, NEW a \in Admins, AddHost(a) PROVE TypeOK'
<1>a. config' \in [Hosts -> Endpoints \cup {None}]
  BY NoneFacts, LifecycleAssumption DEF AddHost, TypeOK
<1>3. LocksTyped'
  <2>1. "done" \in PC /\ "failed" \in PC BY DEF PC, Start, Live, Close, Work, Ended
  <2> QED BY <2>1, NoneFacts, QuitType DEF AddHost
<1>4. RestTyped' BY <1>a DEF AddHost, TypeOK, RestTyped, durable
<1> QED BY <1>3, <1>4 DEF TypeOK, LocksTyped, RestTyped

LEMMA SyncResumeType == ASSUME TypeOK, NEW a \in Admins, SyncResume(a) PROVE TypeOK'
<1>a. sync' \in [Hosts -> [SyncIds -> {"unused", "running", "paused", "gone"}]]
  BY NoneFacts, SetSyncType DEF SyncResume, TypeOK
<1>3. LocksTyped'
  <2>1. "done" \in PC /\ "failed" \in PC BY DEF PC, Start, Live, Close, Work, Ended
  <2> QED BY <2>1, NoneFacts, QuitType DEF SyncResume
<1>4. RestTyped' BY <1>a DEF SyncResume, TypeOK, RestTyped, durable
<1> QED BY <1>3, <1>4 DEF TypeOK, LocksTyped, RestTyped

LEMMA CrashType == ASSUME TypeOK, NEW p \in Procs, Crash(p) PROVE TypeOK'
<1>3. LocksTyped'
  <2>1. "dead" \in PC BY DEF PC, Start, Live, Close, Work, Ended
  <2> QED BY <2>1, NoneFacts, QuitType DEF Crash
<1>4. RestTyped' BY DEF Crash, TypeOK, RestTyped, durable
<1> QED BY <1>3, <1>4 DEF TypeOK, LocksTyped, RestTyped

LEMMA RootVanishesType == ASSUME TypeOK, NEW h \in Hosts, RootVanishes(h) PROVE TypeOK'
<1>a. remote' \in [Hosts -> SUBSET (Endpoints \cup {None})]
  BY DEF RootVanishes, TypeOK
<1>3. LocksTyped'
  BY DEF RootVanishes, TypeOK, LocksTyped, locks, scanner
<1>4. RestTyped' BY <1>a DEF RootVanishes, TypeOK, RestTyped, durable
<1> QED BY <1>3, <1>4 DEF TypeOK, LocksTyped, RestTyped

LEMMA SyncVanishesType == ASSUME TypeOK, NEW h \in Hosts, SyncVanishes(h) PROVE TypeOK'
<1>a. sync' \in [Hosts -> [SyncIds -> {"unused", "running", "paused", "gone"}]]
  <2>1. \A i \in SyncIds : [sync[h] EXCEPT ![i] = "gone"]
          \in [SyncIds -> {"unused", "running", "paused", "gone"}]
    BY DEF TypeOK
  <2> QED BY <2>1 DEF SyncVanishes, Alive, TypeOK
<1>3. LocksTyped'
  BY DEF SyncVanishes, TypeOK, LocksTyped, locks, scanner
<1>4. RestTyped' BY <1>a DEF SyncVanishes, TypeOK, RestTyped, durable
<1> QED BY <1>3, <1>4 DEF TypeOK, LocksTyped, RestTyped

LEMMA RemoveHostType == ASSUME TypeOK, NEW p \in Procs, RemoveHost(p) PROVE TypeOK'
<1>a. config' \in [Hosts -> Endpoints \cup {None}]
  BY NoneFacts DEF RemoveHost, TypeOK
<1>3. LocksTyped'
  <2>1. "done" \in PC /\ "failed" \in PC BY DEF PC, Start, Live, Close, Work, Ended
  <2> QED BY <2>1, NoneFacts, QuitType DEF RemoveHost
<1>4. RestTyped' BY <1>a DEF RemoveHost, TypeOK, RestTyped, durable
<1> QED BY <1>3, <1>4 DEF TypeOK, LocksTyped, RestTyped

LEMMA RefuseEntryType == ASSUME TypeOK, NEW p \in Procs, NEW s \in Sessions, RefuseEntry(p, s) PROVE TypeOK'
<1>3. LocksTyped'
  <2>1. "failed" \in PC BY DEF PC, Start, Live, Close, Work, Ended
  <2> QED BY <2>1, NoneFacts, QuitType DEF RefuseEntry
<1>4. RestTyped' BY DEF RefuseEntry, TypeOK, RestTyped, durable
<1> QED BY <1>3, <1>4 DEF TypeOK, LocksTyped, RestTyped

LEMMA SkipEntryType == ASSUME TypeOK, NEW p \in Procs, NEW s \in Sessions, SkipEntry(p, s) PROVE TypeOK'
<1>3. LocksTyped'
  <2>1. todo' \in [Procs -> SUBSET Sessions]
    BY NoneFacts DEF SkipEntry, TypeOK
  <2> QED BY <2>1 DEF SkipEntry, TypeOK, LocksTyped, locks, scanner
<1>4. RestTyped' BY DEF SkipEntry, TypeOK, RestTyped, durable
<1> QED BY <1>3, <1>4 DEF TypeOK, LocksTyped, RestTyped

LEMMA CountEntryType == ASSUME TypeOK, NEW p \in Procs, NEW s \in Sessions, CountEntry(p, s) PROVE TypeOK'
<1>3. LocksTyped'
  <2>1. todo' \in [Procs -> SUBSET Sessions]
    BY NoneFacts DEF CountEntry, TypeOK
  <2>2. found' \in [Procs -> SUBSET Sessions]
    BY NoneFacts DEF CountEntry, TypeOK
  <2> QED BY <2>1, <2>2 DEF CountEntry, TypeOK, LocksTyped, locks, scanner
<1>4. RestTyped' BY DEF CountEntry, TypeOK, RestTyped, durable
<1> QED BY <1>3, <1>4 DEF TypeOK, LocksTyped, RestTyped

LEMMA ReadRecordsType == ASSUME TypeOK, NEW p \in Procs, ReadRecords(p) PROVE TypeOK'
<1>3. LocksTyped'
  <2>0. "idleScan" \in PC BY DEF PC, Start, Live, Close, Work, Ended
  <2>1. pc' \in [Procs -> PC]
    BY <2>0, NoneFacts, GotoType DEF ReadRecords, TypeOK
  <2>2. todo' \in [Procs -> SUBSET Sessions]
    BY NoneFacts DEF ReadRecords, TypeOK
  <2> QED BY <2>1, <2>2 DEF ReadRecords, TypeOK, LocksTyped, locks, scanner
<1>4. RestTyped' BY DEF ReadRecords, TypeOK, RestTyped, durable
<1> QED BY <1>3, <1>4 DEF TypeOK, LocksTyped, RestTyped

LEMMA OtherLeaseType == ASSUME TypeOK, NEW p \in Procs, NEW s \in Sessions, OtherLease(p, s) PROVE TypeOK'
<1>3. LocksTyped'
  <2>0. "unpublish" \in PC BY DEF PC, Start, Live, Close, Work, Ended
  <2>1. pc' \in [Procs -> PC]
    BY <2>0, NoneFacts, GotoType DEF OtherLease, TypeOK
  <2>2. todo' \in [Procs -> SUBSET Sessions]
    BY NoneFacts DEF OtherLease, TypeOK
  <2> QED BY <2>1, <2>2 DEF OtherLease, TypeOK, LocksTyped, locks, scanner
<1>4. RestTyped' BY DEF OtherLease, TypeOK, RestTyped, durable
<1> QED BY <1>3, <1>4 DEF TypeOK, LocksTyped, RestTyped

LEMMA ProbeLeaseType == ASSUME TypeOK, NEW p \in Procs, NEW s \in Sessions, ProbeLease(p, s) PROVE TypeOK'
<1>3. LocksTyped'
  <2>1. lease' \in [Sessions -> Procs \cup {None}]
    BY NoneFacts DEF ProbeLease, TypeOK
  <2>2. probing' \in [Procs -> Sessions \cup {None}]
    BY NoneFacts DEF ProbeLease, TypeOK
  <2> QED BY <2>1, <2>2 DEF ProbeLease, TypeOK, LocksTyped, locks, scanner
<1>4. RestTyped' BY DEF ProbeLease, TypeOK, RestTyped, durable
<1> QED BY <1>3, <1>4 DEF TypeOK, LocksTyped, RestTyped

LEMMA DropStaleType == ASSUME TypeOK, NEW p \in Procs, DropStale(p) PROVE TypeOK'
<1>a. record' \in [Sessions -> BOOLEAN]
  BY DEF DropStale, TypeOK
<1>3. LocksTyped'
  <2>1. lease' \in [Sessions -> Procs \cup {None}]
    BY NoneFacts DEF DropStale, TypeOK
  <2>2. todo' \in [Procs -> SUBSET Sessions]
    BY NoneFacts DEF DropStale, TypeOK
  <2>3. probing' \in [Procs -> Sessions \cup {None}]
    BY NoneFacts DEF DropStale, TypeOK
  <2> QED BY <2>1, <2>2, <2>3 DEF DropStale, TypeOK, LocksTyped, locks, scanner
<1>4. RestTyped' BY <1>a DEF DropStale, TypeOK, RestTyped, durable
<1> QED BY <1>3, <1>4 DEF TypeOK, LocksTyped, RestTyped

LEMMA AfterScanType == ASSUME TypeOK, NEW p \in Procs, AfterScan(p) PROVE TypeOK'
<1>a. signalled' \in [Sessions -> BOOLEAN]
  BY DEF AfterScan, TypeOK
<1>3. LocksTyped'
  <2>0. "pause" \in PC /\ "master" \in PC /\ "wait" \in PC /\ "quiet" \in PC BY DEF PC, Start, Live, Close, Work, Ended
  <2>1. pc' \in [Procs -> PC]
    BY <2>0, NoneFacts, GotoType DEF AfterScan, TypeOK
  <2>2. found' \in [Procs -> SUBSET Sessions]
    BY NoneFacts DEF AfterScan, TypeOK
  <2> QED BY <2>1, <2>2 DEF AfterScan, TypeOK, LocksTyped, locks, scanner
<1>4. RestTyped' BY <1>a DEF AfterScan, TypeOK, RestTyped, durable
<1> QED BY <1>3, <1>4 DEF TypeOK, LocksTyped, RestTyped

LEMMA EnterBarrierType == ASSUME TypeOK, NEW p \in Procs, EnterBarrier(p) PROVE TypeOK'
<1>3. LocksTyped'
  <2>0. "barrier" \in PC /\ "final" \in PC /\ "stopBarrier" \in PC /\ "cliBarrier" \in PC BY DEF PC, Start, Live, Close, Work, Ended
  <2>1. pc' \in [Procs -> PC]
    BY <2>0, NoneFacts, GotoType DEF EnterBarrier, TypeOK
  <2>2. wsLock' \in [Hosts -> Procs \cup {None}]
    BY NoneFacts DEF EnterBarrier, TypeOK
  <2> QED BY <2>1, <2>2 DEF EnterBarrier, TypeOK, LocksTyped, locks, scanner
<1>4. RestTyped' BY DEF EnterBarrier, TypeOK, RestTyped, durable
<1> QED BY <1>3, <1>4 DEF TypeOK, LocksTyped, RestTyped

LEMMA LockHostType == ASSUME TypeOK, NEW p \in Procs, LockHost(p) PROVE TypeOK'
<1>3. LocksTyped'
  <2>1. "scan" \in PC /\ "failed" \in PC BY DEF PC, Start, Ended
  <2>2. CASE Quit(p, "failed") BY <2>1, <2>2, QuitType
  <2>3. CASE ~Quit(p, "failed")
    <3>1. H(p) \in Hosts BY NoneFacts
    <3>2. pc' \in [Procs -> PC] BY <2>1, <2>3, GotoType DEF LockHost
    <3>3. hostLock' \in [Hosts -> Procs \cup {None}] BY ZenonT(60), <2>3, <3>1 DEF LockHost, TypeOK
    <3>4. todo' \in [Procs -> SUBSET Sessions] BY <2>3 DEF LockHost, TypeOK
    <3> QED BY <2>3, <3>2, <3>3, <3>4 DEF LockHost, TypeOK, LocksTyped
  <2> QED BY <2>2, <2>3
<1>4. RestTyped' BY DEF LockHost, TypeOK, RestTyped, durable
<1> QED BY <1>3, <1>4 DEF TypeOK, LocksTyped, RestTyped

LEMMA FlushType == ASSUME TypeOK, NEW p \in Procs, Flush(p) PROVE TypeOK'
<1>b. view' \in [Procs -> View]
  BY ForgetType DEF Flush, TypeOK
<1>3. LocksTyped'
  <2>1. "create" \in PC BY DEF PC, Start
  <2>2. AfterFlush(p) \in PC BY DEF Flush, AfterFlush, PC, Start, Live, Close, Work, Ended
  <2>3. CASE Goto(p, AfterFlush(p)) /\ UNCHANGED <<hostLock, lease, scanner>>
             /\ wsLock' \in {wsLock, [wsLock EXCEPT ![H(p)] = None]}
    <3>1. pc' \in [Procs -> PC] BY <2>2, <2>3, GotoType
    <3>2. wsLock' \in [Hosts -> Procs \cup {None}] BY <2>3 DEF TypeOK
    <3> QED BY <2>3, <3>1, <3>2 DEF TypeOK, LocksTyped, scanner
  <2>4. CASE Goto(p, "create") /\ UNCHANGED <<locks, scanner>> BY <2>1, <2>4, GotoType
  <2>5. CASE GiveUp(p) BY <2>5, GiveUpType
  <2> QED BY <2>3, <2>4, <2>5 DEF Flush
<1>4. RestTyped' BY <1>b DEF Flush, TypeOK, RestTyped, durable
<1> QED BY <1>3, <1>4 DEF TypeOK, LocksTyped, RestTyped

LEMMA SessionsGoneType == ASSUME TypeOK, NEW a \in Admins, SessionsGone(a) PROVE TypeOK'
<1>3. LocksTyped'
  <2>1. "quiet" \in PC /\ "failed" \in PC /\ a \in Procs BY NoneFacts DEF PC, Work, Ended
  <2>2. CASE Quit(a, "failed") BY <2>1, <2>2, QuitType
  <2>3. CASE ~Quit(a, "failed")
    <3>1. pc' \in [Procs -> PC] BY <2>1, <2>3, GotoType DEF SessionsGone
    <3>2. found' \in [Procs -> SUBSET Sessions] BY <2>3 DEF SessionsGone, TypeOK
    <3> QED BY <2>3, <3>1, <3>2 DEF SessionsGone, TypeOK, LocksTyped, locks
  <2> QED BY <2>2, <2>3
<1>4. RestTyped' BY DEF SessionsGone, TypeOK, RestTyped, durable
<1> QED BY <1>3, <1>4 DEF TypeOK, LocksTyped, RestTyped

LEMMA StepType == ASSUME TypeOK, NEW p \in Procs, Step(p) PROVE TypeOK'
<1>1. CASE Scan(p)
  BY <1>1, SkipEntryType, RefuseEntryType, CountEntryType, OtherLeaseType, ProbeLeaseType,
     ReadRecordsType, DropStaleType, AfterScanType, RemoveHostType DEF Scan
<1>2. CASE Mutagen(p) BY <1>2, ResumeType, FlushType, PauseType DEF Mutagen
<1>3. CASE p \in Sessions /\ SessionStep(p)
  BY <1>3, EnsureSyncType, ReplaceSyncType, CreateSyncType, SaveStateType, TakeLeaseType,
     PublishType, UnpublishType, DropLeaseType DEF SessionStep
<1>4. CASE p \in Admins /\ AdminStep(p)
  BY <1>4, SessionsGoneType, StopWithoutSyncType, CleanSyncType, RemoveRootType, SaveCleanedType,
     SyncResumeType DEF AdminStep
<1> QED BY <1>1, <1>2, <1>3, <1>4 DEF Step

\* The variables have their types in every reachable state: the identifiers, fingerprints and
\* locks that root.go and host_remove.go write are ones that exist, whatever fails.
THEOREM SessionTypeCorrect == Spec => []TypeOK
<1>1. Init => TypeOK
  <2>1. NoState \in State /\ NoView \in View BY DEF NoState, NoView, State, View, Fingerprints
  <2>2. "idle" \in PC BY DEF PC
  <2> QED BY <2>1, <2>2 DEF Init, TypeOK
<1>2. TypeOK /\ [Next]_vars => TypeOK'
  <2> SUFFICES ASSUME TypeOK, [Next]_vars PROVE TypeOK' OBVIOUS
  <2>1. ASSUME NEW p \in Procs, Step(p) PROVE TypeOK' BY <2>1, StepType
  <2>2. ASSUME NEW p \in Procs, Load(p) \/ LockHost(p) \/ EnterBarrier(p) \/ Crash(p) PROVE TypeOK'
    BY <2>2, LoadType, LockHostType, EnterBarrierType, CrashType
  <2>3. ASSUME NEW s \in Sessions, Finish(s) PROVE TypeOK' BY <2>3, FinishType
  <2>4. ASSUME NEW a \in Admins, AddHost(a) PROVE TypeOK' BY <2>4, AddHostType
  <2>5. ASSUME NEW h \in Hosts, RootVanishes(h) \/ SyncVanishes(h) PROVE TypeOK'
    BY <2>5, RootVanishesType, SyncVanishesType
  <2>6. CASE UNCHANGED vars BY <2>6 DEF vars, durable, locks, scanner, TypeOK
  <2> QED BY <2>1, <2>2, <2>3, <2>4, <2>5, <2>6 DEF Next, Terminated
<1> QED BY <1>1, <1>2, PTL DEF Spec

-----------------------------------------------------------------------------
(* HostUseInv is inductive, and under it every step is one of HostUse.     *)

Working == {a \in Admins : pc[a] \in Work}
HostUseStep == [HU!Next]_HU!vars
Kept == HostUseInv' /\ HostUseStep

\* A process may go from where it is to w without touching locks, records or scans.
Follows(p, w) ==
  /\ w \in Places(p)
  /\ w \in Start \cup Work \cup {"wait"} => HoldsHost(p)
  /\ w \in Start => pc[p] \in Start
  /\ w \in {"leased"} \cup Live \cup Close => pc[p] \in {"leased"} \cup Live \cup Close
  /\ w \in Live \cup (Close \ {"release"}) => AtWork(p)
  /\ w \in {"idle", "loaded"} \cup Start => pc[p] \in {"idle", "loaded"} \cup Start
  /\ w \in Work => pc[p] \in Work
  /\ w \notin {"scan", "wait"}

LEMMA SameUse ==
  ASSUME UNCHANGED <<Configured, LiveSessions, Working>> PROVE HostUseStep
BY DEF HostUseStep, HU!vars, Working

LEMMA JoinUse ==
  ASSUME NEW s \in Sessions, HostOf[s] \in Configured, \A a \in Working : HostOf[a] # HostOf[s],
         LiveSessions' = LiveSessions \cup {s}, UNCHANGED <<Configured, Working>>
  PROVE  HostUseStep
BY DEF HostUseStep, HU!Next, HU!Join, Working

LEMMA LeaveUse ==
  ASSUME NEW s \in Sessions, LiveSessions' = LiveSessions \ {s}, UNCHANGED <<Configured, Working>>
  PROVE  HostUseStep
BY DEF HostUseStep, HU!Next, HU!Leave, Working

LEMMA BeginUse ==
  ASSUME NEW a \in Admins, \A s \in LiveSessions : HostOf[s] # HostOf[a],
         Working' = Working \cup {a}, UNCHANGED <<Configured, LiveSessions>>
  PROVE  HostUseStep
BY DEF HostUseStep, HU!Next, HU!Begin, HU!InUse, Working

LEMMA EndUse ==
  ASSUME NEW a \in Admins, Working' = Working \ {a}, UNCHANGED <<Configured, LiveSessions>>
  PROVE  HostUseStep
BY DEF HostUseStep, HU!Next, HU!End, Working

LEMMA RegisterUse ==
  ASSUME NEW h \in Hosts, Configured' = Configured \cup {h}, UNCHANGED <<LiveSessions, Working>>
  PROVE  HostUseStep
BY DEF HostUseStep, HU!Next, HU!Register, Working

LEMMA RetireUse ==
  ASSUME NEW h \in Hosts, \A s \in LiveSessions : HostOf[s] # h,
         Configured' = Configured \ {h}, UNCHANGED <<LiveSessions, Working>>
  PROVE  HostUseStep
BY DEF HostUseStep, HU!Next, HU!Retire, HU!InUse, Working

\* Moving on.
LEMMA GotoKeeps ==
  ASSUME TypeOK, HostUseInv, NEW p \in Procs, NEW w, Goto(p, w), Follows(p, w),
         UNCHANGED <<config, hostLock, lease, record, probing>>,
         \A a \in Admins : todo'[a] = todo[a] /\ found'[a] = found[a]
  PROVE  Kept
<1>1. \A q \in Procs : pc'[q] = IF q = p THEN w ELSE pc[q] BY DEF Goto, TypeOK
<1>2. HostHeld' BY <1>1 DEF HostUseInv, HostHeld, HoldsHost, Follows, H
<1>3. Placed' BY <1>1 DEF HostUseInv, Placed, Follows, Places
<1>4. Started'
  <2> SUFFICES ASSUME NEW s \in Sessions
               PROVE  /\ pc'[s] \in Start => config[H(s)] # None
                      /\ pc'[s] \in {"leased"} \cup Live \cup Close => lease[s] = s
                      /\ pc'[s] \in Live \cup (Close \ {"release"}) => record[s]
                      /\ pc'[s] \in {"idle", "loaded"} \cup Start => ~record[s]
    BY DEF Started, AtWork, H
  <2>1. CASE s = p BY <1>1, <2>1, NoneFacts DEF HostUseInv, Started, AtWork, Follows
  <2>2. CASE s # p BY <1>1, <2>2, NoneFacts DEF HostUseInv, Started, AtWork
  <2> QED BY <2>1, <2>2
<1>5. ProbesOther' BY DEF HostUseInv, ProbesOther
<1>6. Seen'
  <2>1. LiveSessions' = LiveSessions BY DEF LiveSessions
  <2> QED BY <1>1, <2>1, NoneFacts DEF HostUseInv, Seen, Follows, H
<1>7. HostUseStep
  <2>1. UNCHANGED <<Configured, LiveSessions>> BY DEF Configured, LiveSessions
  <2>2. CASE p \in Admins /\ w \notin Work
    <3>1. Working' = Working \ {p} BY <1>1, <2>2, NoneFacts DEF Working
    <3> QED BY <2>1, <2>2, <3>1, EndUse
  <2>3. CASE p \notin Admins \/ w \in Work
    <3>1. Working' = Working BY <1>1, <2>3, NoneFacts DEF Working, Follows
    <3> QED BY <2>1, <3>1, SameUse
  <2> QED BY <2>2, <2>3
<1> QED BY <1>2, <1>3, <1>4, <1>5, <1>6, <1>7 DEF HostUseInv, Kept

\* Returning from the command, or being killed, whatever becomes of the configuration of hosts on
\* which no session starts.
LEMMA QuitKeeps ==
  ASSUME TypeOK, HostUseInv, NEW p \in Procs, NEW how \in Ended, Quit(p, how), UNCHANGED record,
         \A s \in Sessions : pc[s] \in Start => config'[H(s)] # None
  PROVE  HostUseInv'
<1>1. \A q \in Procs : pc'[q] = IF q = p THEN how ELSE pc[q] BY DEF Quit, Goto, TypeOK
<1>2. \A h \in Hosts : hostLock'[h] = IF hostLock[h] = p THEN None ELSE hostLock[h]
  BY DEF Quit, Dropped, TypeOK
<1>3. \A s \in Sessions : lease'[s] = IF lease[s] = p THEN None ELSE lease[s]
  BY DEF Quit, Dropped, TypeOK
<1>4. \A q \in Procs : /\ probing'[q] = IF q = p THEN None ELSE probing[q]
                       /\ todo'[q] = IF q = p THEN {} ELSE todo[q]
                       /\ found'[q] = IF q = p THEN {} ELSE found[q]
  BY DEF Quit, TypeOK
<1>5. how \notin Start \cup Live \cup Close \cup Work \cup {"scan", "wait", "leased", "idle", "loaded"}
  BY DEF Start, Live, Close, Work, Ended
<1>6. HostHeld'
  BY <1>1, <1>2, <1>5, NoneFacts DEF HostUseInv, HostHeld, HoldsHost, H
<1>7. Placed' BY <1>1 DEF HostUseInv, Placed, Places
<1>8. Started'
  <2> SUFFICES ASSUME NEW s \in Sessions
               PROVE  /\ pc'[s] \in Start => config'[H(s)] # None
                      /\ pc'[s] \in {"leased"} \cup Live \cup Close => lease'[s] = s
                      /\ pc'[s] \in Live \cup (Close \ {"release"}) => record[s]
                      /\ pc'[s] \in {"idle", "loaded"} \cup Start => ~record[s]
    BY DEF Started, AtWork, H
  <2>1. CASE s = p BY <1>1, <1>5, <2>1, NoneFacts
  <2>2. CASE s # p BY <1>1, <1>3, <2>2, NoneFacts DEF HostUseInv, Started, AtWork
  <2> QED BY <2>1, <2>2
<1>9. ProbesOther'
  <2> SUFFICES ASSUME NEW q \in Procs, probing'[q] # None
               PROVE  probing'[q] # q /\ lease'[probing'[q]] = q
    BY DEF ProbesOther
  <2>1. q # p /\ probing'[q] = probing[q] BY <1>4
  <2>2. probing[q] \in Sessions /\ probing[q] # q /\ lease[probing[q]] = q
    BY <2>1 DEF HostUseInv, ProbesOther, TypeOK
  <2> QED BY <1>3, <2>1, <2>2
<1>10. Seen'
  <2>1. \A s \in LiveSessions' : s \in LiveSessions BY <1>3, NoneFacts DEF LiveSessions
  <2> SUFFICES ASSUME NEW a \in Admins, NEW s \in LiveSessions', H(s) = H(a)
               PROVE  /\ pc'[a] = "scan" => s \in todo'[a] \cup found'[a]
                      /\ pc'[a] = "wait" => s \in found'[a]
                      /\ pc'[a] \notin Work
    BY DEF Seen, H
  <2>2. CASE a = p BY <1>1, <1>5, <2>2, NoneFacts
  <2>3. CASE a # p BY <1>1, <1>4, <2>1, <2>3, NoneFacts DEF HostUseInv, Seen
  <2> QED BY <2>2, <2>3
<1> QED BY <1>6, <1>7, <1>8, <1>9, <1>10 DEF HostUseInv

\* Nothing HostUseInv looks at changes.
LEMMA StayKeeps ==
  ASSUME HostUseInv, UNCHANGED <<config, hostLock, lease, record, scanner, pc>>
  PROVE  Kept
<1>1. HostUseInv'
  BY DEF HostUseInv, HostHeld, HoldsHost, Placed, Places, Started, AtWork, ProbesOther, Seen,
         LiveSessions, scanner, H
<1>2. UNCHANGED <<Configured, LiveSessions, Working>> BY DEF Configured, LiveSessions, Working
<1> QED BY <1>1, <1>2, SameUse DEF Kept

LEMMA QuitHere ==
  ASSUME TypeOK, HostUseInv, NEW p \in Procs, NEW how \in Ended, Quit(p, how),
         UNCHANGED <<config, record>>
  PROVE  Kept
<1>1. \A s \in Sessions : pc[s] \in Start => config'[H(s)] # None BY DEF HostUseInv, Started
<1>2. HostUseInv' BY <1>1, QuitKeeps
<1>3. HostUseStep
  <2>1. UNCHANGED Configured BY DEF Configured
  <2>2. \A q \in Procs : pc'[q] = IF q = p THEN how ELSE pc[q] BY DEF Quit, Goto, TypeOK
  <2>3. \A s \in Sessions : lease'[s] = IF lease[s] = p THEN None ELSE lease[s]
    BY DEF Quit, Dropped, TypeOK
  <2>4. how \notin Work BY DEF Work, Ended
  <2>5. CASE p \in Admins
    <3>1. UNCHANGED LiveSessions BY <2>3, <2>5, NoneFacts, LifecycleAssumption DEF LiveSessions
    <3>2. Working' = Working \ {p} BY <2>2, <2>4, <2>5, NoneFacts DEF Working
    <3> QED BY <2>1, <2>5, <3>1, <3>2, EndUse
  <2>6. CASE p \in Sessions
    <3>1. LiveSessions' = LiveSessions \ {p} BY <2>3, <2>6, NoneFacts DEF LiveSessions
    <3>2. UNCHANGED Working BY <2>2, <2>6, NoneFacts, LifecycleAssumption DEF Working
    <3> QED BY <2>1, <2>6, <3>1, <3>2, LeaveUse
  <2> QED BY <2>5, <2>6 DEF Procs
<1> QED BY <1>2, <1>3 DEF Kept

LEMMA StepOn ==
  ASSUME TypeOK, HostUseInv, NEW p \in Procs, NEW w, Goto(p, w), Follows(p, w),
         UNCHANGED <<config, hostLock, lease, record, scanner>>
  PROVE  Kept
BY GotoKeeps DEF scanner

\* Which command a process is, told from where it is.
LEMMA SessionAt ==
  ASSUME HostUseInv, NEW p \in Procs, pc[p] \in (Start \ {"scan"}) \cup Live \cup Close
  PROVE  p \in Sessions /\ Places(p) = {"idle", "loaded"} \cup Start \cup Live \cup Close \cup Ended
<1>1. pc[p] \notin {"idle", "loaded", "scan", "wait", "cliBarrier", "cliFlush"} \cup Work \cup Ended
  BY DEF Start, Live, Close, Work, Ended
<1>2. p \notin Admins => p \in Sessions BY DEF Procs
<1> QED BY <1>1, <1>2 DEF HostUseInv, Placed, Places

LEMMA StoppingAt ==
  ASSUME HostUseInv, NEW p \in Procs, pc[p] \in Work \cup {"wait"}
  PROVE  p \in Admins /\ Places(p) = {"idle", "loaded", "scan", "wait"} \cup Work \cup Ended
<1>1. pc[p] \notin {"idle", "loaded", "scan", "cliBarrier", "cliFlush"} \cup Start \cup Live \cup Close \cup Ended
  BY DEF Start, Live, Close, Work, Ended
<1>2. p \notin Sessions => p \in Admins BY DEF Procs
<1> QED BY <1>1, <1>2 DEF HostUseInv, Placed, Places

LEMMA GiveUpKeeps ==
  ASSUME TypeOK, HostUseInv, NEW p \in Procs, GiveUp(p), UNCHANGED <<config, record>>
  PROVE  Kept
<1>1. CASE pc[p] \in {"barrier", "barrierFlush"}
  <2>1. Follows(p, "running")
    BY <1>1, SessionAt DEF Follows, HoldsHost, AtWork, Start, Live, Close, Work, Ended
  <2> QED BY <1>1, <2>1, StepOn DEF GiveUp, LeaveWorkspace
<1>2. CASE pc[p] \in {"final", "finalFlush"}
  <2>1. Follows(p, "unpublish")
    BY <1>2, SessionAt DEF Follows, HoldsHost, AtWork, Start, Live, Close, Work, Ended
  <2> QED BY <1>2, <2>1, StepOn DEF GiveUp, LeaveWorkspace
<1>3. CASE pc[p] \notin {"barrier", "barrierFlush", "final", "finalFlush"}
  <2>1. "failed" \in Ended BY DEF Ended
  <2> QED BY <1>3, <2>1, QuitHere DEF GiveUp
<1> QED BY <1>1, <1>2, <1>3

LEMMA ResumeKeeps == ASSUME TypeOK, HostUseInv, NEW p \in Procs, Resume(p) PROVE Kept
<1>1. UNCHANGED <<config, record>> BY DEF Resume
<1>2. CASE GiveUp(p) BY <1>1, <1>2, GiveUpKeeps
<1>3. CASE Goto(p, "create") /\ pc[p] \in {"resume", "replace"} /\ UNCHANGED <<locks, scanner>>
  <2>1. Follows(p, "create")
    BY <1>3, SessionAt DEF Follows, HoldsHost, AtWork, Start, Live, Close, Work, Ended
  <2> QED BY <1>1, <1>3, <2>1, StepOn DEF locks
<1>4. CASE Goto(p, AfterResume[pc[p]]) /\ pc[p] \in DOMAIN AfterResume /\ UNCHANGED <<locks, scanner>>
  <2>1. Follows(p, AfterResume[pc[p]])
    <3>1. CASE pc[p] \in {"resume", "replace", "firstResume"}
      <4>1. AfterResume[pc[p]] \in {"flush", "replaceFlush", "firstFlush"} BY <3>1 DEF AfterResume
      <4> QED BY <3>1, <4>1, SessionAt DEF Follows, HoldsHost, AtWork, Start, Live, Close, Work, Ended
    <3>4. CASE pc[p] \in {"barrier", "final"}
      <4>1. AfterResume[pc[p]] \in {"barrierFlush", "finalFlush"} BY <3>4 DEF AfterResume
      <4> QED BY <3>4, <4>1, SessionAt DEF Follows, HoldsHost, AtWork, Start, Live, Close, Work, Ended
    <3>2. CASE pc[p] = "stopBarrier"
      <4>1. AfterResume[pc[p]] = "stopFlush" BY <3>2 DEF AfterResume
      <4> QED BY <3>2, <4>1, StoppingAt DEF Follows, HoldsHost, AtWork, Start, Live, Close, Work, Ended
    <3>3. CASE pc[p] = "cliBarrier"
      <4>1. AfterResume[pc[p]] = "cliFlush" BY <3>3 DEF AfterResume
      <4>2. "cliFlush" \in Places(p)
        BY <3>3 DEF HostUseInv, Placed, Places, Start, Live, Close, Work, Ended
      <4> QED BY <4>1, <4>2 DEF Follows, Start, Live, Close, Work
    <3> QED BY <1>4, <3>1, <3>2, <3>3, <3>4, ResumeDomain
  <2> QED BY <1>1, <1>4, <2>1, StepOn DEF locks
<1> QED BY <1>2, <1>3, <1>4 DEF Resume

LEMMA FlushKeeps == ASSUME TypeOK, HostUseInv, NEW p \in Procs, Flush(p) PROVE Kept
<1>1. UNCHANGED <<config, record>> BY DEF Flush, durable
<1>2. CASE GiveUp(p) BY <1>1, <1>2, GiveUpKeeps
<1>3. CASE Goto(p, "create") /\ pc[p] = "flush" /\ UNCHANGED <<locks, scanner>>
  <2>1. Follows(p, "create")
    BY <1>3, SessionAt DEF Follows, HoldsHost, AtWork, Start, Live, Close, Work, Ended
  <2> QED BY <1>1, <1>3, <2>1, StepOn DEF locks
<1>4. CASE Goto(p, AfterFlush(p)) /\ UNCHANGED <<hostLock, lease, scanner>>
  <2>1. CASE pc[p] \in {"flush", "firstFlush", "replaceFlush"}
    <3>1. AfterFlush(p) \in {"save", "terminate"} BY <2>1 DEF AfterFlush
    <3>2. Follows(p, AfterFlush(p))
      BY <2>1, <3>1, SessionAt DEF Follows, HoldsHost, AtWork, Start, Live, Close, Work, Ended
    <3> QED BY <1>1, <1>4, <3>2, StepOn
  <2>2. CASE pc[p] \in {"barrierFlush", "finalFlush"}
    <3>1. AfterFlush(p) \in {"running", "others", "unpublish"} BY <2>2 DEF AfterFlush
    <3>2. Follows(p, AfterFlush(p))
      BY <2>2, <3>1, SessionAt DEF Follows, HoldsHost, AtWork, Start, Live, Close, Work, Ended
    <3> QED BY <1>1, <1>4, <3>2, StepOn
  <2>3. CASE pc[p] = "stopFlush"
    <3>1. AfterFlush(p) = "stopPause" BY <2>3 DEF AfterFlush
    <3>2. Follows(p, "stopPause")
      BY <2>3, StoppingAt DEF Follows, HoldsHost, AtWork, Start, Live, Close, Work, Ended
    <3> QED BY <1>1, <1>4, <3>1, <3>2, StepOn
  <2>4. CASE pc[p] = "cliFlush"
    <3>1. AfterFlush(p) = "done" BY <2>4 DEF AfterFlush
    <3>2. Follows(p, "done")
      BY DEF Follows, Places, Start, Live, Close, Work, Ended
    <3> QED BY <1>1, <1>4, <3>1, <3>2, StepOn
  <2> QED BY <2>1, <2>2, <2>3, <2>4 DEF Flush
<1> QED BY <1>2, <1>3, <1>4 DEF Flush

LEMMA PauseKeeps == ASSUME TypeOK, HostUseInv, NEW p \in Procs, Pause(p) PROVE Kept
<1>1. UNCHANGED <<config, record>> BY DEF Pause
<1>2. CASE pc[p] = "pause"
  <2>1. Follows(p, "unpublish")
    BY <1>2, SessionAt DEF Follows, HoldsHost, AtWork, Start, Live, Close, Work, Ended
  <2> QED BY <1>1, <1>2, <2>1, StepOn DEF Pause, locks
<1>3. CASE pc[p] # "pause"
  <2>1. {"done", "failed"} \subseteq Ended BY DEF Ended
  <2> QED BY <1>1, <1>3, <2>1, QuitHere DEF Pause
<1> QED BY <1>2, <1>3

LEMMA LoadKeeps == ASSUME TypeOK, HostUseInv, NEW p \in Procs, Load(p) PROVE Kept
<1>1. UNCHANGED <<config, record, hostLock, lease, scanner>> BY DEF Load, durable, locks
<1>2. Follows(p, "loaded") /\ Follows(p, "failed")
  <2>1. "failed" \in Places(p) BY DEF Places, Ended
  <2>2. "loaded" \in Places(p) BY DEF Places, Load, KindOf
  <2> QED BY <2>1, <2>2 DEF Load, Follows, Start, Live, Close, Work
<1> QED BY <1>1, <1>2, StepOn DEF Load

LEMMA EnterBarrierKeeps == ASSUME TypeOK, HostUseInv, NEW p \in Procs, EnterBarrier(p) PROVE Kept
<1>1. UNCHANGED <<config, record, hostLock, lease, scanner>> BY DEF EnterBarrier, durable
<1>2. CASE pc[p] = "running" /\ Goto(p, "barrier")
  <2>1. Follows(p, "barrier")
    BY <1>2, SessionAt DEF Follows, HoldsHost, AtWork, Start, Live, Close, Work, Ended
  <2> QED BY <1>1, <1>2, <2>1, StepOn
<1>3. CASE pc[p] = "closing" /\ Goto(p, "final")
  <2>1. Follows(p, "final")
    BY <1>3, SessionAt DEF Follows, HoldsHost, AtWork, Start, Live, Close, Work, Ended
  <2> QED BY <1>1, <1>3, <2>1, StepOn
<1>4. CASE pc[p] = "quiet" /\ Goto(p, "stopBarrier")
  <2>1. Follows(p, "stopBarrier")
    BY <1>4, StoppingAt DEF Follows, HoldsHost, AtWork, Start, Live, Close, Work, Ended
  <2> QED BY <1>1, <1>4, <2>1, StepOn
<1>5. CASE pc[p] = "loaded" /\ KindOf(p) = "sync" /\ Goto(p, "cliBarrier")
  <2>1. "cliBarrier" \in Places(p) BY <1>5 DEF Places, KindOf, Stopping, Removing
  <2>2. Follows(p, "cliBarrier") BY <2>1 DEF Follows, Start, Live, Close, Work
  <2> QED BY <1>1, <1>5, <2>2, StepOn
<1> QED BY <1>2, <1>3, <1>4, <1>5 DEF EnterBarrier

LEMMA StartKeeps ==
  ASSUME TypeOK, HostUseInv, NEW s \in Sessions,
         EnsureSync(s) \/ ReplaceSync(s) \/ CreateSync(s) \/ SaveState(s)
  PROVE  Kept
<1>1. UNCHANGED <<config, record>> /\ s \in Procs
  BY NoneFacts DEF EnsureSync, ReplaceSync, CreateSync, SaveState
<1>2. CASE Quit(s, "failed") BY <1>1, <1>2, QuitHere DEF Ended
<1>3. CASE ~Quit(s, "failed")
  <2>1. pc[s] \in {"master", "terminate", "create", "save"} /\ UNCHANGED <<hostLock, lease, scanner>>
    BY <1>3 DEF EnsureSync, ReplaceSync, CreateSync, SaveState, LeaveWorkspace, locks
  <2>2. PICK w \in {"create", "resume", "replace", "firstResume", "agent"} : Goto(s, w)
    BY <1>3 DEF EnsureSync, ReplaceSync, CreateSync, SaveState, LeaveWorkspace
  <2>3. Follows(s, w)
    BY <1>1, <2>1, SessionAt DEF Follows, HoldsHost, AtWork, Start, Live, Close, Work, Ended
  <2> QED BY <1>1, <2>1, <2>2, <2>3, StepOn
<1> QED BY <1>2, <1>3

LEMMA FinishKeeps == ASSUME TypeOK, HostUseInv, NEW s \in Sessions, Finish(s) PROVE Kept
<1>1. UNCHANGED <<config, record, hostLock, lease, scanner>> /\ s \in Procs
  BY NoneFacts DEF Finish, durable, locks
<1>2. Follows(s, "closing")
  BY <1>1, SessionAt DEF Finish, Follows, HoldsHost, AtWork, Start, Live, Close, Work, Ended
<1> QED BY <1>1, <1>2, StepOn DEF Finish

\* The commands' work on a quiet host, and those that need none.
LEMMA WorkKeeps ==
  ASSUME TypeOK, HostUseInv, NEW a \in Admins,
         StopWithoutSync(a) \/ CleanSync(a) \/ RemoveRoot(a) \/ SaveCleaned(a) \/ SyncResume(a)
  PROVE  Kept
<1>1. UNCHANGED <<config, record>> /\ a \in Procs
  BY NoneFacts DEF StopWithoutSync, CleanSync, RemoveRoot, SaveCleaned, SyncResume, durable
<1>2. CASE Quit(a, "failed") \/ Quit(a, "done") BY <1>1, <1>2, QuitHere DEF Ended
<1>3. CASE ~Quit(a, "failed") /\ ~Quit(a, "done")
  <2>1. pc[a] \in {"quiet", "rm"} /\ UNCHANGED <<hostLock, lease, scanner>>
    BY <1>3 DEF StopWithoutSync, CleanSync, RemoveRoot, SaveCleaned, SyncResume, locks
  <2>2. PICK w \in {"rm", "saveKept", "saveGone"} : Goto(a, w)
    BY <1>3 DEF StopWithoutSync, CleanSync, RemoveRoot, SaveCleaned, SyncResume
  <2>3. Follows(a, w)
    BY <1>1, <2>1, StoppingAt DEF Follows, HoldsHost, AtWork, Start, Live, Close, Work, Ended
  <2> QED BY <1>1, <2>1, <2>2, <2>3, StepOn
<1> QED BY <1>2, <1>3

LEMMA DropLeaseKeeps == ASSUME TypeOK, HostUseInv, NEW s \in Sessions, DropLease(s) PROVE Kept
<1>1. UNCHANGED <<config, record>> /\ s \in Procs BY NoneFacts DEF DropLease, durable
<1> QED BY <1>1, QuitHere DEF DropLease, Ended

LEMMA CrashKeeps == ASSUME TypeOK, HostUseInv, NEW p \in Procs, Crash(p) PROVE Kept
<1>1. UNCHANGED <<config, record>> BY DEF Crash, durable
<1> QED BY <1>1, QuitHere DEF Crash, Ended

LEMMA RefuseEntryKeeps ==
  ASSUME TypeOK, HostUseInv, NEW p \in Procs, NEW s \in Sessions, RefuseEntry(p, s)
  PROVE  Kept
<1>1. UNCHANGED <<config, record>> BY DEF RefuseEntry, durable
<1> QED BY <1>1, QuitHere DEF RefuseEntry, Ended

LEMMA VanishKeeps ==
  ASSUME HostUseInv, NEW h \in Hosts, RootVanishes(h) \/ SyncVanishes(h) PROVE Kept
<1>1. UNCHANGED <<config, hostLock, lease, record, scanner, pc>>
  BY DEF RootVanishes, SyncVanishes, locks
<1> QED BY <1>1, StayKeeps

LEMMA AdminQuits ==
  ASSUME TypeOK, NEW a \in Admins, NEW how \in Ended, Quit(a, how), UNCHANGED record, pc[a] \notin Work
  PROVE  UNCHANGED <<LiveSessions, Working>>
<1>1. \A q \in Procs : pc'[q] = IF q = a THEN how ELSE pc[q] BY DEF Quit, Goto, TypeOK
<1>2. \A s \in Sessions : lease'[s] = IF lease[s] = a THEN None ELSE lease[s]
  BY DEF Quit, Dropped, TypeOK
<1>3. how \notin Work BY DEF Work, Ended
<1>4. UNCHANGED LiveSessions BY <1>2, NoneFacts, LifecycleAssumption DEF LiveSessions
<1>5. UNCHANGED Working BY <1>1, <1>3, NoneFacts DEF Working
<1> QED BY <1>4, <1>5

\* host remove holds the lock of its host, so no session is starting there; host add leaves every
\* host configured.
LEMMA RemoveHostKeeps == ASSUME TypeOK, HostUseInv, NEW p \in Procs, RemoveHost(p) PROVE Kept
<1>1. UNCHANGED record /\ {"done", "failed"} \subseteq Ended BY DEF RemoveHost, Ended
<1>2. p \notin Sessions /\ pc[p] = "scan"
  <2>1. p \notin Sessions BY DEF RemoveHost, KindOf, Removing
  <2>2. pc[p] # "idleScan" BY <2>1, SessionAt DEF Close
  <2> QED BY <2>1, <2>2 DEF RemoveHost, ScanOver, Scanning
<1>3. hostLock[H(p)] = p BY <1>2 DEF HostUseInv, HostHeld, HoldsHost, Start
<1>4. \A s \in Sessions : pc[s] \in Start => config'[H(s)] # None
  <2> SUFFICES ASSUME NEW s \in Sessions, pc[s] \in Start PROVE config'[H(s)] # None OBVIOUS
  <2>1. hostLock[H(s)] = s /\ config[H(s)] # None
    BY NoneFacts DEF HostUseInv, HostHeld, HoldsHost, Started
  <2>2. H(s) # H(p) /\ H(s) \in Hosts BY <1>2, <1>3, <2>1, NoneFacts
  <2> QED BY <2>1, <2>2, NoneFacts DEF RemoveHost, TypeOK
<1>5. HostUseInv' BY <1>1, <1>4, QuitKeeps DEF RemoveHost
<1>6. HostUseStep
  <2>1. UNCHANGED <<LiveSessions, Working>> BY <1>1, <1>2, AdminQuits DEF RemoveHost, Procs, Work
  <2>2. CASE UNCHANGED config BY <2>1, <2>2, SameUse DEF Configured
  <2>3. CASE config' = [config EXCEPT ![H(p)] = None] /\ found[p] = {}
    <3>1. \A s \in LiveSessions : HostOf[s] # H(p)
      BY <1>2, <2>3 DEF RemoveHost, ScanOver, HostUseInv, Seen, Procs, H
    <3>2. Configured' = Configured \ {H(p)} BY <2>3, NoneFacts DEF Configured, TypeOK
    <3> QED BY <2>1, <3>1, <3>2, NoneFacts, RetireUse
  <2> QED BY <2>2, <2>3 DEF RemoveHost
<1> QED BY <1>5, <1>6 DEF Kept

LEMMA AddHostKeeps == ASSUME TypeOK, HostUseInv, NEW a \in Admins, AddHost(a) PROVE Kept
<1>1. UNCHANGED record /\ {"done", "failed"} \subseteq Ended /\ a \in Procs
  BY NoneFacts DEF AddHost, Ended
<1>2. EndpointOf[a] # None BY LifecycleAssumption DEF Procs
<1>3. \A s \in Sessions : pc[s] \in Start => config'[H(s)] # None
  BY <1>2, NoneFacts DEF AddHost, TypeOK, HostUseInv, Started
<1>5. HostUseInv' BY <1>1, <1>3, QuitKeeps DEF AddHost
<1>6. HostUseStep
  <2>1. UNCHANGED <<LiveSessions, Working>> BY <1>1, AdminQuits DEF AddHost, Work
  <2>2. CASE UNCHANGED config BY <2>1, <2>2, SameUse DEF Configured
  <2>3. CASE config' = [config EXCEPT ![H(a)] = EndpointOf[a]]
    <3>1. Configured' = Configured \cup {H(a)}
      BY <1>1, <1>2, <2>3, NoneFacts DEF Configured, TypeOK
    <3> QED BY <1>1, <2>1, <3>1, NoneFacts, RegisterUse
  <2> QED BY <2>2, <2>3 DEF AddHost
<1> QED BY <1>5, <1>6 DEF Kept

\* The steps that take or give locks, publish records or scan them.

LEMMA LockHostKeeps == ASSUME TypeOK, HostUseInv, NEW p \in Procs, LockHost(p) PROVE Kept
<1>1. UNCHANGED <<config, record>> BY DEF LockHost, durable
<1>2. CASE Quit(p, "failed") BY <1>1, <1>2, QuitHere DEF Ended
<1>3. CASE ~Quit(p, "failed")
  <2>1. /\ Goto(p, "scan") /\ hostLock' = [hostLock EXCEPT ![H(p)] = p] /\ hostLock[H(p)] = None
        /\ todo' = [todo EXCEPT ![p] = {s \in Sessions : record[s]}]
        /\ UNCHANGED <<lease, found, probing>>
    BY <1>3 DEF LockHost
  <2>2. \A q \in Procs : pc'[q] = IF q = p THEN "scan" ELSE pc[q] BY <2>1 DEF Goto, TypeOK
  <2>3. pc[p] \in {"idle", "loaded"} BY DEF LockHost, NeedsHost
  <2>4. HostHeld' BY <2>1, <2>2, NoneFacts DEF HostUseInv, HostHeld, HoldsHost, H, TypeOK
  <2>5. Placed'
    <3>0. p \in Admins => Kind[p] \in Stopping \cup Removing \cup {"sync", "add"}
      BY LifecycleAssumption
    <3>1. "scan" \in Places(p)
      BY <3>0 DEF LockHost, NeedsHost, Places, KindOf, Procs, Start, Stopping, Removing
    <3> QED BY <2>2, <3>1 DEF HostUseInv, Placed, Places
  <2>6. Started'
    <3> SUFFICES ASSUME NEW s \in Sessions
                 PROVE  /\ pc'[s] \in Start => config[H(s)] # None
                        /\ pc'[s] \in {"leased"} \cup Live \cup Close => lease[s] = s
                        /\ pc'[s] \in Live \cup (Close \ {"release"}) => record[s]
                        /\ pc'[s] \in {"idle", "loaded"} \cup Start => ~record[s]
      BY <1>1, <2>1 DEF Started, AtWork, H
    <3>1. CASE s = p
      <4>1. ~record[s] BY <2>3, <3>1 DEF HostUseInv, Started
      <4>2. config[H(s)] # None BY <3>1, <1>3 DEF LockHost, KindOf
      <4> QED BY <2>2, <3>1, <4>1, <4>2, NoneFacts DEF Live, Close
    <3>2. CASE s # p BY <2>2, <3>2, NoneFacts DEF HostUseInv, Started, AtWork
    <3> QED BY <3>1, <3>2
  <2>7. ProbesOther' BY <2>1 DEF HostUseInv, ProbesOther
  <2>8. Seen'
    <3>1. LiveSessions' = LiveSessions BY <1>1, <2>1 DEF LiveSessions
    <3> SUFFICES ASSUME NEW a \in Admins, NEW s \in LiveSessions, H(s) = H(a)
                 PROVE  /\ pc'[a] = "scan" => s \in todo'[a] \cup found[a]
                        /\ pc'[a] = "wait" => s \in found[a]
                        /\ pc'[a] \notin Work
      BY <2>1, <3>1 DEF Seen, H
    <3>2. CASE a = p BY <2>1, <2>2, <3>2, NoneFacts DEF LiveSessions, Work, TypeOK
    <3>3. CASE a # p BY <2>1, <2>2, <3>3, NoneFacts DEF HostUseInv, Seen, TypeOK
    <3> QED BY <3>2, <3>3
  <2>9. HostUseStep
    <3>1. UNCHANGED <<Configured, LiveSessions>> BY <1>1, <2>1 DEF Configured, LiveSessions
    <3>2. UNCHANGED Working BY <2>2, <2>3, NoneFacts DEF Working, Work
    <3> QED BY <3>1, <3>2, SameUse
  <2> QED BY <2>4, <2>5, <2>6, <2>7, <2>8, <2>9 DEF HostUseInv, Kept
<1> QED BY <1>2, <1>3

\* Steps of a scan that leave pc, the locks, the leases and the records alone.
LEMMA ScanKeeps ==
  ASSUME TypeOK, HostUseInv, NEW p \in Procs, UNCHANGED <<config, hostLock, lease, record, pc, probing>>,
         \A a \in Admins : \A s \in LiveSessions : H(s) = H(a) =>
           /\ pc[a] = "scan" => s \in todo'[a] \cup found'[a]
           /\ pc[a] = "wait" => s \in found'[a]
  PROVE  Kept
<1>1. HostHeld' /\ Placed' /\ Started' /\ ProbesOther'
  BY DEF HostUseInv, HostHeld, HoldsHost, Placed, Places, Started, AtWork, ProbesOther, H
<1>2. LiveSessions' = LiveSessions BY DEF LiveSessions
<1>3. Seen' BY <1>2 DEF HostUseInv, Seen, H
<1>4. HostUseStep
  <2>1. UNCHANGED <<Configured, Working>> BY DEF Configured, Working
  <2> QED BY <1>2, <2>1, SameUse
<1> QED BY <1>1, <1>3, <1>4 DEF HostUseInv, Kept

LEMMA SkipEntryKeeps ==
  ASSUME TypeOK, HostUseInv, NEW p \in Procs, NEW s \in Sessions, SkipEntry(p, s) PROVE Kept
<1>1. UNCHANGED <<config, hostLock, lease, record, pc, probing, found>> BY DEF SkipEntry, durable, locks
<1>2. todo' = [todo EXCEPT ![p] = todo[p] \ {s}] BY DEF SkipEntry
<1>3. p \in Admins /\ pc[p] = "scan" /\ H(s) = H(p) => s \notin LiveSessions
  BY DEF SkipEntry, LiveSessions
<1>4. ASSUME NEW a \in Admins, NEW t \in LiveSessions, H(t) = H(a)
      PROVE  /\ pc[a] = "scan" => t \in todo'[a] \cup found'[a]
             /\ pc[a] = "wait" => t \in found'[a]
  <2>1. CASE a = p BY <1>1, <1>2, <1>3, <1>4, <2>1, NoneFacts DEF HostUseInv, Seen, TypeOK
  <2>2. CASE a # p BY <1>1, <1>2, <1>4, <2>2, NoneFacts DEF HostUseInv, Seen, TypeOK
  <2> QED BY <2>1, <2>2
<1> QED BY <1>1, <1>4, ScanKeeps

LEMMA CountEntryKeeps ==
  ASSUME TypeOK, HostUseInv, NEW p \in Procs, NEW s \in Sessions, CountEntry(p, s) PROVE Kept
<1>1. UNCHANGED <<config, hostLock, lease, record, pc, probing>> BY DEF CountEntry, durable, locks
<1>2. /\ todo' = [todo EXCEPT ![p] = todo[p] \ {s}]
      /\ found' = [found EXCEPT ![p] = found[p] \cup {s}]
  BY DEF CountEntry
<1>4. ASSUME NEW a \in Admins, NEW t \in LiveSessions, H(t) = H(a)
      PROVE  /\ pc[a] = "scan" => t \in todo'[a] \cup found'[a]
             /\ pc[a] = "wait" => t \in found'[a]
  <2>1. CASE a = p BY <1>2, <1>4, <2>1, NoneFacts DEF HostUseInv, Seen, TypeOK
  <2>2. CASE a # p BY <1>2, <1>4, <2>2, NoneFacts DEF HostUseInv, Seen, TypeOK
  <2> QED BY <2>1, <2>2
<1> QED BY <1>1, <1>4, ScanKeeps

\* hasOtherLease is a closing session's.
LEMMA OtherLeaseKeeps ==
  ASSUME TypeOK, HostUseInv, NEW p \in Procs,
         (\E s \in Sessions : OtherLease(p, s)) \/ ReadRecords(p)
  PROVE  Kept
<1>1. UNCHANGED <<config, hostLock, lease, record, probing, found>>
  BY DEF OtherLease, ReadRecords, durable, locks
<1>2. p \in Sessions /\ pc[p] \in {"others", "idleScan"}
  BY SessionAt DEF OtherLease, ReadRecords, Close
<1>3. PICK w \in {"idleScan", "unpublish"} : Goto(p, w) BY DEF OtherLease, ReadRecords
<1>4. Follows(p, w)
  BY <1>2, SessionAt DEF Follows, HoldsHost, AtWork, Start, Live, Close, Work, Ended
<1>5. \A a \in Admins : todo'[a] = todo[a]
  BY <1>2, LifecycleAssumption, NoneFacts DEF OtherLease, ReadRecords, TypeOK
<1> QED BY <1>1, <1>3, <1>4, <1>5, GotoKeeps

\* No session tests its own lease: while it may scan, either its record is not published or it
\* holds the lease.
LEMMA ProbeLeaseKeeps ==
  ASSUME TypeOK, HostUseInv, NEW p \in Procs, NEW s \in Sessions, ProbeLease(p, s) PROVE Kept
<1>1. /\ UNCHANGED <<config, hostLock, record, pc, todo, found>>
      /\ record[s] /\ lease[s] = None /\ pc[p] \in {"scan", "idleScan"} /\ probing[p] = None
  BY DEF ProbeLease, durable, Scanning
<1>2. p # s BY <1>1, NoneFacts DEF HostUseInv, Started, Start, Close
<1>3. /\ \A t \in Sessions : lease'[t] = IF t = s THEN p ELSE lease[t]
      /\ \A q \in Procs : probing'[q] = IF q = p THEN s ELSE probing[q]
  BY DEF ProbeLease, TypeOK
<1>4. HostHeld' /\ Placed' BY <1>1 DEF HostUseInv, HostHeld, HoldsHost, Placed, Places, H
<1>5. Started' BY <1>1, <1>3, NoneFacts DEF HostUseInv, Started, AtWork, H
<1>6. ProbesOther'
  <2> SUFFICES ASSUME NEW q \in Procs, probing'[q] # None
               PROVE  probing'[q] # q /\ lease'[probing'[q]] = q
    BY DEF ProbesOther
  <2>1. CASE q = p BY <1>2, <1>3, <2>1
  <2>2. CASE q # p
    <3>1. probing'[q] = probing[q] /\ probing[q] \in Sessions BY <1>3, <2>2 DEF TypeOK
    <3>2. probing[q] # q /\ lease[probing[q]] = q BY <3>1 DEF HostUseInv, ProbesOther
    <3>3. probing[q] # s BY <1>1, <3>2, NoneFacts
    <3> QED BY <1>3, <3>1, <3>2, <3>3
  <2> QED BY <2>1, <2>2
<1>7. Seen'
  <2>1. \A t \in LiveSessions' : t \in LiveSessions BY <1>1, <1>2, <1>3 DEF LiveSessions
  <2> QED BY <1>1, <2>1 DEF HostUseInv, Seen, H
<1>8. HostUseStep
  <2>1. UNCHANGED <<Configured, Working>> BY <1>1 DEF Configured, Working
  <2>2. UNCHANGED LiveSessions BY <1>1, <1>2, <1>3, NoneFacts DEF LiveSessions
  <2> QED BY <2>1, <2>2, SameUse
<1> QED BY <1>4, <1>5, <1>6, <1>7, <1>8 DEF HostUseInv, Kept

\* removeStaleSession takes away a record whose lease it holds: not that of a live session.
LEMMA DropStaleKeeps ==
  ASSUME TypeOK, HostUseInv, NEW p \in Procs, DropStale(p) PROVE Kept
<1> DEFINE x == probing[p]
<1>1. UNCHANGED <<config, hostLock, pc, found>> BY DEF DropStale, durable
<1>2. x \in Sessions /\ x # p /\ lease[x] = p
  BY DEF DropStale, HostUseInv, ProbesOther, TypeOK
<1>3. /\ \A t \in Sessions : lease'[t] = IF t = x THEN None ELSE lease[t]
      /\ \A t \in Sessions : t # x => record'[t] = record[t]
      /\ record'[x] => record[x]
      /\ \A q \in Procs : probing'[q] = IF q = p THEN None ELSE probing[q]
      /\ \A q \in Procs : todo'[q] = IF q = p THEN todo[p] \ {x} ELSE todo[q]
  BY <1>2 DEF DropStale, TypeOK
<1>4. HostHeld' /\ Placed' BY <1>1 DEF HostUseInv, HostHeld, HoldsHost, Placed, Places, H
<1>5. Started'
  <2> SUFFICES ASSUME NEW s \in Sessions
               PROVE  /\ pc[s] \in Start => config[H(s)] # None
                      /\ pc[s] \in {"leased"} \cup Live \cup Close => lease'[s] = s
                      /\ pc[s] \in Live \cup (Close \ {"release"}) => record'[s]
                      /\ pc[s] \in {"idle", "loaded"} \cup Start => ~record'[s]
    BY <1>1 DEF Started, AtWork, H
  <2>1. /\ pc[s] \in Start => config[H(s)] # None
        /\ pc[s] \in {"leased"} \cup Live \cup Close => lease[s] = s
        /\ pc[s] \in Live \cup (Close \ {"release"}) => record[s]
        /\ pc[s] \in {"idle", "loaded"} \cup Start => ~record[s]
    BY DEF HostUseInv, Started, AtWork
  <2>2. lease[s] = s => s # x BY <1>2
  <2> QED BY <1>3, <2>1, <2>2
<1>6. ProbesOther'
  <2> SUFFICES ASSUME NEW q \in Procs, probing'[q] # None
               PROVE  probing'[q] # q /\ lease'[probing'[q]] = q
    BY DEF ProbesOther
  <2>1. q # p /\ probing'[q] = probing[q] /\ probing[q] \in Sessions BY <1>3 DEF TypeOK
  <2>2. probing[q] # q /\ lease[probing[q]] = q BY <2>1 DEF HostUseInv, ProbesOther
  <2>3. probing[q] # x BY <1>2, <2>1, <2>2
  <2> QED BY <1>3, <2>1, <2>2, <2>3
<1>7. Seen'
  <2>1. \A t \in LiveSessions' : t \in LiveSessions /\ t # x
    BY <1>2, <1>3, NoneFacts DEF LiveSessions
  <2> SUFFICES ASSUME NEW a \in Admins, NEW s \in LiveSessions', H(s) = H(a)
               PROVE  /\ pc[a] = "scan" => s \in todo'[a] \cup found[a]
                      /\ pc[a] = "wait" => s \in found[a]
                      /\ pc[a] \notin Work
    BY <1>1 DEF Seen, H
  <2> QED BY <1>3, <2>1, NoneFacts DEF HostUseInv, Seen
<1>8. HostUseStep
  <2>1. UNCHANGED <<Configured, Working>> BY <1>1 DEF Configured, Working
  <2>2. UNCHANGED LiveSessions BY <1>2, <1>3, NoneFacts DEF LiveSessions
  <2> QED BY <2>1, <2>2, SameUse
<1> QED BY <1>4, <1>5, <1>6, <1>7, <1>8 DEF HostUseInv, Kept

\* A scan that found nobody has looked at every record.
LEMMA AfterScanKeeps == ASSUME TypeOK, HostUseInv, NEW p \in Procs, AfterScan(p) PROVE Kept
<1>1. UNCHANGED <<config, hostLock, lease, record, todo, probing>> /\ todo[p] = {}
  BY DEF AfterScan, ScanOver, durable, locks
<1>2. CASE p \in Sessions
  <2>1. pc[p] \in {"scan", "idleScan"} /\ UNCHANGED todo
    BY DEF AfterScan, ScanOver, Scanning
  <2>2. PICK w \in {"master", "pause"} : Goto(p, w) /\ (pc[p] = "scan" => w = "master")
                                         /\ (pc[p] = "idleScan" => w = "pause")
    BY <1>2, <2>1 DEF AfterScan, KindOf
  <2>3. Follows(p, w)
    BY <1>2, <2>1, <2>2 DEF Follows, Places, HoldsHost, AtWork, Start, Live, Close, Work, Ended
  <2>4. \A a \in Admins : found'[a] = found[a]
    BY <1>2, LifecycleAssumption, NoneFacts DEF AfterScan, TypeOK
  <2> QED BY <1>1, <2>2, <2>3, <2>4, GotoKeeps
<1>3. CASE p \notin Sessions
  <2>1. p \in Admins /\ pc[p] = "scan"
    <3>1. pc[p] # "idleScan" BY <1>3, SessionAt DEF Close
    <3> QED BY <1>3, <3>1 DEF AfterScan, ScanOver, Scanning, Procs
  <2>2. KindOf(p) # "session" BY <2>1, <1>3, LifecycleAssumption DEF KindOf, Stopping, Removing
  <2>3. PICK w \in {"wait", "quiet"} :
          /\ Goto(p, w)
          /\ w = "wait" => found' = found
          /\ w = "quiet" => found[p] = {} \/ KindOf(p) \notin Stopping
    BY <2>1, <2>2 DEF AfterScan
  <2>4. Kind[p] \in Stopping
    <3>1. Kind[p] \notin Removing BY <1>3 DEF AfterScan, KindOf
    <3> QED BY <1>3, <2>1, <3>1 DEF HostUseInv, Placed, Places, Start, Live, Close, Work, Ended
  <2>5. \A q \in Procs : pc'[q] = IF q = p THEN w ELSE pc[q] BY <2>3 DEF Goto, TypeOK
  <2>6. HostHeld'
    BY <1>1, <2>1, <2>5 DEF HostUseInv, HostHeld, HoldsHost, Start, H
  <2>7. Placed'
    <3>1. w \in Places(p) BY <1>3, <2>4 DEF Places, Work, Stopping, Removing
    <3> QED BY <2>5, <3>1 DEF HostUseInv, Placed, Places
  <2>8. Started' BY <1>1, <1>3, <2>5, NoneFacts DEF HostUseInv, Started, AtWork, H
  <2>9. ProbesOther' BY <1>1 DEF HostUseInv, ProbesOther
  <2>10. Seen'
    <3>1. LiveSessions' = LiveSessions BY <1>1 DEF LiveSessions
    <3> SUFFICES ASSUME NEW a \in Admins, NEW s \in LiveSessions, H(s) = H(a)
                 PROVE  /\ pc'[a] = "scan" => s \in todo[a] \cup found'[a]
                        /\ pc'[a] = "wait" => s \in found'[a]
                        /\ pc'[a] \notin Work
      BY <1>1, <3>1 DEF Seen, H
    <3>2. CASE a = p
      <4>1. s \in found[p] BY <1>1, <2>1, <3>2 DEF HostUseInv, Seen
      <4>2. w = "wait" BY <1>3, <2>3, <2>4, <4>1 DEF KindOf
      <4> QED BY <2>3, <2>5, <3>2, <4>1, <4>2, NoneFacts DEF Work
    <3>3. CASE a # p
      <4>1. found'[a] = found[a] BY <3>3, NoneFacts DEF AfterScan, TypeOK
      <4> QED BY <2>5, <3>3, <4>1, NoneFacts DEF HostUseInv, Seen
    <3> QED BY <3>2, <3>3
  <2>11. HostUseStep
    <3>1. UNCHANGED <<Configured, LiveSessions>> BY <1>1 DEF Configured, LiveSessions
    <3>2. CASE w = "wait"
      <4>1. UNCHANGED Working BY <2>1, <2>5, <3>2, NoneFacts DEF Working, Work
      <4> QED BY <3>1, <4>1, SameUse
    <3>3. CASE w = "quiet"
      <4>1. Working' = Working \cup {p} BY <2>1, <2>5, <3>3, NoneFacts DEF Working, Work
      <4>2. \A s \in LiveSessions : HostOf[s] # HostOf[p]
        BY <1>1, <1>3, <2>1, <2>3, <2>4, <3>3 DEF HostUseInv, Seen, KindOf, H
      <4> QED BY <2>1, <3>1, <4>1, <4>2, BeginUse
    <3> QED BY <3>2, <3>3
  <2> QED BY <2>6, <2>7, <2>8, <2>9, <2>10, <2>11 DEF HostUseInv, Kept
<1> QED BY <1>2, <1>3

\* stop and clean waited for every session they found.
LEMMA SessionsGoneKeeps ==
  ASSUME TypeOK, HostUseInv, NEW a \in Admins, SessionsGone(a) PROVE Kept
<1>1. UNCHANGED <<config, record>> /\ a \in Procs /\ a \notin Sessions
  BY NoneFacts, LifecycleAssumption DEF SessionsGone, durable
<1>2. CASE Quit(a, "failed") BY <1>1, <1>2, QuitHere DEF Ended
<1>3. CASE ~Quit(a, "failed")
  <2>1. /\ pc[a] = "wait" /\ Goto(a, "quiet") /\ \A s \in found[a] : ~record[s]
        /\ UNCHANGED <<hostLock, lease, todo, probing>>
    BY <1>3 DEF SessionsGone, locks
  <2>2. \A q \in Procs : pc'[q] = IF q = a THEN "quiet" ELSE pc[q] BY <2>1 DEF Goto, TypeOK
  <2>3. HostHeld' BY <2>1, <2>2 DEF HostUseInv, HostHeld, HoldsHost, H
  <2>4. Placed'
    <3>1. "quiet" \in Places(a) BY <1>1, <2>1, StoppingAt DEF Work
    <3> QED BY <2>2, <3>1 DEF HostUseInv, Placed, Places
  <2>5. Started' BY <1>1, <2>1, <2>2, NoneFacts DEF HostUseInv, Started, AtWork, H
  <2>6. ProbesOther' BY <2>1 DEF HostUseInv, ProbesOther
  <2>7. Seen'
    <3>1. LiveSessions' = LiveSessions BY <1>1, <2>1 DEF LiveSessions
    <3> SUFFICES ASSUME NEW b \in Admins, NEW s \in LiveSessions, H(s) = H(b)
                 PROVE  /\ pc'[b] = "scan" => s \in todo[b] \cup found'[b]
                        /\ pc'[b] = "wait" => s \in found'[b]
                        /\ pc'[b] \notin Work
      BY <2>1, <3>1 DEF Seen, H
    <3>2. b # a
      <4>1. b = a => s \in found[a] BY <2>1 DEF HostUseInv, Seen
      <4> QED BY <2>1, <4>1 DEF LiveSessions
    <3>3. found'[b] = found[b] BY <1>3, <3>2, NoneFacts DEF SessionsGone, TypeOK
    <3> QED BY <2>2, <3>2, <3>3, NoneFacts DEF HostUseInv, Seen
  <2>8. HostUseStep
    <3>1. UNCHANGED <<Configured, LiveSessions>> BY <1>1, <2>1 DEF Configured, LiveSessions
    <3>2. Working' = Working \cup {a} BY <2>2, NoneFacts DEF Working, Work
    <3>3. \A s \in LiveSessions : HostOf[s] # HostOf[a]
      BY <2>1 DEF HostUseInv, Seen, LiveSessions, H
    <3> QED BY <3>1, <3>2, <3>3, BeginUse
  <2> QED BY <2>3, <2>4, <2>5, <2>6, <2>7, <2>8 DEF HostUseInv, Kept
<1> QED BY <1>2, <1>3

LEMMA TakeLeaseKeeps == ASSUME TypeOK, HostUseInv, NEW s \in Sessions, TakeLease(s) PROVE Kept
<1>1. UNCHANGED <<config, record>> /\ s \in Procs BY NoneFacts DEF TakeLease, durable
<1>2. CASE Quit(s, "failed") BY <1>1, <1>2, QuitHere DEF Ended
<1>3. CASE ~Quit(s, "failed")
  <2>1. /\ pc[s] = "agent" /\ lease[s] = None /\ Goto(s, "leased")
        /\ lease' = [lease EXCEPT ![s] = s]
        /\ UNCHANGED <<hostLock, scanner>>
    BY <1>3 DEF TakeLease
  <2>2. /\ \A q \in Procs : pc'[q] = IF q = s THEN "leased" ELSE pc[q]
        /\ \A t \in Sessions : lease'[t] = IF t = s THEN s ELSE lease[t]
    BY <2>1 DEF Goto, TypeOK
  <2>3. "agent" \in Start /\ "leased" \in Start /\ ~record[s]
    BY <2>1 DEF HostUseInv, Started, Start
  <2>4. HostHeld' BY <2>1, <2>2, <2>3 DEF HostUseInv, HostHeld, HoldsHost, H
  <2>5. Placed' BY <2>2, <2>3 DEF HostUseInv, Placed, Places
  <2>6. Started'
    <3> SUFFICES ASSUME NEW t \in Sessions
                 PROVE  /\ pc'[t] \in Start => config[H(t)] # None
                        /\ pc'[t] \in {"leased"} \cup Live \cup Close => lease'[t] = t
                        /\ pc'[t] \in Live \cup (Close \ {"release"}) => record[t]
                        /\ pc'[t] \in {"idle", "loaded"} \cup Start => ~record[t]
      BY <1>1 DEF Started, AtWork, H
    <3>1. CASE t = s
      BY <1>1, <2>1, <2>2, <2>3, <3>1 DEF HostUseInv, Started, Live, Close
    <3>2. CASE t # s BY <2>2, <3>2, NoneFacts DEF HostUseInv, Started, AtWork
    <3> QED BY <3>1, <3>2
  <2>7. ProbesOther'
    <3> SUFFICES ASSUME NEW q \in Procs, probing[q] # None
                 PROVE  probing[q] # q /\ lease'[probing[q]] = q
      BY <2>1 DEF ProbesOther, scanner
    <3>1. probing[q] \in Sessions /\ probing[q] # q /\ lease[probing[q]] = q
      BY DEF HostUseInv, ProbesOther, TypeOK
    <3>2. probing[q] # s BY <2>1, <3>1, NoneFacts
    <3> QED BY <2>2, <3>1, <3>2
  <2>8. Seen'
    <3>1. \A t \in LiveSessions' : t \in LiveSessions BY <1>1, <2>2, <2>3 DEF LiveSessions
    <3>2. \A a \in Admins : pc'[a] = pc[a]
      BY <2>2, NoneFacts, LifecycleAssumption
    <3> QED BY <2>1, <3>1, <3>2 DEF HostUseInv, Seen, scanner, H
  <2>9. HostUseStep
    <3>1. UNCHANGED Configured BY <1>1 DEF Configured
    <3>2. UNCHANGED LiveSessions BY <1>1, <2>2, <2>3 DEF LiveSessions
    <3>3. UNCHANGED Working BY <2>2, NoneFacts, LifecycleAssumption DEF Working
    <3> QED BY <3>1, <3>2, <3>3, SameUse
  <2> QED BY <2>4, <2>5, <2>6, <2>7, <2>8, <2>9 DEF HostUseInv, Kept
<1> QED BY <1>2, <1>3

\* The record is published while the session still holds the lock of its host: nobody there scans,
\* waits or works.
LEMMA PublishKeeps == ASSUME TypeOK, HostUseInv, NEW s \in Sessions, Publish(s) PROVE Kept
<1>1. UNCHANGED config /\ s \in Procs /\ H(s) \in Hosts BY NoneFacts DEF Publish, durable
<1>2. CASE Quit(s, "failed") /\ UNCHANGED record BY <1>1, <1>2, QuitHere DEF Ended
<1>3. CASE ~(Quit(s, "failed") /\ UNCHANGED record)
  <2>1. /\ pc[s] = "leased" /\ Goto(s, "running")
        /\ record' = [record EXCEPT ![s] = TRUE]
        /\ hostLock' = [hostLock EXCEPT ![H(s)] = None]
        /\ UNCHANGED <<lease, scanner>>
    BY <1>3 DEF Publish
  <2>2. /\ \A q \in Procs : pc'[q] = IF q = s THEN "running" ELSE pc[q]
        /\ \A t \in Sessions : record'[t] = IF t = s THEN TRUE ELSE record[t]
        /\ \A h \in Hosts : hostLock'[h] = IF h = H(s) THEN None ELSE hostLock[h]
    BY <2>1 DEF Goto, TypeOK
  <2>3. hostLock[H(s)] = s /\ lease[s] = s
    BY <1>1, <2>1 DEF HostUseInv, HostHeld, HoldsHost, Started, Start
  <2>4. \A q \in Procs : q # s /\ HoldsHost(q) => H(q) # H(s)
    BY <2>3 DEF HostUseInv, HostHeld
  <2>5. "running" \notin Start \cup Work \cup {"wait", "idle", "loaded"} /\ "running" \in Live
    BY DEF Start, Work, Live
  <2>6. HostHeld'
    <3> SUFFICES ASSUME NEW q \in Procs, pc'[q] \in Start \cup Work \cup {"wait"}
                 PROVE  hostLock'[H(q)] = q
      BY DEF HostHeld, HoldsHost, H
    <3>1. q # s /\ HoldsHost(q) BY <2>2, <2>5 DEF HoldsHost
    <3> QED BY <2>2, <2>4, <3>1, NoneFacts DEF HostUseInv, HostHeld
  <2>7. Placed' BY <2>2, <2>5 DEF HostUseInv, Placed, Places
  <2>8. Started'
    <3> SUFFICES ASSUME NEW t \in Sessions
                 PROVE  /\ pc'[t] \in Start => config[H(t)] # None
                        /\ pc'[t] \in {"leased"} \cup Live \cup Close => lease[t] = t
                        /\ pc'[t] \in Live \cup (Close \ {"release"}) => record'[t]
                        /\ pc'[t] \in {"idle", "loaded"} \cup Start => ~record'[t]
      BY <1>1, <2>1 DEF Started, AtWork, H
    <3>1. CASE t = s BY <2>2, <2>3, <2>5, <3>1, NoneFacts
    <3>2. CASE t # s BY <2>2, <3>2, NoneFacts DEF HostUseInv, Started, AtWork
    <3> QED BY <3>1, <3>2
  <2>9. ProbesOther' BY <2>1 DEF HostUseInv, ProbesOther, scanner
  <2>10. Seen'
    <3> SUFFICES ASSUME NEW a \in Admins, NEW t \in LiveSessions', H(t) = H(a)
                 PROVE  /\ pc'[a] = "scan" => t \in todo[a] \cup found[a]
                        /\ pc'[a] = "wait" => t \in found[a]
                        /\ pc'[a] \notin Work
      BY <2>1 DEF Seen, scanner, H
    <3>1. a \in Procs /\ a # s /\ pc'[a] = pc[a] BY <2>2, NoneFacts, LifecycleAssumption
    <3>2. CASE t = s BY <2>4, <3>1, <3>2 DEF HoldsHost, Start
    <3>3. CASE t # s
      <4>1. t \in LiveSessions BY <2>1, <2>2, <3>3 DEF LiveSessions
      <4> QED BY <3>1, <4>1 DEF HostUseInv, Seen
    <3> QED BY <3>2, <3>3
  <2>11. HostUseStep
    <3>1. UNCHANGED Configured BY <1>1 DEF Configured
    <3>2. LiveSessions' = LiveSessions \cup {s}
      <4>1. \A t \in Sessions : record'[t] /\ lease'[t] = t <=> (record[t] /\ lease[t] = t) \/ t = s
        BY <2>1, <2>2, <2>3
      <4> QED BY <4>1 DEF LiveSessions
    <3>3. UNCHANGED Working BY <2>2, NoneFacts, LifecycleAssumption DEF Working
    <3>4. HostOf[s] \in Configured
      BY <1>1, <2>1 DEF HostUseInv, Started, Start, Configured, H
    <3>5. \A a \in Working : HostOf[a] # HostOf[s]
      BY <2>4, NoneFacts, LifecycleAssumption DEF Working, HoldsHost, H
    <3> QED BY <3>1, <3>2, <3>3, <3>4, <3>5, JoinUse
  <2> QED BY <2>6, <2>7, <2>8, <2>9, <2>10, <2>11 DEF HostUseInv, Kept
<1> QED BY <1>2, <1>3

LEMMA UnpublishKeeps == ASSUME TypeOK, HostUseInv, NEW s \in Sessions, Unpublish(s) PROVE Kept
<1>1. UNCHANGED <<config, hostLock, lease, scanner>> /\ s \in Procs /\ pc[s] = "unpublish"
  BY NoneFacts DEF Unpublish, durable, locks
<1>2. /\ \A q \in Procs : pc'[q] = IF q = s THEN "release" ELSE pc[q]
      /\ \A t \in Sessions : record'[t] = IF t = s THEN FALSE ELSE record[t]
  BY DEF Unpublish, Goto, TypeOK
<1>3. /\ "release" \in Close /\ "release" \notin Start \cup Live \cup Work \cup {"wait", "idle", "loaded"}
      /\ "unpublish" \in Close
  BY DEF Start, Live, Close, Work
<1>4. HostHeld' BY <1>1, <1>2, <1>3 DEF HostUseInv, HostHeld, HoldsHost, H
<1>5. Placed' BY <1>2, <1>3 DEF HostUseInv, Placed, Places
<1>6. Started'
  <2> SUFFICES ASSUME NEW t \in Sessions
               PROVE  /\ pc'[t] \in Start => config[H(t)] # None
                      /\ pc'[t] \in {"leased"} \cup Live \cup Close => lease[t] = t
                      /\ pc'[t] \in Live \cup (Close \ {"release"}) => record'[t]
                      /\ pc'[t] \in {"idle", "loaded"} \cup Start => ~record'[t]
    BY <1>1 DEF Started, AtWork, H
  <2>1. CASE t = s BY <1>1, <1>2, <1>3, <2>1, NoneFacts DEF HostUseInv, Started
  <2>2. CASE t # s BY <1>2, <2>2, NoneFacts DEF HostUseInv, Started, AtWork
  <2> QED BY <2>1, <2>2
<1>7. ProbesOther' BY <1>1 DEF HostUseInv, ProbesOther, scanner
<1>8. Seen'
  <2>1. \A t \in LiveSessions' : t \in LiveSessions BY <1>1, <1>2 DEF LiveSessions
  <2>2. \A a \in Admins : pc'[a] = pc[a] BY <1>2, NoneFacts, LifecycleAssumption
  <2> QED BY <1>1, <2>1, <2>2 DEF HostUseInv, Seen, scanner, H
<1>9. HostUseStep
  <2>1. UNCHANGED Configured BY <1>1 DEF Configured
  <2>2. LiveSessions' = LiveSessions \ {s} BY <1>1, <1>2 DEF LiveSessions
  <2>3. UNCHANGED Working BY <1>2, NoneFacts, LifecycleAssumption DEF Working
  <2> QED BY <2>1, <2>2, <2>3, LeaveUse
<1> QED BY <1>4, <1>5, <1>6, <1>7, <1>8, <1>9 DEF HostUseInv, Kept

LEMMA InitHostUse == Init => HostUseInv
<1> SUFFICES ASSUME Init PROVE HostUseInv OBVIOUS
<1>1. /\ \A p \in Procs : pc[p] = "idle" /\ probing[p] = None
      /\ \A s \in Sessions : ~record[s]
  BY DEF Init
<1>2. "idle" \notin Start \cup Live \cup Close \cup Work \cup {"scan", "wait", "leased"}
  BY DEF Start, Live, Close, Work
<1>3. HostHeld BY <1>1, <1>2 DEF HostHeld, HoldsHost
<1>4. Placed BY <1>1 DEF Placed, Places
<1>5. Started BY <1>1, <1>2, NoneFacts DEF Started, AtWork
<1>6. ProbesOther BY <1>1 DEF ProbesOther
<1>7. Seen BY <1>1 DEF Seen, LiveSessions
<1> QED BY <1>3, <1>4, <1>5, <1>6, <1>7 DEF HostUseInv

LEMMA NextKeeps == ASSUME TypeOK, HostUseInv, [Next]_vars PROVE Kept
<1>1. ASSUME NEW p \in Procs, Step(p) PROVE Kept
  <2>1. CASE Scan(p)
    BY <1>1, <2>1, SkipEntryKeeps, RefuseEntryKeeps, CountEntryKeeps, OtherLeaseKeeps,
       ProbeLeaseKeeps, DropStaleKeeps, AfterScanKeeps, RemoveHostKeeps DEF Scan
  <2>2. CASE Mutagen(p) BY <2>2, ResumeKeeps, FlushKeeps, PauseKeeps DEF Mutagen
  <2>3. CASE p \in Sessions /\ SessionStep(p)
    BY <2>3, StartKeeps, TakeLeaseKeeps, PublishKeeps, UnpublishKeeps, DropLeaseKeeps DEF SessionStep
  <2>4. CASE p \in Admins /\ AdminStep(p) BY <2>4, SessionsGoneKeeps, WorkKeeps DEF AdminStep
  <2> QED BY <1>1, <2>1, <2>2, <2>3, <2>4 DEF Step
<1>2. ASSUME NEW p \in Procs, Load(p) \/ LockHost(p) \/ EnterBarrier(p) \/ Crash(p) PROVE Kept
  BY <1>2, LoadKeeps, LockHostKeeps, EnterBarrierKeeps, CrashKeeps
<1>3. ASSUME NEW s \in Sessions, Finish(s) PROVE Kept BY <1>3, FinishKeeps
<1>4. ASSUME NEW a \in Admins, AddHost(a) PROVE Kept BY <1>4, AddHostKeeps
<1>5. ASSUME NEW h \in Hosts, RootVanishes(h) \/ SyncVanishes(h) PROVE Kept BY <1>5, VanishKeeps
<1>6. CASE UNCHANGED vars BY <1>6, StayKeeps DEF vars, durable, locks
<1> QED BY <1>1, <1>2, <1>3, <1>4, <1>5, <1>6 DEF Next, Terminated

-----------------------------------------------------------------------------
\* A starting session, a scan and the work of stop and clean hold the lifecycle lock of their host;
\* sessions publish their records under it and under their leases; scans miss no live session
\* (root.go startSession, liveSessions and stopActiveSessions, host_remove.go hostRemovalGuard).
THEOREM HostUseInvariant == Spec => []HostUseInv
<1>1. TypeOK /\ HostUseInv /\ [Next]_vars => HostUseInv' BY NextKeeps DEF Kept
<1> QED BY <1>1, InitHostUse, SessionTypeCorrect, PTL DEF Spec

\* Nobody takes the record or the lease of a session at work for stale, however many sessions
\* and commands scan the records at once, and whoever is killed meanwhile.
THEOREM LeasesGuardRecords == Spec => []LeaseGuardsRecord
<1>1. HostUseInv => LeaseGuardsRecord
  BY DEF HostUseInv, Started, LeaseGuardsRecord, AtWork
<1> QED BY <1>1, HostUseInvariant, PTL

\* While stop or clean pauses, terminates or deletes, no session of its host starts, runs or
\* flushes.
THEOREM StopFindsAll == Spec => []StoppedMeansQuiet
<1>1. HostUseInv => StoppedMeansQuiet
  <2> SUFFICES ASSUME HostUseInv, NEW a \in Admins, pc[a] \in Work,
                      NEW s \in Sessions, H(s) = H(a)
               PROVE  pc[s] \notin Start /\ ~AtWork(s)
    BY DEF StoppedMeansQuiet
  <2>1. pc[s] \notin Start
    BY NoneFacts, LifecycleAssumption DEF HostUseInv, HostHeld, HoldsHost
  <2>2. ~AtWork(s) BY DEF HostUseInv, Started, Seen, LiveSessions, AtWork
  <2> QED BY <2>1, <2>2
<1> QED BY <1>1, HostUseInvariant, PTL

\* The processes together do what HostUse says: a session joins only a configured host on which
\* nobody is at work, and a host is retired or worked on only while no session uses it.
THEOREM HostUseImplemented == Spec => ImplementsHostUse
<1>1. Init => HU!Init
  <2> SUFFICES ASSUME Init PROVE HU!Init OBVIOUS
  <2>1. \A p \in Procs : pc[p] \notin Work BY DEF Init, Work
  <2>2. \A s \in Sessions : ~record[s] BY DEF Init
  <2> QED BY <2>1, <2>2, NoneFacts DEF HU!Init, Configured, LiveSessions
<1>2. TypeOK /\ HostUseInv /\ [Next]_vars => [HU!Next]_HU!vars BY NextKeeps DEF Kept, HostUseStep
<1> QED BY <1>1, <1>2, SessionTypeCorrect, HostUseInvariant, PTL DEF Spec, ImplementsHostUse, HU!Spec

-----------------------------------------------------------------------------
(* What a session at work relies on: the remote root, and the state on     *)
(* record.                                                                 *)

ProcStep(p) == Step(p) \/ Load(p) \/ LockHost(p) \/ EnterBarrier(p) \/ Crash(p)
               \/ (p \in Sessions /\ Finish(p)) \/ (p \in Admins /\ AddHost(p))

\* A process moves alone and changes its own view only; the host record it loaded stays in it.
LEMMA MovesAlone ==
  ASSUME TypeOK, NEW p \in Procs, ProcStep(p)
  PROVE  /\ \A q \in Procs : q # p => pc'[q] = pc[q] /\ view'[q] = view[q]
         /\ view'[p].endpoint = view[p].endpoint \/ Load(p)
<1>1. pc \in [Procs -> PC] /\ view \in [Procs -> View]
  BY DEF TypeOK
<1>2. CASE Scan(p)
  BY <1>1, <1>2 DEF Scan, SkipEntry, RefuseEntry, CountEntry, OtherLease, ProbeLease, ReadRecords, DropStale,
     AfterScan, RemoveHost, Goto, Quit
<1>8. \A w : Quit(p, w) \/ Goto(p, w) \/ LeaveWorkspace(p, w) => \A q \in Procs : q # p => pc'[q] = pc[q]
  BY <1>1 DEF Quit, Goto, LeaveWorkspace
<1>9. Forget(p) => /\ \A q \in Procs : q # p => view'[q] = view[q]
                   /\ view'[p].endpoint = view[p].endpoint
  BY <1>1 DEF Forget, View
<1>3. CASE Mutagen(p)
  <2>1. GiveUp(p) => \A q \in Procs : q # p => pc'[q] = pc[q]
    BY <1>8 DEF GiveUp
  <2>2. CASE Resume(p)
    BY <1>8, <1>9, <2>1, <2>2 DEF Resume
  <2>3. CASE Flush(p)
    BY <1>8, <1>9, <2>1, <2>3 DEF Flush
  <2>4. CASE Pause(p)
    BY <1>8, <2>4 DEF Pause
  <2> QED
    BY <1>3, <2>2, <2>3, <2>4 DEF Mutagen
<1>4. CASE p \in Sessions /\ SessionStep(p)
  <2>1. CASE EnsureSync(p) \/ ReplaceSync(p) \/ TakeLease(p) \/ Publish(p) \/ Unpublish(p) \/ DropLease(p)
    BY <1>8, <1>9, <2>1 DEF EnsureSync, ReplaceSync, TakeLease, Publish, Unpublish, DropLease
  <2>2. CASE CreateSync(p) \/ SaveState(p)
    <3>1. \A q \in Procs : q # p => pc'[q] = pc[q]
      BY <1>8, <2>2 DEF CreateSync, SaveState
    <3>2. \/ UNCHANGED view
          \/ \E i \in SyncIds : view' = [view EXCEPT ![p].id = i, ![p].fp = Fingerprint(p)]
          \/ view' = [view EXCEPT ![p].retained = TRUE]
      BY <2>2 DEF CreateSync, SaveState
    <3>3. (\A q \in Procs : q # p => view'[q] = view[q]) /\ view'[p].endpoint = view[p].endpoint
      BY <1>1, <3>2 DEF View
    <3> QED
      BY <3>1, <3>3
  <2> QED
    BY <1>4, <2>1, <2>2 DEF SessionStep
<1>5. CASE p \in Admins /\ AdminStep(p)
  BY <1>1, <1>5 DEF AdminStep, SessionsGone, StopWithoutSync, CleanSync, RemoveRoot, SaveCleaned, SyncResume, Goto, Quit
<1>6. CASE Load(p)
  BY <1>1, <1>6 DEF Load, Goto
<1>7. CASE LockHost(p) \/ EnterBarrier(p) \/ Crash(p) \/ Finish(p) \/ AddHost(p)
  BY <1>1, <1>7 DEF LockHost, EnterBarrier, Crash, Finish, AddHost, Goto, Quit
<1> QED
  BY <1>2, <1>3, <1>4, <1>5, <1>6, <1>7 DEF ProcStep, Step

\* From ensureSync until the record is withdrawn.
AtRoot(s) == pc[s] \in (Start \ {"scan", "master"}) \cup Live \cup (Close \ {"release"})

\* A session gets there through ensureSync only.
LEMMA EntersByEnsure ==
  ASSUME TypeOK, NEW s \in Sessions, ProcStep(s), AtRoot(s)'
  PROVE  EnsureSync(s) \/ AtRoot(s)
<1>1. pc \in [Procs -> PC] /\ s \in Procs /\ s \notin Admins /\ KindOf(s) = "session"
  BY NoneFacts, LifecycleAssumption DEF TypeOK, KindOf
<1>2. CASE Scan(s)
  BY <1>1, <1>2 DEF Scan, SkipEntry, RefuseEntry, CountEntry, OtherLease, ProbeLease, ReadRecords, DropStale,
     AfterScan, ScanOver, Scanning, RemoveHost, Goto, Quit, AtRoot, Start, Live, Close
<1>3. CASE Resume(s)
  BY <1>1, <1>3 DEF Resume, AfterResume, GiveUp, LeaveWorkspace, Goto, Quit, AtRoot, Start, Live, Close
<1>4. CASE Flush(s)
  BY <1>1, <1>4 DEF Flush, AfterFlush, GiveUp, LeaveWorkspace, Goto, Quit, AtRoot, Start, Live, Close
<1>5. CASE Pause(s)
  BY <1>1, <1>5 DEF Pause, Goto, Quit, AtRoot, Start, Live, Close
<1>6. CASE SessionStep(s)
  BY <1>1, <1>6 DEF SessionStep, ReplaceSync, CreateSync, SaveState, TakeLease, Publish, Unpublish, DropLease, Goto,
     Quit, LeaveWorkspace, AtRoot, Start, Live, Close
<1>7. CASE Load(s) \/ LockHost(s) \/ EnterBarrier(s) \/ Crash(s) \/ Finish(s)
  BY <1>1, <1>7 DEF Load, LockHost, EnterBarrier, Crash, Finish, Goto, Quit, AtRoot, Start, Live, Close
<1> QED
  BY <1>1, <1>2, <1>3, <1>4, <1>5, <1>6, <1>7 DEF ProcStep, Step, Mutagen

\* Who changes the remote roots.
LEMMA RootMoves ==
  ASSUME NEW p \in Procs, ProcStep(p)
  PROVE  \/ UNCHANGED remote
         \/ p \in Sessions /\ EnsureSync(p)
         \/ p \in Admins /\ RemoveRoot(p)
<1>1. CASE Scan(p) \/ Mutagen(p)
  BY <1>1 DEF Scan, SkipEntry, RefuseEntry, CountEntry, OtherLease, ProbeLease, ReadRecords, DropStale, AfterScan,
     RemoveHost, Mutagen, Resume, Flush, Pause, durable
<1>2. CASE p \in Sessions /\ SessionStep(p)
  BY <1>2 DEF SessionStep, ReplaceSync, CreateSync, SaveState, TakeLease, Publish, Unpublish, DropLease, durable
<1>3. CASE p \in Admins /\ AdminStep(p)
  BY <1>3 DEF AdminStep, SessionsGone, StopWithoutSync, CleanSync, SaveCleaned, SyncResume, durable
<1>4. CASE Load(p) \/ LockHost(p) \/ EnterBarrier(p) \/ Crash(p) \/ Finish(p) \/ AddHost(p)
  BY <1>4 DEF Load, LockHost, EnterBarrier, Crash, Finish, AddHost, durable
<1> QED
  BY <1>1, <1>2, <1>3, <1>4 DEF ProcStep, Step

LEMMA NextCases ==
  ASSUME [Next]_vars
  PROVE  \/ \E p \in Procs : ProcStep(p)
         \/ \E h \in Hosts : RootVanishes(h) \/ SyncVanishes(h)
         \/ UNCHANGED vars
  BY NoneFacts DEF Next, Terminated, ProcStep

\* Every session that has been through ensureSync has its root.
RootKept == \A s \in Sessions : AtRoot(s) => RootOf(s)

LEMMA RootKeptStep ==
  ASSUME "loseRoot" \notin Faults, TypeOK, StoppedMeansQuiet, RootKept, [Next]_vars
  PROVE  RootKept'
<1>1. ASSUME NEW p \in Procs, ProcStep(p)
      PROVE  RootKept'
  <2> SUFFICES ASSUME NEW s \in Sessions, AtRoot(s)'
               PROVE  view'[s].endpoint \in remote'[H(s)]
    BY DEF RootKept, RootOf, H
  <2>1. s \in Procs /\ H(s) \in Hosts
    BY NoneFacts
  <2>2. ASSUME s # p
        PROVE  AtRoot(s) /\ view'[s] = view[s]
    BY <1>1, <2>1, <2>2, MovesAlone DEF AtRoot
  <2>3. ASSUME s = p
        PROVE  EnsureSync(s) \/ (AtRoot(s) /\ view'[s].endpoint = view[s].endpoint)
    <3>1. EnsureSync(s) \/ AtRoot(s)
      BY <1>1, <2>3, EntersByEnsure
    <3>2. Load(s) => ~AtRoot(s)
      BY DEF Load, AtRoot, Start, Live, Close
    <3> QED
      BY <1>1, <2>3, <3>1, <3>2, MovesAlone
  <2>4. ASSUME s = p, EnsureSync(s)
        PROVE  view'[s].endpoint \in remote'[H(s)]
    <3>1. pc'[s] # "failed"
      BY DEF AtRoot, Start, Live, Close
    <3>2. remote' = [remote EXCEPT ![H(s)] = @ \cup {view[s].endpoint}] /\ view' = view
      BY <2>1, <2>4, <3>1 DEF EnsureSync, Quit, Goto, TypeOK
    <3> QED
      BY <2>1, <3>2 DEF TypeOK
  <2>5. ASSUME AtRoot(s), view'[s].endpoint = view[s].endpoint
        PROVE  view'[s].endpoint \in remote'[H(s)]
    <3>1. view[s].endpoint \in remote[H(s)]
      BY <2>5 DEF RootKept, RootOf
    <3>2. CASE UNCHANGED remote
      BY <2>5, <3>1, <3>2
    <3>3. CASE p \in Sessions /\ EnsureSync(p)
      BY SMTT(60), <2>1, <2>5, <3>1, <3>3 DEF EnsureSync, TypeOK
    <3>4. CASE p \in Admins /\ RemoveRoot(p)
      <4>1. pc[p] \in Work
        BY <3>4 DEF RemoveRoot, Work
      <4>2. pc[s] \in Start \/ AtWork(s)
        BY <2>5 DEF AtRoot, AtWork
      <4>3. H(s) # H(p)
        BY <3>4, <4>1, <4>2 DEF StoppedMeansQuiet
      <4>4. remote'[H(s)] = remote[H(s)]
        BY <2>1, <3>4, <4>3 DEF RemoveRoot, WithoutRoot, TypeOK
      <4> QED
        BY <2>5, <3>1, <4>4
    <3> QED
      BY <1>1, <3>2, <3>3, <3>4, RootMoves
  <2> QED
    BY <2>2, <2>3, <2>4, <2>5
<1>2. ASSUME NEW h \in Hosts, RootVanishes(h) \/ SyncVanishes(h)
      PROVE  RootKept'
  BY <1>2 DEF RootVanishes, SyncVanishes, RootKept, AtRoot, RootOf, H
<1>3. CASE UNCHANGED vars
  BY <1>3 DEF vars, durable, RootKept, AtRoot, RootOf, H
<1> QED
  BY <1>1, <1>2, <1>3, NextCases

\* Unless somebody else deletes it, the remote root of a session at work is there: clean --remote
\* never takes the directory a command runs in, whatever fails and whoever is killed.
THEOREM RootsAreKept ==
  ASSUME "loseRoot" \notin Faults
  PROVE  Spec => []RootInUse
<1>1. Init => RootKept
  <2>1. Init => \A s \in Sessions : pc[s] = "idle"
    BY NoneFacts DEF Init
  <2> QED
    BY <2>1 DEF RootKept, AtRoot, Start, Live, Close
<1>2. TypeOK /\ StoppedMeansQuiet /\ RootKept /\ [Next]_vars => RootKept'
  BY RootKeptStep
<1>3. RootKept => RootInUse
  BY DEF RootKept, RootInUse, AtRoot, AtWork
<1> QED
  BY <1>1, <1>2, <1>3, SessionTypeCorrect, StopFindsAll, PTL DEF Spec

\* Who changes the saved state.
LEMMA StoredMoves ==
  ASSUME NEW p \in Procs, ProcStep(p)
  PROVE  \/ UNCHANGED stored
         \/ p \in Sessions /\ SaveState(p)
         \/ p \in Admins /\ SaveCleaned(p)
<1>1. CASE Scan(p) \/ Mutagen(p)
  BY <1>1 DEF Scan, SkipEntry, RefuseEntry, CountEntry, OtherLease, ProbeLease, ReadRecords, DropStale, AfterScan,
     RemoveHost, Mutagen, Resume, Flush, Pause, durable
<1>2. CASE p \in Sessions /\ SessionStep(p)
  BY <1>2 DEF SessionStep, EnsureSync, ReplaceSync, CreateSync, TakeLease, Publish, Unpublish, DropLease, durable
<1>3. CASE p \in Admins /\ AdminStep(p)
  BY <1>3 DEF AdminStep, SessionsGone, StopWithoutSync, CleanSync, RemoveRoot, SyncResume, durable
<1>4. CASE Load(p) \/ LockHost(p) \/ EnterBarrier(p) \/ Crash(p) \/ Finish(p) \/ AddHost(p)
  BY <1>4 DEF Load, LockHost, EnterBarrier, Crash, Finish, AddHost, durable
<1> QED
  BY <1>1, <1>2, <1>3, <1>4 DEF ProcStep, Step

\* From the synchronization session it uses to the saved state: the loaded state names one.
Naming == {"resume", "flush", "replace", "replaceFlush", "terminate", "firstResume", "firstFlush", "save"}
Named(s) == pc[s] \in Naming => view[s].id # None

LEMMA NamedStep ==
  ASSUME TypeOK, NEW s \in Sessions, Named(s), ProcStep(s)
  PROVE  Named(s)'
<1>1. pc \in [Procs -> PC] /\ s \in Procs /\ s \notin Admins /\ KindOf(s) = "session" /\ view[s] \in View
  BY NoneFacts, LifecycleAssumption DEF TypeOK, KindOf
<1> DEFINE Away == pc'[s] \notin Naming
           Stays == pc[s] \in Naming /\ view'[s].id = view[s].id
<1>2. CASE Scan(s)
  BY <1>1, <1>2 DEF Scan, SkipEntry, RefuseEntry, CountEntry, OtherLease, ProbeLease, ReadRecords, DropStale,
     AfterScan, ScanOver, Scanning, RemoveHost, Goto, Quit, Naming, Named
<1>3. GiveUp(s) \/ Quit(s, "failed") => Away
  BY <1>1 DEF GiveUp, LeaveWorkspace, Goto, Quit, Naming
<1>4. CASE Resume(s)
  <2>1. Stays \/ Away
    BY <1>1, <1>3, <1>4 DEF Resume, AfterResume, Goto, Naming
  <2> QED
    BY <2>1 DEF Named
<1>5. CASE Flush(s)
  <2>1. Stays \/ Away
    BY <1>1, <1>3, <1>5 DEF Flush, AfterFlush, Goto, Naming
  <2> QED
    BY <2>1 DEF Named
<1>6. CASE Pause(s)
  BY <1>1, <1>6 DEF Pause, Goto, Quit, Naming, Named
<1>7. CASE EnsureSync(s)
  BY <1>1, <1>3, <1>7 DEF EnsureSync, Goto, Naming, Named
<1>8. CASE CreateSync(s)
  <2>1. \/ \E i \in SyncIds : view' = [view EXCEPT ![s].id = i, ![s].fp = Fingerprint(s)]
        \/ Quit(s, "failed")
    BY <1>8 DEF CreateSync
  <2>2. view'[s].id \in SyncIds \/ Away
    <3>1. view \in [Procs -> View] /\ DOMAIN view[s] = {"id", "fp", "retained", "endpoint"}
      BY <1>1 DEF TypeOK, View
    <3>2. \A i \in SyncIds : view' = [view EXCEPT ![s] = [view[s] EXCEPT !.id = i, !.fp = Fingerprint(s)]]
             => view'[s].id = i
      BY <1>1, <3>1
    <3> QED
      BY <1>3, <2>1, <3>2
  <2> QED
    BY <2>2, NoneFacts DEF Named
<1>9. CASE SaveState(s) \/ ReplaceSync(s) \/ TakeLease(s) \/ Publish(s) \/ Unpublish(s) \/ DropLease(s)
  BY <1>1, <1>9 DEF SaveState, ReplaceSync, TakeLease, Publish, Unpublish, DropLease, LeaveWorkspace, Goto, Quit,
     Naming, Named
<1>10. CASE Load(s) \/ LockHost(s) \/ EnterBarrier(s) \/ Crash(s) \/ Finish(s)
  BY <1>1, <1>10 DEF Load, LockHost, EnterBarrier, Crash, Finish, Goto, Quit, Naming, Named
<1> QED
  BY <1>1, <1>2, <1>4, <1>5, <1>6, <1>7, <1>8, <1>9, <1>10 DEF ProcStep, Step, Mutagen, SessionStep

\* From the saved state until the record is withdrawn.
PastSave(s) == pc[s] \in {"agent", "leased"} \cup Live \cup (Close \ {"release"})
OnRecord(h) == stored[h].retained /\ stored[h].id # None

LEMMA PastSaveBySave ==
  ASSUME TypeOK, NEW s \in Sessions, ProcStep(s), PastSave(s)'
  PROVE  PastSave(s) \/ SaveState(s)
<1>1. pc \in [Procs -> PC] /\ s \in Procs /\ s \notin Admins /\ KindOf(s) = "session"
  BY NoneFacts, LifecycleAssumption DEF TypeOK, KindOf
<1>2. CASE Scan(s)
  BY <1>1, <1>2 DEF Scan, SkipEntry, RefuseEntry, CountEntry, OtherLease, ProbeLease, ReadRecords, DropStale,
     AfterScan, ScanOver, Scanning, RemoveHost, Goto, Quit, PastSave, Live, Close
<1>3. CASE Resume(s)
  BY <1>1, <1>3 DEF Resume, AfterResume, GiveUp, LeaveWorkspace, Goto, Quit, PastSave, Live, Close
<1>4. CASE Flush(s)
  BY <1>1, <1>4 DEF Flush, AfterFlush, GiveUp, LeaveWorkspace, Goto, Quit, PastSave, Live, Close
<1>5. CASE Pause(s)
  BY <1>1, <1>5 DEF Pause, Goto, Quit, PastSave, Live, Close
<1>6. CASE SessionStep(s)
  BY <1>1, <1>6 DEF SessionStep, EnsureSync, ReplaceSync, CreateSync, TakeLease, Publish, Unpublish, DropLease,
     Goto, Quit, LeaveWorkspace, PastSave, Live, Close
<1>7. CASE Load(s) \/ LockHost(s) \/ EnterBarrier(s) \/ Crash(s) \/ Finish(s)
  BY <1>1, <1>7 DEF Load, LockHost, EnterBarrier, Crash, Finish, Goto, Quit, PastSave, Live, Close
<1> QED
  BY <1>1, <1>2, <1>3, <1>4, <1>5, <1>6, <1>7 DEF ProcStep, Step, Mutagen

RecordInv == \A s \in Sessions : Named(s) /\ (PastSave(s) => OnRecord(H(s)))

LEMMA RecordStep ==
  ASSUME TypeOK, StoppedMeansQuiet, RecordInv, [Next]_vars
  PROVE  RecordInv'
<1>1. ASSUME NEW p \in Procs, ProcStep(p)
      PROVE  RecordInv'
  <2> SUFFICES ASSUME NEW s \in Sessions
               PROVE  Named(s)' /\ (PastSave(s)' => stored'[H(s)].retained /\ stored'[H(s)].id # None)
    BY DEF RecordInv, OnRecord, H
  <2>1. s \in Procs /\ H(s) \in Hosts /\ H(p) \in Hosts /\ stored \in [Hosts -> State]
    BY NoneFacts DEF TypeOK
  <2>2. s # p => pc'[s] = pc[s] /\ view'[s] = view[s]
    BY <1>1, <2>1, MovesAlone
  <2>3. Named(s)'
    BY <1>1, <2>2, NamedStep DEF RecordInv, Named
  <2> SUFFICES ASSUME PastSave(s)'
               PROVE  stored'[H(s)].retained /\ stored'[H(s)].id # None
    BY <2>3
  <2>4. PastSave(s) \/ (s = p /\ SaveState(s))
    BY <1>1, <2>2, PastSaveBySave DEF PastSave
  <2>5. CASE UNCHANGED stored /\ PastSave(s)
    BY <2>5 DEF RecordInv, OnRecord
  <2>6. ASSUME p \in Sessions, SaveState(p)
        PROVE  stored'[H(s)].retained /\ stored'[H(s)].id # None
    <3>1. view[p].id # None
      BY <2>6 DEF RecordInv, Named, SaveState, Naming
    <3>2. stored' \in {stored, [stored EXCEPT ![H(p)] = [id |-> view[p].id, fp |-> view[p].fp, retained |-> TRUE]]}
      BY <2>6 DEF SaveState
    <3>3. CASE s = p
      <4>1. pc'[s] # "failed"
        BY DEF PastSave, Live, Close
      <4>2. stored' = [stored EXCEPT ![H(p)] = [id |-> view[p].id, fp |-> view[p].fp, retained |-> TRUE]]
        BY <2>1, <2>6, <3>3, <4>1 DEF SaveState, Quit, Goto, TypeOK
      <4> QED
        BY <2>1, <3>1, <3>3, <4>2
    <3>4. CASE s # p
      <4>1. OnRecord(H(s))
        BY <2>4, <3>4 DEF RecordInv
      <4> QED
        BY <2>1, <3>1, <3>2, <4>1 DEF OnRecord
    <3> QED
      BY <3>3, <3>4
  <2>7. ASSUME p \in Admins, SaveCleaned(p)
        PROVE  stored'[H(s)].retained /\ stored'[H(s)].id # None
    <3>1. pc[p] \in Work /\ s \notin Admins
      BY <2>7, LifecycleAssumption DEF SaveCleaned, Work
    <3>2. PastSave(s)
      BY <2>4, <2>7, <3>1
    <3>3. H(s) # H(p)
      BY <2>7, <3>1, <3>2 DEF StoppedMeansQuiet, PastSave, AtWork, Start
    <3>4. stored'[H(s)] = stored[H(s)]
      BY <2>1, <2>7, <3>3 DEF SaveCleaned
    <3> QED
      BY <3>2, <3>4 DEF RecordInv, OnRecord
  <2> QED
    BY <1>1, <2>4, <2>5, <2>6, <2>7, StoredMoves
<1>2. ASSUME NEW h \in Hosts, RootVanishes(h) \/ SyncVanishes(h)
      PROVE  RecordInv'
  BY <1>2 DEF RootVanishes, SyncVanishes, RecordInv, Named, PastSave, OnRecord, H
<1>3. CASE UNCHANGED vars
  BY <1>3 DEF vars, durable, RecordInv, Named, PastSave, OnRecord, H
<1> QED
  BY <1>1, <1>2, <1>3, NextCases

\* A workspace in which a session is at work is on record with its synchronization session and its
\* remote root, whatever fails, whoever cleans and whoever is killed: host remove, stop and clean
\* still know what there is if the session dies.
THEOREM WorkStaysOnRecord == Spec => []WorkIsRecorded
<1>1. Init => RecordInv
  <2>1. Init => \A s \in Sessions : pc[s] = "idle"
    BY NoneFacts DEF Init
  <2> QED
    BY <2>1 DEF RecordInv, Named, PastSave, Naming, Live, Close
<1>2. TypeOK /\ StoppedMeansQuiet /\ RecordInv /\ [Next]_vars => RecordInv'
  BY RecordStep
<1>3. RecordInv => WorkIsRecorded
  BY DEF RecordInv, WorkIsRecorded, PastSave, OnRecord, AtWork
<1> QED
  BY <1>1, <1>2, <1>3, SessionTypeCorrect, StopFindsAll, PTL DEF Spec

-----------------------------------------------------------------------------
(* The retention mark.                                                     *)

\* Only a removed root brings clean to saving it.
LEMMA ReachesSave ==
  ASSUME TypeOK, NEW a \in Admins, ProcStep(a), pc[a] # "saveGone", pc'[a] = "saveGone"
  PROVE  RemoveRoot(a)
<1>1. pc \in [Procs -> PC] /\ a \in Procs /\ a \notin Sessions
  BY NoneFacts, LifecycleAssumption DEF TypeOK
<1>2. CASE Scan(a)
  BY <1>1, <1>2 DEF Scan, SkipEntry, RefuseEntry, CountEntry, OtherLease, ProbeLease, ReadRecords, DropStale,
     AfterScan, RemoveHost, Goto, Quit
<1>3. CASE Resume(a)
  BY <1>1, <1>3 DEF Resume, AfterResume, GiveUp, LeaveWorkspace, Goto, Quit
<1>4. CASE Flush(a)
  BY <1>1, <1>4 DEF Flush, AfterFlush, GiveUp, LeaveWorkspace, Goto, Quit
<1>5. CASE Pause(a)
  BY <1>1, <1>5 DEF Pause, Goto, Quit
<1>6. CASE AdminStep(a)
  BY <1>1, <1>6 DEF AdminStep, SessionsGone, StopWithoutSync, CleanSync, SaveCleaned, SyncResume, Goto, Quit
<1>7. CASE Load(a) \/ LockHost(a) \/ EnterBarrier(a) \/ Crash(a) \/ AddHost(a)
  BY <1>1, <1>7 DEF Load, LockHost, EnterBarrier, Crash, AddHost, Goto, Quit
<1> QED
  BY <1>1, <1>2, <1>3, <1>4, <1>5, <1>6, <1>7 DEF ProcStep, Step, Mutagen

\* A `clean --remote' that saves its success next has removed the root it means.
CleanedMeansGone == \A a \in Admins : pc[a] = "saveGone" => ~RootOf(a)

LEMMA CleanedStep ==
  ASSUME TypeOK, StoppedMeansQuiet, CleanedMeansGone, [Next]_vars
  PROVE  CleanedMeansGone'
<1>1. ASSUME NEW p \in Procs, ProcStep(p)
      PROVE  CleanedMeansGone'
  <2> SUFFICES ASSUME NEW a \in Admins, pc'[a] = "saveGone"
               PROVE  view'[a].endpoint \notin remote'[H(a)]
    BY DEF CleanedMeansGone, RootOf, H
  <2>1. a \in Procs /\ H(a) \in Hosts /\ H(p) \in Hosts /\ pc \in [Procs -> PC]
        /\ remote \in [Hosts -> SUBSET (Endpoints \cup {None})]
    BY NoneFacts DEF TypeOK
  <2>2. ASSUME pc[a] # "saveGone"
        PROVE  p = a /\ RemoveRoot(a)
    <3>1. p = a
      BY <1>1, <2>1, <2>2, MovesAlone
    <3> QED
      BY <1>1, <2>1, <2>2, <3>1, ReachesSave
  <2>3. ASSUME p = a, RemoveRoot(a)
        PROVE  view'[a].endpoint \notin remote'[H(a)]
    <3>1. remote' = WithoutRoot(a) /\ view' = view
      BY <2>1, <2>3 DEF RemoveRoot, Quit, Goto
    <3> QED
      BY <2>1, <3>1 DEF WithoutRoot
  <2>4. ASSUME pc[a] = "saveGone"
        PROVE  view'[a].endpoint \notin remote'[H(a)]
    <3>1. view[a].endpoint \notin remote[H(a)]
      BY <2>4 DEF CleanedMeansGone, RootOf
    <3>2. view'[a].endpoint = view[a].endpoint
      <4>1. ~Load(a)
        BY <2>4 DEF Load
      <4> QED
        BY <1>1, <2>1, <4>1, MovesAlone
    <3>3. CASE p \in Sessions /\ EnsureSync(p)
      <4>1. pc[a] \in Work /\ pc[p] \in Start
        BY <2>4, <3>3 DEF EnsureSync, Work, Start
      <4>2. H(p) # H(a)
        BY <3>3, <4>1 DEF StoppedMeansQuiet
      <4>3. remote'[H(a)] = remote[H(a)]
        BY <2>1, <3>3, <4>2 DEF EnsureSync
      <4> QED
        BY <3>1, <3>2, <4>3
    <3>4. CASE p \in Admins /\ RemoveRoot(p)
      <4>1. remote'[H(a)] \subseteq remote[H(a)]
        BY <2>1, <3>4 DEF RemoveRoot, WithoutRoot
      <4> QED
        BY <3>1, <3>2, <4>1
    <3> QED
      BY <1>1, <3>1, <3>2, <3>3, <3>4, RootMoves
  <2> QED
    BY <2>2, <2>3, <2>4
<1>2. ASSUME NEW h \in Hosts, RootVanishes(h) \/ SyncVanishes(h)
      PROVE  CleanedMeansGone'
  <2>1. \A g \in Hosts : remote'[g] \subseteq remote[g]
    BY <1>2 DEF RootVanishes, SyncVanishes, TypeOK
  <2>2. UNCHANGED <<pc, view>>
    BY <1>2 DEF RootVanishes, SyncVanishes
  <2> QED
    BY <2>1, <2>2, NoneFacts DEF CleanedMeansGone, RootOf, H
<1>3. CASE UNCHANGED vars
  BY <1>3 DEF vars, durable, CleanedMeansGone, RootOf, H
<1> QED
  BY <1>1, <1>2, <1>3, NextCases

\* The mark goes only in the step that saves a cleaned workspace.
LEMMA MarkGoes ==
  ASSUME TypeOK, CleanedMeansGone, [Next]_vars,
         NEW h \in Hosts, stored[h].retained, ~stored'[h].retained
  PROVE  \E a \in Admins : H(a) = h /\ \/ pc[a] = "saveGone" /\ ~RootOf(a)
                                       \/ pc[a] = "saveKept" /\ ~view[a].retained
<1> DEFINE Cleans == \E a \in Admins : H(a) = h /\ \/ pc[a] = "saveGone" /\ ~RootOf(a)
                                                   \/ pc[a] = "saveKept" /\ ~view[a].retained
<1>1. ASSUME NEW p \in Procs, ProcStep(p)
      PROVE  Cleans
  <2>1. H(p) \in Hosts /\ stored \in [Hosts -> State]
    BY <1>1, NoneFacts DEF TypeOK
  <2>2. CASE p \in Sessions /\ SaveState(p)
    BY <2>1, <2>2 DEF SaveState
  <2>3. CASE p \in Admins /\ SaveCleaned(p)
    <3>1. h = H(p)
      BY <2>1, <2>3 DEF SaveCleaned
    <3>2. CASE pc[p] = "saveGone"
      BY <2>3, <3>1, <3>2 DEF CleanedMeansGone
    <3>3. CASE pc[p] = "saveKept"
      <4>1. ASSUME view[p].retained
            PROVE  FALSE
        <5>1. \/ stored' = stored
              \/ stored' = [stored EXCEPT ![h] = [id |-> None, fp |-> None, retained |-> TRUE]]
          BY <2>3, <3>1, <3>3, <4>1 DEF SaveCleaned
        <5> QED
          BY <2>1, <3>1, <5>1
      <4> QED
        BY <2>3, <3>1, <3>3, <4>1
    <3> QED
      BY <2>3, <3>2, <3>3 DEF SaveCleaned
  <2> QED
    BY <1>1, <2>2, <2>3, StoredMoves
<1>2. ASSUME NEW g \in Hosts, RootVanishes(g) \/ SyncVanishes(g)
      PROVE  Cleans
  BY <1>2 DEF RootVanishes, SyncVanishes
<1>3. CASE UNCHANGED vars
  BY <1>3 DEF vars, durable
<1> QED
  BY <1>1, <1>2, <1>3, NextCases

\* Whatever fails, whoever is killed and whatever runs beside it, the retention mark of a workspace
\* goes only when a `clean --remote' saves that it removed the root it means, or when a plain
\* `clean' writes back a state that it loaded before the mark was set.
THEOREM RetentionStaysHonest == Spec => RetentionHonest
<1>1. Init => CleanedMeansGone
  BY NoneFacts DEF Init, CleanedMeansGone
<1>2. TypeOK /\ StoppedMeansQuiet /\ CleanedMeansGone /\ [Next]_vars => CleanedMeansGone'
  BY CleanedStep
<1>3. TypeOK /\ CleanedMeansGone /\ [Next]_vars
        => [\A h \in Hosts : stored[h].retained /\ ~stored'[h].retained =>
              \E a \in Admins : H(a) = h /\ \/ pc[a] = "saveGone" /\ ~RootOf(a)
                                            \/ pc[a] = "saveKept" /\ ~view[a].retained]_vars
  BY MarkGoes
<1> QED
  BY <1>1, <1>2, <1>3, SessionTypeCorrect, StopFindsAll, PTL DEF Spec, RetentionHonest

=============================================================================

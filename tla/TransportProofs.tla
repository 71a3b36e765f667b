---------------------------- MODULE TransportProofs ----------------------------
(***************************************************************************)
(* Proofs about connecting to the host and deploying the agent, for any    *)
(* number of clients, masters and versions, any faults and any server:     *)
(* the shared control directory first (who starts and who ends a master),  *)
(* then what a session adds to the master it uses and takes back, then the *)
(* agents in the host's store.                                             *)
(***************************************************************************)
EXTENDS Transport, TLAPS

-----------------------------------------------------------------------------
(* The type of every variable, by the part of the program that owns it.    *)

Places == SessionSteps \cup {"idle", "done", "dead", "stopShared", "spawn", "wait", "use", "exit", "interrupt"}

ClientOK ==
  /\ setting \in Settings /\ budget \in 0..setting.limit
  /\ pc \in [Clients -> Places]
  /\ cancelled \subseteq Clients /\ trouble \subseteq Clients
  /\ private \in [Clients -> {"none", "up", "hung", "gone"}]
ControlOK ==
  /\ startup \in Clients \cup {None}
  /\ socket \in Masters \cup {None} /\ severed \subseteq Masters
  /\ master \in [Masters -> {"none", "up", "gone"}]
  /\ forwards \subseteq [on : Masters, client : Clients, kind : {"stream", "tcp"}]
  /\ channel \in [Clients -> Masters \cup {None}] /\ via \in [Clients -> Masters \cup {None}]
BrokerOK ==
  /\ spec \in [Clients -> {None, "stream", "tcp"}]
  /\ address \in [Clients -> {None, "stream", "tcp", "relay"}]
  /\ pidFile \subseteq relays /\ relays \subseteq Clients
StoreOK ==
  /\ store \subseteq Digests /\ newer \subseteq store \X store
  /\ \A d, e \in store : <<d, e>> \in newer <=> d # e /\ <<e, d>> \notin newer
HostOK ==
  /\ bin \in [Digests -> Digests \cup {None, "partial"}]
  /\ uploads \in [Clients -> Digests \cup {None, "empty", "partial"}]
  /\ running \in [Clients -> Digests \cup {None}]
  /\ doomed \in [Clients -> SUBSET Digests] /\ pruned \subseteq Digests /\ deployed \subseteq Clients

LEMMA TypeParts ==
  /\ TypeOK <=> ClientOK /\ ControlOK /\ BrokerOK /\ StoreOK /\ HostOK
  /\ TypeOK' <=> ClientOK' /\ ControlOK' /\ BrokerOK' /\ StoreOK' /\ HostOK'
BY DEF TypeOK, ClientOK, ControlOK, BrokerOK, StoreOK, HostOK, Places

\* What the scenario says about a client.
LEMMA SettingIs ==
  ASSUME setting \in Settings
  PROVE  /\ setting.limit \in Nat /\ setting.kind \in [Clients -> {"session", "preview", "stop", "absent"}]
         /\ \A c \in Clients : Digest(c) \in Digests /\ Kind(c) \in {"session", "preview", "stop", "absent"}
         /\ \A i \in DOMAIN setting.installed : setting.installed[i] \in Digests
<1>1. setting.limit \in Nat /\ setting.carries \in [Clients -> Digests]
      /\ setting.kind \in [Clients -> {"session", "preview", "stop", "absent"}]
      /\ setting.installed \in Seq(Digests)
  BY TransportAssumption
<1> QED
  BY <1>1 DEF Digest, Kind

LEMMA InitTyped == Init => TypeOK
<1> SUFFICES ASSUME Init PROVE TypeOK
  OBVIOUS
<1>1. ClientOK
  BY SettingIs DEF Init, ClientOK, Places, Kind
<1>2. ControlOK /\ BrokerOK
  BY DEF Init, ControlOK, BrokerOK
<1>3. HostOK
  <2>1. \A d \in Digests : bin[d] \in {d, None, "partial"}
    BY DEF Init
  <2>2. bin \in [Digests -> Digests \cup {None, "partial"}]
    BY <2>1 DEF Init
  <2> QED
    BY <2>2 DEF Init, HostOK
<1>4. StoreOK
  <2> DEFINE s == setting.installed
  <2>1. /\ s \in Seq(Digests) /\ \A i, j \in DOMAIN s : s[i] = s[j] => i = j
        /\ store = {s[i] : i \in DOMAIN s}
        /\ newer = {p \in store \X store : \E i, j \in DOMAIN s : i < j /\ p = <<s[i], s[j]>>}
    BY TransportAssumption DEF Init
  <2>2. DOMAIN s \subseteq Int /\ \A i \in DOMAIN s : s[i] \in Digests
    BY <2>1
  <2> HIDE DEF s
  <2>3. \A i, j \in DOMAIN s : <<s[i], s[j]>> \in newer <=> i < j
    <3> SUFFICES ASSUME NEW i \in DOMAIN s, NEW j \in DOMAIN s PROVE <<s[i], s[j]>> \in newer <=> i < j
      OBVIOUS
    <3>1. <<s[i], s[j]>> \in newer <=> \E a, b \in DOMAIN s : a < b /\ <<s[i], s[j]>> = <<s[a], s[b]>>
      BY <2>1
    <3>2. \A a, b \in DOMAIN s : <<s[i], s[j]>> = <<s[a], s[b]>> <=> i = a /\ j = b
      BY <2>1
    <3> QED
      BY <3>1, <3>2
  <2>4. ASSUME NEW d \in store, NEW e \in store
        PROVE  <<d, e>> \in newer <=> d # e /\ <<e, d>> \notin newer
    <3>1. PICK i \in DOMAIN s, j \in DOMAIN s : d = s[i] /\ e = s[j]
      BY <2>1
    <3>2. (<<d, e>> \in newer <=> i < j) /\ (<<e, d>> \in newer <=> j < i)
      BY <2>3, <3>1
    <3>3. d = e <=> i = j
      BY <2>1, <3>1
    <3>4. i \in Int /\ j \in Int
      BY <2>2
    <3> QED
      BY <3>2, <3>3, <3>4
  <2> QED
    BY <2>1, <2>2, <2>4 DEF StoreOK
<1> QED
  BY <1>1, <1>2, <1>3, <1>4, TypeParts

\* Parts depend on their own variables only.
LEMMA PartsKept ==
  ASSUME TypeOK
  PROVE  /\ UNCHANGED control => ControlOK'
         /\ UNCHANGED broker => BrokerOK'
         /\ UNCHANGED <<store, newer>> => StoreOK'
         /\ UNCHANGED host => StoreOK' /\ HostOK'
<1>1. ControlOK /\ BrokerOK /\ StoreOK /\ HostOK
  BY TypeParts
<1>2. UNCHANGED control => ControlOK'
  BY <1>1 DEF ControlOK, control
<1>3. UNCHANGED broker => BrokerOK'
  BY <1>1 DEF BrokerOK, broker
<1>4. UNCHANGED <<store, newer>> => StoreOK'
  BY <1>1 DEF StoreOK
<1>5. UNCHANGED host => HostOK'
  BY <1>1 DEF HostOK, host
<1> QED
  BY <1>2, <1>3, <1>4, <1>5 DEF host

\* The outcomes of a command.
LEMMA OutcomesTyped ==
  ASSUME ClientOK, NEW c \in Clients
  PROVE  /\ Answered(c) \/ Lost(c) \/ Unsent(c) \/ Cleaned(c) \/ NotCleaned(c) =>
              budget' \in 0..setting.limit /\ cancelled' \subseteq Clients /\ trouble' \subseteq Clients
         /\ \A f : Spend(f) => budget' \in 0..setting.limit /\ budget' # budget
BY SettingIs DEF ClientOK, Answered, Lost, Unsent, Cleaned, NotCleaned, Spend

\* Where a step of a client leads.
LEMMA MoveTyped ==
  ASSUME ClientOK, NEW c \in Clients, NEW l \in Places, Goto(c, l), setting' = setting,
         budget' \in 0..setting.limit, cancelled' \subseteq Clients, trouble' \subseteq Clients,
         private' \in [Clients -> {"none", "up", "hung", "gone"}]
  PROVE  ClientOK'
BY DEF ClientOK, Goto

LEMMA AbortPlace == ASSUME NEW c \in Clients PROVE Abort(c) \in Places
BY DEF Abort, Places, SessionSteps

LEMMA ClientSteps ==
  ASSUME TypeOK, NEW c \in Clients, Begin(c) \/ Steps(c) \/ Finish(c) \/ Cancel(c) \/ Killed(c) \/ PrivateFails(c)
  PROVE  ClientOK'
<1>1. ClientOK
  BY TypeParts
<1>2. CASE Begin(c) \/ Finish(c) \/ Cancel(c) \/ Killed(c) \/ PrivateFails(c)
  <2>1. /\ pc' \in [Clients -> Places]
        /\ private' \in [Clients -> {"none", "up", "hung", "gone"}] /\ setting' = setting
    BY <1>1, <1>2 DEF Begin, Finish, Cancel, Killed, PrivateFails, ClientOK, Goto, Places, SessionSteps
  <2>2. budget' \in 0..setting.limit /\ cancelled' \subseteq Clients /\ trouble' \subseteq Clients
    BY <1>1, <1>2, OutcomesTyped DEF Begin, Finish, Cancel, Killed, PrivateFails, ClientOK
  <2> QED
    BY <1>1, <2>1, <2>2 DEF ClientOK
<1>3. CASE Connects(c)
  <2>1. pc' \in [Clients -> Places] /\ private' = private /\ setting' = setting
    BY <1>1, <1>3 DEF Connects, LockStartup, Check, Stat, Unlink, Launch, Ready, StopShared, ClientOK, Goto,
       Places, SessionSteps
  <2>2. budget' \in 0..setting.limit /\ cancelled' \subseteq Clients /\ trouble' \subseteq Clients
    BY <1>1, <1>3, OutcomesTyped DEF Connects, LockStartup, Check, Stat, Unlink, Launch, Ready, StopShared, ClientOK
  <2> QED
    BY <1>1, <2>1, <2>2 DEF ClientOK
<1>4. CASE Deploys(c)
  <2>1. pc' \in [Clients -> Places] /\ private' = private /\ setting' = setting
    BY <1>1, <1>4 DEF Deploys, Verify, Probe, FindPresent, MakeTemp, Upload, Install, PruneLooks, PruneRemoves,
       Reclaim, ClientOK, Goto, Places, SessionSteps, Abort
  <2>2. budget' \in 0..setting.limit /\ cancelled' \subseteq Clients /\ trouble' \subseteq Clients
    BY <1>1, <1>4, OutcomesTyped DEF Deploys, Verify, Probe, FindPresent, MakeTemp, Upload, Install, PruneLooks,
       PruneRemoves, Reclaim, ClientOK
  <2> QED
    BY <1>1, <2>1, <2>2 DEF ClientOK
<1>5. CASE Configures(c)
  <2>1. pc' \in [Clients -> Places] /\ private' = private /\ setting' = setting
    BY <1>1, <1>5 DEF Configures, MakeSessionDir, Forward, Fallback, StartRelay, Ping, Publish, ClientOK, Goto,
       Places, SessionSteps
  <2>2. budget' \in 0..setting.limit /\ cancelled' \subseteq Clients /\ trouble' \subseteq Clients
    BY <1>1, <1>5, OutcomesTyped DEF Configures, MakeSessionDir, Forward, Fallback, StartRelay, Ping, Publish, ClientOK
  <2> QED
    BY <1>1, <2>1, <2>2 DEF ClientOK
<1>6. CASE Closes(c) \/ Previews(c)
  <2>1. /\ pc' \in [Clients -> Places] /\ setting' = setting
        /\ private' \in [Clients -> {"none", "up", "hung", "gone"}]
    BY <1>1, <1>6 DEF Closes, Previews, KillRelay, CancelForward, ExitPrivate, InterruptPrivate, Spawn, WaitReady,
       Use, ClientOK, Goto, Places, SessionSteps
  <2>2. budget' \in 0..setting.limit /\ cancelled' \subseteq Clients /\ trouble' \subseteq Clients
    BY <1>1, <1>6, OutcomesTyped DEF Closes, Previews, KillRelay, CancelForward, ExitPrivate, InterruptPrivate,
       Spawn, WaitReady, Use, ClientOK
  <2> QED
    BY <1>1, <2>1, <2>2 DEF ClientOK
<1> QED
  BY <1>2, <1>3, <1>4, <1>5, <1>6 DEF Steps

\* The master that answers is a live one.
LEMMA ReachableIs ==
  ASSUME ControlOK, Reachable # None
  PROVE  Reachable = socket /\ socket \in Masters /\ socket # None /\ master[socket] = "up"
BY DEF ControlOK, Reachable

LEMMA ControlSteps ==
  ASSUME TypeOK, NEW c \in Clients, Begin(c) \/ Steps(c) \/ Finish(c) \/ Cancel(c) \/ Killed(c) \/ PrivateFails(c)
  PROVE  ControlOK'
<1>1. ControlOK
  BY TypeParts
<1>2. CASE Begin(c) \/ Cancel(c) \/ PrivateFails(c) \/ Deploys(c) \/ Previews(c) \/ ExitPrivate(c) \/ InterruptPrivate(c)
           \/ MakeSessionDir(c) \/ StartRelay(c) \/ Ping(c) \/ KillRelay(c)
  <2>1. UNCHANGED control
    BY <1>2 DEF Begin, Cancel, PrivateFails, Deploys, Verify, Probe, FindPresent, MakeTemp, Upload, Install,
       PruneLooks, PruneRemoves, Reclaim, Previews, Spawn, WaitReady, Use, ExitPrivate, InterruptPrivate,
       MakeSessionDir, StartRelay, Ping, KillRelay
  <2> QED
    BY <2>1, PartsKept
<1>3. CASE Finish(c) \/ Killed(c) \/ Publish(c)
  BY <1>1, <1>3 DEF Finish, Killed, Publish, ControlOK, Reachable
<1>4. CASE LockStartup(c) \/ Check(c) \/ Stat(c) \/ Ready(c)
  BY <1>1, <1>4 DEF LockStartup, Check, Stat, Ready, ControlOK, control
<1>5. CASE Unlink(c)
  BY <1>1, <1>5 DEF Unlink, ControlOK, Reachable
<1>6. CASE Launch(c)
  BY <1>1, <1>6 DEF Launch, Launched, ControlOK
<1>7. CASE StopShared(c)
  BY <1>1, <1>7 DEF StopShared, ControlOK
<1>8. CASE Forward(c) \/ Fallback(c)
  <2>1. UNCHANGED <<startup, socket, severed, master, channel>>
    BY <1>8 DEF Forward, Fallback
  <2>2. forwards' \subseteq [on : Masters, client : Clients, kind : {"stream", "tcp"}]
    BY <1>1, <1>8, ReachableIs DEF Forward, Fallback, AddForward, ControlOK
  <2>3. via' \in [Clients -> Masters \cup {None}]
    BY <1>1, <1>8, ReachableIs DEF Forward, Fallback, AddForward, ControlOK
  <2> QED
    BY <1>1, <2>1, <2>2, <2>3 DEF ControlOK
<1>9. CASE CancelForward(c)
  BY <1>1, <1>9 DEF CancelForward, ControlOK
<1> QED
  BY <1>2, <1>3, <1>4, <1>5, <1>6, <1>7, <1>8, <1>9 DEF Steps, Connects, Configures, Closes

LEMMA BrokerSteps ==
  ASSUME TypeOK, NEW c \in Clients, Begin(c) \/ Steps(c) \/ Finish(c) \/ Cancel(c) \/ Killed(c) \/ PrivateFails(c)
  PROVE  BrokerOK'
<1>1. BrokerOK
  BY TypeParts
<1>2. CASE Forward(c) \/ Fallback(c) \/ StartRelay(c) \/ KillRelay(c)
  BY <1>1, <1>2 DEF Forward, Fallback, StartRelay, KillRelay, BrokerOK
<1>3. CASE Begin(c) \/ Finish(c) \/ Cancel(c) \/ Killed(c) \/ PrivateFails(c) \/ Connects(c) \/ Deploys(c) \/ Previews(c)
           \/ MakeSessionDir(c) \/ Ping(c) \/ Publish(c) \/ CancelForward(c) \/ ExitPrivate(c) \/ InterruptPrivate(c)
  <2>1. UNCHANGED broker
    BY <1>3 DEF Begin, Finish, Cancel, Killed, PrivateFails, Connects, LockStartup, Check, Stat, Unlink, Launch,
       Ready, StopShared, Deploys, Verify, Probe, FindPresent, MakeTemp, Upload, Install, PruneLooks, PruneRemoves,
       Reclaim, Previews, Spawn, WaitReady, Use, MakeSessionDir, Ping, Publish, CancelForward, ExitPrivate,
       InterruptPrivate
  <2> QED
    BY <2>1, PartsKept
<1> QED
  BY <1>2, <1>3 DEF Steps, Configures, Closes

\* The order of the directories stays one.
LEMMA TouchedTyped ==
  ASSUME StoreOK, NEW d \in Digests, Touched(d)
  PROVE  StoreOK'
<1>1. \A e \in store : \A f \in store : e # d /\ f # d => (<<e, f>> \in newer' <=> <<e, f>> \in newer)
  BY DEF Touched
<1>2. \A e \in store : e # d => <<d, e>> \in newer' /\ <<e, d>> \notin newer'
  BY DEF Touched
<1>3. <<d, d>> \notin newer'
  BY DEF Touched
<1>4. newer' \subseteq store' \X store' /\ store' \subseteq Digests /\ store' = store \cup {d}
  BY DEF Touched, StoreOK
<1>5. ASSUME NEW e \in store', NEW f \in store' PROVE <<e, f>> \in newer' <=> e # f /\ <<f, e>> \notin newer'
  BY <1>1, <1>2, <1>3, <1>4 DEF StoreOK
<1> QED
  BY <1>4, <1>5 DEF StoreOK

LEMMA HostSteps ==
  ASSUME TypeOK, NEW c \in Clients, Begin(c) \/ Steps(c) \/ Finish(c) \/ Cancel(c) \/ Killed(c) \/ PrivateFails(c)
  PROVE  StoreOK' /\ HostOK'
<1>1. StoreOK /\ HostOK /\ Digest(c) \in Digests
  BY TypeParts, SettingIs DEF ClientOK
<1>2. CASE Begin(c) \/ Finish(c) \/ Cancel(c) \/ PrivateFails(c) \/ Connects(c) \/ Verify(c) \/ Probe(c) \/ Configures(c)
           \/ Closes(c) \/ Spawn(c) \/ WaitReady(c)
  <2>1. UNCHANGED host
    BY <1>2 DEF Begin, Finish, Cancel, PrivateFails, Connects, LockStartup, Check, Stat, Unlink, Launch, Ready,
       StopShared, Verify, Probe, Configures, MakeSessionDir, Forward, Fallback, StartRelay, Ping, Publish, Closes,
       KillRelay, CancelForward, ExitPrivate, InterruptPrivate, Spawn, WaitReady
  <2> QED
    BY <2>1, PartsKept
<1>3. CASE FindPresent(c) \/ Upload(c) \/ Reclaim(c) \/ Killed(c) \/ Use(c)
  <2>1. StoreOK'
    BY <1>3, PartsKept DEF FindPresent, Upload, Reclaim, Killed, Use
  <2>2. HostOK'
    BY <1>1, <1>3 DEF FindPresent, Upload, Reclaim, Killed, Use, HostOK
  <2> QED
    BY <2>1, <2>2
<1>4. CASE MakeTemp(c) \/ Install(c)
  <2>1. StoreOK'
    BY <1>1, <1>4, TouchedTyped, PartsKept DEF MakeTemp, Reserve, Install, Place
  <2>2. HostOK'
    BY <1>1, <1>4 DEF MakeTemp, Reserve, Install, Place, Verified, HostOK
  <2> QED
    BY <2>1, <2>2
<1>5. CASE PruneLooks(c)
  <2>1. Surplus(c) \subseteq Digests
    BY <1>1 DEF Surplus, Prunable, StoreOK
  <2>2. HostOK'
    BY <1>1, <1>5, <2>1 DEF PruneLooks, HostOK
  <2> QED
    BY <1>5, <2>2, PartsKept DEF PruneLooks
<1>6. CASE PruneRemoves(c)
  BY <1>1, <1>6 DEF PruneRemoves, StoreOK, HostOK
<1> QED
  BY <1>2, <1>3, <1>4, <1>5, <1>6 DEF Steps, Deploys, Previews

LEMMA MasterSteps ==
  ASSUME TypeOK, NEW m \in Masters, Expire(m) \/ MasterLost(m)
  PROVE  TypeOK'
<1>1. ClientOK /\ ControlOK
  BY TypeParts
<1>2. ClientOK'
  <2>1. budget' \in 0..setting.limit /\ UNCHANGED <<setting, pc, cancelled, private, trouble>>
    BY <1>1, SettingIs DEF Expire, MasterLost, Spend, ClientOK
  <2> QED
    BY <1>1, <2>1 DEF ClientOK
<1>3. ControlOK'
  <2>1. CASE Exits(m) /\ UNCHANGED <<startup, via>>
    <3>1. severed' \subseteq Masters
      BY <1>1, <2>1 DEF Exits, Reachable, ControlOK
    <3>2. channel' \in [Clients -> Masters \cup {None}] /\ master' \in [Masters -> {"none", "up", "gone"}]
      BY <1>1, <2>1 DEF Exits, ControlOK
    <3> QED
      BY <1>1, <2>1, <3>1, <3>2 DEF Exits, ControlOK
  <2>2. CASE /\ master' = [master EXCEPT ![m] = "gone"]
             /\ forwards' = {f \in forwards : f.on # m}
             /\ channel' = [c \in Clients |-> IF channel[c] = m THEN None ELSE channel[c]]
             /\ UNCHANGED <<socket, severed, startup, via>>
    BY <1>1, <2>2 DEF ControlOK
  <2> QED
    BY <2>1, <2>2 DEF Expire, MasterLost
<1>4. UNCHANGED broker /\ UNCHANGED host
  BY DEF Expire, MasterLost
<1> QED
  BY <1>2, <1>3, <1>4, PartsKept, TypeParts

LEMMA NextTyped == TypeOK /\ [Next]_vars => TypeOK'
<1> SUFFICES ASSUME TypeOK, [Next]_vars PROVE TypeOK'
  OBVIOUS
<1>1. CASE \E c \in Clients : Begin(c) \/ Steps(c) \/ Finish(c) \/ Cancel(c) \/ Killed(c) \/ PrivateFails(c)
  BY <1>1, ClientSteps, ControlSteps, BrokerSteps, HostSteps, TypeParts
<1>2. CASE \E m \in Masters : Expire(m) \/ MasterLost(m)
  BY <1>2, MasterSteps
<1>3. CASE UNCHANGED vars
  <2>1. ClientOK'
    BY <1>3, TypeParts DEF vars, ClientOK
  <2> QED
    BY <1>3, <2>1, PartsKept, TypeParts DEF vars
<1> QED
  BY <1>1, <1>2, <1>3 DEF Next, Over

\* Every variable keeps its type; in particular the order of the agents' directories stays
\* a total one, whatever is touched and pruned (internal/transport).
THEOREM TransportTypeCorrect == Spec => []TypeOK
BY InitTyped, NextTyped, PTL DEF Spec

-----------------------------------------------------------------------------
(* The shared control directory.                                           *)

Starting == {"check", "stat", "unlink", "launch", "ready"}     \* with the startup lock
Deploying == {"present", "mktemp", "upload", "install", "look", "remove", "reclaim"}
PreviewOnly == {"spawn", "wait", "use", "exit", "interrupt"}
SessionOnly == SessionSteps \ Deploying

\* Every kind of client has steps of its own; deploying is shared by two.
KindInv ==
  \A c \in Clients :
    /\ pc[c] \in SessionOnly => Kind(c) = "session"
    /\ pc[c] \in Deploying => Kind(c) \in {"session", "preview"}
    /\ pc[c] \in PreviewOnly => Kind(c) = "preview"
    /\ pc[c] = "stopShared" => Kind(c) = "stop"

\* The holder of the lock is the only one to start a master, at a path that is free.
StartupInv ==
  \A c \in Clients :
    /\ pc[c] \in Starting => startup = c
    /\ pc[c] = "launch" => socket = None
StopInv ==
  \A s, c \in Clients : pc[s] = "stopShared" /\ Kind(c) = "session" => pc[c] \in {"idle", "done", "dead"}

SharedInv == KindInv /\ StartupInv /\ StopInv /\ UpMeansReachable

-----------------------------------------------------------------------------
(* What a session adds to a master and starts on the host.                 *)

Before == ({"idle"} \cup SessionSteps \cup PreviewOnly)
            \ {"relay", "ping", "publish", "open", "killRelay", "cancelForward"}

\* A forward is on a live master; one nobody lost the answer about is the one its session
\* knows of, until it has been cancelled or cannot be told any more.
Holding == {"relay", "ping", "publish", "open", "killRelay", "cancelForward", "dead"}
ForwardsInv ==
  \A f \in forwards :
    /\ master[f.on] = "up"
    /\ f.client \in trouble
         \/ /\ f.on = via[f.client] /\ f.kind = spec[f.client]
            /\ pc[f.client] \in Holding \/ (pc[f.client] = "done" /\ f.on \in severed)
RelaysInv ==
  \A c \in relays : address[c] = "relay" =>
    c \in trouble \/ (c \in pidFile /\ pc[c] \in {"ping", "publish", "open", "killRelay", "dead"})

\* The forward a published address needs is on the master it was added to.
Needed(c) == [on |-> via[c], client |-> c, kind |-> IF address[c] = "stream" THEN "stream" ELSE "tcp"]
AddressFine(c) ==
  /\ pc[c] \in Before => address[c] = None
  /\ pc[c] = "relay" => address[c] = "tcp"
  /\ pc[c] \in {"relay", "ping", "publish", "open"} /\ address[c] # None =>
       /\ via[c] \in Masters /\ master[via[c]] # "none"
       /\ master[via[c]] = "up" => Needed(c) \in forwards
       /\ address[c] = "relay" => c \in relays
AddressInv == \A c \in Clients : AddressFine(c)

-----------------------------------------------------------------------------
(* The agents in the host's store.                                         *)

\* A client that has verified or installed its agent finds it, unless another version's
\* pruning removed it; its own pruning does not.
Stays(c) == Present(c) \/ (bin[Digest(c)] = None /\ Digest(c) \in pruned)
AgentInv ==
  /\ AgentsWhole
  /\ \A c \in Clients :
       /\ Digest(c) \notin doomed[c]
       /\ Prepared(c) \/ pc[c] \in {"probe", "look", "remove"} \/ c \in deployed \/ doomed[c] # {} => Stays(c)

-----------------------------------------------------------------------------
(* The shared control directory stays in order.                            *)

\* What every step of a client does to the places of the clients.
LEMMA OthersStay ==
  ASSUME ClientOK, NEW c \in Clients, Begin(c) \/ Steps(c) \/ Finish(c) \/ Cancel(c) \/ Killed(c) \/ PrivateFails(c)
  PROVE  setting' = setting /\ \A d \in Clients : d # c => pc'[d] = pc[d]
<1>1. pc \in [Clients -> Places]
  BY DEF ClientOK
<1>2. setting' = setting /\ (pc' = pc \/ \E l : Goto(c, l))
  BY DEF Begin, Finish, Cancel, Killed, PrivateFails, Steps, Connects, LockStartup, Check, Stat, Unlink,
     Launch, Ready, StopShared, Deploys, Verify, Probe, FindPresent, MakeTemp, Upload, Install, PruneLooks,
     PruneRemoves, Reclaim, Configures, MakeSessionDir, Forward, Fallback, StartRelay, Ping, Publish, Closes,
     KillRelay, CancelForward, ExitPrivate, InterruptPrivate, Previews, Spawn, WaitReady, Use
<1> QED
  BY <1>1, <1>2 DEF Goto

LEMMA KindSteps ==
  ASSUME ClientOK, KindInv, NEW c \in Clients,
         Begin(c) \/ Steps(c) \/ Finish(c) \/ Cancel(c) \/ Killed(c) \/ PrivateFails(c)
  PROVE  KindInv'
<1> DEFINE Fits(l) == /\ l \in SessionOnly => Kind(c) = "session"
                      /\ l \in Deploying => Kind(c) \in {"session", "preview"}
                      /\ l \in PreviewOnly => Kind(c) = "preview"
                      /\ l = "stopShared" => Kind(c) = "stop"
<1>1. pc \in [Clients -> Places] /\ Fits(pc[c])
  BY DEF ClientOK, KindInv
<1>2. Fits(pc'[c])
  <2>1. CASE Begin(c) \/ Finish(c) \/ Cancel(c) \/ Killed(c) \/ PrivateFails(c)
    BY <1>1, <2>1 DEF Begin, Finish, Cancel, Killed, PrivateFails, Goto, SessionOnly, SessionSteps, Deploying, PreviewOnly
  <2>2. CASE Connects(c)
    BY <1>1, <2>2 DEF Connects, LockStartup, Check, Stat, Unlink, Launch, Ready, StopShared, Goto, SessionOnly,
       SessionSteps, Deploying, PreviewOnly
  <2>3. CASE Deploys(c)
    BY <1>1, <2>3 DEF Deploys, Verify, Probe, FindPresent, MakeTemp, Upload, Install, PruneLooks, PruneRemoves,
       Reclaim, Abort, Goto, SessionOnly, SessionSteps, Deploying, PreviewOnly
  <2>4. CASE Configures(c)
    BY <1>1, <2>4 DEF Configures, MakeSessionDir, Forward, Fallback, StartRelay, Ping, Publish, Goto, SessionOnly,
       SessionSteps, Deploying, PreviewOnly
  <2>5. CASE Closes(c) \/ Previews(c)
    BY <1>1, <2>5 DEF Closes, KillRelay, CancelForward, ExitPrivate, InterruptPrivate, Previews, Spawn, WaitReady,
       Use, Goto, SessionOnly, SessionSteps, Deploying, PreviewOnly
  <2> QED
    BY <2>1, <2>2, <2>3, <2>4, <2>5 DEF Steps
<1> HIDE DEF Fits
<1>3. setting' = setting /\ \A d \in Clients : d # c => pc'[d] = pc[d]
  BY OthersStay
<1>4. \A d \in Clients : Kind(d)' = Kind(d)
  BY <1>3 DEF Kind
<1> QED
  BY <1>2, <1>3, <1>4 DEF KindInv, Fits

\* A client that is not starting leaves the startup in order.
LEMMA StartupKept ==
  ASSUME StartupInv, NEW c \in Clients, \A d \in Clients : d # c => pc'[d] = pc[d], startup' = startup,
         socket' \in {socket, None}, pc'[c] = pc[c] \/ pc'[c] \notin Starting
  PROVE  StartupInv'
BY DEF StartupInv, Starting

LEMMA StartupSteps ==
  ASSUME TypeOK, StartupInv, NEW c \in Clients,
         Begin(c) \/ Steps(c) \/ Finish(c) \/ Cancel(c) \/ Killed(c) \/ PrivateFails(c)
  PROVE  StartupInv'
<1>1. pc \in [Clients -> Places] /\ None \notin Clients /\ ClientOK
  BY TransportAssumption, TypeParts DEF ClientOK
<1>2. \A d \in Clients : d # c => pc'[d] = pc[d]
  BY <1>1, OthersStay
<1>3. CASE LockStartup(c) \/ Check(c) \/ Stat(c) \/ Unlink(c) \/ Launch(c) \/ Ready(c)
  <2>1. startup' \in {c, None} /\ (startup' = None => pc'[c] \notin Starting)
        /\ (pc'[c] = "launch" => socket' = None)
    BY <1>1, <1>3 DEF LockStartup, Check, Stat, Unlink, Launch, Ready, Goto, Starting, StartupInv, control
  <2>2. startup \in {c, None}
    BY <1>3 DEF LockStartup, Check, Stat, Unlink, Launch, Ready, Starting, StartupInv
  <2>3. \A d \in Clients : d # c => pc[d] \notin Starting
    BY <1>1, <2>2 DEF StartupInv
  <2> QED
    BY <1>1, <1>2, <2>1, <2>3 DEF StartupInv, Starting
<1>4. CASE Killed(c)
  BY <1>1, <1>2, <1>4 DEF Killed, Goto, StartupInv, Starting
<1>5. CASE Begin(c) \/ Finish(c) \/ Cancel(c) \/ PrivateFails(c) \/ StopShared(c) \/ Previews(c)
  BY <1>1, <1>2, <1>5, StartupKept DEF Begin, Finish, Cancel, PrivateFails, StopShared, Previews, Spawn,
     WaitReady, Use, Goto, Starting, control
<1>6. CASE Deploys(c)
  BY <1>1, <1>2, <1>6, StartupKept DEF Deploys, Verify, Probe, FindPresent, MakeTemp, Upload, Install, PruneLooks,
     PruneRemoves, Reclaim, Abort, Goto, Starting, control
<1>7. CASE Configures(c) \/ Closes(c)
  BY <1>1, <1>2, <1>7, StartupKept DEF Configures, MakeSessionDir, Forward, Fallback, StartRelay, Ping, Publish,
     Closes, KillRelay, CancelForward, ExitPrivate, InterruptPrivate, Goto, Starting, control
<1> QED
  BY <1>3, <1>4, <1>5, <1>6, <1>7 DEF Steps, Connects

LEMMA StopSteps ==
  ASSUME TypeOK, StopInv, NEW c \in Clients,
         Begin(c) \/ Steps(c) \/ Finish(c) \/ Cancel(c) \/ Killed(c) \/ PrivateFails(c)
  PROVE  StopInv'
<1>1. pc \in [Clients -> Places] /\ ClientOK
  BY TypeParts DEF ClientOK
<1>2. /\ \A d \in Clients : d # c => pc'[d] = pc[d]
      /\ \A d \in Clients : Kind(d)' = Kind(d)
  BY <1>1, OthersStay DEF Kind
<1>3. CASE Begin(c)
  BY <1>1, <1>2, <1>3 DEF Begin, Stopping, Quiet, Goto, StopInv
<1>4. (pc'[c] = pc[c] \/ (pc[c] \notin {"idle", "done", "dead"} /\ pc'[c] # "stopShared")) => StopInv'
  BY <1>2 DEF StopInv
<1>5. CASE Finish(c) \/ Killed(c)
  BY <1>1, <1>4, <1>5 DEF Finish, Killed, Goto
<1>9. CASE Cancel(c) \/ PrivateFails(c)
  BY <1>1, <1>4, <1>9 DEF Cancel, PrivateFails
<1>8. CASE Connects(c)
  BY <1>1, <1>4, <1>8 DEF Connects, LockStartup, Check, Stat, Unlink, Launch, Ready, StopShared, Goto
<1>6. CASE Deploys(c)
  BY <1>1, <1>4, <1>6 DEF Deploys, Verify, Probe, FindPresent, MakeTemp, Upload, Install, PruneLooks,
     PruneRemoves, Reclaim, Abort, Goto
<1>7. CASE Configures(c) \/ Closes(c) \/ Previews(c)
  BY <1>1, <1>4, <1>7 DEF Configures, MakeSessionDir, Forward, Fallback, StartRelay, Ping, Publish, Closes,
     KillRelay, CancelForward, ExitPrivate, InterruptPrivate, Previews, Spawn, WaitReady, Use, Goto
<1> QED
  BY <1>3, <1>5, <1>6, <1>7, <1>8, <1>9 DEF Steps

LEMMA UpSteps ==
  ASSUME TypeOK, StartupInv, UpMeansReachable, NEW c \in Clients,
         Begin(c) \/ Steps(c) \/ Finish(c) \/ Cancel(c) \/ Killed(c) \/ PrivateFails(c)
  PROVE  UpMeansReachable'
<1>1. ControlOK
  BY TypeParts
<1>2. CASE Unlink(c)
  BY <1>1, <1>2 DEF Unlink, Reachable, UpMeansReachable, ControlOK
<1>3. CASE Launch(c)
  BY <1>1, <1>3, TransportAssumption DEF Launch, Launched, UpMeansReachable, ControlOK, StartupInv, Masters, Starting
<1>4. CASE StopShared(c)
  BY <1>1, <1>4 DEF StopShared, UpMeansReachable, ControlOK
<1>5. CASE Begin(c) \/ Finish(c) \/ Cancel(c) \/ Killed(c) \/ PrivateFails(c) \/ LockStartup(c) \/ Check(c)
           \/ Stat(c) \/ Ready(c) \/ Deploys(c) \/ Configures(c) \/ Closes(c) \/ Previews(c)
  <2>1. UNCHANGED <<socket, master, severed>>
    BY <1>5 DEF Begin, Finish, Cancel, Killed, PrivateFails, LockStartup, Check, Stat, Ready, Deploys, Verify, Probe,
       FindPresent, MakeTemp, Upload, Install, PruneLooks, PruneRemoves, Reclaim, Configures, MakeSessionDir, Forward,
       Fallback, StartRelay, Ping, Publish, Closes, KillRelay, CancelForward, ExitPrivate, InterruptPrivate, Previews,
       Spawn, WaitReady, Use, control
  <2> QED
    BY <2>1 DEF UpMeansReachable
<1> QED
  BY <1>2, <1>3, <1>4, <1>5 DEF Steps, Connects

LEMMA NextShared == TypeOK /\ SharedInv /\ [Next]_vars => SharedInv'
<1> SUFFICES ASSUME TypeOK, SharedInv, [Next]_vars PROVE SharedInv'
  OBVIOUS
<1>1. ClientOK /\ ControlOK
  BY TypeParts
<1>2. ASSUME NEW c \in Clients, Begin(c) \/ Steps(c) \/ Finish(c) \/ Cancel(c) \/ Killed(c) \/ PrivateFails(c)
      PROVE  SharedInv'
  BY <1>1, <1>2, KindSteps, StartupSteps, StopSteps, UpSteps DEF SharedInv
<1>3. ASSUME NEW m \in Masters, Expire(m) \/ MasterLost(m)
      PROVE  SharedInv'
  <2>1. UNCHANGED <<setting, pc, startup>>
    BY <1>3 DEF Expire, MasterLost
  <2>2. KindInv' /\ StopInv'
    BY <2>1 DEF SharedInv, KindInv, StopInv, Kind
  <2>3. StartupInv'
    BY <1>3, <2>1 DEF SharedInv, StartupInv, Expire, MasterLost, Exits
  <2>4. UpMeansReachable'
    <3>1. CASE Exits(m)
      BY <1>1, <3>1 DEF SharedInv, UpMeansReachable, Exits, Reachable, ControlOK
    <3>2. CASE master' = [master EXCEPT ![m] = "gone"] /\ UNCHANGED <<socket, severed>>
      BY <1>1, <3>2 DEF SharedInv, UpMeansReachable, ControlOK
    <3> QED
      BY <1>3, <3>1, <3>2 DEF Expire, MasterLost
  <2> QED
    BY <2>2, <2>3, <2>4 DEF SharedInv
<1>4. CASE UNCHANGED vars
  BY <1>4 DEF SharedInv, KindInv, StartupInv, StopInv, UpMeansReachable, Kind, vars, control
<1> QED
  BY <1>2, <1>3, <1>4 DEF Next, Over

LEMMA InitShared == Init => SharedInv
<1> SUFFICES ASSUME Init PROVE SharedInv
  OBVIOUS
<1>1. \A c \in Clients : pc[c] \in {"idle", "done"}
  BY DEF Init
<1>2. \A m \in Masters : master[m] = "none"
  BY DEF Init
<1> QED
  BY <1>1, <1>2 DEF SharedInv, KindInv, StartupInv, StopInv, UpMeansReachable, SessionOnly, SessionSteps, Deploying,
     PreviewOnly, Starting

LEMMA SharedAlways == Spec => [](TypeOK /\ SharedInv)
BY InitTyped, NextTyped, InitShared, NextShared, PTL DEF Spec

\* No step of a client ends a master.
LEMMA OnlyStopEnds ==
  ASSUME ControlOK, NEW c \in Clients, NEW m \in Masters, master[m] = "up", master'[m] = "gone",
         Begin(c) \/ Steps(c) \/ Finish(c) \/ Cancel(c) \/ Killed(c) \/ PrivateFails(c)
  PROVE  StopShared(c)
<1>1. CASE Launch(c)
  BY <1>1 DEF Launch, Launched, ControlOK
<1>2. CASE Begin(c) \/ Finish(c) \/ Cancel(c) \/ Killed(c) \/ PrivateFails(c) \/ LockStartup(c) \/ Check(c)
           \/ Stat(c) \/ Unlink(c) \/ Ready(c) \/ Deploys(c) \/ Configures(c) \/ Closes(c) \/ Previews(c)
  <2>1. master' = master
    BY <1>2 DEF Begin, Finish, Cancel, Killed, PrivateFails, LockStartup, Check, Stat, Unlink, Ready, Deploys, Verify,
       Probe, FindPresent, MakeTemp, Upload, Install, PruneLooks, PruneRemoves, Reclaim, Configures, MakeSessionDir,
       Forward, Fallback, StartRelay, Ping, Publish, Closes, KillRelay, CancelForward, ExitPrivate, InterruptPrivate,
       Previews, Spawn, WaitReady, Use, control
  <2> QED
    BY <2>1
<1> QED
  BY <1>1, <1>2 DEF Steps, Connects

\* No step of a client ends the master over which another session's foreground command
\* runs: a session closes its own forward only, stop and clean work alone (Shared in
\* Master.close, StopSharedControlMaster of internal/transport/transport.go).  A Mosh session
\* runs its command over no master: of the one that carries its broker this says nothing
\* (OpenKeepsBroker).
THEOREM MastersOutliveUsers == Spec => MasterOutlivesUsers
<1>1. ASSUME TypeOK, SharedInv, [Next]_vars,
             NEW m \in Masters, master[m] = "up", master'[m] = "gone", budget' = budget,
             NEW c \in Clients, pc[c] = "open"
      PROVE  channel[c] # m
  <2>1. ClientOK /\ ControlOK
    BY <1>1, TypeParts
  <2>2. ASSUME NEW s \in Clients, Begin(s) \/ Steps(s) \/ Finish(s) \/ Cancel(s) \/ Killed(s) \/ PrivateFails(s)
        PROVE  FALSE
    <3>1. pc[s] = "stopShared"
      BY <1>1, <2>1, <2>2, OnlyStopEnds DEF StopShared
    <3>2. Kind(c) = "session"
      BY <1>1 DEF SharedInv, KindInv, SessionOnly, SessionSteps, Deploying
    <3> QED
      BY <1>1, <3>1, <3>2 DEF SharedInv, StopInv
  <2>3. ASSUME NEW n \in Masters, Expire(n) \/ MasterLost(n)
        PROVE  channel[c] # m
    <3>1. Expire(n)
      <4>1. \A f : ~Spend(f)
        BY <1>1, <2>1, OutcomesTyped
      <4> QED
        BY <2>3, <4>1 DEF MasterLost
    <3>2. n = m
      BY <1>1, <2>1, <3>1 DEF Expire, Exits, ControlOK
    <3> QED
      BY <1>1, <3>1, <3>2 DEF Expire
  <2>4. ~UNCHANGED vars
    BY <1>1 DEF vars, control
  <2> QED
    BY <1>1, <2>2, <2>3, <2>4 DEF Next, Over
<1>2. TypeOK /\ SharedInv /\ [Next]_vars =>
        [\A m \in Masters : master[m] = "up" /\ master'[m] = "gone" /\ budget' = budget =>
           \A c \in Clients : pc[c] = "open" => channel[c] # m]_vars
  BY <1>1
<1> QED
  BY <1>2, SharedAlways, PTL DEF Spec, MasterOutlivesUsers

-----------------------------------------------------------------------------
(* A session takes back what it added.                                     *)

ClientStep(c) == Begin(c) \/ Steps(c) \/ Finish(c) \/ Cancel(c) \/ Killed(c) \/ PrivateFails(c)

\* A lost answer is not forgotten, a removed path does not come back.
LEMMA TroubleGrows ==
  ASSUME NEW c \in Clients, ClientStep(c)
  PROVE  trouble \subseteq trouble' /\ severed \subseteq severed'
<1>1. CASE Begin(c) \/ Finish(c) \/ Cancel(c) \/ Killed(c) \/ PrivateFails(c) \/ Connects(c)
  BY <1>1 DEF Begin, Finish, Cancel, Killed, PrivateFails, Connects, LockStartup, Check, Stat, Unlink, Launch, Ready,
     StopShared, Answered, Lost, Unsent, control
<1>2. CASE Deploys(c)
  BY <1>2 DEF Deploys, Verify, Probe, FindPresent, MakeTemp, Upload, Install, PruneLooks, PruneRemoves, Reclaim,
     Answered, Lost, Unsent, Cleaned, NotCleaned, control
<1>3. CASE Configures(c)
  BY <1>3 DEF Configures, MakeSessionDir, Forward, Fallback, StartRelay, Ping, Publish, Answered, Lost, Unsent, control
<1>4. CASE Closes(c) \/ Previews(c)
  BY <1>4 DEF Closes, KillRelay, CancelForward, ExitPrivate, InterruptPrivate, Previews, Spawn, WaitReady, Use,
     Answered, Unsent, Cleaned, NotCleaned, control
<1> QED
  BY <1>1, <1>2, <1>3, <1>4 DEF ClientStep, Steps

LEMMA InitUploads == Init => UploadsReclaimed
BY DEF Init, UploadsReclaimed

LEMMA UploadSteps ==
  ASSUME ClientOK, HostOK, UploadsReclaimed, NEW c \in Clients, ClientStep(c)
  PROVE  UploadsReclaimed'
<1>1. pc \in [Clients -> Places] /\ uploads \in [Clients -> Digests \cup {None, "empty", "partial"}]
  BY DEF ClientOK, HostOK
<1>2. (\A d \in Clients : d # c => pc'[d] = pc[d]) /\ trouble \subseteq trouble'
  BY OthersStay, TroubleGrows DEF ClientStep
<1>3. \A d \in Clients : d # c => uploads'[d] = uploads[d]
  BY <1>1 DEF ClientStep, Begin, Steps, Finish, Cancel, Killed, PrivateFails, Connects, LockStartup, Check, Stat, Unlink,
     Launch, Ready, StopShared, Deploys, Verify, Probe, FindPresent, MakeTemp, Reserve, Upload, Install, Place, PruneLooks,
     PruneRemoves, Reclaim, Configures, MakeSessionDir, Forward, Fallback, StartRelay, Ping, Publish, Closes,
     KillRelay, CancelForward, ExitPrivate, InterruptPrivate, Previews, Spawn, WaitReady, Use, host
<1> DEFINE Held == {"upload", "install", "look", "remove", "reclaim", "dead"}
<1>4. uploads[c] # None => pc[c] \in Held \/ c \in trouble
  BY DEF UploadsReclaimed
<1>5. uploads'[c] # None => pc'[c] \in Held \/ c \in trouble'
  <2>1. CASE Deploys(c)
    BY <1>1, <1>2, <1>4, <2>1 DEF Deploys, Verify, Probe, FindPresent, MakeTemp, Reserve, Upload, Install, Place, PruneLooks,
       PruneRemoves, Reclaim, Goto, Lost, NotCleaned, host
  <2>2. CASE Begin(c) \/ Finish(c) \/ Cancel(c) \/ Killed(c) \/ PrivateFails(c) \/ Connects(c)
    BY <1>1, <1>2, <1>4, <2>2 DEF Begin, Finish, Cancel, Killed, PrivateFails, Connects, LockStartup, Check, Stat, Unlink,
       Launch, Ready, StopShared, Goto, host
  <2>3. CASE Configures(c) \/ Closes(c)
    BY <1>1, <1>2, <1>4, <2>3 DEF Configures, MakeSessionDir, Forward, Fallback, StartRelay, Ping, Publish, Closes,
       KillRelay, CancelForward, ExitPrivate, InterruptPrivate, Goto, host
  <2>4. CASE Previews(c)
    BY <1>1, <1>2, <1>4, <2>4 DEF Previews, Spawn, WaitReady, Use, Goto, host
  <2> QED
    BY <2>1, <2>2, <2>3, <2>4 DEF ClientStep, Steps
<1> QED
  BY <1>2, <1>3, <1>5 DEF UploadsReclaimed

LEMMA RelaySteps ==
  ASSUME ClientOK, BrokerOK, RelaysInv, NEW c \in Clients, ClientStep(c)
  PROVE  RelaysInv'
<1>1. pc \in [Clients -> Places] /\ relays \subseteq Clients /\ address \in [Clients -> {None, "stream", "tcp", "relay"}]
  BY DEF ClientOK, BrokerOK
<1>2. (\A d \in Clients : d # c => pc'[d] = pc[d]) /\ trouble \subseteq trouble'
  BY OthersStay, TroubleGrows DEF ClientStep
<1>7. \A d \in Clients : d # c => address'[d] = address[d]
  BY <1>1 DEF ClientStep, Begin, Steps, Finish, Cancel, Killed, PrivateFails, Connects, LockStartup, Check, Stat, Unlink,
     Launch, Ready, StopShared, Deploys, Verify, Probe, FindPresent, MakeTemp, Upload, Install, PruneLooks,
     PruneRemoves, Reclaim, Configures, MakeSessionDir, Forward, Fallback, StartRelay, Ping, Publish, Closes,
     KillRelay, CancelForward, ExitPrivate, InterruptPrivate, Previews, Spawn, WaitReady, Use, broker
<1>3. \A d : d # c => (d \in relays' <=> d \in relays) /\ (d \in pidFile' <=> d \in pidFile)
  BY DEF ClientStep, Begin, Steps, Finish, Cancel, Killed, PrivateFails, Connects, LockStartup, Check, Stat, Unlink,
     Launch, Ready, StopShared, Deploys, Verify, Probe, FindPresent, MakeTemp, Upload, Install, PruneLooks,
     PruneRemoves, Reclaim, Configures, MakeSessionDir, Forward, Fallback, StartRelay, Ping, Publish, Closes,
     KillRelay, CancelForward, ExitPrivate, InterruptPrivate, Previews, Spawn, WaitReady, Use, broker
<1> DEFINE Held == {"ping", "publish", "open", "killRelay", "dead"}
<1>4. c \in relays /\ address[c] = "relay" => c \in trouble \/ (c \in pidFile /\ pc[c] \in Held)
  BY DEF RelaysInv
<1>5. c \in relays' /\ address'[c] = "relay" => c \in trouble' \/ (c \in pidFile' /\ pc'[c] \in Held)
  <2>1. CASE Deploys(c)
    BY <1>1, <1>2, <1>4, <2>1 DEF Deploys, Verify, Probe, FindPresent, MakeTemp, Upload, Install, PruneLooks,
       PruneRemoves, Reclaim, Goto, broker
  <2>2. CASE Begin(c) \/ Finish(c) \/ Cancel(c) \/ Killed(c) \/ PrivateFails(c) \/ Connects(c)
    BY <1>1, <1>2, <1>4, <2>2 DEF Begin, Finish, Cancel, Killed, PrivateFails, Connects, LockStartup, Check, Stat, Unlink,
       Launch, Ready, StopShared, Goto, broker
  <2>3. CASE MakeSessionDir(c) \/ Ping(c) \/ Publish(c) \/ Closes(c) \/ Previews(c)
    BY <1>1, <1>2, <1>4, <2>3 DEF MakeSessionDir, Ping, Publish, Closes, KillRelay, CancelForward, ExitPrivate,
       InterruptPrivate, Previews, Spawn, WaitReady, Use, Goto, broker, NotCleaned
  <2>4. CASE Forward(c) \/ Fallback(c)
    BY <1>1, <1>2, <1>4, <2>4 DEF Forward, Fallback, Goto
  <2>5. CASE StartRelay(c)
    <3>1. CASE c \in pidFile' /\ pc'[c] = "ping"
      BY <3>1
    <3>2. CASE address' = [address EXCEPT ![c] = IF setting.container THEN None ELSE "tcp"]
      BY <1>1, <3>2, TransportAssumption
    <3> QED
      BY <1>1, <2>5, <3>1, <3>2 DEF StartRelay, Goto
  <2> QED
    BY <2>1, <2>2, <2>3, <2>4, <2>5 DEF ClientStep, Steps, Configures
<1>6. ASSUME NEW d \in relays', d # c, address'[d] = "relay" PROVE d \in trouble' \/ (d \in pidFile' /\ pc'[d] \in Held)
  BY <1>1, <1>2, <1>3, <1>6, <1>7 DEF RelaysInv
<1> QED
  BY <1>5, <1>6 DEF RelaysInv

\* A step that adds no forward and ends no master, by a client that keeps its place among
\* those that hold a forward or among the others.
LEMMA ForwardsKept ==
  ASSUME ClientOK, ControlOK, ForwardsInv, NEW c \in Clients, ClientStep(c), UNCHANGED <<forwards, via, spec>>,
         \A m \in Masters : master[m] = "up" => master'[m] = "up",
         pc[c] \in Holding => pc'[c] \in Holding, pc[c] = "done" => pc'[c] = "done"
  PROVE  ForwardsInv'
<1>1. (\A d \in Clients : d # c => pc'[d] = pc[d]) /\ trouble \subseteq trouble' /\ severed \subseteq severed'
  BY OthersStay, TroubleGrows DEF ClientStep
<1>2. \A f \in forwards : f.on \in Masters /\ f.client \in Clients
  BY DEF ControlOK
<1>3. ASSUME NEW f \in forwards, f.client = c
      PROVE  f.client \in trouble'
               \/ (f.on = via[c] /\ f.kind = spec[c] /\ (pc'[c] \in Holding \/ (pc'[c] = "done" /\ f.on \in severed')))
  BY <1>1, <1>3 DEF ForwardsInv, Holding
<1>4. ASSUME NEW f \in forwards, f.client # c
      PROVE  f.client \in trouble'
               \/ (/\ f.on = via[f.client] /\ f.kind = spec[f.client]
                   /\ pc'[f.client] \in Holding \/ (pc'[f.client] = "done" /\ f.on \in severed'))
  BY <1>1, <1>2, <1>4 DEF ForwardsInv, Holding
<1> QED
  BY <1>2, <1>3, <1>4 DEF ForwardsInv, Holding

LEMMA ForwardSteps ==
  ASSUME TypeOK, UpMeansReachable, ForwardsInv, NEW c \in Clients, ClientStep(c)
  PROVE  ForwardsInv'
<1>1. ClientOK /\ ControlOK /\ pc \in [Clients -> Places]
  BY TypeParts DEF ClientOK
<1>2. (\A d \in Clients : d # c => pc'[d] = pc[d]) /\ trouble \subseteq trouble' /\ severed \subseteq severed'
  BY <1>1, OthersStay, TroubleGrows DEF ClientStep
<1>3. CASE Begin(c) \/ Finish(c) \/ Cancel(c) \/ Killed(c) \/ PrivateFails(c)
  BY <1>1, <1>3, ForwardsKept DEF Begin, Finish, Cancel, Killed, PrivateFails, Goto, Holding, control, broker
<1>4. CASE LockStartup(c) \/ Check(c) \/ Stat(c) \/ Unlink(c) \/ Launch(c) \/ Ready(c)
  BY <1>1, <1>4, ForwardsKept DEF LockStartup, Check, Stat, Unlink, Launch, Launched, Ready, Goto, Holding,
     control, broker, ControlOK
<1>5. CASE StopShared(c)
  <2>1. /\ forwards' \subseteq forwards
        /\ \A f \in forwards' : master'[f.on] = master[f.on] /\ UNCHANGED <<via, spec, severed>>
    BY <1>1, <1>5 DEF StopShared, ControlOK, broker
  <2>2. pc[c] = "stopShared"
    BY <1>5 DEF StopShared
  <2> QED
    BY <1>1, <1>2, <2>1, <2>2 DEF ForwardsInv, ControlOK, Holding
<1>6. CASE Deploys(c)
  BY <1>1, <1>6, ForwardsKept DEF Deploys, Verify, Probe, FindPresent, MakeTemp, Upload, Install, PruneLooks,
     PruneRemoves, Reclaim, Goto, Holding, control, broker
<1>7. CASE MakeSessionDir(c) \/ StartRelay(c) \/ Ping(c) \/ Publish(c) \/ KillRelay(c)
  BY <1>1, <1>7, ForwardsKept DEF MakeSessionDir, StartRelay, Ping, Publish, KillRelay, Goto, Holding, control, broker
<1>8. CASE Forward(c) \/ Fallback(c)
  <2>1. \A f \in forwards : f.client = c => c \in trouble
    BY <1>8 DEF Forward, Fallback, ForwardsInv, Holding
  <2>2. \A d \in Clients : d # c => via'[d] = via[d] /\ spec'[d] = spec[d]
    BY <1>1, <1>8, TypeParts DEF Forward, Fallback, ControlOK, BrokerOK
  <2>3. UNCHANGED <<master, severed>>
    BY <1>8 DEF Forward, Fallback
  <2>4. ASSUME NEW f \in forwards'
        PROVE  f \in forwards \/ (/\ f.client = c /\ f.on = Reachable /\ Reachable # None
                                  /\ \/ c \in trouble'
                                     \/ f.on = via'[c] /\ f.kind = spec'[c] /\ pc'[c] \in Holding)
    BY <1>1, <1>8, TypeParts DEF Forward, Fallback, AddForward, Lost, Goto, ControlOK, BrokerOK, Holding
  <2> QED
    BY <1>1, <1>2, <2>1, <2>2, <2>3, <2>4, ReachableIs DEF ForwardsInv, ControlOK, Holding
<1>9. CASE CancelForward(c)
  <2>1. forwards' \subseteq forwards /\ UNCHANGED <<master, severed, via, spec>> /\ pc'[c] = "done" /\ pc[c] = "cancelForward"
    BY <1>1, <1>9 DEF CancelForward, Goto, broker
  <2>2. ASSUME NEW f \in forwards', f.client = c, c \notin trouble'
        PROVE  f.on = via[c] /\ f.kind = spec[c] /\ f.on \in severed
    <3>1. f.on = via[c] /\ f.kind = spec[c] /\ master[f.on] = "up" /\ f.on \in Masters
      BY <1>1, <1>2, <2>1, <2>2 DEF ForwardsInv, ControlOK
    <3>2. f # [on |-> Reachable, client |-> c, kind |-> spec[c]]
      BY <1>9, <2>2 DEF CancelForward, NotCleaned
    <3>3. f = [on |-> f.on, client |-> f.client, kind |-> f.kind]
      BY <1>1, <2>1 DEF ControlOK
    <3>4. f.on # Reachable
      BY <2>2, <3>1, <3>2, <3>3
    <3> QED
      BY <1>1, <3>1, <3>4, TransportAssumption DEF Reachable, UpMeansReachable, Masters
  <2> QED
    BY <1>1, <1>2, <2>1, <2>2 DEF ForwardsInv, ControlOK
<1>10. CASE ExitPrivate(c) \/ InterruptPrivate(c) \/ Previews(c)
  BY <1>1, <1>10, ForwardsKept DEF ExitPrivate, InterruptPrivate, Previews, Spawn, WaitReady, Use, Goto, Holding,
     control, broker
<1> QED
  BY <1>3, <1>4, <1>5, <1>6, <1>7, <1>8, <1>9, <1>10 DEF ClientStep, Steps, Connects, Configures, Closes

\* What becomes of an address when neither its client nor anybody else touches what it needs.
LEMMA AddressKept ==
  ASSUME ClientOK, ControlOK, AddressInv, NEW c \in Clients, ClientStep(c), UNCHANGED <<via, address>>,
         forwards \subseteq forwards', relays \subseteq relays',
         \A m \in Masters : master'[m] = master[m] \/ (master[m] = "none" /\ master'[m] = "up"),
         \/ pc'[c] = pc[c]
         \/ pc[c] \in Before /\ pc'[c] \notin {"relay", "ping", "publish", "open"}
         \/ pc'[c] \notin Before \cup {"relay", "ping", "publish", "open"}
         \/ pc[c] \in {"relay", "ping", "publish", "open"} /\ pc'[c] \in {"ping", "publish", "open"}
  PROVE  AddressInv'
<1>1. \A d \in Clients : d # c => pc'[d] = pc[d]
  BY OthersStay DEF ClientStep
<1>2. ASSUME NEW d \in Clients, pc'[d] = pc[d]
      PROVE  AddressFine(d)'
  BY <1>2 DEF AddressInv, AddressFine, Needed, ControlOK
<1>3. ASSUME pc'[c] # pc[c]
      PROVE  AddressFine(c)'
  BY <1>3 DEF AddressInv, AddressFine, Needed, ControlOK, Before, SessionSteps, PreviewOnly
<1> QED
  BY <1>1, <1>2, <1>3 DEF AddressInv

LEMMA AddressSteps ==
  ASSUME TypeOK, AddressInv, NEW c \in Clients, ClientStep(c)
  PROVE  AddressInv'
<1>1. ClientOK /\ ControlOK /\ BrokerOK /\ pc \in [Clients -> Places]
  BY TypeParts DEF ClientOK
<1>2. \A d \in Clients : d # c => pc'[d] = pc[d]
  BY <1>1, OthersStay DEF ClientStep
<1>3. CASE Begin(c) \/ Finish(c) \/ Cancel(c) \/ Killed(c) \/ PrivateFails(c)
  BY <1>1, <1>3, AddressKept DEF Begin, Finish, Cancel, Killed, PrivateFails, Goto, Before, SessionSteps, PreviewOnly,
     control, broker
<1>4. CASE LockStartup(c) \/ Check(c) \/ Stat(c) \/ Unlink(c) \/ Launch(c) \/ Ready(c)
  BY <1>1, <1>4, AddressKept DEF LockStartup, Check, Stat, Unlink, Launch, Launched, Ready, Goto, Before, SessionSteps,
     PreviewOnly, control, broker, ControlOK
<1>5. CASE StopShared(c)
  <2>1. /\ UNCHANGED <<via, address, relays>> /\ pc'[c] = "done"
        /\ \A m \in Masters : master'[m] = master[m] \/ (master'[m] = "gone" /\ m = socket)
        /\ \A m \in Masters : master'[m] = "up" => \A f \in forwards : f.on = m => f \in forwards'
    BY <1>1, <1>5 DEF StopShared, ControlOK, ClientOK, broker, Goto
  <2>2. ASSUME NEW d \in Clients PROVE AddressFine(d)'
    <3>1. CASE d = c
      BY <2>1, <3>1 DEF AddressFine, Before, SessionSteps, PreviewOnly
    <3>2. CASE d # c
      BY <1>2, <2>1, <3>2 DEF AddressInv, AddressFine, Needed
    <3> QED
      BY <3>1, <3>2
  <2> QED
    BY <2>2 DEF AddressInv
<1>6. CASE Deploys(c)
  BY <1>1, <1>6, AddressKept DEF Deploys, Verify, Probe, FindPresent, MakeTemp, Upload, Install, PruneLooks,
     PruneRemoves, Reclaim, Goto, Abort, Before, SessionSteps, PreviewOnly, control, broker
<1>7. CASE MakeSessionDir(c) \/ Ping(c) \/ Publish(c)
  BY <1>1, <1>7, AddressKept DEF MakeSessionDir, Ping, Publish, Goto, Before, SessionSteps, PreviewOnly, control, broker
<1>8. CASE Forward(c) \/ Fallback(c)
  <2>1. UNCHANGED <<master, relays>> /\ forwards \subseteq forwards' /\ address[c] = None
        /\ \A d \in Clients : d # c => via'[d] = via[d] /\ address'[d] = address[d]
    BY <1>1, <1>8 DEF Forward, Fallback, AddForward, AddressInv, AddressFine, Before, SessionSteps, PreviewOnly,
       ControlOK, BrokerOK
  <2>2. \A d \in Clients : d # c => AddressFine(d)'
    BY <1>2, <2>1 DEF AddressInv, AddressFine, Needed
  <2>3. ASSUME address'[c] = None PROVE AddressFine(c)'
    <3>1. pc'[c] \notin {"relay"}
      <4>1. None # "tcp"
        BY TransportAssumption
      <4>2. CASE Forward(c)
        BY <1>1, <4>2 DEF Forward, Goto
      <4>3. CASE Fallback(c)
        BY <1>1, <2>3, <4>1, <4>3 DEF Fallback, Goto, BrokerOK
      <4> QED
        BY <1>8, <4>2, <4>3
    <3> QED
      BY <2>3, <3>1 DEF AddressFine
  <2>4. ASSUME address'[c] # None PROVE AddressFine(c)'
    <3>1. \E k \in {"stream", "tcp"} :
            /\ AddForward(c, k) /\ via'[c] = Reachable /\ address'[c] = k
            /\ pc'[c] = IF k = "stream" THEN "ping" ELSE "relay"
      BY <1>1, <1>8, <2>1, <2>4 DEF Forward, Fallback, Goto, ControlOK, BrokerOK
    <3>2. PICK k \in {"stream", "tcp"} :
            /\ AddForward(c, k) /\ via'[c] = Reachable /\ address'[c] = k
            /\ pc'[c] = IF k = "stream" THEN "ping" ELSE "relay"
      BY <3>1
    <3>3. via'[c] \in Masters /\ master[via'[c]] = "up"
      BY <1>1, <3>2, ReachableIs DEF AddForward
    <3>4. Needed(c)' \in forwards'
      BY <3>2 DEF Needed, AddForward
    <3> QED
      <4>1. pc'[c] \notin Before /\ (pc'[c] = "relay" => address'[c] = "tcp") /\ address'[c] # "relay"
        BY <3>2 DEF Before
      <4> QED
        BY <2>1, <3>3, <3>4, <4>1 DEF AddressFine
  <2> QED
    BY <2>2, <2>3, <2>4 DEF AddressInv
<1>9. CASE StartRelay(c)
  <2>1. UNCHANGED <<master, forwards, via>> /\ relays \subseteq relays' /\ address[c] = "tcp"
        /\ \A d \in Clients : d # c => address'[d] = address[d]
    BY <1>1, <1>9 DEF StartRelay, AddressInv, AddressFine, BrokerOK, control
  <2>2. \A d \in Clients : d # c => AddressFine(d)'
    BY <1>2, <2>1 DEF AddressInv, AddressFine, Needed
  <2>3. /\ pc'[c] \in {"ping", "publish"} /\ address'[c] \in {"relay", "tcp", None}
        /\ address'[c] = "relay" => c \in relays'
    BY <1>1, <1>9, TransportAssumption DEF StartRelay, Goto, BrokerOK
  <2>4. pc[c] = "relay"
    BY <1>9 DEF StartRelay
  <2>5. AddressFine(c)'
    BY <2>1, <2>3, <2>4, TransportAssumption DEF AddressInv, AddressFine, Needed, Before
  <2> QED
    BY <2>2, <2>5 DEF AddressInv
<1>10. CASE KillRelay(c) \/ CancelForward(c)
  <2>1. UNCHANGED <<master, via, address>> /\ pc'[c] \in {"cancelForward", "done"}
        /\ \A d : d # c => (d \in relays => d \in relays')
        /\ \A f \in forwards : f.client # c => f \in forwards'
    BY <1>1, <1>10 DEF KillRelay, CancelForward, Goto, control, broker
  <2>2. ASSUME NEW d \in Clients PROVE AddressFine(d)'
    <3>1. CASE d = c
      BY <2>1, <3>1 DEF AddressFine, Before, SessionSteps, PreviewOnly
    <3>2. CASE d # c
      BY <1>2, <2>1, <3>2 DEF AddressInv, AddressFine, Needed
    <3> QED
      BY <3>1, <3>2
  <2> QED
    BY <2>2 DEF AddressInv
<1>11. CASE ExitPrivate(c) \/ InterruptPrivate(c) \/ Previews(c)
  BY <1>1, <1>11, AddressKept DEF ExitPrivate, InterruptPrivate, Previews, Spawn, WaitReady, Use, Goto, Before,
     SessionSteps, PreviewOnly, control, broker
<1> QED
  BY <1>3, <1>4, <1>5, <1>6, <1>7, <1>8, <1>9, <1>10, <1>11 DEF ClientStep, Steps, Connects, Configures, Closes

SessionInv == ForwardsInv /\ RelaysInv /\ AddressInv /\ UploadsReclaimed

LEMMA InitSession == Init => SessionInv
<1> SUFFICES ASSUME Init PROVE SessionInv
  OBVIOUS
<1>1. \A c \in Clients : pc[c] \in {"idle", "done"} /\ address[c] = None
  BY DEF Init
<1>2. ForwardsInv /\ RelaysInv
  BY DEF Init, ForwardsInv, RelaysInv
<1> QED
  BY <1>1, <1>2, InitUploads DEF SessionInv, AddressInv, AddressFine

\* When a master ends, its forwards end with it.
LEMMA MasterEndsForwards ==
  ASSUME ControlOK, NEW m \in Masters, Expire(m) \/ MasterLost(m)
  PROVE  /\ master' = [master EXCEPT ![m] = "gone"] /\ forwards' = {f \in forwards : f.on # m}
         /\ UNCHANGED <<setting, pc, via, spec, address, pidFile, relays, uploads, trouble>>
BY DEF Expire, MasterLost, Exits, broker, host

LEMMA NextSession == TypeOK /\ SharedInv /\ SessionInv /\ [Next]_vars => SessionInv'
<1> SUFFICES ASSUME TypeOK, SharedInv, SessionInv, [Next]_vars PROVE SessionInv'
  OBVIOUS
<1>1. ClientOK /\ ControlOK /\ BrokerOK /\ HostOK
  BY TypeParts
<1>2. ASSUME NEW c \in Clients, ClientStep(c)
      PROVE  SessionInv'
  BY <1>1, <1>2, ForwardSteps, RelaySteps, AddressSteps, UploadSteps DEF SessionInv, SharedInv
<1>3. ASSUME NEW m \in Masters, Expire(m) \/ MasterLost(m)
      PROVE  SessionInv'
  <2>1. /\ master' = [master EXCEPT ![m] = "gone"] /\ forwards' = {f \in forwards : f.on # m}
        /\ UNCHANGED <<setting, pc, via, spec, address, pidFile, relays, uploads, trouble>>
        /\ severed' \in {severed, severed \cup ({Reachable} \ {None, m})}
    BY <1>1, <1>3, MasterEndsForwards DEF Expire, MasterLost, Exits
  <2>2. ForwardsInv'
    BY <1>1, <2>1 DEF SessionInv, ForwardsInv, ControlOK
  <2>3. RelaysInv' /\ UploadsReclaimed'
    BY <2>1 DEF SessionInv, RelaysInv, UploadsReclaimed
  <2>4. ASSUME NEW c \in Clients PROVE AddressFine(c)'
    <3>1. via' = via /\ address' = address /\ pc' = pc /\ relays' = relays
      BY <2>1
    <3>2. AddressFine(c)
      BY DEF SessionInv, AddressInv
    <3>3. via[c] \in Masters => (master'[via[c]] = "up" => via[c] # m /\ master[via[c]] = "up")
                                /\ (master[via[c]] # "none" => master'[via[c]] # "none")
      BY <1>1, <2>1 DEF ControlOK
    <3>4. via[c] # m /\ Needed(c) \in forwards => Needed(c)' \in forwards'
      BY <2>1, <3>1 DEF Needed
    <3> QED
      BY <3>1, <3>2, <3>3, <3>4 DEF AddressFine
  <2> QED
    BY <2>2, <2>3, <2>4 DEF SessionInv, AddressInv
<1>4. CASE UNCHANGED vars
  BY <1>4 DEF SessionInv, ForwardsInv, RelaysInv, AddressInv, AddressFine, Needed, UploadsReclaimed, vars, control,
     broker, host
<1> QED
  BY <1>2, <1>3, <1>4 DEF Next, Over, ClientStep

LEMMA SessionAlways == Spec => [](TypeOK /\ SharedInv /\ SessionInv)
BY InitSession, NextSession, SharedAlways, PTL DEF Spec

\* A client that was not killed and lost no answer leaves no upload when its deployment is
\* over, also when it was cancelled, and when it is done neither the relay whose address it
\* published nor its forward on a master that can be told (DeployAgent's deferred rm,
\* Master.close of transport.go).
THEOREM NothingIsLeftBehind == Spec => []NothingLeftBehind
<1>1. TypeOK /\ SessionInv => NothingLeftBehind
  BY DEF SessionInv, ForwardsInv, RelaysInv, NothingLeftBehind, ForwardsReclaimed, TypeOK, Holding
<1> QED
  BY <1>1, SessionAlways, PTL

\* At most one shared master answers, on the shared path; while a session is open, the
\* forward its published address needs is there as long as the master that carries it, and
\* so is the relay (StartSharedControlMaster, ConfigureBroker, startSession).
THEOREM BrokersAreReachable == Spec => []BrokersReachable
<1>1. TypeOK /\ SharedInv /\ SessionInv => BrokersReachable
  <2> SUFFICES ASSUME TypeOK, SharedInv, SessionInv PROVE PublishedBrokerWorks
    BY DEF SharedInv, BrokersReachable
  <2>1. ASSUME NEW c \in Clients, pc[c] = "open", address[c] # None
        PROVE  /\ master[via[c]] = "up" => Carried(c)
               /\ address[c] = "relay" => c \in relays
    <3>1. /\ master[via[c]] = "up" => Needed(c) \in forwards
          /\ address[c] = "relay" => c \in relays
      BY <2>1 DEF SessionInv, AddressInv, AddressFine
    <3> QED
      BY <3>1 DEF Needed, Carried
  <2> QED
    BY <2>1 DEF PublishedBrokerWorks
<1> QED
  BY <1>1, SessionAlways, PTL

-----------------------------------------------------------------------------
(* A client finds the agent it prepared.                                   *)

\* Agents change when one is placed, whole, and when some are pruned.
LEMMA AgentSteps ==
  ASSUME TypeOK, AgentsWhole, NEW c \in Clients, ClientStep(c)
  PROVE  \/ UNCHANGED <<bin, pruned>>
         \/ Install(c) /\ bin' = [bin EXCEPT ![Digest(c)] = Digest(c)] /\ pruned' = pruned
         \/ /\ PruneRemoves(c) /\ bin' = [d \in Digests |-> IF d \in doomed[c] THEN None ELSE bin[d]]
            /\ pruned' = pruned \cup doomed[c]
<1>1. CASE Install(c)
  BY <1>1 DEF Install, Place, Verified
<1>2. CASE PruneRemoves(c)
  BY <1>2 DEF PruneRemoves
<1>3. CASE Begin(c) \/ Finish(c) \/ Cancel(c) \/ Killed(c) \/ PrivateFails(c) \/ Connects(c) \/ Configures(c)
           \/ Closes(c) \/ Previews(c) \/ Verify(c) \/ Probe(c) \/ FindPresent(c) \/ MakeTemp(c) \/ Upload(c)
           \/ PruneLooks(c) \/ Reclaim(c)
  BY <1>3 DEF Begin, Finish, Cancel, Killed, PrivateFails, Connects, LockStartup, Check, Stat, Unlink, Launch, Ready,
     StopShared, Configures, MakeSessionDir, Forward, Fallback, StartRelay, Ping, Publish, Closes, KillRelay,
     CancelForward, ExitPrivate, InterruptPrivate, Previews, Spawn, WaitReady, Use, Verify, Probe, FindPresent,
     MakeTemp, Upload, PruneLooks, Reclaim, host
<1> QED
  BY <1>1, <1>2, <1>3 DEF ClientStep, Steps, Deploys

LEMMA AgentsStay ==
  ASSUME TypeOK, AgentsWhole, NEW c \in Clients, ClientStep(c), Digest(c) \notin doomed[c]
  PROVE  /\ AgentsWhole' /\ setting' = setting
         /\ \A d \in Clients : Stays(d) => Stays(d)'
<1>1. ClientOK /\ HostOK
  BY TypeParts
<1>2. setting' = setting /\ \A d \in Clients : Digest(d)' = Digest(d) /\ Digest(d) \in Digests
  BY <1>1, OthersStay, SettingIs DEF ClientStep, ClientOK, Digest
<1>3. CASE UNCHANGED <<bin, pruned>>
  BY <1>2, <1>3 DEF AgentsWhole, Stays, Present
<1>4. CASE bin' = [bin EXCEPT ![Digest(c)] = Digest(c)] /\ pruned' = pruned
  BY <1>1, <1>2, <1>4 DEF AgentsWhole, Stays, Present, HostOK
<1>5. CASE bin' = [d \in Digests |-> IF d \in doomed[c] THEN None ELSE bin[d]] /\ pruned' = pruned \cup doomed[c]
  BY <1>1, <1>2, <1>5 DEF AgentsWhole, Stays, Present, HostOK
<1> QED
  BY <1>3, <1>4, <1>5, AgentSteps

\* Who may rely on the agent.
Relies(c) == Prepared(c) \/ pc[c] \in {"probe", "look", "remove"} \/ c \in deployed \/ doomed[c] # {}

LEMMA ReliesKept ==
  ASSUME TypeOK, AgentInv, NEW c \in Clients, ClientStep(c)
  PROVE  /\ \A d \in Clients : d # c => Relies(d)' = Relies(d) /\ doomed'[d] = doomed[d]
         /\ Digest(c) \notin doomed'[c]
         /\ Relies(c)' => Stays(c) \/ Present(c)'
<1>1. ClientOK /\ HostOK /\ pc \in [Clients -> Places]
  BY TypeParts DEF ClientOK
<1>2. \A d \in Clients : d # c => pc'[d] = pc[d]
  BY <1>1, OthersStay DEF ClientStep
<1>3. \A d \in Clients : d # c => (d \in deployed' <=> d \in deployed) /\ doomed'[d] = doomed[d]
  BY SMTT(60), <1>1 DEF HostOK, ClientStep, Begin, Steps, Finish, Cancel, Killed, PrivateFails, Connects, LockStartup, Check, Stat,
     Unlink, Launch, Ready, StopShared, Deploys, Verify, Probe, FindPresent, MakeTemp, Upload, Install, PruneLooks,
     PruneRemoves, Reclaim, Configures, MakeSessionDir, Forward, Fallback, StartRelay, Ping, Publish, Closes,
     KillRelay, CancelForward, ExitPrivate, InterruptPrivate, Previews, Spawn, WaitReady, Use, host
<1>4. Digest(c) \notin doomed[c] /\ (Relies(c) => Stays(c))
  BY DEF AgentInv, Relies
<1>5. Digest(c) \notin doomed'[c] /\ (Relies(c)' => Relies(c) \/ Present(c) \/ Present(c)')
  <2>1. CASE Begin(c) \/ Finish(c) \/ Cancel(c) \/ Killed(c) \/ PrivateFails(c) \/ Connects(c)
    BY <1>1, <1>4, <2>1 DEF Begin, Finish, Cancel, Killed, PrivateFails, Connects, LockStartup, Check, Stat, Unlink,
       Launch, Ready, StopShared, Goto, host, Relies, Prepared
  <2>2. CASE Verify(c) \/ Probe(c) \/ FindPresent(c) \/ MakeTemp(c) \/ Upload(c)
    BY <1>1, <1>4, <2>2 DEF Verify, Probe, FindPresent, MakeTemp, Upload, Goto, Abort, host, Relies, Prepared
  <2>3. CASE Install(c)
    <3>1. UNCHANGED <<deployed, doomed>>
      BY <2>3 DEF Install
    <3>2. pc'[c] = "reclaim" \/ (Verified(c) /\ Place(c))
      BY <1>1, <2>3 DEF Install, Goto
    <3>3. Verified(c) /\ Place(c) => Present(c)'
      <4>1. Digest(c) \in Digests /\ Digest(c)' = Digest(c)
        BY <1>1, <2>3, SettingIs DEF ClientOK, Install, Digest
      <4> QED
        BY <1>1, <4>1 DEF Verified, Place, Present, HostOK
    <3> QED
      BY <1>4, <3>1, <3>2, <3>3 DEF Relies, Prepared
  <2>4. CASE PruneLooks(c)
    BY ZenonT(60), <1>1, <1>4, <2>4 DEF PruneLooks, Surplus, Prunable, HostOK, Goto, Relies, Prepared
  <2>5. CASE PruneRemoves(c) \/ Reclaim(c)
    BY <1>1, <1>4, <2>5 DEF PruneRemoves, Reclaim, HostOK, Goto, Abort, Relies, Prepared
  <2>6. CASE Configures(c)
    BY <1>1, <1>4, <2>6 DEF Configures, MakeSessionDir, Forward, Fallback, StartRelay, Ping, Publish, Goto, host,
       Relies, Prepared
  <2>7. CASE Closes(c) \/ Previews(c)
    BY <1>1, <1>4, <2>7 DEF Closes, KillRelay, CancelForward, ExitPrivate, InterruptPrivate, Previews, Spawn, WaitReady,
       Use, Goto, host, Relies, Prepared
  <2> QED
    BY <2>1, <2>2, <2>3, <2>4, <2>5, <2>6, <2>7 DEF ClientStep, Steps, Deploys
<1>6. \A d \in Clients : d # c => Relies(d)' = Relies(d)
  BY <1>2, <1>3 DEF Relies, Prepared
<1> QED
  BY <1>3, <1>4, <1>5, <1>6 DEF Stays

LEMMA InitAgent == Init => AgentInv
<1> SUFFICES ASSUME Init PROVE AgentInv
  OBVIOUS
<1>1. AgentsWhole
  BY DEF Init, AgentsWhole
<1>2. ASSUME NEW c \in Clients PROVE ~Relies(c)
  BY <1>2 DEF Init, Relies, Prepared
<1> QED
  BY <1>1, <1>2 DEF Init, AgentInv, Relies

LEMMA NextAgent == TypeOK /\ AgentInv /\ [Next]_vars => AgentInv'
<1> SUFFICES ASSUME TypeOK, AgentInv, [Next]_vars PROVE AgentInv'
  OBVIOUS
<1>1. ASSUME NEW c \in Clients, ClientStep(c)
      PROVE  AgentInv'
  <2>1. AgentsWhole' /\ setting' = setting /\ \A d \in Clients : Stays(d) => Stays(d)'
    BY <1>1, AgentsStay DEF AgentInv
  <2>2. \A d \in Clients : Digest(d)' = Digest(d)
    BY <2>1 DEF Digest
  <2>3. /\ \A d \in Clients : d # c => Relies(d)' = Relies(d) /\ doomed'[d] = doomed[d]
        /\ Digest(c) \notin doomed'[c]
        /\ Relies(c)' => Stays(c) \/ Present(c)'
    BY <1>1, ReliesKept
  <2>4. \A d \in Clients : Digest(d) \notin doomed[d] /\ (Relies(d) => Stays(d))
    BY DEF AgentInv, Relies
  <2>5. \A d \in Clients : (Digest(d) \notin doomed[d])' /\ (Relies(d)' => Stays(d)')
    BY <2>1, <2>2, <2>3, <2>4 DEF Stays
  <2> QED
    BY <2>1, <2>5 DEF AgentInv, Relies
<1>2. ASSUME NEW m \in Masters, Expire(m) \/ MasterLost(m)
      PROVE  AgentInv'
  <2>1. UNCHANGED <<setting, pc, bin, pruned, doomed, deployed>>
    BY <1>2 DEF Expire, MasterLost, host
  <2> QED
    BY <2>1 DEF AgentInv, AgentsWhole, Stays, Present, Prepared, Digest
<1>3. CASE UNCHANGED vars
  BY <1>3 DEF AgentInv, AgentsWhole, Stays, Present, Prepared, Digest, vars, host
<1> QED
  BY <1>1, <1>2, <1>3 DEF Next, Over, ClientStep

\* An executable at a content-addressed path has that content, whatever uploads were cut
\* off or replaced, and a client that has prepared its agent finds it, unless another
\* version's pruning removed it; its own pruning does not (PrepareAgent, DeployAgent and
\* pruneAgents of internal/transport/transport.go).
THEOREM AgentsAreUsable == Spec => []AgentsUsable
<1>1. AgentInv => AgentsUsable
  BY DEF AgentInv, AgentsUsable, AgentStays, Stays
<1> QED
  BY <1>1, InitTyped, NextTyped, InitAgent, NextAgent, PTL DEF Spec

=============================================================================

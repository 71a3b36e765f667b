----------------------------- MODULE LedgerProofs -----------------------------
(***************************************************************************)
(* What the broker owes its surroundings, for every number of wrappers,    *)
(* probes, panes and connections: connection slots are neither lost nor    *)
(* given back twice, a waiting wrapper is always known to somebody who     *)
(* will answer it, the broker is quiet once it is closed, and each of its  *)
(* steps is a step of PaneLedger or leaves the ledger alone.               *)
(***************************************************************************)
EXTENDS BrokerProofs, FiniteSetTheorems

\* The goroutines that hold a slot.
Holders == {c \in Conns : Active(c)}

\* There are finitely many of them at any time, one for each taken slot.
SlotsInv == IsFiniteSet(Holders) /\ SlotsBalance

\* A goroutine that moves without starting or ending keeps its slot.
LEMMA SlotKept ==
  ASSUME SlotsInv, \A c \in Conns : Active(c)' <=> Active(c), slots' = slots
  PROVE  SlotsInv'
<1>1. Holders' = Holders BY DEF Holders
<1> QED BY <1>1 DEF SlotsInv, SlotsBalance, Holders

\* Which places hold a slot.
LEMMA ActivePlaces ==
  ASSUME NEW c
  PROVE  Active(c) <=> handler[c] \notin {"none", "queued", "refused", "done"}
  BY DEF Active, Idle

\* Goto between two places that hold a slot, or two that do not, keeps the balance.
LEMMA GotoKeepsSlots ==
  ASSUME TypeOK, SlotsInv, NEW c \in Conns, NEW pc, Goto(c, pc), pc \in Idle <=> handler[c] \in Idle,
         slots' = slots
  PROVE  SlotsInv'
<1>1. \A d \in Conns : handler'[d] = IF d = c THEN pc ELSE handler[d] BY DEF Goto, TypeOK
<1>2. \A d \in Conns : Active(d)' <=> Active(d) BY <1>1 DEF Active
<1> QED BY <1>2, SlotKept

\* A step that moves no goroutine and touches no slot keeps the balance.
LEMMA StillKeepsSlots ==
  ASSUME SlotsInv, UNCHANGED <<handler, slots>> PROVE SlotsInv'
  BY SlotKept DEF Active

\* Removing a request moves a goroutine that goes on to "notify" or "return".
LEMMA TakeKeepsSlots ==
  ASSUME TypeOK, SlotsInv, NEW c \in Conns, NEW id, NEW v, Take(c, id, v), handler[c] \notin Idle,
         slots' = slots
  PROVE  SlotsInv'
<1>1. Goto(c, IF requests[id] = None THEN "return" ELSE "notify") BY DEF Take
<1>2. "return" \notin Idle /\ "notify" \notin Idle BY DEF Idle
<1> QED BY <1>1, <1>2, GotoKeepsSlots

\* serveListener takes a slot for a goroutine it starts, and only then.
LEMMA AcceptKeepsSlots ==
  ASSUME TypeOK, SlotsInv, NEW c \in Conns, Accept(c) PROVE SlotsInv'
<1>1. CASE slots' = slots + 1 /\ Goto(c, "handshake")
  <2>1. \A d \in Conns : handler'[d] = IF d = c THEN "handshake" ELSE handler[d]
    BY <1>1 DEF Goto, TypeOK
  <2>2. c \notin Holders BY DEF Accept, Holders, Active, Idle
  <2>3. Holders' = Holders \cup {c} BY <2>1 DEF Holders, Active, Idle
  <2>4. IsFiniteSet(Holders') /\ Cardinality(Holders') = Cardinality(Holders) + 1
    BY <2>2, <2>3, FS_AddElement DEF SlotsInv
  <2> QED BY <1>1, <2>4 DEF SlotsInv, SlotsBalance, Holders
<1>2. CASE Goto(c, "refused") /\ UNCHANGED slots
  BY <1>2, GotoKeepsSlots DEF Accept, Idle
<1> QED BY <1>1, <1>2 DEF Accept

\* The deferred return of a goroutine gives its slot back.
LEMMA ReturnKeepsSlots ==
  ASSUME TypeOK, SlotsInv, NEW c \in Conns, HandlerReturn(c) PROVE SlotsInv'
<1>1. \A d \in Conns : handler'[d] = IF d = c THEN "done" ELSE handler[d]
  BY DEF HandlerReturn, Goto, TypeOK
<1>2. c \in Holders BY DEF HandlerReturn, Holders, Active, Idle
<1>3. Holders' = Holders \ {c} BY <1>1 DEF Holders, Active, Idle
<1>4. IsFiniteSet(Holders') /\ Cardinality(Holders') = Cardinality(Holders) - 1
  BY <1>2, <1>3, FS_RemoveElement DEF SlotsInv
<1> QED BY <1>4 DEF SlotsInv, SlotsBalance, Holders, HandlerReturn

\* Accepting, notifying, closing and returning keep the balance.
LEMMA ServeKeepsSlots ==
  ASSUME TypeOK, SlotsInv, NEW c \in Conns, Serve(c) PROVE SlotsInv'
<1>1. CASE HandshakeFails(c) BY <1>1, GotoKeepsSlots DEF HandshakeFails, Idle
<1>2. CASE Notify(c) BY <1>2, GotoKeepsSlots DEF Notify, Idle
<1>3. CASE ClosePane(c) BY <1>3, GotoKeepsSlots DEF ClosePane, Idle
<1> QED BY <1>1, <1>2, <1>3, AcceptKeepsSlots, ReturnKeepsSlots DEF Serve

\* handleWrapper keeps its slot whatever happens to its request.
LEMMA OpeningKeepsSlots ==
  ASSUME TypeOK, SlotsInv, NEW w \in Wrappers, Opening(w) PROVE SlotsInv'
<1>a. W(w) \in Conns BY ConnFacts
<1>1. CASE Register(w) BY <1>1, <1>a, GotoKeepsSlots DEF Register, Idle
<1>2. CASE Barrier(w) BY <1>2, <1>a, GotoKeepsSlots, TakeKeepsSlots DEF Barrier, Idle
<1>3. CASE OpenFails(w) BY <1>3, <1>a, TakeKeepsSlots DEF OpenFails, Idle
<1>4. CASE OpenCreates(w) BY <1>4, <1>a, GotoKeepsSlots DEF OpenCreates, Idle
<1>5. CASE OpenIdentified(w) BY <1>5, <1>a, GotoKeepsSlots DEF OpenIdentified, Idle
<1>6. CASE OpenAborts(w) BY <1>6, <1>a, TakeKeepsSlots DEF OpenAborts, Idle
<1>7. CASE OpenReturns(w) BY <1>7, <1>a, GotoKeepsSlots DEF OpenReturns, Idle
<1>8. CASE LateClose(w) BY <1>8, <1>a, GotoKeepsSlots DEF LateClose, Idle
<1>9. CASE Announce(w) BY <1>9, <1>a, GotoKeepsSlots, TakeKeepsSlots DEF Announce, Idle
<1>10. CASE WrapperLost(w) BY <1>10, <1>a, TakeKeepsSlots DEF WrapperLost, Idle
<1> QED
  BY <1>1, <1>2, <1>3, <1>4, <1>5, <1>6, <1>7, <1>8, <1>9, <1>10 DEF Opening

\* handlePane and the other connections keep their slots.
LEMMA OthersKeepSlots ==
  ASSUME TypeOK, SlotsInv, \/ \E w \in Wrappers : Paning(w)
                           \/ \E q \in Probes : Probing(q)
  PROVE  SlotsInv'
<1>1. ASSUME NEW w \in Wrappers, HandlePane(w) PROVE SlotsInv'
  BY <1>1, ConnFacts, GotoKeepsSlots DEF HandlePane, Idle
<1>2. ASSUME NEW w \in Wrappers, PaneEnds(w) PROVE SlotsInv'
  BY <1>2, ConnFacts, TakeKeepsSlots DEF PaneEnds, Idle
<1>3. ASSUME NEW q \in Probes, ProbeFirst(q) PROVE SlotsInv'
  BY <1>3, ConnFacts, GotoKeepsSlots, TakeKeepsSlots DEF ProbeFirst, Idle
<1>4. ASSUME NEW q \in Probes, ProbeBarrier(q) PROVE SlotsInv'
  BY <1>4, ConnFacts, GotoKeepsSlots DEF ProbeBarrier, Idle
<1> QED BY <1>1, <1>2, <1>3, <1>4 DEF Paning, Probing

\* close() ends no goroutine itself.
LEMMA CloserKeepsSlots ==
  ASSUME TypeOK, SlotsInv, Closer PROVE SlotsInv'
<1> USE DEF tableVars, serverVars, clientVars, helperVars, paneVars
<1>1. CASE CloseDetach BY <1>1, StillKeepsSlots DEF CloseDetach
<1>2. CASE CloseHangup
  <2>1. \A d \in Conns : handler'[d] = IF handler[d] = "queued" THEN "refused" ELSE handler[d]
    BY <1>2 DEF CloseHangup
  <2>2. \A d \in Conns : Active(d)' <=> Active(d) BY <2>1 DEF Active, Idle
  <2> QED BY <1>2, <2>2, SlotKept DEF CloseHangup
<1>3. ASSUME NEW w \in Wrappers, CloseSweep(w) PROVE SlotsInv'
  BY <1>3, StillKeepsSlots DEF CloseSweep
<1>4. CASE CloseWait BY <1>4, StillKeepsSlots DEF CloseWait
<1> QED BY <1>1, <1>2, <1>3, <1>4 DEF Closer

\* Wrappers, helpers and users take and return no slot.
LEMMA ClientKeepsSlots ==
  ASSUME TypeOK, SlotsInv, \/ Environment
                           \/ \E w \in Wrappers : Helping(w) \/ WrapperStops(w, FALSE)
  PROVE  SlotsInv'
<1> USE DEF tableVars, serverVars, clientVars, helperVars, paneVars
<1>1. ASSUME NEW w \in Wrappers, WrapperDial(w) PROVE SlotsInv'
  BY <1>1, ConnFacts, GotoKeepsSlots DEF WrapperDial, Idle
<1>2. ASSUME NEW w \in Wrappers, HelperDial(w) PROVE SlotsInv'
  BY <1>2, ConnFacts, GotoKeepsSlots DEF HelperDial, Idle
<1>3. ASSUME NEW q \in Probes, ProbeDial(q) PROVE SlotsInv'
  BY <1>3, ConnFacts, GotoKeepsSlots DEF ProbeDial, Idle
<1>4. ASSUME NEW w \in Wrappers,
             \/ WrapperSignal(w) \/ DebuggerExits(w) \/ HelperEnter(w) \/ PaneGoes(w)
             \/ HelperFailsToStart(w) \/ HelperCancelled(w) \/ HelperHangup(w)
      PROVE  SlotsInv'
  <2>1. UNCHANGED <<handler, slots>>
    BY <1>4 DEF WrapperSignal, DebuggerExits, HelperEnter, PaneGoes,
                HelperFailsToStart, HelperCancelled, HelperHangup, SendExited
  <2> QED BY <2>1, StillKeepsSlots
<1>5. CASE CloseBegin BY <1>5, StillKeepsSlots DEF CloseBegin
<1>6. ASSUME NEW w \in Wrappers, NEW d \in BOOLEAN, WrapperStops(w, d) PROVE SlotsInv'
  BY <1>6, StillKeepsSlots DEF WrapperStops
<1> QED BY <1>1, <1>2, <1>3, <1>4, <1>5, <1>6 DEF Environment, Helping

\* Refused, failed, cancelled and shut down connections never eat into
\* maxBrokerConnections, and no slot is given back twice (broker.go serveListener).
THEOREM SlotsBalanced == Spec => []SlotsBalance
<1>1. Init => SlotsInv
  <2> SUFFICES ASSUME Init PROVE SlotsInv OBVIOUS
  <2>1. Holders = {} BY DEF Init, Holders, Active, Idle
  <2> QED BY <2>1, FS_EmptySet DEF Init, SlotsInv, SlotsBalance, Holders
<1>2. TypeOK /\ SlotsInv /\ [Next]_vars => SlotsInv'
  <2> SUFFICES ASSUME TypeOK, SlotsInv, [Next]_vars PROVE SlotsInv' OBVIOUS
  <2>1. CASE UNCHANGED vars BY <2>1, StillKeepsSlots DEF vars, serverVars
  <2>2. CASE Next
    BY <2>2, ServeKeepsSlots, OpeningKeepsSlots, OthersKeepSlots, CloserKeepsSlots,
       ClientKeepsSlots DEF Next
  <2> QED BY <2>1, <2>2
<1>3. SlotsInv => SlotsBalance BY DEF SlotsInv
<1> QED BY <1>1, <1>2, <1>3, TypeCorrect, PTL DEF Spec

-----------------------------------------------------------------------------
(* Nobody is forgotten.                                                    *)

\* A wrapper that can still be told something, and has not been told anything.
Waits(w) == wrapper[w] = "waiting" /\ link[W(w)] = "up" /\ ~Answered(w)

\* Somebody who will answer or hang up knows of it.
Attended(w) ==
  \/ handler[W(w)] \in {"queued", "handshake"}
  \/ w \in Registered
  \/ lifecycle = "detached"
  \/ \E c \in Conns : victim[c] = w /\ handler[c] = "notify"

\* The invariant in these words.
LEMMA WaitersAttended == NoForgottenWrapper <=> \A w \in Wrappers : Waits(w) => Attended(w)
  BY DEF NoForgottenWrapper, Waits, Attended

\* What Waits and Attended look at: a step that takes none of it away forgets nobody.
LEMMA AttentionKept ==
  ASSUME NoForgottenWrapper,
         \A w \in Wrappers : Waits(w)' =>
           /\ Waits(w)
           /\ handler[W(w)] \in {"queued", "handshake"} => Attended(w)',
         \A c \in Conns : handler[c] = "notify" => handler'[c] = "notify" /\ victim'[c] = victim[c],
         requests' = requests, lifecycle = "detached" => lifecycle' = "detached"
  PROVE  NoForgottenWrapper'
<1>1. Registered' = Registered BY DEF Registered
<1>2. ASSUME NEW w \in Wrappers, Waits(w)' PROVE Attended(w)'
  <2>1. Attended(w) BY <1>2, WaitersAttended
  <2>2. CASE handler[W(w)] \in {"queued", "handshake"} BY <1>2, <2>2
  <2>3. CASE handler[W(w)] \notin {"queued", "handshake"} BY <1>1, <2>1, <2>3 DEF Attended
  <2> QED BY <2>2, <2>3
<1> QED BY <1>2 DEF NoForgottenWrapper, Waits, Attended

\* Answers and sockets of the others do not change when a client's socket goes down.
LEMMA WaitsKept ==
  ASSUME wrapper' = wrapper, replies' = replies,
         \A c \in Conns : link'[c] = "up" => link[c] = "up"
  PROVE  \A w \in Wrappers : Waits(w)' => Waits(w)
  BY ConnFacts DEF Waits, Answered

\* A step of one goroutine that is neither serving a new connection nor about to notify.
LEMMA StepAttends ==
  ASSUME TypeOK, NoForgottenWrapper, NEW c \in Conns, NEW pc, Goto(c, pc),
         handler[c] # "notify",
         \A w \in Wrappers : c = W(w) /\ handler[c] \in {"queued", "handshake"} =>
           pc \in {"queued", "handshake"} \/ link'[c] # "up",
         UNCHANGED <<requests, victim, lifecycle, wrapper, replies>>,
         \A d \in Conns : link'[d] = "up" => link[d] = "up"
  PROVE  NoForgottenWrapper'
<1>1. \A d \in Conns : handler'[d] = IF d = c THEN pc ELSE handler[d] BY DEF Goto, TypeOK
<1>2. \A w \in Wrappers : Waits(w)' => Waits(w) BY WaitsKept
<1>3. \A w \in Wrappers : Waits(w)' /\ handler[W(w)] \in {"queued", "handshake"} =>
        handler'[W(w)] \in {"queued", "handshake"}
  BY <1>1, ConnFacts DEF Waits
<1> QED BY <1>1, <1>2, <1>3, AttentionKept DEF Attended

\* A step of no goroutine.
LEMMA StillAttends ==
  ASSUME NoForgottenWrapper,
         UNCHANGED <<handler, requests, victim, replies>>,
         \A w \in Wrappers : wrapper'[w] = "waiting" => wrapper[w] = "waiting",
         lifecycle = "detached" => lifecycle' = "detached",
         \A d \in Conns : link'[d] = "up" => link[d] = "up"
  PROVE  NoForgottenWrapper'
<1>1. \A w \in Wrappers : Waits(w)' => Waits(w) BY ConnFacts DEF Waits, Answered
<1> QED BY <1>1, AttentionKept DEF Attended

\* finish, cancel and fail leave the removed request with the goroutine that removed it.
LEMMA TakeAttends ==
  ASSUME TypeOK, NoForgottenWrapper, NEW c \in Conns, NEW id \in Ids, NEW v, Take(c, id, v),
         handler[c] # "notify",
         \A w \in Wrappers : c = W(w) => handler[c] \notin {"queued", "handshake"},
         UNCHANGED <<wrapper, replies, lifecycle, link>>
  PROVE  NoForgottenWrapper'
<1> DEFINE r == requests[id]
<1>h. /\ \A d \in Conns : d # c => handler'[d] = handler[d] /\ victim'[d] = victim[d]
      /\ handler'[c] = IF r = None THEN "return" ELSE "notify"
      /\ victim'[c] = r
      /\ \A i \in Ids : i # id => requests'[i] = requests[i]
  BY DEF Take, Goto, TypeOK
<1>n. \A w \in Wrappers : IdOf[w] \in Ids /\ w # None BY ConstantsAssumption
<1>1. \A w \in Wrappers : Waits(w)' => Waits(w) BY WaitsKept
<1>2. ASSUME NEW w \in Wrappers, Waits(w)' PROVE Attended(w)'
  <2>1. Attended(w) BY <1>1, <1>2, WaitersAttended
  <2>2. CASE handler[W(w)] \in {"queued", "handshake"}
    BY <1>h, <2>2, ConnFacts DEF Attended
  <2>3. CASE w \in Registered
    <3>1. requests[IdOf[w]] = w BY <2>3 DEF Registered
    <3>2. CASE IdOf[w] = id BY <1>h, <1>n, <3>1, <3>2 DEF Attended
    <3>3. CASE IdOf[w] # id BY <1>h, <1>n, <3>1, <3>3 DEF Attended, Registered
    <3> QED BY <3>2, <3>3
  <2>4. CASE lifecycle = "detached" BY <2>4 DEF Attended
  <2>5. CASE \E d \in Conns : victim[d] = w /\ handler[d] = "notify"
    BY <1>h, <2>5 DEF Attended
  <2> QED BY <2>1, <2>2, <2>3, <2>4, <2>5 DEF Attended
<1> QED BY <1>2 DEF NoForgottenWrapper, Waits, Attended

\* What a message changes: only a verdict that gets through answers, and only its wrapper.
LEMMA ReplyEffect ==
  ASSUME TypeOK, NEW w \in Wrappers, NEW m \in Verdicts \cup {"opened"}, Reply(w, m)
  PROVE  \A v \in Wrappers :
           Answered(v)' <=> Answered(v) \/ (v = w /\ m \in Verdicts /\ link[W(w)] = "up")
<1>1. replies \in [Wrappers -> Seq(Verdicts \cup {"opened"})] BY DEF TypeOK
<1>2. CASE link[W(w)] # "up" BY <1>2 DEF Reply, Answered
<1>3. CASE link[W(w)] = "up"
  <2>1. \A v \in Wrappers : v # w => replies'[v] = replies[v] BY <1>1, <1>3 DEF Reply
  <2>2. replies'[w] = Append(replies[w], m) BY <1>1, <1>3 DEF Reply
  <2>3. /\ Len(replies'[w]) = Len(replies[w]) + 1 /\ Len(replies[w]) \in Nat
        /\ replies'[w][Len(replies[w]) + 1] = m
        /\ \A i \in 1..Len(replies[w]) : replies'[w][i] = replies[w][i]
    BY <1>1, <2>2
  <2>4. \A i \in 1..Len(replies'[w]) :
          i \in 1..Len(replies[w]) \/ (i = Len(replies[w]) + 1 /\ replies'[w][i] = m)
    BY <2>3
  <2>5. \A i \in 1..Len(replies[w]) : i \in 1..Len(replies'[w]) BY <2>3
  <2>6. Len(replies[w]) + 1 \in 1..Len(replies'[w]) BY <2>3
  <2>7. Answered(w)' <=> Answered(w) \/ m \in Verdicts
    BY <2>3, <2>4, <2>5, <2>6 DEF Answered
  <2>8. \A v \in Wrappers : v # w => (Answered(v)' <=> Answered(v)) BY <2>1 DEF Answered
  <2> QED BY <1>3, <2>7, <2>8
<1> QED BY <1>2, <1>3

\* A rejected open is answered, an accepted one enters the table.
LEMMA RegisterAttends ==
  ASSUME TypeOK, NoForgottenWrapper, NEW w \in Wrappers, Register(w) PROVE NoForgottenWrapper'
<1>a. W(w) \in Conns /\ IdOf[w] \in Ids /\ w # None BY ConnFacts, ConstantsAssumption
<1>u. victim' = victim /\ lifecycle' = lifecycle /\ wrapper' = wrapper /\ link' = link
      /\ handler[W(w)] = "handshake"
  BY DEF Register, clientVars
<1>1. CASE Reply(w, "error") /\ Goto(W(w), "return") /\ UNCHANGED requests
  <2>1. \A v \in Wrappers : Answered(v)' <=> Answered(v) \/ (v = w /\ link[W(w)] = "up")
    BY <1>1, ReplyEffect DEF Verdicts
  <2>2. \A v \in Wrappers : Waits(v)' => Waits(v) /\ v # w BY <1>u, <2>1 DEF Waits
  <2>3. \A d \in Conns : d # W(w) => handler'[d] = handler[d] BY <1>1 DEF Goto, TypeOK
  <2>4. \A v \in Wrappers : v # w => W(v) \in Conns /\ W(v) # W(w) BY ConnFacts
  <2>5. \A c \in Conns : handler[c] = "notify" => handler'[c] = "notify" /\ victim'[c] = victim[c]
    BY <1>u, <2>3
  <2> QED BY <1>u, <1>1, <2>2, <2>3, <2>4, <2>5, AttentionKept DEF Attended
<1>2. CASE /\ requests[IdOf[w]] = None
           /\ requests' = [requests EXCEPT ![IdOf[w]] = w]
           /\ Goto(W(w), "barrier") /\ UNCHANGED replies
  <2>1. \A v \in Wrappers : Waits(v)' => Waits(v) BY <1>u, <1>2, WaitsKept
  <2>2. \A d \in Conns : d # W(w) => handler'[d] = handler[d] BY <1>2 DEF Goto, TypeOK
  <2>3. \A i \in Ids : requests'[i] = IF i = IdOf[w] THEN w ELSE requests[i]
    BY <1>2 DEF TypeOK
  <2>4. \A v \in Wrappers : IdOf[v] \in Ids /\ v # None BY ConstantsAssumption
  <2>5. \A v \in Wrappers : v \in Registered \/ v = w => v \in Registered'
    BY <1>2, <2>3, <2>4 DEF Registered
  <2>6. \A v \in Wrappers : v # w => W(v) \in Conns /\ W(v) # W(w) BY ConnFacts
  <2>7. \A v \in Wrappers : Attended(v) => Attended(v)'
    BY <1>u, <2>2, <2>5, <2>6 DEF Attended
  <2>8. \A v \in Wrappers : Waits(v)' => Attended(v)' BY <2>1, <2>7, WaitersAttended
  <2> QED BY <2>8 DEF NoForgottenWrapper, Waits, Attended
<1> QED BY <1>1, <1>2 DEF Register

\* The goroutine that removed a request tells its wrapper before it forgets it.
LEMMA NotifyAttends ==
  ASSUME TypeOK, OneWorker, NoForgottenWrapper, NEW c \in Conns, Notify(c)
  PROVE  NoForgottenWrapper'
<1> DEFINE r == victim[c]
<1>u. /\ victim' = victim /\ lifecycle' = lifecycle /\ wrapper' = wrapper /\ link' = link
      /\ requests' = requests /\ handler[c] = "notify" /\ Reply(r, verdict[c])
  BY DEF Notify, clientVars, tableVars
<1>r. r \in Wrappers /\ verdict[c] \in Verdicts BY <1>u DEF OneWorker, TypeOK
<1>1. \A v \in Wrappers : Answered(v)' <=> Answered(v) \/ (v = r /\ link[W(r)] = "up")
  BY <1>u, <1>r, ReplyEffect
<1>2. \A v \in Wrappers : Waits(v)' => Waits(v) /\ v # r BY <1>u, <1>1 DEF Waits
<1>3. \A d \in Conns : d # c => handler'[d] = handler[d] BY DEF Notify, Goto, TypeOK
<1>4. Registered' = Registered BY <1>u DEF Registered
<1>5. \A v \in Wrappers : v # r /\ Attended(v) => Attended(v)'
  BY <1>u, <1>3, <1>4, ConnFacts DEF Attended
<1>6. \A v \in Wrappers : Waits(v)' => Attended(v)' BY <1>2, <1>5, WaitersAttended
<1> QED BY <1>6 DEF NoForgottenWrapper, Waits, Attended

\* Accepting, notifying, closing and returning forget nobody.
LEMMA ServeAttends ==
  ASSUME TypeOK, OneWorker, NoForgottenWrapper, NEW c \in Conns, Serve(c)
  PROVE  NoForgottenWrapper'
<1> USE DEF clientVars, tableVars
<1>1. CASE Accept(c)
  <2>1. \A d \in Conns : link'[d] = "up" => link[d] = "up" BY <1>1 DEF Accept, TypeOK
  <2>2. CASE Goto(c, "handshake") BY <1>1, <2>1, <2>2, StepAttends DEF Accept
  <2>3. CASE Goto(c, "refused") /\ link' = [link EXCEPT ![c] = "down"]
    <3>1. link'[c] # "up" BY <2>3 DEF TypeOK
    <3> QED BY <1>1, <2>1, <2>3, <3>1, StepAttends DEF Accept
  <2> QED BY <1>1, <2>2, <2>3 DEF Accept
<1>2. CASE HandshakeFails(c)
  <2>1. \A w \in Wrappers : c = W(w) => link[c] # "up"
    BY <1>2, ConnFacts DEF HandshakeFails
  <2> QED BY <1>2, <2>1, StepAttends DEF HandshakeFails
<1>3. CASE HandlerReturn(c)
  <2>1. \A d \in Conns : link'[d] = "up" => link[d] = "up" BY <1>3 DEF HandlerReturn, TypeOK
  <2>2. \A w \in Wrappers : Waits(w)' => Waits(w) BY <1>3, <2>1, WaitsKept DEF HandlerReturn
  <2>3. \A d \in Conns : d # c => handler'[d] = handler[d] /\ victim'[d] = victim[d]
    BY <1>3 DEF HandlerReturn, Goto, TypeOK
  <2>4. \A w \in Wrappers : handler[W(w)] \in {"queued", "handshake"} => Attended(w)'
    BY <1>3, <2>3, ConnFacts DEF HandlerReturn, Attended
  <2>5. \A d \in Conns : handler[d] = "notify" => handler'[d] = "notify" /\ victim'[d] = victim[d]
    BY <1>3, <2>3 DEF HandlerReturn
  <2> QED BY <1>3, <2>2, <2>4, <2>5, AttentionKept DEF HandlerReturn
<1>4. CASE Notify(c) BY <1>4, NotifyAttends
<1>5. CASE ClosePane(c) BY <1>5, StepAttends DEF ClosePane
<1> QED BY <1>1, <1>2, <1>3, <1>4, <1>5 DEF Serve

\* handleWrapper forgets nobody.
LEMMA OpeningAttends ==
  ASSUME TypeOK, NoForgottenWrapper, NEW w \in Wrappers, Opening(w) PROVE NoForgottenWrapper'
<1> USE DEF clientVars, tableVars
<1>a. W(w) \in Conns /\ IdOf[w] \in Ids BY ConnFacts, ConstantsAssumption
<1>1. CASE Register(w) BY <1>1, RegisterAttends
<1>2. CASE Barrier(w) BY <1>2, <1>a, StepAttends, TakeAttends DEF Barrier
<1>3. CASE OpenFails(w) BY <1>3, <1>a, TakeAttends DEF OpenFails
<1>4. CASE OpenCreates(w) BY <1>4, <1>a, StepAttends DEF OpenCreates
<1>5. CASE OpenIdentified(w) BY <1>5, <1>a, StepAttends DEF OpenIdentified
<1>6. CASE OpenAborts(w) BY <1>6, <1>a, TakeAttends DEF OpenAborts
<1>7. CASE OpenReturns(w) BY <1>7, <1>a, StepAttends DEF OpenReturns
<1>8. CASE LateClose(w) BY <1>8, <1>a, StepAttends DEF LateClose
<1>9. CASE Announce(w)
  <2>1. CASE Reply(w, "opened") /\ Goto(W(w), "reading") /\ UNCHANGED <<requests, victim, verdict>>
    <3>1. \A v \in Wrappers : Answered(v)' <=> Answered(v)
      BY <2>1, ReplyEffect DEF Verdicts
    <3>2. \A v \in Wrappers : Waits(v)' => Waits(v) BY <1>9, <3>1 DEF Announce, Waits
    <3>3. \A d \in Conns : handler'[d] = IF d = W(w) THEN "reading" ELSE handler[d]
      BY <2>1 DEF Goto, TypeOK
    <3>4. handler[W(w)] = "announce" BY <1>9 DEF Announce
    <3>5. \A v \in Wrappers : handler[W(v)] \in {"queued", "handshake"} => Attended(v)'
      BY <3>3, <3>4, ConnFacts DEF Attended
    <3>6. \A d \in Conns : handler[d] = "notify" => handler'[d] = "notify" /\ victim'[d] = victim[d]
      BY <2>1, <3>3, <3>4
    <3> QED BY <1>9, <2>1, <3>2, <3>5, <3>6, AttentionKept DEF Announce
  <2>2. CASE Take(W(w), IdOf[w], "cancel") /\ UNCHANGED replies
    BY <1>9, <1>a, <2>2, TakeAttends DEF Announce
  <2> QED BY <1>9, <2>1, <2>2 DEF Announce
<1>10. CASE WrapperLost(w) BY <1>10, <1>a, TakeAttends DEF WrapperLost
<1> QED
  BY <1>1, <1>2, <1>3, <1>4, <1>5, <1>6, <1>7, <1>8, <1>9, <1>10 DEF Opening

\* handlePane and the other connections forget nobody.
LEMMA OthersAttend ==
  ASSUME TypeOK, NoForgottenWrapper, \/ \E w \in Wrappers : Paning(w)
                                     \/ \E q \in Probes : Probing(q)
  PROVE  NoForgottenWrapper'
<1> USE DEF clientVars, tableVars
<1>1. ASSUME NEW w \in Wrappers, HandlePane(w) PROVE NoForgottenWrapper'
  BY <1>1, ConnFacts, StepAttends DEF HandlePane
<1>2. ASSUME NEW w \in Wrappers, PaneEnds(w) PROVE NoForgottenWrapper'
  BY <1>2, ConnFacts, ConstantsAssumption, TakeAttends DEF PaneEnds
<1>3. ASSUME NEW q \in Probes, ProbeFirst(q) PROVE NoForgottenWrapper'
  BY <1>3, ConnFacts, StepAttends, TakeAttends DEF ProbeFirst
<1>4. ASSUME NEW q \in Probes, ProbeBarrier(q) PROVE NoForgottenWrapper'
  BY <1>4, ConnFacts, StepAttends DEF ProbeBarrier
<1> QED BY <1>1, <1>2, <1>3, <1>4 DEF Paning, Probing

\* close() empties the table only to hang up on everybody.
LEMMA CloserAttends ==
  ASSUME TypeOK, NoForgottenWrapper, Closer PROVE NoForgottenWrapper'
<1> USE DEF tableVars, serverVars, clientVars, helperVars, paneVars
<1>1. CASE CloseDetach
  BY <1>1 DEF CloseDetach, NoForgottenWrapper
<1>2. CASE CloseHangup
  <2>1. \A c \in Conns : link'[c] # "up" BY <1>2 DEF CloseHangup
  <2> QED BY <2>1, ConnFacts DEF NoForgottenWrapper
<1>3. ASSUME NEW w \in Wrappers, CloseSweep(w) PROVE NoForgottenWrapper'
  BY <1>3, StillAttends DEF CloseSweep
<1>4. CASE CloseWait BY <1>4, StillAttends DEF CloseWait
<1> QED BY <1>1, <1>2, <1>3, <1>4 DEF Closer

\* A new wrapper is queued; what the others do asks for no new answer.
LEMMA ClientAttends ==
  ASSUME TypeOK, NoForgottenWrapper,
         \/ Environment
         \/ \E w \in Wrappers : Helping(w) \/ WrapperStops(w, FALSE)
  PROVE  NoForgottenWrapper'
<1> USE DEF tableVars, serverVars, clientVars, helperVars, paneVars
<1>d. ASSUME NEW c \in Conns, handler[c] = "none", Goto(c, "queued"),
             link' = [link EXCEPT ![c] = "up"],
             \A w \in Wrappers : c # W(w) => wrapper'[w] = wrapper[w],
             UNCHANGED <<requests, victim, lifecycle, replies>>
      PROVE  NoForgottenWrapper'
  <2>1. \A d \in Conns : handler'[d] = IF d = c THEN "queued" ELSE handler[d]
    BY <1>d DEF Goto, TypeOK
  <2>2. \A d \in Conns : d # c => link'[d] = link[d] BY <1>d DEF TypeOK
  <2>3. Registered' = Registered BY <1>d DEF Registered
  <2>4. \A w \in Wrappers : Attended(w) \/ c = W(w) => Attended(w)'
    BY <1>d, <2>1, <2>3, ConnFacts DEF Attended
  <2>5. \A w \in Wrappers : Waits(w)' => Waits(w) \/ c = W(w)
    BY <1>d, <2>2, ConnFacts DEF Waits, Answered
  <2>6. \A w \in Wrappers : Waits(w)' => Attended(w)' BY <2>4, <2>5, WaitersAttended
  <2> QED BY <2>6 DEF NoForgottenWrapper, Waits, Attended
<1>0. ASSUME NEW w \in Wrappers, NEW v, SendExited(w, v) PROVE NoForgottenWrapper'
  <2>1. \A d \in Conns : link'[d] = "up" => link[d] = "up" BY <1>0 DEF SendExited, TypeOK
  <2> QED BY <1>0, <2>1, StillAttends DEF SendExited
<1>1. ASSUME NEW w \in Wrappers, WrapperDial(w) PROVE NoForgottenWrapper'
  <2>1. \A v \in Wrappers : W(w) # W(v) => wrapper'[v] = wrapper[v]
    BY <1>1 DEF WrapperDial, TypeOK
  <2> QED BY <1>1, <2>1, <1>d, ConnFacts DEF WrapperDial
<1>2. ASSUME NEW w \in Wrappers, HelperDial(w) PROVE NoForgottenWrapper'
  BY <1>2, <1>d, ConnFacts DEF HelperDial
<1>3. ASSUME NEW q \in Probes, ProbeDial(q) PROVE NoForgottenWrapper'
  BY <1>3, <1>d, ConnFacts DEF ProbeDial
<1>4. ASSUME NEW w \in Wrappers, NEW d \in BOOLEAN, WrapperStops(w, d) PROVE NoForgottenWrapper'
  <2>1. \A c \in Conns : link'[c] = "up" => link[c] = "up" BY <1>4 DEF WrapperStops, TypeOK
  <2>2. \A v \in Wrappers : wrapper'[v] = "waiting" => wrapper[v] = "waiting"
    BY <1>4 DEF WrapperStops, TypeOK
  <2> QED BY <1>4, <2>1, <2>2, StillAttends DEF WrapperStops
<1>5. ASSUME NEW w \in Wrappers,
             WrapperSignal(w) \/ PaneGoes(w) \/ HelperFailsToStart(w)
      PROVE  NoForgottenWrapper'
  BY <1>5, StillAttends DEF WrapperSignal, PaneGoes, HelperFailsToStart
<1>6. ASSUME NEW w \in Wrappers, DebuggerExits(w) PROVE NoForgottenWrapper'
  BY <1>6, <1>0, StillAttends DEF DebuggerExits
<1>7. ASSUME NEW w \in Wrappers, HelperEnter(w) \/ HelperCancelled(w) PROVE NoForgottenWrapper'
  BY <1>7, <1>0 DEF HelperEnter, HelperCancelled
<1>8. ASSUME NEW w \in Wrappers, HelperHangup(w) PROVE NoForgottenWrapper'
  <2>1. CASE SendExited(w, "failed") BY <1>0, <2>1
  <2>2. CASE /\ link' = [link EXCEPT ![P(w)] = "down"]
             /\ UNCHANGED <<tableVars, serverVars, clientVars, exitMsg, paneVars, replies,
                            toHelper>>
    <3>1. \A c \in Conns : link'[c] = "up" => link[c] = "up" BY <2>2 DEF TypeOK
    <3> QED BY <2>2, <3>1, StillAttends
  <2> QED BY <1>8, <2>1, <2>2 DEF HelperHangup
<1>9. CASE CloseBegin BY <1>9, StillAttends DEF CloseBegin
<1> QED BY <1>1, <1>2, <1>3, <1>4, <1>5, <1>6, <1>7, <1>8, <1>9 DEF Environment, Helping

\* A wrapper that waits on a live socket is always known to somebody who will answer it or hang
\* up, however open, exit, cancel, failure and shutdown interleave (broker.go handleWrapper,
\* finish, cancel, fail, close).
THEOREM NobodyForgotten ==
  ASSUME UniqueIds PROVE Spec => []NoForgottenWrapper
<1>1. Init => NoForgottenWrapper BY DEF Init, NoForgottenWrapper
<1>2. TypeOK /\ Ownership /\ NoForgottenWrapper /\ [Next]_vars => NoForgottenWrapper'
  <2> SUFFICES ASSUME TypeOK, Ownership, NoForgottenWrapper, [Next]_vars
               PROVE  NoForgottenWrapper'
    OBVIOUS
  <2>1. CASE UNCHANGED vars
    BY <2>1, StillAttends DEF vars, tableVars, serverVars, clientVars
  <2>2. CASE Next
    BY <2>2, ServeAttends, OpeningAttends, OthersAttend, CloserAttends, ClientAttends
    DEF Next, Ownership
  <2> QED BY <2>1, <2>2
<1> QED BY <1>1, <1>2, TypeCorrect, OwnershipHolds, PTL DEF Spec

-----------------------------------------------------------------------------
(* After shutdown nothing is left.                                         *)

\* What close() establishes in two strides: sockets that are down stay down, and once the
\* goroutines are gone none starts again and no detached request is left.
Shutdown ==
  /\ HungUp => \A c \in Conns : link[c] # "up"
  /\ lifecycle = "closed" => doomed = {} /\ \A c \in Conns : ~Active(c)

\* A step of no goroutine before the sockets are shut.
LEMMA OpenKeepsShutdown ==
  ASSUME Shutdown, lifecycle' = lifecycle, ~HungUp PROVE Shutdown'
  BY DEF Shutdown, HungUp

\* Sockets go down, goroutines end, detached requests are dealt with.
LEMMA WindDown ==
  ASSUME Shutdown, lifecycle' = lifecycle,
         \A c \in Conns : link'[c] = "up" => link[c] = "up",
         \A c \in Conns : Active(c)' => Active(c) \/ ~Closing,
         doomed' \subseteq doomed
  PROVE  Shutdown'
  BY DEF Shutdown, HungUp, Closing

\* A step of a running goroutine happens before close() is done.
LEMMA RunningKeepsShutdown ==
  ASSUME Shutdown, lifecycle' = lifecycle, NEW c \in Conns, Active(c),
         \A d \in Conns : link'[d] = "up" => link[d] = "up"
  PROVE  Shutdown'
  BY DEF Shutdown, HungUp

\* Accepting, notifying, closing and returning: no goroutine starts and no socket opens.
LEMMA ServeKeepsShutdown ==
  ASSUME TypeOK, Shutdown, NEW c \in Conns, Serve(c) PROVE Shutdown'
<1> USE DEF tableVars
<1>1. CASE Accept(c)
  <2>1. \A d \in Conns : link'[d] = "up" => link[d] = "up" BY <1>1 DEF Accept, TypeOK
  <2>2. CASE slots < MaxConnections /\ ~Closing
    BY <1>1, <2>1, <2>2, WindDown DEF Accept
  <2>3. CASE Goto(c, "refused")
    <3>1. \A d \in Conns : handler'[d] = IF d = c THEN "refused" ELSE handler[d]
      BY <2>3 DEF Goto, TypeOK
    <3>2. \A d \in Conns : Active(d)' => Active(d) BY <3>1 DEF Active, Idle
    <3> QED BY <1>1, <2>1, <3>2, WindDown DEF Accept
  <2> QED BY <1>1, <2>2, <2>3 DEF Accept
<1>2. CASE HandshakeFails(c)
  BY <1>2, RunningKeepsShutdown DEF HandshakeFails, Active, Idle
<1>3. CASE HandlerReturn(c)
  <2>1. \A d \in Conns : link'[d] = "up" => link[d] = "up" BY <1>3 DEF HandlerReturn, TypeOK
  <2> QED BY <1>3, <2>1, RunningKeepsShutdown DEF HandlerReturn, Active, Idle
<1>4. CASE Notify(c) BY <1>4, RunningKeepsShutdown DEF Notify, Active, Idle
<1>5. CASE ClosePane(c) BY <1>5, RunningKeepsShutdown DEF ClosePane, Active, Idle
<1> QED BY <1>1, <1>2, <1>3, <1>4, <1>5 DEF Serve

\* handleWrapper, handlePane and the other handlers run before close() is done.
LEMMA HandlersKeepShutdown ==
  ASSUME TypeOK, Shutdown, \/ \E w \in Wrappers : Opening(w) \/ Paning(w)
                           \/ \E q \in Probes : Probing(q)
  PROVE  Shutdown'
<1>1. ASSUME NEW w \in Wrappers, Opening(w) PROVE Shutdown'
  <2>1. Active(W(w)) /\ lifecycle' = lifecycle /\ link' = link
    BY <1>1 DEF Opening, Register, Barrier, OpenFails, OpenCreates, OpenIdentified, OpenAborts,
                OpenReturns, LateClose, Announce, WrapperLost, Active, Idle
  <2> QED BY <2>1, ConnFacts, RunningKeepsShutdown
<1>2. ASSUME NEW w \in Wrappers, Paning(w) PROVE Shutdown'
  <2>1. Active(P(w)) /\ lifecycle' = lifecycle /\ link' = link
    BY <1>2 DEF Paning, HandlePane, PaneEnds, Active, Idle
  <2> QED BY <2>1, ConnFacts, RunningKeepsShutdown
<1>3. ASSUME NEW q \in Probes, Probing(q) PROVE Shutdown'
  <2>1. Active(Q(q)) /\ lifecycle' = lifecycle /\ link' = link
    BY <1>3 DEF Probing, ProbeFirst, ProbeBarrier, Active, Idle
  <2> QED BY <2>1, ConnFacts, RunningKeepsShutdown
<1> QED BY <1>1, <1>2, <1>3

\* close() shuts the sockets, and ends when no goroutine and no detached request is left.
LEMMA CloserKeepsShutdown ==
  ASSUME TypeOK, Shutdown, Closer PROVE Shutdown'
<1> USE DEF tableVars, serverVars, clientVars, helperVars, paneVars
<1>1. CASE CloseDetach BY <1>1 DEF CloseDetach, Shutdown, HungUp
<1>2. CASE CloseHangup
  <2>1. \A c \in Conns : link'[c] # "up" BY <1>2 DEF CloseHangup
  <2> QED BY <1>2, <2>1 DEF CloseHangup, Shutdown
<1>3. ASSUME NEW w \in Wrappers, CloseSweep(w) PROVE Shutdown'
  BY <1>3 DEF CloseSweep, Shutdown, HungUp
<1>4. CASE CloseWait
  BY <1>4 DEF CloseWait, Shutdown, HungUp, Active
<1> QED BY <1>1, <1>2, <1>3, <1>4 DEF Closer

\* Nobody can dial once the listeners are closed.
LEMMA ClientKeepsShutdown ==
  ASSUME TypeOK, Shutdown, \/ Environment
                           \/ \E w \in Wrappers : Helping(w) \/ WrapperStops(w, FALSE)
  PROVE  Shutdown'
<1> USE DEF tableVars, serverVars, clientVars, helperVars, paneVars
<1>s. ASSUME UNCHANGED <<lifecycle, handler, doomed>>,
             \A c \in Conns : link'[c] = "up" => link[c] = "up"
      PROVE  Shutdown'
  BY <1>s, WindDown DEF Active
<1>0. ASSUME NEW w \in Wrappers, NEW v, SendExited(w, v) PROVE Shutdown'
  BY <1>0, <1>s DEF SendExited, TypeOK
<1>1. ASSUME NEW w \in Wrappers, WrapperDial(w) \/ HelperDial(w) PROVE Shutdown'
  BY <1>1, OpenKeepsShutdown DEF WrapperDial, HelperDial
<1>2. ASSUME NEW q \in Probes, ProbeDial(q) PROVE Shutdown'
  BY <1>2, OpenKeepsShutdown DEF ProbeDial
<1>3. ASSUME NEW w \in Wrappers, NEW d \in BOOLEAN, WrapperStops(w, d) PROVE Shutdown'
  BY <1>3, <1>s DEF WrapperStops, TypeOK
<1>4. ASSUME NEW w \in Wrappers,
             WrapperSignal(w) \/ PaneGoes(w) \/ HelperFailsToStart(w)
      PROVE  Shutdown'
  BY <1>4, <1>s DEF WrapperSignal, PaneGoes, HelperFailsToStart
<1>5. ASSUME NEW w \in Wrappers, DebuggerExits(w) PROVE Shutdown'
  BY <1>5, <1>0, <1>s DEF DebuggerExits
<1>6. ASSUME NEW w \in Wrappers, HelperEnter(w) \/ HelperCancelled(w) PROVE Shutdown'
  BY <1>6, <1>0 DEF HelperEnter, HelperCancelled
<1>7. ASSUME NEW w \in Wrappers, HelperHangup(w) PROVE Shutdown'
  <2>1. CASE SendExited(w, "failed") BY <1>0, <2>1
  <2>2. CASE /\ link' = [link EXCEPT ![P(w)] = "down"]
             /\ UNCHANGED <<tableVars, serverVars, clientVars, exitMsg, paneVars, replies,
                            toHelper>>
    BY <2>2, <1>s DEF TypeOK
  <2> QED BY <1>7, <2>1, <2>2 DEF HelperHangup
<1>8. CASE CloseBegin BY <1>8 DEF CloseBegin, Shutdown, HungUp
<1> QED BY <1>1, <1>2, <1>3, <1>4, <1>5, <1>6, <1>7, <1>8 DEF Environment, Helping

\* Without goroutines and detached requests nobody owes a wrapper or a pane anything.
LEMMA NothingOwed ==
  ASSUME Ownership, doomed = {}, \A c \in Conns : ~Active(c)
  PROVE  Registered = {} /\ \A w \in Wrappers : fate[w] # "held"
<1>1. \A w \in Wrappers : ~Serving(w) /\ ~OpenerHas(w)
  BY ConnFacts DEF Active, Idle, Serving, OpenerHas
<1>2. Registered = {} BY <1>1, ConstantsAssumption DEF Registered, Ownership, TableSound
<1>3. \A w \in Wrappers : \A c \in Conns : ~WorksOn(c, w) BY DEF Active, Idle, WorksOn
<1>4. \A w \in Wrappers : ~Known(w) BY <1>2, <1>3 DEF Known
<1> QED BY <1>1, <1>2, <1>4 DEF Ownership, HeldOwned

\* Sockets stay down and goroutines stay gone.
LEMMA ShutdownHolds == Spec => []Shutdown
<1>1. Init => Shutdown BY DEF Init, Shutdown, HungUp
<1>2. TypeOK /\ Shutdown /\ [Next]_vars => Shutdown'
  <2> SUFFICES ASSUME TypeOK, Shutdown, [Next]_vars PROVE Shutdown' OBVIOUS
  <2>1. CASE UNCHANGED vars
    BY <2>1 DEF vars, tableVars, serverVars, Shutdown, HungUp, Active
  <2>2. CASE Next
    BY <2>2, ServeKeepsShutdown, HandlersKeepShutdown, CloserKeepsShutdown, ClientKeepsShutdown
    DEF Next
  <2> QED BY <2>1, <2>2
<1> QED BY <1>1, <1>2, TypeCorrect, PTL DEF Spec

\* When Close returns there is no goroutine, no request (not even one that registered after the
\* table was emptied), no pane to be dealt with and no socket (broker.go close, closeRequests).
THEOREM ClosedBrokerIsQuiet ==
  ASSUME UniqueIds PROVE Spec => []ClosedIsQuiet
<1>1. Ownership /\ Shutdown => ClosedIsQuiet
  BY NothingOwed DEF ClosedIsQuiet, Shutdown, HungUp
<1> QED BY <1>1, OwnershipHolds, ShutdownHolds, PTL

-----------------------------------------------------------------------------
(* The broker implements the ledger.                                       *)

\* A step of the ledger, seen through the broker's state.
LedgerStep == [Ledger!Next]_Ledger!vars

\* What the broker has answered.
Told == {w \in Wrappers : Answered(w)}

\* A step that acquires and releases nothing, answers nobody and does not end the broker.
LEMMA LedgerStutters ==
  ASSUME fate' = fate, \A w \in Wrappers : Answered(w)' <=> Answered(w),
         (lifecycle' = "closed") <=> (lifecycle = "closed")
  PROVE  LedgerStep
<1>1. Told' = Told BY DEF Told
<1>2. (lifecycle = "closed")' = (lifecycle = "closed") OBVIOUS
<1> QED BY <1>1, <1>2 DEF LedgerStep, Ledger!vars, Told

\* The terminal created a pane for w.
LEMMA LedgerAcquires ==
  ASSUME NEW w \in Wrappers, fate[w] = "none", fate' = [fate EXCEPT ![w] = "held"],
         \A v \in Wrappers : Answered(v)' <=> Answered(v), lifecycle # "closed", lifecycle' = lifecycle
  PROVE  LedgerStep
<1>1. Told' = Told BY DEF Told
<1> QED BY <1>1 DEF LedgerStep, Ledger!Next, Ledger!Acquire, Told

\* The pane of w is closed or left to somebody else.
LEMMA LedgerReleases ==
  ASSUME NEW w \in Wrappers, fate[w] = "held",
         NEW how \in {"closed", "kept", "aborted", "stray", "suppressed"},
         fate' = [fate EXCEPT ![w] = how],
         \A v \in Wrappers : Answered(v)' <=> Answered(v), lifecycle # "closed", lifecycle' = lifecycle
  PROVE  LedgerStep
<1>1. Told' = Told BY DEF Told
<1> QED BY <1>1 DEF LedgerStep, Ledger!Next, Ledger!Release, Ledger!Released, Told

\* w is told its verdict.
LEMMA LedgerAnswers ==
  ASSUME NEW w \in Wrappers, ~Answered(w), fate' = fate,
         \A v \in Wrappers : Answered(v)' <=> Answered(v) \/ v = w,
         lifecycle # "closed", lifecycle' = lifecycle
  PROVE  LedgerStep
<1>1. Told' = Told \cup {w} /\ w \notin Told BY DEF Told
<1> QED BY <1>1 DEF LedgerStep, Ledger!Next, Ledger!Answer, Told

\* w is told its verdict and its pane is left to the user.
LEMMA LedgerAnswersAndKeeps ==
  ASSUME NEW w \in Wrappers, ~Answered(w), fate[w] = "held", fate' = [fate EXCEPT ![w] = "kept"],
         \A v \in Wrappers : Answered(v)' <=> Answered(v) \/ v = w,
         lifecycle # "closed", lifecycle' = lifecycle
  PROVE  LedgerStep
<1>1. Told' = Told \cup {w} /\ w \notin Told BY DEF Told
<1> QED BY <1>1 DEF LedgerStep, Ledger!Next, Ledger!AnswerAndKeep, Told

\* A goroutine runs only while the broker is not closed.
LEMMA RunningMeansOpen ==
  ASSUME Shutdown, NEW c \in Conns, Active(c) PROVE lifecycle # "closed"
  BY DEF Shutdown

\* Steps that leave replies, fate and the end of the broker alone.
LEMMA QuietStutters ==
  ASSUME UNCHANGED <<fate, replies>>, (lifecycle' = "closed") <=> (lifecycle = "closed")
  PROVE  LedgerStep
  BY LedgerStutters DEF Answered

\* finish and cancel: the wrapper is told once, and a pane that is not closed is the user's.
LEMMA NotifyInLedger ==
  ASSUME TypeOK, Ownership, Shutdown, NEW c \in Conns, Notify(c) PROVE LedgerStep
<1> DEFINE r == victim[c]
<1>u. handler[c] = "notify" /\ Reply(r, verdict[c]) /\ lifecycle' = lifecycle
  BY DEF Notify
<1>r. r \in Wrappers /\ verdict[c] \in Verdicts
  BY <1>u DEF Ownership, OneWorker, TypeOK
<1>o. lifecycle # "closed" BY <1>u, RunningMeansOpen DEF Active, Idle
<1>1. \A v \in Wrappers : Answered(v)' <=> Answered(v) \/ (v = r /\ link[W(r)] = "up")
  BY <1>u, <1>r, ReplyEffect
<1>2. ~Answered(r) BY <1>u, <1>r DEF Ownership, Unanswered
<1>3. CASE fate' = fate
  <2>1. CASE link[W(r)] = "up" BY <1>1, <1>2, <1>3, <1>o, <1>r, <1>u, <2>1, LedgerAnswers
  <2>2. CASE link[W(r)] # "up" BY <1>1, <1>3, <1>u, <2>2, LedgerStutters
  <2> QED BY <2>1, <2>2
<1>4. CASE handle[r] /\ fate' = [fate EXCEPT ![r] = "kept"]
  <2>1. fate[r] = "held"
    BY <1>4, <1>r, <1>u DEF Ownership, PaneAccount, Known, WorksOn
  <2>2. CASE link[W(r)] = "up" BY <1>1, <1>2, <1>4, <1>o, <1>r, <1>u, <2>1, <2>2, LedgerAnswersAndKeeps
  <2>3. CASE link[W(r)] # "up" BY <1>1, <1>4, <1>o, <1>r, <1>u, <2>1, <2>3, LedgerReleases
  <2> QED BY <2>2, <2>3
<1> QED BY <1>3, <1>4 DEF Notify

\* Accepting, notifying, closing and returning are steps of the ledger.
LEMMA ServeInLedger ==
  ASSUME TypeOK, Ownership, Shutdown, NEW c \in Conns, Serve(c) PROVE LedgerStep
<1> USE DEF paneVars
<1>1. CASE Accept(c) BY <1>1, QuietStutters DEF Accept
<1>2. CASE HandshakeFails(c) BY <1>2, QuietStutters DEF HandshakeFails
<1>3. CASE HandlerReturn(c) BY <1>3, QuietStutters DEF HandlerReturn
<1>4. CASE Notify(c) BY <1>4, NotifyInLedger
<1>5. CASE ClosePane(c)
  <2>1. handler[c] = "closing" BY <1>5 DEF ClosePane
  <2>2. victim[c] \in Wrappers /\ handle[victim[c]] /\ WorksOn(c, victim[c])
    BY <2>1 DEF Ownership, OneWorker, HandleSound, WorksOn
  <2>3. fate[victim[c]] = "held" BY <2>2 DEF Ownership, PaneAccount, Known
  <2>4. lifecycle # "closed" BY <2>1, RunningMeansOpen DEF Active, Idle
  <2>5. \A v \in Wrappers : Answered(v)' <=> Answered(v) BY <1>5 DEF ClosePane, Answered
  <2> QED BY <1>5, <2>2, <2>3, <2>4, <2>5, LedgerReleases DEF ClosePane, ProviderClose
<1> QED BY <1>1, <1>2, <1>3, <1>4, <1>5 DEF Serve

\* handleWrapper acquires a pane once, and releases what it has to close itself.
LEMMA OpeningInLedger ==
  ASSUME TypeOK, Ownership, Shutdown, NEW w \in Wrappers, Opening(w) PROVE LedgerStep
<1> USE DEF paneVars
<1>a. W(w) \in Conns /\ lifecycle' = lifecycle
  BY ConnFacts DEF Opening, Register, Barrier, OpenFails, OpenCreates, OpenIdentified, OpenAborts,
                   OpenReturns, LateClose, Announce, WrapperLost
<1>o. Active(W(w)) => lifecycle # "closed" BY <1>a, RunningMeansOpen
<1>h. OpenerHas(w) => fate[w] = "held" /\ lifecycle # "closed"
  BY <1>o DEF Ownership, PaneAccount, OpenerHas, Active, Idle
<1>1. CASE Register(w)
  <2>0. handler[W(w)] = "handshake" BY <1>1 DEF Register
  <2>1. lifecycle # "closed" BY <1>o, <2>0 DEF Active, Idle
  <2>2. ~Answered(w) BY <2>0 DEF Ownership, Unanswered, Past
  <2>3. CASE Reply(w, "error")
    <3>1. \A v \in Wrappers : Answered(v)' <=> Answered(v) \/ (v = w /\ link[W(w)] = "up")
      BY <2>3, ReplyEffect DEF Verdicts
    <3>2. CASE link[W(w)] = "up" BY <1>1, <1>a, <2>1, <2>2, <3>1, <3>2, LedgerAnswers DEF Register
    <3>3. CASE link[W(w)] # "up" BY <1>1, <1>a, <3>1, <3>3, LedgerStutters DEF Register
    <3> QED BY <3>2, <3>3
  <2>4. CASE UNCHANGED replies BY <1>1, <2>4, QuietStutters DEF Register
  <2> QED BY <1>1, <2>3, <2>4 DEF Register
<1>2. CASE Barrier(w) BY <1>2, <1>a, QuietStutters DEF Barrier
<1>3. CASE OpenFails(w) BY <1>3, <1>a, QuietStutters DEF OpenFails
<1>4. CASE OpenCreates(w)
  <2>1. fate[w] = "none" BY <1>4 DEF OpenCreates, Ownership, PaneAccount
  <2>2. lifecycle # "closed" BY <1>4 DEF OpenCreates, Cancelled
  <2>3. \A v \in Wrappers : Answered(v)' <=> Answered(v) BY <1>4 DEF OpenCreates, Answered
  <2> QED BY <1>4, <1>a, <2>1, <2>2, <2>3, LedgerAcquires DEF OpenCreates
<1>5. CASE OpenIdentified(w) BY <1>5, <1>a, QuietStutters DEF OpenIdentified
<1>6. CASE OpenAborts(w)
  <2>1. fate[w] = "held" /\ lifecycle # "closed" BY <1>6, <1>h DEF OpenAborts, OpenerHas
  <2>2. \A v \in Wrappers : Answered(v)' <=> Answered(v) BY <1>6 DEF OpenAborts, Answered
  <2>3. PICK how \in {"stray", "aborted", "suppressed"} : fate' = [fate EXCEPT ![w] = how]
    BY <1>6 DEF OpenAborts
  <2> QED BY <1>a, <2>1, <2>2, <2>3, LedgerReleases
<1>7. CASE OpenReturns(w) BY <1>7, <1>a, QuietStutters DEF OpenReturns
<1>8. CASE LateClose(w)
  <2>1. fate[w] = "held" /\ lifecycle # "closed" BY <1>8, <1>h DEF LateClose, OpenerHas
  <2>2. \A v \in Wrappers : Answered(v)' <=> Answered(v) BY <1>8 DEF LateClose, Answered
  <2> QED BY <1>8, <1>a, <2>1, <2>2, LedgerReleases DEF LateClose, ProviderClose
<1>9. CASE Announce(w)
  <2>1. CASE Reply(w, "opened")
    <3>1. \A v \in Wrappers : Answered(v)' <=> Answered(v) BY <2>1, ReplyEffect DEF Verdicts
    <3> QED BY <1>9, <1>a, <3>1, LedgerStutters DEF Announce
  <2>2. CASE UNCHANGED replies BY <1>9, <1>a, <2>2, QuietStutters DEF Announce
  <2> QED BY <1>9, <2>1, <2>2 DEF Announce
<1>10. CASE WrapperLost(w) BY <1>10, <1>a, QuietStutters DEF WrapperLost
<1> QED
  BY <1>1, <1>2, <1>3, <1>4, <1>5, <1>6, <1>7, <1>8, <1>9, <1>10 DEF Opening

\* close() releases the panes it took over, and shuts the ledger when none is held.
LEMMA CloserInLedger ==
  ASSUME TypeOK, Ownership, Closer PROVE LedgerStep
<1> USE DEF tableVars, serverVars, clientVars, helperVars, paneVars
<1>1. CASE CloseDetach BY <1>1, QuietStutters DEF CloseDetach
<1>2. CASE CloseHangup BY <1>2, QuietStutters DEF CloseHangup
<1>3. ASSUME NEW w \in Wrappers, CloseSweep(w) PROVE LedgerStep
  <2>1. CASE handle[w]
    <3>1. fate[w] = "held" BY <1>3, <2>1 DEF CloseSweep, Ownership, PaneAccount, Known
    <3>2. \A v \in Wrappers : Answered(v)' <=> Answered(v) BY <1>3 DEF CloseSweep, Answered
    <3> QED BY <1>3, <2>1, <3>1, <3>2, LedgerReleases DEF CloseSweep, ProviderClose
  <2>2. CASE ~handle[w] BY <1>3, <2>2, QuietStutters DEF CloseSweep
  <2> QED BY <2>1, <2>2
<1>4. CASE CloseWait
  <2>1. lifecycle' = "closed" /\ lifecycle = "hungup" /\ fate' = fate /\ replies' = replies
    BY <1>4 DEF CloseWait
  <2>2. \A c \in Conns : ~Active(c) BY <1>4 DEF CloseWait
  <2>3. \A w \in Wrappers : fate[w] # "held" BY <1>4, <2>2, NothingOwed DEF CloseWait
  <2>4. Told' = Told BY <2>1 DEF Told, Answered
  <2> QED BY <2>1, <2>3, <2>4 DEF LedgerStep, Ledger!Next, Ledger!Shut, Told
<1> QED BY <1>1, <1>2, <1>3, <1>4 DEF Closer

\* Nobody else touches the ledger.
LEMMA RestInLedger ==
  ASSUME \/ Environment
         \/ \E w \in Wrappers : Paning(w) \/ Helping(w) \/ WrapperStops(w, FALSE)
         \/ \E q \in Probes : Probing(q)
         \/ UNCHANGED vars
  PROVE  LedgerStep
<1> USE DEF tableVars, serverVars, clientVars, helperVars, paneVars
<1>1. ASSUME NEW w \in Wrappers,
             \/ WrapperDial(w) \/ WrapperSignal(w) \/ HelperFailsToStart(w) \/ PaneGoes(w)
             \/ HelperDial(w) \/ HandlePane(w) \/ PaneEnds(w)
      PROVE  LedgerStep
  BY <1>1, QuietStutters DEF WrapperDial, WrapperSignal, HelperFailsToStart, PaneGoes, HelperDial,
                             HandlePane, PaneEnds
<1>2. ASSUME NEW w \in Wrappers, NEW d \in BOOLEAN, WrapperStops(w, d) PROVE LedgerStep
  BY <1>2, QuietStutters DEF WrapperStops
<1>3. ASSUME NEW w \in Wrappers,
             DebuggerExits(w) \/ HelperEnter(w) \/ HelperCancelled(w) \/ HelperHangup(w)
      PROVE  LedgerStep
  BY <1>3, QuietStutters DEF DebuggerExits, HelperEnter, HelperCancelled, HelperHangup, SendExited
<1>4. ASSUME NEW q \in Probes, ProbeDial(q) \/ ProbeFirst(q) \/ ProbeBarrier(q) PROVE LedgerStep
  BY <1>4, QuietStutters DEF ProbeDial, ProbeFirst, ProbeBarrier
<1>5. CASE CloseBegin BY <1>5, QuietStutters DEF CloseBegin
<1>6. CASE UNCHANGED vars BY <1>6, QuietStutters DEF vars
<1> QED BY <1>1, <1>2, <1>3, <1>4, <1>5, <1>6 DEF Environment, Paning, Helping, Probing

\* The broker does what PaneLedger says: each pane is acquired once and released once, each
\* request answered at most once, and once Close has returned nothing is owed and nothing changes.
THEOREM LedgerImplemented ==
  ASSUME UniqueIds PROVE Spec => ImplementsLedger
<1>1. Init => Ledger!Init
  <2> SUFFICES ASSUME Init PROVE Ledger!Init OBVIOUS
  <2>1. \A w \in Wrappers : ~Answered(w) BY DEF Init, Answered
  <2> QED BY <2>1 DEF Init, Ledger!Init
<1>2. TypeOK /\ Ownership /\ Shutdown /\ [Next]_vars => [Ledger!Next]_Ledger!vars
  <2> SUFFICES ASSUME TypeOK, Ownership, Shutdown, [Next]_vars PROVE LedgerStep
    BY DEF LedgerStep
  <2> QED BY ServeInLedger, OpeningInLedger, CloserInLedger, RestInLedger DEF Next
<1> QED BY <1>1, <1>2, TypeCorrect, OwnershipHolds, ShutdownHolds, PTL
        DEF Spec, ImplementsLedger, Ledger!Spec

=============================================================================

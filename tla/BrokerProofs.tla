---------------------------- MODULE BrokerProofs ----------------------------
(***************************************************************************)
(* Theorems about Broker for every number of wrappers, probes, panes,      *)
(* connections and every terminal provider: its types, and who owns a      *)
(* debugger request, its pane and its answer.                              *)
(***************************************************************************)
EXTENDS Broker, TLAPS

\* Connections of different kinds, or of different clients, are different.
LEMMA ConnFacts ==
  /\ \A w \in Wrappers : W(w) \in Conns /\ P(w) \in Conns
  /\ \A q \in Probes : Q(q) \in Conns
  /\ \A v, w \in Wrappers : (W(v) = W(w) => v = w) /\ (P(v) = P(w) => v = w) /\ W(v) # P(w)
  /\ \A w \in Wrappers, q \in Probes : W(w) # Q(q) /\ P(w) # Q(q)
  BY DEF W, P, Q, Conns

-----------------------------------------------------------------------------
(* Typing of the building blocks.                                          *)

\* Moving a goroutine to a known place keeps handler typed.
LEMMA GotoType ==
  ASSUME TypeOK, NEW c \in Conns, NEW pc \in HandlerState, Goto(c, pc)
  PROVE  handler' \in [Conns -> HandlerState]
<1>1. handler \in [Conns -> HandlerState] BY DEF TypeOK
<1> QED BY <1>1 DEF Goto

\* Removing a request from the table keeps the table and the remover's task typed.
LEMMA TakeType ==
  ASSUME TypeOK, NEW c \in Conns, NEW id \in Ids, NEW v \in Verdicts, Take(c, id, v)
  PROVE  /\ requests' \in [Ids -> Wrappers \cup {None}]
         /\ victim' \in [Conns -> Wrappers \cup {None}]
         /\ verdict' \in [Conns -> Verdicts]
         /\ handler' \in [Conns -> HandlerState]
<1>1. "return" \in HandlerState /\ "notify" \in HandlerState BY DEF HandlerState
<1>2. handler' \in [Conns -> HandlerState] BY <1>1, GotoType DEF Take
<1>3. requests' \in [Ids -> Wrappers \cup {None}] BY DEF Take, TypeOK
<1>4. victim' \in [Conns -> Wrappers \cup {None}] BY DEF Take, TypeOK
<1>5. verdict' \in [Conns -> Verdicts] BY DEF Take, TypeOK
<1> QED BY <1>2, <1>3, <1>4, <1>5

\* The broker only ever sends the messages of its protocol.
LEMMA ReplyType ==
  ASSUME TypeOK, NEW w, NEW m \in Verdicts \cup {"opened"}, Reply(w, m)
  PROVE  replies' \in [Wrappers -> Seq(Verdicts \cup {"opened"})]
<1>1. replies \in [Wrappers -> Seq(Verdicts \cup {"opened"})] BY DEF TypeOK
<1>2. w \in Wrappers => Append(replies[w], m) \in Seq(Verdicts \cup {"opened"}) BY <1>1
<1> QED BY <1>1, <1>2 DEF Reply

\* Closing a pane keeps the pane's record typed.
LEMMA ProviderCloseType ==
  ASSUME TypeOK, NEW w, ProviderClose(w)
  PROVE  /\ pane' \in [Wrappers -> {"none", "open", "gone"}]
         /\ fate' \in [Wrappers -> {"none", "held", "closed", "kept", "aborted", "stray",
                                    "suppressed"}]
         /\ closeCalls' \in [Wrappers -> Nat]
<1>1. pane' \in [Wrappers -> {"none", "open", "gone"}] BY DEF ProviderClose, TypeOK
<1>2. fate' \in [Wrappers -> {"none", "held", "closed", "kept", "aborted", "stray",
                              "suppressed"}]
  BY DEF ProviderClose, TypeOK
<1>3. closeCalls' \in [Wrappers -> Nat]
  <2>1. closeCalls \in [Wrappers -> Nat] BY DEF TypeOK
  <2>2. closeCalls' = [x \in Wrappers |-> IF x = w THEN closeCalls[x] + 1 ELSE closeCalls[x]]
    BY <2>1 DEF ProviderClose
  <2>3. \A x \in Wrappers : closeCalls[x] + 1 \in Nat /\ closeCalls[x] \in Nat BY <2>1
  <2> QED BY <2>2, <2>3
<1> QED BY <1>1, <1>2, <1>3

\* A helper that ends keeps the state typed.
LEMMA SendExitedType ==
  ASSUME TypeOK, NEW w \in Wrappers, NEW v \in {"ok", "failed"}, SendExited(w, v)
  PROVE  TypeOK'
<1>1. helper' \in [Wrappers -> {"none", "spawned", "running", "holding", "done"}]
  BY DEF SendExited, TypeOK
<1>2. exitMsg' \in [Wrappers -> {"none", "ok", "failed"}]
  BY DEF SendExited, TypeOK
<1>3. link' \in [Conns -> {"none", "up", "down"}]
  BY ConnFacts DEF SendExited, TypeOK
<1> QED
  BY <1>1, <1>2, <1>3
  DEF SendExited, TypeOK, tableVars, serverVars, clientVars, paneVars

-----------------------------------------------------------------------------
(* Type correctness, one lemma per group of actions.                       *)

\* Accepting, notifying, closing and returning keep the state typed.
LEMMA ServeType ==
  ASSUME TypeOK, NEW c \in Conns, Serve(c) PROVE TypeOK'
<1> USE DEF tableVars, serverVars, clientVars, helperVars, paneVars
<1>1. CASE Accept(c)
  <2>1. "handshake" \in HandlerState /\ "refused" \in HandlerState BY DEF HandlerState
  <2>2. handler' \in [Conns -> HandlerState] BY <1>1, <2>1, GotoType DEF Accept
  <2>3. link' \in [Conns -> {"none", "up", "down"}] BY ZenonT(60), <1>1 DEF Accept, TypeOK
  <2>4. slots' \in Int BY <1>1 DEF Accept, TypeOK
  <2> QED BY <1>1, <2>2, <2>3, <2>4 DEF Accept, TypeOK
<1>2. CASE HandshakeFails(c)
  <2>1. "return" \in HandlerState BY DEF HandlerState
  <2>2. handler' \in [Conns -> HandlerState] BY <1>2, <2>1, GotoType DEF HandshakeFails
  <2> QED BY <1>2, <2>2 DEF HandshakeFails, TypeOK
<1>3. CASE HandlerReturn(c)
  <2>1. "done" \in HandlerState /\ "error" \in Verdicts BY DEF HandlerState, Verdicts
  <2>2. handler' \in [Conns -> HandlerState] BY <1>3, <2>1, GotoType DEF HandlerReturn
  <2>3. link' \in [Conns -> {"none", "up", "down"}] BY <1>3 DEF HandlerReturn, TypeOK
  <2>4. slots' \in Int BY <1>3 DEF HandlerReturn, TypeOK
  <2>5. victim' \in [Conns -> Wrappers \cup {None}] BY <1>3 DEF HandlerReturn, TypeOK
  <2>6. verdict' \in [Conns -> Verdicts] BY <1>3, <2>1 DEF HandlerReturn, TypeOK
  <2> QED BY <1>3, <2>2, <2>3, <2>4, <2>5, <2>6 DEF HandlerReturn, TypeOK
<1>4. CASE Notify(c)
  <2>1. "closing" \in HandlerState /\ "return" \in HandlerState BY DEF HandlerState
  <2>2. handler' \in [Conns -> HandlerState] BY <1>4, <2>1, GotoType DEF Notify
  <2>3. verdict[c] \in Verdicts BY DEF TypeOK
  <2>4. replies' \in [Wrappers -> Seq(Verdicts \cup {"opened"})]
    BY <1>4, <2>3, ReplyType DEF Notify
  <2>5. toHelper' \in [Wrappers -> BOOLEAN]
    <3>1. \A w \in Wrappers : toHelper[w] \in BOOLEAN BY DEF TypeOK
    <3> QED BY <1>4, <3>1, Zenon DEF Notify
  <2>6. fate' \in [Wrappers -> {"none", "held", "closed", "kept", "aborted", "stray",
                               "suppressed"}]
    BY ZenonT(60), <1>4 DEF Notify, TypeOK
  <2> QED BY <1>4, <2>2, <2>4, <2>5, <2>6 DEF Notify, TypeOK
<1>5. CASE ClosePane(c)
  <2>1. "return" \in HandlerState BY DEF HandlerState
  <2>2. handler' \in [Conns -> HandlerState] BY <1>5, <2>1, GotoType DEF ClosePane
  <2> QED BY <1>5, <2>2, ProviderCloseType DEF ClosePane, TypeOK
<1> QED BY <1>1, <1>2, <1>3, <1>4, <1>5 DEF Serve

\* handleWrapper keeps the state typed.
LEMMA OpeningType ==
  ASSUME TypeOK, NEW w \in Wrappers, Opening(w) PROVE TypeOK'
<1> USE DEF tableVars, serverVars, clientVars, helperVars, paneVars
<1>a. W(w) \in Conns /\ IdOf[w] \in Ids BY ConnFacts, ConstantsAssumption
<1>b. /\ {"return", "barrier", "opening", "creating", "verifying", "announce", "lateClose",
          "reading"} \subseteq HandlerState
      /\ "error" \in Verdicts /\ "cancel" \in Verdicts
  BY DEF HandlerState, Verdicts
<1>1. CASE Register(w)
  <2>1. PICK current \in 0..opens : Register(w)!2!(current) BY <1>1 DEF Register
  <2>2. opens' \in Nat BY <2>1 DEF TypeOK
  <2>3. handler' \in [Conns -> HandlerState] BY <1>a, <1>b, <2>1, GotoType
  <2>4. replies' \in [Wrappers -> Seq(Verdicts \cup {"opened"})]
    BY <1>b, <2>1, ReplyType DEF TypeOK
  <2>5. requests' \in [Ids -> Wrappers \cup {None}] BY <2>1 DEF TypeOK
  <2> QED BY <1>1, <2>2, <2>3, <2>4, <2>5 DEF Register, TypeOK
<1>2. CASE Barrier(w)
  <2>1. /\ requests' \in [Ids -> Wrappers \cup {None}]
        /\ victim' \in [Conns -> Wrappers \cup {None}]
        /\ verdict' \in [Conns -> Verdicts]
        /\ handler' \in [Conns -> HandlerState]
    <3>1. CASE Take(W(w), IdOf[w], "error") BY <1>a, <1>b, <3>1, TakeType
    <3>2. CASE Goto(W(w), "opening") /\ UNCHANGED <<requests, victim, verdict>>
      BY <1>a, <1>b, <3>2, GotoType DEF TypeOK
    <3> QED BY <1>2, <3>1, <3>2 DEF Barrier
  <2> QED BY <1>2, <2>1 DEF Barrier, TypeOK
<1>3. CASE OpenFails(w)
  BY <1>3, <1>a, <1>b, TakeType DEF OpenFails, TypeOK
<1>4. CASE OpenCreates(w)
  <2>1. handler' \in [Conns -> HandlerState] BY <1>4, <1>a, <1>b, GotoType DEF OpenCreates
  <2>2. pane' \in [Wrappers -> {"none", "open", "gone"}] BY <1>4 DEF OpenCreates, TypeOK
  <2>3. fate' \in [Wrappers -> {"none", "held", "closed", "kept", "aborted", "stray",
                               "suppressed"}]
    BY <1>4 DEF OpenCreates, TypeOK
  <2>4. helper' \in [Wrappers -> {"none", "spawned", "running", "holding", "done"}]
    BY <1>4 DEF OpenCreates, TypeOK
  <2> QED BY <1>4, <2>1, <2>2, <2>3, <2>4 DEF OpenCreates, TypeOK
<1>5. CASE OpenIdentified(w)
  <2>1. handler' \in [Conns -> HandlerState] BY <1>5, <1>a, <1>b, GotoType DEF OpenIdentified
  <2> QED BY <1>5, <2>1 DEF OpenIdentified, TypeOK
<1>6. CASE OpenAborts(w)
  <2>1. pane' \in [Wrappers -> {"none", "open", "gone"}] BY <1>6 DEF OpenAborts, TypeOK
  <2>2. fate' \in [Wrappers -> {"none", "held", "closed", "kept", "aborted", "stray",
                               "suppressed"}]
    BY ZenonT(60), <1>6 DEF OpenAborts, TypeOK
  <2>3. Take(W(w), IdOf[w], "error") BY <1>6 DEF OpenAborts
  <2>4. /\ requests' \in [Ids -> Wrappers \cup {None}]
        /\ victim' \in [Conns -> Wrappers \cup {None}]
        /\ verdict' \in [Conns -> Verdicts]
        /\ handler' \in [Conns -> HandlerState]
    BY <1>a, <1>b, <2>3, TakeType
  <2> QED BY <1>6, <2>1, <2>2, <2>4 DEF OpenAborts, TypeOK
<1>7. CASE OpenReturns(w)
  <2>1. handler' \in [Conns -> HandlerState] BY <1>7, <1>a, <1>b, GotoType DEF OpenReturns
  <2>2. handle' \in [Wrappers -> BOOLEAN] BY <1>7 DEF OpenReturns, TypeOK
  <2> QED BY <1>7, <2>1, <2>2 DEF OpenReturns, TypeOK
<1>8. CASE LateClose(w)
  <2>1. handler' \in [Conns -> HandlerState] BY <1>8, <1>a, <1>b, GotoType DEF LateClose
  <2> QED BY <1>8, <2>1, ProviderCloseType DEF LateClose, TypeOK
<1>9. CASE Announce(w)
  <2>1. CASE Reply(w, "opened") /\ Goto(W(w), "reading") /\ UNCHANGED <<requests, victim, verdict>>
    <3>1. handler' \in [Conns -> HandlerState] BY <2>1, <1>a, <1>b, GotoType
    <3>2. replies' \in [Wrappers -> Seq(Verdicts \cup {"opened"})] BY <2>1, ReplyType
    <3> QED BY <1>9, <2>1, <3>1, <3>2 DEF Announce, TypeOK
  <2>2. CASE Take(W(w), IdOf[w], "cancel") /\ UNCHANGED replies
    <3>1. /\ requests' \in [Ids -> Wrappers \cup {None}]
          /\ victim' \in [Conns -> Wrappers \cup {None}]
          /\ verdict' \in [Conns -> Verdicts]
          /\ handler' \in [Conns -> HandlerState]
      BY <1>a, <1>b, <2>2, TakeType
    <3> QED BY <1>9, <2>2, <3>1 DEF Announce, TypeOK
  <2> QED BY <1>9, <2>1, <2>2 DEF Announce
<1>10. CASE WrapperLost(w)
  BY <1>10, <1>a, <1>b, TakeType DEF WrapperLost, TypeOK
<1> QED
  BY <1>1, <1>2, <1>3, <1>4, <1>5, <1>6, <1>7, <1>8, <1>9, <1>10 DEF Opening

\* handlePane keeps the state typed.
LEMMA PaningType ==
  ASSUME TypeOK, NEW w \in Wrappers, Paning(w) PROVE TypeOK'
<1> USE DEF tableVars, serverVars, clientVars, helperVars, paneVars
<1>a. P(w) \in Conns /\ IdOf[w] \in Ids BY ConnFacts, ConstantsAssumption
<1>b. /\ {"return", "paneReading"} \subseteq HandlerState
      /\ {"ok", "failed", "cancel"} \subseteq Verdicts
  BY DEF HandlerState, Verdicts
<1>1. CASE HandlePane(w)
  <2>1. handler' \in [Conns -> HandlerState] BY <1>1, <1>a, <1>b, GotoType DEF HandlePane
  <2>2. toHelper' \in [Wrappers -> BOOLEAN] BY <1>1 DEF HandlePane, TypeOK
  <2>3. attached' \in [Wrappers -> Wrappers \cup {None}] BY ZenonT(60), <1>1 DEF HandlePane, TypeOK
  <2> QED BY <1>1, <2>1, <2>2, <2>3 DEF HandlePane, TypeOK
<1>2. CASE PaneEnds(w)
  <2>1. exitMsg[w] \in {"none", "ok", "failed"} BY DEF TypeOK
  <2>2. PICK v \in Verdicts : Take(P(w), IdOf[w], v) BY <1>2, <1>b, <2>1 DEF PaneEnds
  <2>3. /\ requests' \in [Ids -> Wrappers \cup {None}]
        /\ victim' \in [Conns -> Wrappers \cup {None}]
        /\ verdict' \in [Conns -> Verdicts]
        /\ handler' \in [Conns -> HandlerState]
    BY <1>a, <2>2, TakeType
  <2> QED BY <1>2, <2>3 DEF PaneEnds, TypeOK
<1> QED BY <1>1, <1>2 DEF Paning

\* Probes keep the state typed.
LEMMA ProbingType ==
  ASSUME TypeOK, NEW q \in Probes, Probing(q) PROVE TypeOK'
<1> USE DEF tableVars, serverVars, clientVars, helperVars, paneVars
<1>a. Q(q) \in Conns BY ConnFacts
<1>b. /\ {"return", "probeBarrier"} \subseteq HandlerState
      /\ {"ok", "failed"} \subseteq Verdicts
  BY DEF HandlerState, Verdicts
<1>1. CASE ProbeFirst(q)
  <2>1. /\ requests' \in [Ids -> Wrappers \cup {None}]
        /\ victim' \in [Conns -> Wrappers \cup {None}]
        /\ verdict' \in [Conns -> Verdicts]
        /\ handler' \in [Conns -> HandlerState]
    <3>1. CASE (\E pc \in {"return", "probeBarrier"} : Goto(Q(q), pc))
               /\ UNCHANGED <<requests, victim, verdict>>
      BY <3>1, <1>a, <1>b, GotoType DEF TypeOK
    <3>2. CASE \E id \in Ids, v \in {"ok", "failed"} : Take(Q(q), id, v)
      BY <3>2, <1>a, <1>b, TakeType
    <3> QED BY <1>1, <3>1, <3>2 DEF ProbeFirst
  <2> QED BY <1>1, <2>1 DEF ProbeFirst, TypeOK
<1>2. CASE ProbeBarrier(q)
  <2>1. handler' \in [Conns -> HandlerState] BY <1>2, <1>a, <1>b, GotoType DEF ProbeBarrier
  <2> QED BY <1>2, <2>1 DEF ProbeBarrier, TypeOK
<1> QED BY <1>1, <1>2 DEF Probing

\* Broker.close keeps the state typed.
LEMMA CloserType ==
  ASSUME TypeOK, Closer PROVE TypeOK'
<1> USE DEF tableVars, serverVars, clientVars, helperVars, paneVars
<1>1. CASE CloseDetach
  BY <1>1 DEF CloseDetach, Registered, TypeOK
<1>2. CASE CloseHangup
  <2>1. link' \in [Conns -> {"none", "up", "down"}] BY <1>2 DEF CloseHangup, TypeOK
  <2>2. handler' \in [Conns -> HandlerState]
    <3>1. "refused" \in HandlerState BY DEF HandlerState
    <3> QED BY <1>2, <3>1 DEF CloseHangup, TypeOK
  <2> QED BY <1>2, <2>1, <2>2 DEF CloseHangup, TypeOK
<1>3. ASSUME NEW w \in Wrappers, CloseSweep(w) PROVE TypeOK'
  <2>1. doomed' \subseteq Wrappers BY <1>3 DEF CloseSweep, TypeOK
  <2>2. CASE handle[w]
    BY <1>3, <2>1, <2>2, ProviderCloseType DEF CloseSweep, TypeOK
  <2>3. CASE ~handle[w]
    BY <1>3, <2>1, <2>3 DEF CloseSweep, TypeOK
  <2> QED BY <2>2, <2>3
<1>4. CASE CloseWait
  BY <1>4 DEF CloseWait, TypeOK
<1> QED BY <1>1, <1>2, <1>3, <1>4 DEF Closer

\* The wrapper process, the helper process and their users keep the state typed.
LEMMA ClientType ==
  ASSUME TypeOK, \/ Environment
                 \/ \E w \in Wrappers : Helping(w) \/ WrapperStops(w, FALSE)
  PROVE  TypeOK'
<1> USE DEF tableVars, serverVars, clientVars, helperVars, paneVars
<1>b. "queued" \in HandlerState BY DEF HandlerState
<1>1. ASSUME NEW w \in Wrappers, WrapperDial(w) PROVE TypeOK'
  <2>1. handler' \in [Conns -> HandlerState] BY <1>1, <1>b, ConnFacts, GotoType DEF WrapperDial
  <2>2. link' \in [Conns -> {"none", "up", "down"}] BY <1>1, ConnFacts DEF WrapperDial, TypeOK
  <2>3. wrapper' \in [Wrappers -> {"idle", "waiting", "done"}] BY <1>1 DEF WrapperDial, TypeOK
  <2> QED BY <1>1, <2>1, <2>2, <2>3 DEF WrapperDial, TypeOK
<1>2. ASSUME NEW w \in Wrappers, WrapperSignal(w) PROVE TypeOK'
  BY <1>2 DEF WrapperSignal, TypeOK
<1>3. ASSUME NEW w \in Wrappers, NEW d \in BOOLEAN, WrapperStops(w, d) PROVE TypeOK'
  <2>1. link' \in [Conns -> {"none", "up", "down"}] BY <1>3, ConnFacts DEF WrapperStops, TypeOK
  <2>2. wrapper' \in [Wrappers -> {"idle", "waiting", "done"}] BY <1>3 DEF WrapperStops, TypeOK
  <2> QED BY <1>3, <2>1, <2>2 DEF WrapperStops, TypeOK
<1>4. ASSUME NEW w \in Wrappers, DebuggerExits(w) PROVE TypeOK'
  <2>1. CASE SendExited(w, "ok") \/ SendExited(w, "failed") BY <2>1, SendExitedType
  <2>2. CASE /\ helper' = [helper EXCEPT ![w] = "holding"]
             /\ UNCHANGED <<tableVars, serverVars, clientVars, exitMsg, paneVars, link,
                            replies, toHelper>>
    BY <2>2 DEF TypeOK
  <2> QED BY <1>4, <2>1, <2>2 DEF DebuggerExits
<1>5. ASSUME NEW w \in Wrappers, HelperEnter(w) PROVE TypeOK'
  BY <1>5, SendExitedType DEF HelperEnter
<1>6. ASSUME NEW w \in Wrappers, PaneGoes(w) PROVE TypeOK'
  BY <1>6 DEF PaneGoes, TypeOK
<1>7. ASSUME NEW q \in Probes, ProbeDial(q) PROVE TypeOK'
  <2>1. handler' \in [Conns -> HandlerState] BY <1>7, <1>b, ConnFacts, GotoType DEF ProbeDial
  <2>2. link' \in [Conns -> {"none", "up", "down"}] BY <1>7, ConnFacts DEF ProbeDial, TypeOK
  <2> QED BY <1>7, <2>1, <2>2 DEF ProbeDial, TypeOK
<1>8. CASE CloseBegin
  BY <1>8 DEF CloseBegin, TypeOK
<1>9. ASSUME NEW w \in Wrappers, Helping(w) PROVE TypeOK'
  <2>1. CASE HelperDial(w)
    <3>1. handler' \in [Conns -> HandlerState] BY <2>1, <1>b, ConnFacts, GotoType DEF HelperDial
    <3>2. link' \in [Conns -> {"none", "up", "down"}] BY <2>1, ConnFacts DEF HelperDial, TypeOK
    <3>3. helper' \in [Wrappers -> {"none", "spawned", "running", "holding", "done"}]
      BY <2>1 DEF HelperDial, TypeOK
    <3> QED BY <2>1, <3>1, <3>2, <3>3 DEF HelperDial, TypeOK
  <2>2. CASE HelperFailsToStart(w) BY <2>2 DEF HelperFailsToStart, TypeOK
  <2>3. CASE HelperCancelled(w) BY <2>3, SendExitedType DEF HelperCancelled
  <2>4. CASE HelperHangup(w)
    <3>1. CASE SendExited(w, "failed") BY <3>1, SendExitedType
    <3>2. CASE /\ helper' = [helper EXCEPT ![w] = "done"]
               /\ link' = [link EXCEPT ![P(w)] = "down"]
               /\ UNCHANGED <<tableVars, serverVars, clientVars, exitMsg, paneVars,
                              replies, toHelper>>
      <4>1. link' \in [Conns -> {"none", "up", "down"}]
        BY <3>2, ConnFacts DEF TypeOK
      <4>2. helper' \in [Wrappers -> {"none", "spawned", "running", "holding", "done"}]
        BY <3>2 DEF TypeOK
      <4> QED BY <3>2, <4>1, <4>2 DEF TypeOK
    <3> QED BY <2>4, <3>1, <3>2 DEF HelperHangup
  <2> QED BY <1>9, <2>1, <2>2, <2>3, <2>4 DEF Helping
<1>10. CASE Environment
  BY <1>1, <1>2, <1>3, <1>4, <1>5, <1>6, <1>7, <1>8, <1>10 DEF Environment
<1>11. CASE \E w \in Wrappers : Helping(w) \/ WrapperStops(w, FALSE)
  BY <1>3, <1>9, <1>11
<1> QED BY <1>10, <1>11

\* Every value stays within its type: the typing of the state of broker.go.
THEOREM TypeCorrect == Spec => []TypeOK
<1>1. Init => TypeOK
  BY DEF Init, TypeOK, HandlerState, Verdicts
<1>2. TypeOK /\ [Next]_vars => TypeOK'
  <2> SUFFICES ASSUME TypeOK, [Next]_vars PROVE TypeOK'
    OBVIOUS
  <2>1. CASE UNCHANGED vars
    BY <2>1 DEF vars, tableVars, serverVars, clientVars, helperVars, paneVars, TypeOK
  <2>2. CASE Next
    BY <2>2, ServeType, OpeningType, PaningType, ProbingType, CloserType, ClientType DEF Next
  <2> QED BY <2>1, <2>2
<1>3. QED BY <1>1, <1>2, PTL DEF Spec

-----------------------------------------------------------------------------
(* Ownership is an inductive invariant of Broker, so a pane whose Open has *)
(* not failed always has an owner, none is closed twice and no wrapper is  *)
(* answered twice.  The one assumption is that the random request ids      *)
(* differ (UniqueIds).                                                     *)

\* Steps of a goroutine that neither take a request, a pane nor an answer.
Benign(a, b) ==
  \/ a = b
  \/ a \in {"none", "queued"} /\ b \in {"queued", "refused", "handshake"}
  \/ a = "handshake" /\ b \in {"return", "paneReading", "probeBarrier"}
  \/ a = "barrier" /\ b = "opening"
  \/ a = "creating" /\ b = "verifying"
  \/ a = "announce" /\ b = "reading"
  \/ a \in {"probeBarrier", "return"} /\ b \in {"return", "done"}

\* With unique ids a table entry is the request that chose its id.
LEMMA TableEntry ==
  ASSUME TypeOK, UniqueIds, TableSound, NEW w \in Wrappers
  PROVE  requests[IdOf[w]] = None \/ requests[IdOf[w]] = w
<1>1. IdOf[w] \in Ids BY ConstantsAssumption
<1>2. requests[IdOf[w]] \in Wrappers \cup {None} BY <1>1 DEF TypeOK
<1> QED BY <1>1, <1>2 DEF TableSound, UniqueIds

\* A step that moves goroutines benignly and leaves the books alone keeps them right.
LEMMA BenignKeeps ==
  ASSUME TypeOK, Ownership,
         \A c \in Conns : Benign(handler[c], handler'[c]),
         \A c \in Conns : handler'[c] \in {"notify", "closing"} =>
           victim'[c] = victim[c] /\ verdict'[c] = verdict[c],
         requests' = requests, doomed' = doomed, handle' = handle, fate' = fate,
         closeCalls' = closeCalls,
         Closing => Closing',
         \A w \in Wrappers : Answered(w)' =>
           Answered(w) \/ (handler[W(w)] = "handshake" /\ handler'[W(w)] = "return"),
         OneVerdict'
  PROVE  Ownership'
<1> USE DEF Ownership
<1>c. \A w \in Wrappers : W(w) \in Conns BY ConnFacts
<1>n. \A c \in Conns : handler'[c] \in {"notify", "closing"} <=> handler[c] \in {"notify", "closing"}
  BY DEF Benign
<1>e. \A c \in Conns : handler'[c] \in {"notify", "closing"} => handler'[c] = handler[c]
  BY DEF Benign
<1>r. Registered' = Registered BY DEF Registered
<1>w. \A c \in Conns : \A w : WorksOn(c, w)' <=> WorksOn(c, w) BY <1>n DEF WorksOn
<1>p. \A w \in Wrappers : Past(w) => Past(w)' BY <1>c DEF Past, Benign
<1>k. \A w \in Wrappers : Known(w)' <=> Known(w) BY <1>r, <1>w DEF Known
<1>1. TableSound'
  <2>1. \A w \in Wrappers : Serving(w) => Serving(w)' BY <1>c DEF Serving, Benign
  <2> QED BY <2>1 DEF TableSound, TypeOK
<1>2. OneWorker' BY <1>n, <1>r, <1>w, <1>p DEF OneWorker
<1>3. DoomedSound' BY <1>r, <1>p DEF DoomedSound, TypeOK
<1>4. HandleSound' BY <1>c, <1>n, <1>e DEF HandleSound, Benign
<1>5. PaneAccount'
  <2>1. \A w \in Wrappers : ~Past(w)' \/ handler'[W(w)] \in {"barrier", "opening"} =>
          ~Past(w) \/ handler[W(w)] \in {"barrier", "opening"}
    BY <1>c DEF Past, Benign
  <2>2. \A w \in Wrappers : OpenerHas(w)' <=> OpenerHas(w)
    BY <1>c DEF OpenerHas, Benign
  <2> QED BY <2>1, <2>2, <1>k DEF PaneAccount
<1>6. Unanswered'
  <2>1. ASSUME NEW w \in Wrappers, handler[W(w)] = "handshake"
        PROVE  w \notin Registered /\ \A c \in Conns : handler[c] = "notify" => victim[c] # w
    <3>1. ~Past(w) /\ ~Serving(w) BY <2>1 DEF Past, Serving
    <3>2. w \notin Registered BY <3>1, ConstantsAssumption DEF Registered, TableSound
    <3>3. \A c \in Conns : handler[c] = "notify" => Past(victim[c]) BY DEF OneWorker
    <3> QED BY <3>1, <3>2, <3>3
  <2>2. \A w \in Wrappers : handler'[W(w)] = "return" => Past(w)' BY DEF Past
  <2> QED BY <1>p, <1>r, <1>e, <2>1, <2>2 DEF Unanswered
<1>7. HeldOwned'
  <2>2. \A w \in Wrappers : OpenerHas(w)' <=> OpenerHas(w)
    BY <1>c DEF OpenerHas, Benign
  <2> QED BY <2>2, <1>k DEF HeldOwned
<1> QED BY <1>1, <1>2, <1>3, <1>4, <1>5, <1>6, <1>7

\* Taking a request out of the table (finish, cancel, fail) hands it, its pane and its
\* answer to the taker, and to nobody else.
LEMMA TakeKeeps ==
  ASSUME TypeOK, UniqueIds, Ownership,
         NEW c \in Conns, NEW id \in Ids, NEW v \in Verdicts, Take(c, id, v),
         handler[c] \notin {"notify", "closing"},
         \A w \in Wrappers : c = W(w) =>
           IdOf[w] = id /\ handler[c] \notin {"none", "queued", "refused", "handshake"},
         v = "error" => \E w \in Wrappers : c = W(w) /\ ~handle[w],
         \A w \in Wrappers :
           IF c = W(w) /\ OpenerHas(w)
             THEN fate'[w] \in {"aborted", "stray", "suppressed"}
             ELSE fate'[w] = fate[w],
         doomed' = doomed, handle' = handle, closeCalls' = closeCalls, replies' = replies,
         lifecycle' = lifecycle
  PROVE  Ownership'
<1> USE DEF Ownership
<1>c. \A w \in Wrappers : W(w) \in Conns BY ConnFacts
<1>d. \A w \in Wrappers : IdOf[w] \in Ids BY ConstantsAssumption
<1> DEFINE r == requests[id]
<1>r. r \in Wrappers \cup {None} BY DEF TypeOK
<1>h. /\ \A d \in Conns \ {c} : handler'[d] = handler[d] /\ victim'[d] = victim[d]
                                /\ verdict'[d] = verdict[d]
      /\ handler'[c] = IF r = None THEN "return" ELSE "notify"
      /\ victim'[c] = r
      /\ r # None => verdict'[c] = v
  BY DEF Take, Goto, TypeOK
<1>q. \A i \in Ids : requests'[i] = IF i = id THEN None ELSE requests[i]
  BY DEF Take, TypeOK
<1>n. None \notin Wrappers BY ConstantsAssumption
<1>g. \A w \in Wrappers : w \in Registered' <=> w \in Registered /\ w # r
  <2>1. \A w \in Wrappers : w \in Registered /\ w = r => IdOf[w] = id
    BY <1>d, <1>n DEF Registered, TableSound
  <2>2. \A w \in Wrappers : w \in Registered /\ IdOf[w] = id => w = r BY DEF Registered
  <2> QED BY <1>d, <1>q, <1>n, <2>1, <2>2 DEF Registered
<1>s. r # None => r \in Registered /\ Serving(r) /\ Past(r)
  <2>1. r # None => IdOf[r] = id /\ Serving(r) BY DEF TableSound
  <2> QED BY <1>r, <2>1 DEF Registered, Serving, Past
<1>p. \A w \in Wrappers : Past(w)' <=> Past(w)
  BY <1>c, <1>h DEF Past
<1>o. \A w \in Wrappers : OpenerHas(w)' <=> OpenerHas(w) /\ c # W(w)
  BY <1>c, <1>h DEF OpenerHas
<1>w. \A d \in Conns, w \in Wrappers :
        WorksOn(d, w)' <=> IF d = c THEN r # None /\ w = r ELSE WorksOn(d, w)
  BY <1>h, <1>n DEF WorksOn
<1>k. \A w \in Wrappers : Known(w)' <=> Known(w)
  <2>1. \A w \in Wrappers : ~WorksOn(c, w) BY DEF WorksOn
  <2>2. \A w \in Wrappers : (\E d \in Conns : WorksOn(d, w))'
                              <=> (w = r \/ \E d \in Conns : WorksOn(d, w))
    BY <1>w, <1>n, <2>1
  <2> QED BY <1>g, <1>s, <1>n, <2>2 DEF Known
<1>1. TableSound'
  <2> SUFFICES ASSUME NEW i \in Ids, requests'[i] # None
               PROVE  IdOf[requests'[i]] = i /\ Serving(requests[i])'
    BY DEF TableSound
  <2>1. i # id /\ requests'[i] = requests[i] BY <1>q
  <2>2. requests[i] \in Wrappers BY <2>1 DEF TypeOK
  <2>3. IdOf[requests[i]] = i /\ Serving(requests[i]) BY <2>1 DEF TableSound
  <2>4. W(requests[i]) # c BY <2>1, <2>2, <2>3
  <2> QED BY <1>c, <1>h, <2>1, <2>2, <2>3, <2>4 DEF Serving
<1>2. OneWorker'
  <2> SUFFICES ASSUME NEW d \in Conns, handler'[d] \in {"notify", "closing"}
               PROVE  /\ victim'[d] \in Wrappers /\ Past(victim[d])'
                      /\ victim'[d] \notin Registered' /\ victim'[d] \notin doomed'
                      /\ \A e \in Conns : WorksOn(e, victim[d])' => e = d
    BY DEF OneWorker
  <2>1. CASE d = c
    <3>1. r \in Wrappers /\ victim'[d] = r BY <1>h, <1>r, <2>1
    <3>2. r \notin doomed BY <1>s, <3>1, <1>n DEF DoomedSound
    <3>3. \A e \in Conns : ~WorksOn(e, r) BY <1>s, <3>1, <1>n DEF OneWorker, WorksOn
    <3>4. Past(r) /\ r \notin Registered' BY <1>g, <1>s, <1>n, <3>1
    <3>5. Past(victim[d])' BY <1>p, <3>1, <3>4 DEF Past
    <3>6. \A e \in Conns : WorksOn(e, victim[d])' => e = d
      BY <1>h, <2>1, <3>1, <3>3 DEF WorksOn
    <3> QED BY <3>1, <3>2, <3>4, <3>5, <3>6
  <2>2. CASE d # c
    <3>1. handler[d] \in {"notify", "closing"} /\ victim'[d] = victim[d] BY <1>h, <2>2
    <3>2. /\ victim[d] \in Wrappers /\ Past(victim[d])
          /\ victim[d] \notin Registered /\ victim[d] \notin doomed
          /\ \A e \in Conns : WorksOn(e, victim[d]) => e = d
      BY <3>1 DEF OneWorker
    <3>3. victim[d] # r BY <1>s, <3>2, <1>n
    <3>4. victim'[d] \notin Registered' BY <1>g, <3>1, <3>2
    <3>5. Past(victim[d])' BY <1>p, <3>1, <3>2 DEF Past
    <3>6. \A e \in Conns : WorksOn(e, victim[d])' => e = d
      BY <1>h, <2>2, <3>1, <3>2, <3>3 DEF WorksOn
    <3> QED BY <3>1, <3>2, <3>4, <3>5, <3>6
  <2> QED BY <2>1, <2>2
<1>3. DoomedSound' BY <1>g, <1>p DEF DoomedSound, Closing, TypeOK
<1>4. HandleSound'
  <2>1. \A w \in Wrappers : handle'[w] =>
          handler'[W(w)] \in {"announce", "reading", "notify", "closing", "return", "done"}
    BY <1>c, <1>h DEF HandleSound
  <2>2. \A d \in Conns : handler'[d] = "closing" => handle'[victim'[d]]
    BY <1>h DEF HandleSound
  <2>3. \A d \in Conns : handler'[d] = "notify" /\ verdict'[d] = "error" =>
          d = W(victim'[d]) /\ ~handle'[victim'[d]]
    <3>1. ASSUME r # None, v = "error" PROVE c = W(r) /\ ~handle[r]
      <4>1. PICK w \in Wrappers : c = W(w) /\ ~handle[w] BY <3>1
      <4>2. IdOf[w] = id BY <4>1
      <4>3. w = r BY <1>s, <3>1, <4>2, TableEntry
      <4> QED BY <4>1, <4>3
    <3> QED BY <1>h, <3>1 DEF HandleSound
  <2> QED BY <2>1, <2>2, <2>3 DEF HandleSound
<1>5. PaneAccount'
  <2> SUFFICES ASSUME NEW w \in Wrappers
               PROVE  /\ ~Past(w)' \/ handler'[W(w)] \in {"barrier", "opening"} => fate'[w] = "none"
                      /\ OpenerHas(w)' => fate'[w] = "held"
                      /\ handle'[w] /\ Known(w)' => fate'[w] = "held"
                      /\ closeCalls'[w] = IF fate'[w] = "closed" THEN 1 ELSE 0
    BY DEF PaneAccount
  <2>0. /\ ~Past(w) \/ handler[W(w)] \in {"barrier", "opening"} => fate[w] = "none"
        /\ OpenerHas(w) => fate[w] = "held"
        /\ handle[w] /\ Known(w) => fate[w] = "held"
        /\ closeCalls[w] = IF fate[w] = "closed" THEN 1 ELSE 0
    BY DEF PaneAccount
  <2>1. CASE c = W(w) /\ OpenerHas(w)
    <3>1. ~handle[w] BY <2>1 DEF HandleSound, OpenerHas
    <3>2. Past(w)' /\ handler'[W(w)] \in {"return", "notify"} BY <1>h, <1>p, <2>1 DEF Past, OpenerHas
    <3>3. fate'[w] \in {"aborted", "stray", "suppressed"} BY <2>1
    <3> QED BY <1>o, <2>0, <2>1, <3>1, <3>2, <3>3
  <2>2. CASE ~(c = W(w) /\ OpenerHas(w))
    <3>1. fate'[w] = fate[w] BY <2>2
    <3>2. handler'[W(w)] \in {"barrier", "opening"} => handler[W(w)] \in {"barrier", "opening"}
      BY <1>c, <1>h
    <3> QED BY <1>k, <1>o, <1>p, <2>0, <3>1, <3>2
  <2> QED BY <2>1, <2>2
<1>6. Unanswered'
  <2>1. \A w \in Wrappers : Answered(w)' <=> Answered(w) BY DEF Answered
  <2>2. \A w \in Wrappers : (\E d \in Conns : victim[d] = w /\ handler[d] = "notify")'
           => w = r \/ \E d \in Conns : victim[d] = w /\ handler[d] = "notify"
    BY <1>h
  <2> QED BY <1>g, <1>p, <1>s, <1>n, <2>1, <2>2 DEF Unanswered
<1>7. HeldOwned'
  <2> SUFFICES ASSUME NEW w \in Wrappers, fate'[w] = "held"
               PROVE  OpenerHas(w)' \/ (handle'[w] /\ Known(w)')
    BY DEF HeldOwned
  <2>1. fate[w] = "held" /\ ~(c = W(w) /\ OpenerHas(w)) OBVIOUS
  <2> QED BY <1>k, <1>o, <2>1 DEF HeldOwned
<1>8. OneVerdict' BY DEF OneVerdict
<1> QED BY <1>1, <1>2, <1>3, <1>4, <1>5, <1>6, <1>7, <1>8

\* A message to a wrapper answers nobody else; only a verdict answers it, and it is the
\* only verdict when the wrapper had none.
LEMMA ReplyOnce ==
  ASSUME TypeOK, OneVerdict, NEW w \in Wrappers, NEW m \in Verdicts \cup {"opened"},
         Reply(w, m), m \in Verdicts => ~Answered(w)
  PROVE  /\ OneVerdict'
         /\ \A v \in Wrappers : Answered(v)' => Answered(v) \/ (v = w /\ m \in Verdicts)
<1>1. replies \in [Wrappers -> Seq(Verdicts \cup {"opened"})] BY DEF TypeOK
<1>2. CASE replies' = replies BY <1>2 DEF OneVerdict, Answered
<1>3. CASE replies' = [replies EXCEPT ![w] = Append(@, m)]
  <2>1. \A v \in Wrappers : v # w => replies'[v] = replies[v] BY <1>1, <1>3
  <2>2. replies'[w] = Append(replies[w], m) BY <1>1, <1>3
  <2>3. /\ Len(replies'[w]) = Len(replies[w]) + 1 /\ Len(replies[w]) \in Nat
        /\ replies'[w][Len(replies[w]) + 1] = m
        /\ \A i \in 1..Len(replies[w]) : replies'[w][i] = replies[w][i]
    BY <1>1, <2>2
  <2>4. \A i \in 1..Len(replies'[w]) :
          i \in 1..Len(replies[w]) \/ (i = Len(replies[w]) + 1 /\ replies'[w][i] = m)
    BY <2>3
  <2>5. \A v \in Wrappers : Answered(v)' => Answered(v) \/ (v = w /\ m \in Verdicts)
    BY <2>1, <2>3, <2>4 DEF Answered
  <2>6. OneVerdict'
    <3> SUFFICES ASSUME NEW v \in Wrappers,
                        NEW i \in 1..Len(replies'[v]), NEW j \in 1..Len(replies'[v]),
                        replies'[v][i] \in Verdicts, replies'[v][j] \in Verdicts
                 PROVE  i = j
      BY DEF OneVerdict
    <3>1. CASE v # w BY <2>1, <3>1 DEF OneVerdict
    <3>2. CASE v = w /\ ~Answered(w) BY <2>3, <2>4, <3>2 DEF Answered
    <3>3. CASE v = w /\ m \notin Verdicts BY <2>3, <2>4, <3>3 DEF OneVerdict
    <3> QED BY <3>1, <3>2, <3>3
  <2> QED BY <2>5, <2>6
<1> QED BY <1>2, <1>3 DEF Reply

-----------------------------------------------------------------------------
(* One lemma per action that changes who owns something.                   *)

\* A rejected open is answered once; an accepted one enters the table.
LEMMA RegisterKeeps ==
  ASSUME TypeOK, UniqueIds, Ownership, NEW w \in Wrappers, Register(w) PROVE Ownership'
<1> USE DEF Ownership, tableVars, serverVars, clientVars, helperVars, paneVars
<1>c. W(w) \in Conns /\ IdOf[w] \in Ids BY ConnFacts, ConstantsAssumption
<1>d. \A v \in Wrappers : W(v) \in Conns /\ (W(v) = W(w) => v = w) /\ IdOf[v] \in Ids
  BY ConnFacts, ConstantsAssumption
<1>n. None \notin Wrappers BY ConstantsAssumption
<1>h. handler[W(w)] = "handshake" BY DEF Register
<1>a. ~Past(w) /\ ~Answered(w) /\ w \notin Registered /\ w \notin doomed
      /\ fate[w] = "none" /\ ~OpenerHas(w) /\ ~handle[w]
      /\ \A c \in Conns : ~WorksOn(c, w)
  BY <1>h, <1>n, <1>c
  DEF Past, Unanswered, TableSound, Serving, Registered, DoomedSound, PaneAccount,
      OpenerHas, HandleSound, OneWorker, WorksOn
<1>u. /\ doomed' = doomed /\ handle' = handle /\ lifecycle' = lifecycle
      /\ victim' = victim /\ verdict' = verdict /\ fate' = fate /\ closeCalls' = closeCalls
  BY DEF Register
<1>1. CASE Reply(w, "error") /\ Goto(W(w), "return") /\ UNCHANGED requests
  <2>1. \A c \in Conns : handler'[c] = IF c = W(w) THEN "return" ELSE handler[c]
    BY <1>1 DEF Goto, TypeOK
  <2>2. OneVerdict' /\ \A v \in Wrappers : Answered(v)' => Answered(v) \/ v = w
    BY <1>1, <1>a, ReplyOnce DEF Verdicts
  <2>3. \A c \in Conns : Benign(handler[c], handler'[c]) BY <1>h, <2>1 DEF Benign
  <2>4. Closing => Closing' BY <1>u DEF Closing
  <2> QED BY <1>1, <1>c, <1>h, <1>u, <2>1, <2>2, <2>3, <2>4, BenignKeeps
<1>2. CASE requests' = [requests EXCEPT ![IdOf[w]] = w] /\ Goto(W(w), "barrier")
           /\ UNCHANGED replies /\ requests[IdOf[w]] = None
  <2>1. \A c \in Conns : handler'[c] = IF c = W(w) THEN "barrier" ELSE handler[c]
    BY <1>2 DEF Goto, TypeOK
  <2>2. \A i \in Ids : requests'[i] = IF i = IdOf[w] THEN w ELSE requests[i]
    BY <1>2 DEF TypeOK
  <2>3. \A v : v \in Registered' <=> v \in Registered \/ v = w
    BY <1>d, <1>2, <1>n, <2>2 DEF Registered, UniqueIds
  <2>4. \A c \in Conns, v \in Wrappers : WorksOn(c, v)' <=> WorksOn(c, v)
    BY <1>u, <1>h, <2>1 DEF WorksOn
  <2>5. \A v \in Wrappers : Past(v)' <=> Past(v) \/ v = w
    BY <1>d, <2>1 DEF Past
  <2>6. \A v \in Wrappers : OpenerHas(v)' <=> OpenerHas(v)
    BY <1>d, <1>a, <2>1 DEF OpenerHas
  <2>7. \A v \in Wrappers : v # w => (Known(v)' <=> Known(v))
    BY <1>u, <2>3, <2>4 DEF Known
  <2>8. \A v \in Wrappers : Answered(v)' <=> Answered(v) BY <1>2 DEF Answered
  <2>10. TableSound'
    <3> SUFFICES ASSUME NEW i \in Ids, requests'[i] # None
                 PROVE  IdOf[requests[i]]' = i /\ Serving(requests[i])'
      BY DEF TableSound
    <3>1. CASE i = IdOf[w] BY <1>d, <2>1, <2>2, <3>1 DEF Serving
    <3>2. CASE i # IdOf[w]
      <4>1. requests'[i] = requests[i] /\ requests[i] \in Wrappers BY <2>2, <3>2 DEF TypeOK
      <4>2. IdOf[requests[i]] = i /\ Serving(requests[i]) BY <4>1 DEF TableSound
      <4> QED BY <1>d, <2>1, <4>1, <4>2 DEF Serving
    <3> QED BY <3>1, <3>2
  <2>11. OneWorker'
    <3> SUFFICES ASSUME NEW c \in Conns, handler'[c] \in {"notify", "closing"}
                 PROVE  /\ victim'[c] \in Wrappers /\ Past(victim[c])'
                        /\ victim'[c] \notin Registered' /\ victim'[c] \notin doomed'
                        /\ \A d \in Conns : WorksOn(d, victim[c])' => d = c
      BY DEF OneWorker
    <3>1. handler[c] \in {"notify", "closing"} BY <2>1
    <3>2. /\ victim[c] \in Wrappers /\ Past(victim[c])
          /\ victim[c] \notin Registered /\ victim[c] \notin doomed
          /\ \A d \in Conns : WorksOn(d, victim[c]) => d = c
      BY <3>1 DEF OneWorker
    <3>3. Past(victim[c])' BY <1>u, <2>5, <3>2 DEF Past
    <3>4. \A d \in Conns : WorksOn(d, victim[c])' => d = c
      BY <1>u, <2>1, <3>2 DEF WorksOn
    <3> QED BY <1>u, <1>a, <2>3, <3>2, <3>3, <3>4
  <2>12. DoomedSound' BY <1>u, <1>a, <2>3, <2>5 DEF DoomedSound, Closing, TypeOK
  <2>13. HandleSound' BY <1>u, <1>a, <1>d, <2>1 DEF HandleSound
  <2>14. PaneAccount'
    <3>1. \A v \in Wrappers : ~Past(v)' \/ handler'[W(v)] \in {"barrier", "opening"} =>
            v = w \/ ~Past(v) \/ handler[W(v)] \in {"barrier", "opening"}
      BY <1>d, <2>1, <2>5
    <3>2. ASSUME NEW v \in Wrappers, v # w
          PROVE  /\ ~Past(v)' \/ handler'[W(v)] \in {"barrier", "opening"} => fate'[v] = "none"
                 /\ OpenerHas(v)' => fate'[v] = "held"
                 /\ handle'[v] /\ Known(v)' => fate'[v] = "held"
                 /\ closeCalls'[v] = IF fate'[v] = "closed" THEN 1 ELSE 0
      BY <1>u, <2>6, <2>7, <3>1, <3>2 DEF PaneAccount
    <3>3. /\ fate'[w] = "none" /\ ~OpenerHas(w)' /\ ~handle'[w] /\ closeCalls'[w] = 0
      BY <1>u, <1>a, <2>6 DEF PaneAccount
    <3> QED BY <3>2, <3>3 DEF PaneAccount
  <2>15. Unanswered'
    <3>1. \A c \in Conns : handler'[c] = "notify" => handler[c] = "notify" BY <2>1
    <3> QED BY <1>u, <1>a, <2>3, <2>5, <2>8, <3>1 DEF Unanswered
  <2>16. HeldOwned' BY <1>u, <1>a, <2>6, <2>7 DEF HeldOwned
  <2>17. OneVerdict' BY <1>2 DEF OneVerdict
  <2> QED BY <2>10, <2>11, <2>12, <2>13, <2>14, <2>15, <2>16, <2>17
<1> QED BY <1>1, <1>2 DEF Register

\* A pane that appears is in the hands of the goroutine that opens it.
LEMMA OpenCreatesKeeps ==
  ASSUME TypeOK, Ownership, NEW w \in Wrappers, OpenCreates(w) PROVE Ownership'
<1> USE DEF Ownership, tableVars, serverVars, clientVars, helperVars, paneVars
<1>d. \A v \in Wrappers : W(v) \in Conns /\ (W(v) = W(w) => v = w) BY ConnFacts
<1>u. /\ doomed' = doomed /\ handle' = handle /\ lifecycle' = lifecycle /\ replies' = replies
      /\ victim' = victim /\ verdict' = verdict /\ requests' = requests
      /\ closeCalls' = closeCalls
  BY DEF OpenCreates
<1>h. /\ handler[W(w)] = "opening"
      /\ \A c \in Conns : handler'[c] = IF c = W(w) THEN "creating" ELSE handler[c]
      /\ \A v \in Wrappers : fate'[v] = IF v = w THEN "held" ELSE fate[v]
  BY DEF OpenCreates, Goto, TypeOK
<1>a. fate[w] = "none" /\ closeCalls[w] = 0 /\ ~handle[w]
  BY <1>h DEF PaneAccount, HandleSound
<1>r. Registered' = Registered BY <1>u DEF Registered
<1>p. \A v \in Wrappers : Past(v)' <=> Past(v) BY <1>d, <1>h DEF Past
<1>w. \A c \in Conns : \A v : WorksOn(c, v)' <=> WorksOn(c, v) BY <1>u, <1>h DEF WorksOn
<1>o. \A v \in Wrappers : OpenerHas(v)' <=> OpenerHas(v) \/ v = w BY <1>d, <1>h DEF OpenerHas
<1>k. \A v \in Wrappers : Known(v)' <=> Known(v) BY <1>u, <1>r, <1>w DEF Known
<1>1. TableSound'
  <2>1. \A v \in Wrappers : Serving(v) => Serving(v)' BY <1>d, <1>h DEF Serving
  <2> QED BY <1>u, <2>1 DEF TableSound, TypeOK
<1>2. OneWorker' BY <1>u, <1>h, <1>r, <1>p, <1>w DEF OneWorker
<1>3. DoomedSound' BY <1>u, <1>r, <1>p DEF DoomedSound, Closing, TypeOK
<1>4. HandleSound' BY <1>u, <1>h, <1>d, <1>a DEF HandleSound
<1>5. PaneAccount'
  <2>1. \A v \in Wrappers : ~Past(v)' \/ handler'[W(v)] \in {"barrier", "opening"} =>
          v # w /\ (~Past(v) \/ handler[W(v)] \in {"barrier", "opening"})
    BY <1>d, <1>h, <1>p DEF Past
  <2>2. ASSUME NEW v \in Wrappers
        PROVE  /\ ~Past(v)' \/ handler'[W(v)] \in {"barrier", "opening"} => fate'[v] = "none"
               /\ OpenerHas(v)' => fate'[v] = "held"
               /\ handle'[v] /\ Known(v)' => fate'[v] = "held"
               /\ closeCalls'[v] = IF fate'[v] = "closed" THEN 1 ELSE 0
    BY <1>u, <1>h, <1>a, <1>o, <1>k, <2>1 DEF PaneAccount
  <2> QED BY <2>2 DEF PaneAccount
<1>6. Unanswered'
  <2>1. \A v \in Wrappers : Answered(v)' <=> Answered(v) BY <1>u DEF Answered
  <2>2. \A c \in Conns : handler'[c] = "notify" <=> handler[c] = "notify" BY <1>h
  <2> QED BY <1>u, <1>p, <1>r, <2>1, <2>2 DEF Unanswered
<1>7. HeldOwned' BY <1>u, <1>h, <1>o, <1>k DEF HeldOwned
<1>8. OneVerdict' BY <1>u DEF OneVerdict
<1> QED BY <1>1, <1>2, <1>3, <1>4, <1>5, <1>6, <1>7, <1>8

\* Open's handle goes to the request if it is still in the table, and stays with the
\* goroutine for its late close otherwise.
LEMMA OpenReturnsKeeps ==
  ASSUME TypeOK, UniqueIds, Ownership, NEW w \in Wrappers, OpenReturns(w) PROVE Ownership'
<1> USE DEF Ownership, tableVars, serverVars, clientVars, helperVars, paneVars
<1>d. \A v \in Wrappers : W(v) \in Conns /\ (W(v) = W(w) => v = w) BY ConnFacts
<1>u. /\ doomed' = doomed /\ lifecycle' = lifecycle /\ replies' = replies
      /\ victim' = victim /\ verdict' = verdict /\ requests' = requests
      /\ closeCalls' = closeCalls /\ fate' = fate
  BY DEF OpenReturns
<1> DEFINE stored == w \in Registered
<1>s. stored <=> requests[IdOf[w]] = w BY DEF Registered
<1>h. /\ handler[W(w)] \in {"creating", "verifying"}
      /\ \A c \in Conns : handler'[c] = IF c # W(w) THEN handler[c]
                                        ELSE IF stored THEN "announce" ELSE "lateClose"
      /\ \A v \in Wrappers : handle'[v] = IF v = w /\ stored THEN TRUE ELSE handle[v]
  <2>1. CASE stored
    <3>1. handle' = [handle EXCEPT ![w] = TRUE] /\ Goto(W(w), "announce")
      BY <1>s, <2>1 DEF OpenReturns
    <3> QED BY <2>1, <3>1 DEF OpenReturns, Goto, TypeOK
  <2>2. CASE ~stored
    <3>1. handle' = handle /\ Goto(W(w), "lateClose") BY <1>s, <2>2 DEF OpenReturns
    <3> QED BY <2>2, <3>1 DEF OpenReturns, Goto, TypeOK
  <2> QED BY <2>1, <2>2
<1>a. fate[w] = "held" /\ closeCalls[w] = 0 /\ ~handle[w]
  BY <1>h DEF PaneAccount, HandleSound, OpenerHas
<1>r. Registered' = Registered BY <1>u DEF Registered
<1>p. \A v \in Wrappers : Past(v)' <=> Past(v) BY <1>d, <1>h DEF Past
<1>n. \A c \in Conns : handler'[c] \in {"notify", "closing"} \/ handler[c] \in {"notify", "closing"}
        => handler'[c] = handler[c]
  BY <1>h
<1>w. \A c \in Conns : \A v : WorksOn(c, v)' <=> WorksOn(c, v) BY <1>u, <1>n DEF WorksOn
<1>o. \A v \in Wrappers : OpenerHas(v)' <=> OpenerHas(v) /\ ~(v = w /\ stored)
  BY <1>d, <1>h DEF OpenerHas
<1>k. \A v \in Wrappers : Known(v)' <=> Known(v) BY <1>u, <1>r, <1>w DEF Known
<1>1. TableSound'
  <2>1. \A v \in Registered : Serving(v) => Serving(v)' BY <1>d, <1>h DEF Serving, Registered
  <2>2. \A i \in Ids : requests[i] # None => requests[i] \in Registered
    BY DEF TableSound, Registered, TypeOK
  <2> QED BY <1>u, <2>1, <2>2 DEF TableSound
<1>2. OneWorker' BY <1>u, <1>n, <1>r, <1>p, <1>w DEF OneWorker
<1>3. DoomedSound' BY <1>u, <1>r, <1>p DEF DoomedSound, Closing, TypeOK
<1>4. HandleSound'
  <2>1. \A v \in Wrappers : handle'[v] =>
          handler'[W(v)] \in {"announce", "reading", "notify", "closing", "return", "done"}
    BY <1>d, <1>h, <1>a DEF HandleSound
  <2>2. \A c \in Conns : handler'[c] = "closing" => handle'[victim'[c]]
    <3>1. \A c \in Conns : handler'[c] = "closing" =>
            handler[c] = "closing" /\ victim'[c] = victim[c] /\ victim[c] \in Wrappers
      BY <1>u, <1>h DEF OneWorker
    <3> QED BY <1>h, <3>1 DEF HandleSound
  <2>3. \A c \in Conns : handler'[c] = "notify" /\ verdict'[c] = "error" =>
          c = W(victim'[c]) /\ ~handle'[victim'[c]]
    <3>1. ASSUME NEW c \in Conns, handler'[c] = "notify", verdict'[c] = "error"
          PROVE  c = W(victim'[c]) /\ ~handle'[victim'[c]]
      <4>1. /\ c # W(w) /\ c = W(victim[c]) /\ ~handle[victim[c]] /\ victim[c] \in Wrappers
            /\ victim'[c] = victim[c]
        BY <1>u, <1>h, <3>1 DEF HandleSound, OneWorker
      <4> QED BY <1>h, <4>1
    <3> QED BY <3>1
  <2> QED BY <2>1, <2>2, <2>3 DEF HandleSound
<1>5. PaneAccount'
  <2>1. \A v \in Wrappers : ~Past(v)' \/ handler'[W(v)] \in {"barrier", "opening"} =>
          v # w /\ (~Past(v) \/ handler[W(v)] \in {"barrier", "opening"})
    BY <1>d, <1>h, <1>p DEF Past
  <2>2. ASSUME NEW v \in Wrappers
        PROVE  /\ ~Past(v)' \/ handler'[W(v)] \in {"barrier", "opening"} => fate'[v] = "none"
               /\ OpenerHas(v)' => fate'[v] = "held"
               /\ handle'[v] /\ Known(v)' => fate'[v] = "held"
               /\ closeCalls'[v] = IF fate'[v] = "closed" THEN 1 ELSE 0
    BY <1>u, <1>h, <1>a, <1>o, <1>k, <2>1 DEF PaneAccount
  <2> QED BY <2>2 DEF PaneAccount
<1>6. Unanswered'
  <2>1. \A v \in Wrappers : Answered(v)' <=> Answered(v) BY <1>u DEF Answered
  <2>2. \A c \in Conns : handler'[c] = "notify" <=> handler[c] = "notify" BY <1>h
  <2> QED BY <1>u, <1>p, <1>r, <2>1, <2>2 DEF Unanswered
<1>7. HeldOwned'
  <2>1. stored => Known(w) BY DEF Known
  <2> QED BY <1>u, <1>h, <1>o, <1>k, <2>1 DEF HeldOwned
<1>8. OneVerdict' BY <1>u DEF OneVerdict
<1> QED BY <1>1, <1>2, <1>3, <1>4, <1>5, <1>6, <1>7, <1>8

\* Provider.Close of a pane that is held ends its account; it was not closed before.
LEMMA CloseOnce ==
  ASSUME TypeOK, Ownership, NEW w \in Wrappers, ProviderClose(w), fate[w] = "held"
  PROVE  \A v \in Wrappers :
           /\ fate'[v] = IF v = w THEN "closed" ELSE fate[v]
           /\ closeCalls'[v] = IF fate'[v] = "closed" THEN 1 ELSE 0
<1>1. closeCalls[w] = 0 BY DEF Ownership, PaneAccount
<1> QED BY <1>1 DEF ProviderClose, TypeOK, Ownership, PaneAccount

\* The late close of a pane whose request was removed while it was being opened.
LEMMA LateCloseKeeps ==
  ASSUME TypeOK, Ownership, NEW w \in Wrappers, LateClose(w) PROVE Ownership'
<1> USE DEF Ownership, tableVars, serverVars, clientVars, helperVars, paneVars
<1>d. \A v \in Wrappers : W(v) \in Conns /\ (W(v) = W(w) => v = w) BY ConnFacts
<1>u. /\ doomed' = doomed /\ handle' = handle /\ lifecycle' = lifecycle /\ replies' = replies
      /\ victim' = victim /\ verdict' = verdict /\ requests' = requests
  BY DEF LateClose
<1>h. /\ handler[W(w)] = "lateClose"
      /\ \A c \in Conns : handler'[c] = IF c = W(w) THEN "return" ELSE handler[c]
  BY DEF LateClose, Goto, TypeOK
<1>a. fate[w] = "held" /\ ~handle[w]
  BY <1>h DEF PaneAccount, HandleSound, OpenerHas
<1>f. \A v \in Wrappers : /\ fate'[v] = IF v = w THEN "closed" ELSE fate[v]
                          /\ closeCalls'[v] = IF fate'[v] = "closed" THEN 1 ELSE 0
  BY <1>a, CloseOnce DEF LateClose
<1>r. Registered' = Registered BY <1>u DEF Registered
<1>p. \A v \in Wrappers : Past(v)' <=> Past(v) BY <1>d, <1>h DEF Past
<1>w. \A c \in Conns : \A v : WorksOn(c, v)' <=> WorksOn(c, v) BY <1>u, <1>h DEF WorksOn
<1>o. \A v \in Wrappers : OpenerHas(v)' <=> OpenerHas(v) /\ v # w BY <1>d, <1>h DEF OpenerHas
<1>k. \A v \in Wrappers : Known(v)' <=> Known(v) BY <1>u, <1>r, <1>w DEF Known
<1>1. TableSound'
  <2>1. \A v \in Wrappers : Serving(v) => Serving(v)' BY <1>d, <1>h DEF Serving
  <2> QED BY <1>u, <2>1 DEF TableSound, TypeOK
<1>2. OneWorker' BY <1>u, <1>h, <1>r, <1>p, <1>w DEF OneWorker
<1>3. DoomedSound' BY <1>u, <1>r, <1>p DEF DoomedSound, Closing, TypeOK
<1>4. HandleSound' BY <1>u, <1>h, <1>d, <1>a DEF HandleSound
<1>5. PaneAccount'
  <2>1. \A v \in Wrappers : ~Past(v)' \/ handler'[W(v)] \in {"barrier", "opening"} =>
          v # w /\ (~Past(v) \/ handler[W(v)] \in {"barrier", "opening"})
    BY <1>d, <1>h, <1>p DEF Past
  <2>2. ASSUME NEW v \in Wrappers
        PROVE  /\ ~Past(v)' \/ handler'[W(v)] \in {"barrier", "opening"} => fate'[v] = "none"
               /\ OpenerHas(v)' => fate'[v] = "held"
               /\ handle'[v] /\ Known(v)' => fate'[v] = "held"
               /\ closeCalls'[v] = IF fate'[v] = "closed" THEN 1 ELSE 0
    BY <1>u, <1>f, <1>a, <1>o, <1>k, <2>1 DEF PaneAccount
  <2> QED BY <2>2 DEF PaneAccount
<1>6. Unanswered'
  <2>1. \A v \in Wrappers : Answered(v)' <=> Answered(v) BY <1>u DEF Answered
  <2>2. \A c \in Conns : handler'[c] = "notify" <=> handler[c] = "notify" BY <1>h
  <2> QED BY <1>u, <1>p, <1>r, <2>1, <2>2 DEF Unanswered
<1>7. HeldOwned' BY <1>u, <1>f, <1>o, <1>k DEF HeldOwned
<1>8. OneVerdict' BY <1>u DEF OneVerdict
<1> QED BY <1>1, <1>2, <1>3, <1>4, <1>5, <1>6, <1>7, <1>8

\* The goroutine that removed a request answers its wrapper, the only one to do so, and
\* keeps the pane in hand if it is to be closed.
LEMMA NotifyKeeps ==
  ASSUME TypeOK, Ownership, NEW c \in Conns, Notify(c) PROVE Ownership'
<1> USE DEF Ownership, tableVars, serverVars, clientVars, helperVars, paneVars
<1> DEFINE r == victim[c]
           closes == handle[r] /\ ClosesHandle(verdict[c])
           keeps == ~closes /\ handle[r]
<1>d. \A v \in Wrappers : W(v) \in Conns BY ConnFacts
<1>u. /\ doomed' = doomed /\ lifecycle' = lifecycle /\ handle' = handle
      /\ victim' = victim /\ verdict' = verdict /\ requests' = requests
      /\ closeCalls' = closeCalls
  BY DEF Notify
<1>h. /\ handler[c] = "notify"
      /\ \A e \in Conns : handler'[e] = IF e # c THEN handler[e]
                                        ELSE IF closes THEN "closing" ELSE "return"
  BY DEF Notify, Goto, TypeOK
<1>v. /\ r \in Wrappers /\ Past(r) /\ r \notin Registered /\ r \notin doomed
      /\ \A e \in Conns : WorksOn(e, r) => e = c
  BY <1>h DEF OneWorker
<1>e. handle[r] => verdict[c] # "error" /\ fate[r] = "held"
  <2>1. Known(r) BY <1>h DEF Known, WorksOn
  <2> QED BY <1>h, <1>v, <2>1 DEF HandleSound, PaneAccount
<1>f. \A w \in Wrappers : fate'[w] = IF w = r /\ keeps THEN "kept" ELSE fate[w]
  <2>1. CASE closes BY <2>1 DEF Notify
  <2>2. CASE ~closes
    <3>1. fate' = IF handle[r] /\ verdict[c] # "error" THEN [fate EXCEPT ![r] = "kept"] ELSE fate
      BY <2>2 DEF Notify
    <3> QED BY <1>e, <2>2, <3>1 DEF TypeOK
  <2> QED BY <2>1, <2>2
<1>b. /\ OneVerdict'
      /\ \A w \in Wrappers : Answered(w)' => Answered(w) \/ w = r
  <2>1. verdict[c] \in Verdicts BY DEF TypeOK
  <2>2. ~Answered(r) BY <1>h, <1>v DEF Unanswered
  <2>3. Reply(r, verdict[c]) BY DEF Notify
  <2> QED BY <1>v, <2>1, <2>2, <2>3, ReplyOnce
<1>r. Registered' = Registered BY <1>u DEF Registered
<1>p. \A w \in Wrappers : Past(w)' <=> Past(w)
  BY <1>d, <1>h DEF Past
<1>w. \A e \in Conns : \A w : WorksOn(e, w)' <=> WorksOn(e, w) /\ (e = c => closes)
  BY <1>u, <1>h DEF WorksOn
<1>o. \A w \in Wrappers : OpenerHas(w)' <=> OpenerHas(w) BY <1>d, <1>h DEF OpenerHas
<1>k. \A w \in Wrappers : Known(w)' <=> Known(w) /\ (w = r => closes)
  <2>1. \A w \in Wrappers : WorksOn(c, w) => w = r BY DEF WorksOn
  <2> QED BY <1>u, <1>r, <1>v, <1>w, <2>1 DEF Known
<1>1. TableSound'
  <2>1. \A w \in Wrappers : Serving(w) => Serving(w)' BY <1>d, <1>h DEF Serving
  <2> QED BY <1>u, <2>1 DEF TableSound, TypeOK
<1>2. OneWorker'
  <2>1. \A e \in Conns : handler'[e] \in {"notify", "closing"} => handler[e] \in {"notify", "closing"}
    BY <1>h
  <2> QED BY <1>u, <1>r, <1>p, <1>w, <2>1 DEF OneWorker
<1>3. DoomedSound' BY <1>u, <1>r, <1>p DEF DoomedSound, Closing, TypeOK
<1>4. HandleSound'
  <2>1. \A w \in Wrappers : handle'[w] =>
          handler'[W(w)] \in {"announce", "reading", "notify", "closing", "return", "done"}
    BY <1>u, <1>d, <1>h DEF HandleSound
  <2> QED BY <1>u, <1>h, <2>1 DEF HandleSound
<1>5. PaneAccount'
  <2>1. \A w \in Wrappers : ~Past(w)' \/ handler'[W(w)] \in {"barrier", "opening"} =>
          ~Past(w) \/ handler[W(w)] \in {"barrier", "opening"}
    BY <1>d, <1>h, <1>p
  <2>2. keeps => ~OpenerHas(r) /\ Past(r) /\ handler[W(r)] \notin {"barrier", "opening"}
    BY <1>v DEF HandleSound, OpenerHas
  <2>3. ASSUME NEW w \in Wrappers
        PROVE  /\ ~Past(w)' \/ handler'[W(w)] \in {"barrier", "opening"} => fate'[w] = "none"
               /\ OpenerHas(w)' => fate'[w] = "held"
               /\ handle'[w] /\ Known(w)' => fate'[w] = "held"
               /\ closeCalls'[w] = IF fate'[w] = "closed" THEN 1 ELSE 0
    BY <1>u, <1>e, <1>f, <1>o, <1>k, <2>1, <2>2 DEF PaneAccount
  <2> QED BY <2>3 DEF PaneAccount
<1>6. Unanswered'
  <2>1. \A e \in Conns : handler'[e] = "notify" => handler[e] = "notify" /\ victim[e] # r
    BY <1>h, <1>v DEF WorksOn
  <2> QED BY <1>u, <1>v, <1>p, <1>r, <1>b, <2>1 DEF Unanswered
<1>7. HeldOwned' BY <1>u, <1>e, <1>f, <1>o, <1>k DEF HeldOwned
<1> QED BY <1>1, <1>2, <1>3, <1>4, <1>5, <1>6, <1>7, <1>b

\* Closing the pane of a removed request is the last thing its remover does.
LEMMA ClosePaneKeeps ==
  ASSUME TypeOK, Ownership, NEW c \in Conns, ClosePane(c) PROVE Ownership'
<1> USE DEF Ownership, tableVars, serverVars, clientVars, helperVars, paneVars
<1> DEFINE r == victim[c]
<1>d. \A v \in Wrappers : W(v) \in Conns BY ConnFacts
<1>u. /\ doomed' = doomed /\ lifecycle' = lifecycle /\ handle' = handle
      /\ victim' = victim /\ verdict' = verdict /\ requests' = requests /\ replies' = replies
  BY DEF ClosePane
<1>h. /\ handler[c] = "closing"
      /\ \A e \in Conns : handler'[e] = IF e = c THEN "return" ELSE handler[e]
  BY DEF ClosePane, Goto, TypeOK
<1>v. /\ r \in Wrappers /\ Past(r) /\ r \notin Registered /\ r \notin doomed
      /\ \A e \in Conns : WorksOn(e, r) => e = c
  BY <1>h DEF OneWorker
<1>e. handle[r] /\ fate[r] = "held"
  <2>1. Known(r) BY <1>h DEF Known, WorksOn
  <2> QED BY <1>h, <1>v, <2>1 DEF HandleSound, PaneAccount
<1>f. \A w \in Wrappers : /\ fate'[w] = IF w = r THEN "closed" ELSE fate[w]
                          /\ closeCalls'[w] = IF fate'[w] = "closed" THEN 1 ELSE 0
  BY <1>v, <1>e, CloseOnce DEF ClosePane
<1>r. Registered' = Registered BY <1>u DEF Registered
<1>p. \A w \in Wrappers : Past(w)' <=> Past(w) BY <1>d, <1>h DEF Past
<1>w. \A e \in Conns : \A w : WorksOn(e, w)' <=> WorksOn(e, w) /\ e # c
  BY <1>u, <1>h DEF WorksOn
<1>o. \A w \in Wrappers : OpenerHas(w)' <=> OpenerHas(w) BY <1>d, <1>h DEF OpenerHas
<1>k. \A w \in Wrappers : Known(w)' <=> Known(w) /\ w # r
  <2>1. \A w \in Wrappers : WorksOn(c, w) => w = r BY DEF WorksOn
  <2> QED BY <1>u, <1>r, <1>v, <1>w, <2>1 DEF Known
<1>1. TableSound'
  <2>1. \A w \in Wrappers : Serving(w) => Serving(w)' BY <1>d, <1>h DEF Serving
  <2> QED BY <1>u, <2>1 DEF TableSound, TypeOK
<1>2. OneWorker'
  <2>1. \A e \in Conns : handler'[e] \in {"notify", "closing"} => handler[e] \in {"notify", "closing"}
    BY <1>h
  <2> QED BY <1>u, <1>r, <1>p, <1>w, <2>1 DEF OneWorker
<1>3. DoomedSound' BY <1>u, <1>r, <1>p DEF DoomedSound, Closing, TypeOK
<1>4. HandleSound'
  <2>1. \A w \in Wrappers : handle'[w] =>
          handler'[W(w)] \in {"announce", "reading", "notify", "closing", "return", "done"}
    BY <1>u, <1>d, <1>h DEF HandleSound
  <2> QED BY <1>u, <1>h, <2>1 DEF HandleSound
<1>5. PaneAccount'
  <2>1. \A w \in Wrappers : ~Past(w)' \/ handler'[W(w)] \in {"barrier", "opening"} =>
          ~Past(w) \/ handler[W(w)] \in {"barrier", "opening"}
    BY <1>d, <1>h, <1>p
  <2>2. ~OpenerHas(r) /\ Past(r) /\ handler[W(r)] \notin {"barrier", "opening"}
    BY <1>v, <1>e DEF HandleSound, OpenerHas
  <2>3. ASSUME NEW w \in Wrappers
        PROVE  /\ ~Past(w)' \/ handler'[W(w)] \in {"barrier", "opening"} => fate'[w] = "none"
               /\ OpenerHas(w)' => fate'[w] = "held"
               /\ handle'[w] /\ Known(w)' => fate'[w] = "held"
               /\ closeCalls'[w] = IF fate'[w] = "closed" THEN 1 ELSE 0
    BY <1>u, <1>f, <1>o, <1>k, <2>1, <2>2 DEF PaneAccount
  <2> QED BY <2>3 DEF PaneAccount
<1>6. Unanswered'
  <2>1. \A w \in Wrappers : Answered(w)' <=> Answered(w) BY <1>u DEF Answered
  <2>2. \A e \in Conns : handler'[e] = "notify" => handler[e] = "notify" BY <1>h
  <2> QED BY <1>u, <1>p, <1>r, <2>1, <2>2 DEF Unanswered
<1>7. HeldOwned' BY <1>u, <1>f, <1>o, <1>k DEF HeldOwned
<1>8. OneVerdict' BY <1>u DEF OneVerdict
<1> QED BY <1>1, <1>2, <1>3, <1>4, <1>5, <1>6, <1>7, <1>8

\* close() takes over every request of the table at once.
LEMMA CloseDetachKeeps ==
  ASSUME TypeOK, UniqueIds, Ownership, CloseDetach PROVE Ownership'
<1> USE DEF Ownership, tableVars, serverVars, clientVars, helperVars, paneVars
<1>n. None \notin Wrappers /\ \A w \in Wrappers : IdOf[w] \in Ids BY ConstantsAssumption
<1>u. /\ handle' = handle /\ handler' = handler /\ victim' = victim /\ verdict' = verdict
      /\ replies' = replies /\ fate' = fate /\ closeCalls' = closeCalls
      /\ lifecycle = "cancelled" /\ lifecycle' = "detached" /\ doomed' = Registered
      /\ requests' = [id \in Ids |-> None]
  BY DEF CloseDetach
<1>e. doomed = {} BY <1>u DEF DoomedSound, Closing
<1>r. Registered' = {} BY <1>u, <1>n DEF Registered
<1>p. \A w \in Wrappers : Past(w)' <=> Past(w) BY <1>u DEF Past
<1>w. \A c \in Conns : \A w : WorksOn(c, w)' <=> WorksOn(c, w) BY <1>u DEF WorksOn
<1>o. \A w \in Wrappers : OpenerHas(w)' <=> OpenerHas(w) BY <1>u DEF OpenerHas
<1>k. \A w \in Wrappers : Known(w)' <=> Known(w) BY <1>u, <1>e, <1>r, <1>w DEF Known
<1>s. \A w \in Registered : Past(w)
  BY <1>n DEF Registered, TableSound, Serving, Past
<1>1. TableSound' BY <1>u DEF TableSound
<1>2. OneWorker' BY <1>u, <1>r, <1>p, <1>w DEF OneWorker
<1>3. DoomedSound' BY <1>u, <1>r, <1>p, <1>s DEF DoomedSound, Closing, Registered
<1>4. HandleSound' BY <1>u DEF HandleSound
<1>5. PaneAccount' BY <1>u, <1>p, <1>o, <1>k DEF PaneAccount
<1>6. Unanswered'
  <2>1. \A w \in Wrappers : Answered(w)' <=> Answered(w) BY <1>u DEF Answered
  <2> QED BY <1>u, <1>p, <1>r, <2>1 DEF Unanswered
<1>7. HeldOwned' BY <1>u, <1>o, <1>k DEF HeldOwned
<1>8. OneVerdict' BY <1>u DEF OneVerdict
<1> QED BY <1>1, <1>2, <1>3, <1>4, <1>5, <1>6, <1>7, <1>8

\* close() deals with the panes it took over one by one.
LEMMA CloseSweepKeeps ==
  ASSUME TypeOK, Ownership, NEW w \in Wrappers, CloseSweep(w) PROVE Ownership'
<1> USE DEF Ownership, tableVars, serverVars, clientVars, helperVars, paneVars
<1>u. /\ handle' = handle /\ handler' = handler /\ victim' = victim /\ verdict' = verdict
      /\ replies' = replies /\ requests' = requests /\ lifecycle' = lifecycle
      /\ w \in doomed /\ doomed' = doomed \ {w}
  BY DEF CloseSweep
<1>v. w \notin Registered /\ \A c \in Conns : ~WorksOn(c, w)
  BY <1>u DEF DoomedSound, OneWorker, WorksOn
<1>e. handle[w] => fate[w] = "held" BY <1>u DEF PaneAccount, Known
<1>f. \A v \in Wrappers : /\ fate'[v] = IF v = w /\ handle[w] THEN "closed" ELSE fate[v]
                          /\ closeCalls'[v] = IF fate'[v] = "closed" THEN 1 ELSE 0
  <2>1. CASE handle[w] BY <1>e, <2>1, CloseOnce DEF CloseSweep
  <2>2. CASE ~handle[w] BY <2>2 DEF CloseSweep, PaneAccount
  <2> QED BY <2>1, <2>2
<1>r. Registered' = Registered BY <1>u DEF Registered
<1>p. \A v \in Wrappers : Past(v)' <=> Past(v) BY <1>u DEF Past
<1>w. \A c \in Conns : \A v : WorksOn(c, v)' <=> WorksOn(c, v) BY <1>u DEF WorksOn
<1>o. \A v \in Wrappers : OpenerHas(v)' <=> OpenerHas(v) BY <1>u DEF OpenerHas
<1>k. \A v \in Wrappers : Known(v)' <=> Known(v) /\ v # w
  BY <1>u, <1>v, <1>r, <1>w DEF Known
<1>1. TableSound' BY <1>u DEF TableSound, Serving
<1>2. OneWorker' BY <1>u, <1>r, <1>p, <1>w DEF OneWorker
<1>3. DoomedSound' BY <1>u, <1>r, <1>p DEF DoomedSound, Closing, TypeOK
<1>4. HandleSound' BY <1>u DEF HandleSound
<1>5. PaneAccount'
  <2>1. handle[w] => ~OpenerHas(w) /\ Past(w) /\ handler[W(w)] \notin {"barrier", "opening"}
    BY <1>u DEF HandleSound, OpenerHas, DoomedSound
  <2>2. ASSUME NEW v \in Wrappers
        PROVE  /\ ~Past(v)' \/ handler'[W(v)] \in {"barrier", "opening"} => fate'[v] = "none"
               /\ OpenerHas(v)' => fate'[v] = "held"
               /\ handle'[v] /\ Known(v)' => fate'[v] = "held"
               /\ closeCalls'[v] = IF fate'[v] = "closed" THEN 1 ELSE 0
    BY <1>u, <1>f, <1>p, <1>o, <1>k, <2>1 DEF PaneAccount
  <2> QED BY <2>2 DEF PaneAccount
<1>6. Unanswered'
  <2>1. \A v \in Wrappers : Answered(v)' <=> Answered(v) BY <1>u DEF Answered
  <2> QED BY <1>u, <1>p, <1>r, <2>1 DEF Unanswered
<1>7. HeldOwned' BY <1>u, <1>f, <1>o, <1>k DEF HeldOwned
<1>8. OneVerdict' BY <1>u DEF OneVerdict
<1> QED BY <1>1, <1>2, <1>3, <1>4, <1>5, <1>6, <1>7, <1>8

-----------------------------------------------------------------------------
(* The groups of actions.                                                  *)

\* A step that moves one goroutine benignly, and touches no book and no answer.
LEMMA StepKeeps ==
  ASSUME TypeOK, Ownership, NEW c \in Conns, NEW pc, Goto(c, pc), Benign(handler[c], pc),
         UNCHANGED <<requests, doomed, handle, fate, closeCalls, lifecycle, victim, verdict,
                     replies>>
  PROVE  Ownership'
<1>1. \A d \in Conns : handler'[d] = IF d = c THEN pc ELSE handler[d] BY DEF Goto, TypeOK
<1>2. \A d \in Conns : Benign(handler[d], handler'[d]) BY <1>1 DEF Benign
<1>3. OneVerdict' /\ \A w \in Wrappers : Answered(w)' => Answered(w)
  BY DEF OneVerdict, Answered, Ownership
<1> QED BY <1>2, <1>3, BenignKeeps DEF Closing

\* A step that moves no goroutine and touches no book and no answer.
LEMMA IdleKeeps ==
  ASSUME TypeOK, Ownership,
         UNCHANGED <<handler, requests, doomed, handle, fate, closeCalls, victim, verdict,
                     replies>>,
         Closing => Closing'
  PROVE  Ownership'
<1>2. \A d \in Conns : Benign(handler[d], handler'[d]) BY DEF Benign
<1>3. OneVerdict' /\ \A w \in Wrappers : Answered(w)' => Answered(w)
  BY DEF OneVerdict, Answered, Ownership
<1> QED BY <1>2, <1>3, BenignKeeps

\* Accepting, notifying, closing and returning keep the ownership.
LEMMA ServeKeeps ==
  ASSUME TypeOK, Ownership, NEW c \in Conns, Serve(c) PROVE Ownership'
<1> USE DEF tableVars, serverVars, clientVars, helperVars, paneVars
<1>1. CASE Accept(c)
  BY <1>1, StepKeeps DEF Accept, Benign
<1>2. CASE HandshakeFails(c)
  BY <1>2, StepKeeps DEF HandshakeFails, Benign
<1>3. CASE HandlerReturn(c)
  <2>1. \A d \in Conns : handler'[d] = IF d = c THEN "done" ELSE handler[d]
    BY <1>3 DEF HandlerReturn, Goto, TypeOK
  <2>2. \A d \in Conns : Benign(handler[d], handler'[d])
    BY <1>3, <2>1 DEF HandlerReturn, Benign
  <2>3. \A d \in Conns : d # c => victim'[d] = victim[d] /\ verdict'[d] = verdict[d]
    BY <1>3 DEF HandlerReturn, TypeOK
  <2>4. OneVerdict' /\ \A w \in Wrappers : Answered(w)' => Answered(w)
    BY <1>3 DEF HandlerReturn, OneVerdict, Answered, Ownership
  <2> QED BY <1>3, <2>1, <2>2, <2>3, <2>4, BenignKeeps DEF HandlerReturn, Closing
<1>4. CASE Notify(c) BY <1>4, NotifyKeeps
<1>5. CASE ClosePane(c) BY <1>5, ClosePaneKeeps
<1> QED BY <1>1, <1>2, <1>3, <1>4, <1>5 DEF Serve

\* handleWrapper keeps the ownership.
LEMMA OpeningKeeps ==
  ASSUME TypeOK, UniqueIds, Ownership, NEW w \in Wrappers, Opening(w) PROVE Ownership'
<1> USE DEF tableVars, serverVars, clientVars, helperVars, paneVars
<1>a. W(w) \in Conns /\ IdOf[w] \in Ids /\ \A v \in Wrappers : W(v) = W(w) => v = w
  BY ConnFacts, ConstantsAssumption
<1>b. handler[W(w)] \in {"barrier", "opening", "creating", "verifying"} => ~handle[w]
  BY DEF Ownership, HandleSound
<1>v. "error" \in Verdicts /\ "cancel" \in Verdicts BY DEF Verdicts
<1>1. CASE Register(w) BY <1>1, RegisterKeeps
<1>2. CASE Barrier(w)
  <2>1. CASE Goto(W(w), "opening") /\ UNCHANGED <<requests, victim, verdict>>
    BY <1>2, <1>a, <2>1, StepKeeps DEF Barrier, Benign
  <2>2. CASE Take(W(w), IdOf[w], "error")
    BY <1>2, <1>a, <1>b, <1>v, <2>2, TakeKeeps DEF Barrier, OpenerHas
  <2> QED BY <1>2, <2>1, <2>2 DEF Barrier
<1>3. CASE OpenFails(w)
  BY <1>3, <1>a, <1>b, <1>v, TakeKeeps DEF OpenFails, OpenerHas
<1>4. CASE OpenCreates(w) BY <1>4, OpenCreatesKeeps
<1>5. CASE OpenIdentified(w)
  BY <1>5, <1>a, StepKeeps DEF OpenIdentified, Benign
<1>6. CASE OpenAborts(w)
  <2>1. handler[W(w)] \in {"creating", "verifying"} BY <1>6 DEF OpenAborts
  <2>2. \A v \in Wrappers : IF v = w THEN fate'[v] \in {"aborted", "stray", "suppressed"}
                                     ELSE fate'[v] = fate[v]
    BY <1>6 DEF OpenAborts, TypeOK
  <2>3. \A v \in Wrappers : IF W(w) = W(v) /\ OpenerHas(v)
                              THEN fate'[v] \in {"aborted", "stray", "suppressed"}
                              ELSE fate'[v] = fate[v]
    BY <1>a, <2>1, <2>2 DEF OpenerHas
  <2> QED BY <1>6, <1>a, <1>b, <1>v, <2>1, <2>3, TakeKeeps DEF OpenAborts
<1>7. CASE OpenReturns(w) BY <1>7, OpenReturnsKeeps
<1>8. CASE LateClose(w) BY <1>8, LateCloseKeeps
<1>9. CASE Announce(w)
  <2>1. CASE Reply(w, "opened") /\ Goto(W(w), "reading") /\ UNCHANGED <<requests, victim, verdict>>
    <3>1. OneVerdict' /\ \A v \in Wrappers : Answered(v)' => Answered(v)
      BY <2>1, ReplyOnce DEF Verdicts, Ownership
    <3>2. \A d \in Conns : handler'[d] = IF d = W(w) THEN "reading" ELSE handler[d]
      BY <2>1 DEF Goto, TypeOK
    <3>3. \A d \in Conns : Benign(handler[d], handler'[d])
      BY <1>9, <3>2 DEF Announce, Benign
    <3> QED BY <1>9, <2>1, <3>1, <3>3, BenignKeeps DEF Announce, Closing
  <2>2. CASE Take(W(w), IdOf[w], "cancel") /\ UNCHANGED replies
    BY <1>9, <1>a, <1>v, <2>2, TakeKeeps DEF Announce, OpenerHas
  <2> QED BY <1>9, <2>1, <2>2 DEF Announce
<1>10. CASE WrapperLost(w)
  BY <1>10, <1>a, <1>v, TakeKeeps DEF WrapperLost, OpenerHas
<1> QED
  BY <1>1, <1>2, <1>3, <1>4, <1>5, <1>6, <1>7, <1>8, <1>9, <1>10 DEF Opening

\* handlePane keeps the ownership.
LEMMA PaningKeeps ==
  ASSUME TypeOK, UniqueIds, Ownership, NEW w \in Wrappers, Paning(w) PROVE Ownership'
<1> USE DEF tableVars, serverVars, clientVars, helperVars, paneVars
<1>a. P(w) \in Conns /\ IdOf[w] \in Ids /\ \A v \in Wrappers : W(v) # P(w)
  BY ConnFacts, ConstantsAssumption
<1>1. CASE HandlePane(w)
  BY <1>1, <1>a, StepKeeps DEF HandlePane, Benign
<1>2. CASE PaneEnds(w)
  <2>1. PICK v \in Verdicts : v # "error" /\ Take(P(w), IdOf[w], v)
    <3>1. exitMsg[w] \in {"none", "ok", "failed"} BY DEF TypeOK
    <3> QED BY <1>2, <3>1 DEF PaneEnds, Verdicts
  <2> QED BY <1>2, <1>a, <2>1, TakeKeeps DEF PaneEnds
<1> QED BY <1>1, <1>2 DEF Paning

\* Probes keep the ownership, even one that reports the end of a debugger.
LEMMA ProbingKeeps ==
  ASSUME TypeOK, UniqueIds, Ownership, NEW q \in Probes, Probing(q) PROVE Ownership'
<1> USE DEF tableVars, serverVars, clientVars, helperVars, paneVars
<1>a. Q(q) \in Conns /\ \A v \in Wrappers : W(v) # Q(q) BY ConnFacts
<1>1. CASE ProbeFirst(q)
  <2>1. CASE (\E pc \in {"return", "probeBarrier"} : Goto(Q(q), pc))
             /\ UNCHANGED <<requests, victim, verdict>>
    BY <1>1, <1>a, <2>1, StepKeeps DEF ProbeFirst, Benign
  <2>2. CASE \E id \in Ids, v \in {"ok", "failed"} : Take(Q(q), id, v)
    <3>1. PICK id \in Ids, v \in {"ok", "failed"} : Take(Q(q), id, v) BY <2>2
    <3>2. v \in Verdicts BY DEF Verdicts
    <3> QED BY <1>1, <1>a, <3>1, <3>2, TakeKeeps DEF ProbeFirst
  <2> QED BY <1>1, <2>1, <2>2 DEF ProbeFirst
<1>2. CASE ProbeBarrier(q)
  BY <1>2, <1>a, StepKeeps DEF ProbeBarrier, Benign
<1> QED BY <1>1, <1>2 DEF Probing

\* Broker.close keeps the ownership.
LEMMA CloserKeeps ==
  ASSUME TypeOK, UniqueIds, Ownership, Closer PROVE Ownership'
<1> USE DEF tableVars, serverVars, clientVars, helperVars, paneVars
<1>1. CASE CloseDetach BY <1>1, CloseDetachKeeps
<1>2. CASE CloseHangup
  <2>1. \A d \in Conns : handler'[d] = IF handler[d] = "queued" THEN "refused" ELSE handler[d]
    BY <1>2 DEF CloseHangup
  <2>2. \A d \in Conns : Benign(handler[d], handler'[d]) BY <2>1 DEF Benign
  <2>3. OneVerdict' /\ \A w \in Wrappers : Answered(w)' => Answered(w)
    BY <1>2 DEF CloseHangup, OneVerdict, Answered, Ownership
  <2> QED BY <1>2, <2>2, <2>3, BenignKeeps DEF CloseHangup, Closing
<1>3. ASSUME NEW w \in Wrappers, CloseSweep(w) PROVE Ownership' BY <1>3, CloseSweepKeeps
<1>4. CASE CloseWait BY <1>4, IdleKeeps DEF CloseWait, Closing
<1> QED BY <1>1, <1>2, <1>3, <1>4 DEF Closer

\* The wrapper process, the helper process and their users keep the ownership.
LEMMA ClientKeeps ==
  ASSUME TypeOK, Ownership, \/ Environment
                            \/ \E w \in Wrappers : Helping(w) \/ WrapperStops(w, FALSE)
  PROVE  Ownership'
<1> USE DEF tableVars, serverVars, clientVars, helperVars, paneVars
<1>0. ASSUME NEW w \in Wrappers, NEW v, SendExited(w, v) PROVE Ownership'
  BY <1>0, IdleKeeps DEF SendExited, Closing
<1>1. ASSUME NEW w \in Wrappers, WrapperDial(w) PROVE Ownership'
  BY <1>1, ConnFacts, StepKeeps DEF WrapperDial, Benign
<1>2. ASSUME NEW w \in Wrappers, WrapperSignal(w) PROVE Ownership'
  BY <1>2, IdleKeeps DEF WrapperSignal, Closing
<1>3. ASSUME NEW w \in Wrappers, NEW d \in BOOLEAN, WrapperStops(w, d) PROVE Ownership'
  BY <1>3, IdleKeeps DEF WrapperStops, Closing
<1>4. ASSUME NEW w \in Wrappers, DebuggerExits(w) PROVE Ownership'
  BY <1>4, <1>0, IdleKeeps DEF DebuggerExits, Closing
<1>5. ASSUME NEW w \in Wrappers, HelperEnter(w) PROVE Ownership'
  BY <1>5, <1>0 DEF HelperEnter
<1>6. ASSUME NEW w \in Wrappers, PaneGoes(w) PROVE Ownership'
  BY <1>6, IdleKeeps DEF PaneGoes, Closing
<1>7. ASSUME NEW q \in Probes, ProbeDial(q) PROVE Ownership'
  BY <1>7, ConnFacts, StepKeeps DEF ProbeDial, Benign
<1>8. CASE CloseBegin
  BY <1>8, IdleKeeps DEF CloseBegin, Closing
<1>9. ASSUME NEW w \in Wrappers, Helping(w) PROVE Ownership'
  <2>1. CASE HelperDial(w)
    BY <2>1, ConnFacts, StepKeeps DEF HelperDial, Benign
  <2>2. CASE HelperFailsToStart(w)
    BY <2>2, IdleKeeps DEF HelperFailsToStart, Closing
  <2>3. CASE HelperCancelled(w) BY <2>3, <1>0 DEF HelperCancelled
  <2>4. CASE HelperHangup(w) BY <2>4, <1>0, IdleKeeps DEF HelperHangup, Closing
  <2> QED BY <1>9, <2>1, <2>2, <2>3, <2>4 DEF Helping
<1>10. CASE Environment
  BY <1>1, <1>2, <1>3, <1>4, <1>5, <1>6, <1>7, <1>8, <1>10 DEF Environment
<1>11. CASE \E w \in Wrappers : Helping(w) \/ WrapperStops(w, FALSE)
  BY <1>3, <1>9, <1>11
<1> QED BY <1>10, <1>11

\* Ownership is an inductive invariant: whatever the interleaving of handlers, helpers,
\* users and close(), a request, its pane and its answer have one owner at a time.
THEOREM OwnershipHolds ==
  ASSUME UniqueIds PROVE Spec => []Ownership
<1>1. Init => Ownership
  <2> SUFFICES ASSUME Init PROVE Ownership OBVIOUS
  <2> USE DEF Init
  <2>1. \A w \in Wrappers : W(w) \in Conns /\ IdOf[w] \in Ids /\ w # None
    BY ConnFacts, ConstantsAssumption
  <2>2. Registered = {} BY <2>1 DEF Registered
  <2>3. \A w \in Wrappers : ~Past(w) /\ ~OpenerHas(w) BY <2>1 DEF Past, OpenerHas
  <2>4. \A w \in Wrappers : ~Answered(w) /\ Len(replies[w]) = 0 BY DEF Answered
  <2>5. TableSound /\ OneWorker /\ DoomedSound BY DEF TableSound, OneWorker, DoomedSound
  <2>6. HandleSound BY DEF HandleSound
  <2>7. PaneAccount BY <2>3 DEF PaneAccount
  <2>8. Unanswered BY <2>4 DEF Unanswered
  <2>9. HeldOwned /\ OneVerdict BY <2>4 DEF HeldOwned, OneVerdict
  <2> QED BY <2>5, <2>6, <2>7, <2>8, <2>9 DEF Ownership
<1>2. TypeOK /\ Ownership /\ [Next]_vars => Ownership'
  <2> SUFFICES ASSUME TypeOK, Ownership, [Next]_vars PROVE Ownership' OBVIOUS
  <2>1. CASE UNCHANGED vars
    BY <2>1, IdleKeeps
    DEF vars, tableVars, serverVars, clientVars, helperVars, paneVars, Closing
  <2>2. CASE Next
    BY <2>2, ServeKeeps, OpeningKeeps, PaningKeeps, ProbingKeeps, CloserKeeps, ClientKeeps
    DEF Next
  <2> QED BY <2>1, <2>2
<1>3. QED BY <1>1, <1>2, TypeCorrect, PTL DEF Spec

-----------------------------------------------------------------------------
(* PaneFates: what becomes of a pane whose Open fails, which Ownership     *)
(* leaves open.                                                            *)

\* Only the message "opened" tells the wrapper that its pane is open.
LEMMA ReplyTells ==
  ASSUME TypeOK, NEW v \in Wrappers, NEW m \in Verdicts \cup {"opened"}, Reply(v, m),
         NEW w \in Wrappers, ToldOpen(w)'
  PROVE  ToldOpen(w) \/ (w = v /\ m = "opened")
<1>1. replies[w] \in Seq(Verdicts \cup {"opened"}) BY DEF TypeOK
<1>2. CASE replies' = replies BY <1>2 DEF ToldOpen
<1>3. CASE replies' = [replies EXCEPT ![v] = Append(@, m)]
  <2>1. CASE w # v
    <3>1. replies'[w] = replies[w] BY <1>3, <2>1 DEF TypeOK
    <3> QED BY <3>1 DEF ToldOpen
  <2>2. CASE w = v
    <3>1. replies'[w] = Append(replies[w], m) BY <1>3, <2>2 DEF TypeOK
    <3>2. PICK i \in 1..Len(Append(replies[w], m)) : Append(replies[w], m)[i] = "opened"
      BY <3>1 DEF ToldOpen
    <3>3. CASE i = Len(replies[w]) + 1 BY <1>1, <2>2, <3>2, <3>3
    <3>4. CASE i # Len(replies[w]) + 1
      <4>1. i \in 1..Len(replies[w]) /\ Append(replies[w], m)[i] = replies[w][i]
        BY <1>1, <3>2, <3>4
      <4> QED BY <3>2, <4>1 DEF ToldOpen
    <3> QED BY <3>3, <3>4
  <2> QED BY <2>1, <2>2
<1> QED BY <1>2, <1>3 DEF Reply

\* What a step may do to a pane, its fate, its handle and what its wrapper was told.
LEMMA FatesMove ==
  ASSUME PaneFates,
         \A w \in Wrappers : pane'[w] = "open" => pane[w] = "open" \/ fate'[w] = "held",
         \A w \in Wrappers :
           \/ fate'[w] = fate[w] \/ fate'[w] \in {"held", "closed", "kept"}
           \/ ~handle'[w] /\ fate'[w] # "none" /\ (fate'[w] = "aborted" => pane'[w] # "open"),
         \A w \in Wrappers : handle'[w] = handle[w] \/ (handle'[w] /\ fate'[w] = "held"),
         \A w \in Wrappers : handler'[W(w)] \in {"announce", "reading"} =>
           handle'[w] \/ handler[W(w)] \in {"announce", "reading"},
         \A w \in Wrappers : ToldOpen(w)' => ToldOpen(w) \/ handle'[w]
  PROVE  PaneFates'
<1> SUFFICES ASSUME NEW w \in Wrappers
             PROVE  /\ pane'[w] = "open" => fate'[w] \notin {"none", "aborted"}
                    /\ fate'[w] \in {"aborted", "stray", "suppressed"} => ~handle'[w]
                    /\ ToldOpen(w)' \/ handler'[W(w)] \in {"announce", "reading"} => handle'[w]
  BY DEF PaneFates
<1>0. /\ pane[w] = "open" => fate[w] \notin {"none", "aborted"}
      /\ fate[w] \in {"aborted", "stray", "suppressed"} => ~handle[w]
      /\ ToldOpen(w) \/ handler[W(w)] \in {"announce", "reading"} => handle[w]
  BY DEF PaneFates
<1>1. handle[w] => handle'[w] OBVIOUS
<1>2. pane'[w] = "open" => fate'[w] \notin {"none", "aborted"} BY <1>0
<1>3. fate'[w] \in {"aborted", "stray", "suppressed"} => ~handle'[w] BY <1>0
<1>4. ToldOpen(w)' \/ handler'[W(w)] \in {"announce", "reading"} => handle'[w] BY <1>0, <1>1
<1> QED BY <1>2, <1>3, <1>4

\* A step that opens no pane, settles no fate, stores no handle and tells nothing.
LEMMA FatesStay ==
  ASSUME PaneFates, UNCHANGED <<fate, handle, replies>>,
         \A w \in Wrappers : pane'[w] = "open" => pane[w] = "open",
         \A w \in Wrappers : handler'[W(w)] \in {"announce", "reading"} =>
           handler[W(w)] \in {"announce", "reading"}
  PROVE  PaneFates'
<1>1. \A w \in Wrappers : ToldOpen(w)' => ToldOpen(w) BY DEF ToldOpen
<1> QED BY <1>1, FatesMove

\* Closing a pane settles its fate.
LEMMA CloseSettles ==
  ASSUME TypeOK, PaneFates, NEW v, ProviderClose(v), UNCHANGED <<handle, replies>>,
         \A w \in Wrappers : handler'[W(w)] \in {"announce", "reading"} =>
           handler[W(w)] \in {"announce", "reading"}
  PROVE  PaneFates'
<1>1. \A w \in Wrappers : fate'[w] = fate[w] \/ fate'[w] = "closed"
  BY DEF ProviderClose, TypeOK
<1>2. \A w \in Wrappers : pane'[w] = "open" => pane[w] = "open" BY DEF ProviderClose, TypeOK
<1>3. \A w \in Wrappers : ToldOpen(w)' => ToldOpen(w) BY DEF ToldOpen
<1> QED BY <1>1, <1>2, <1>3, FatesMove

\* Moving one goroutine somewhere else than to "announce" and "reading".
LEMMA GotoElsewhere ==
  ASSUME TypeOK, NEW c \in Conns, NEW pc, Goto(c, pc), pc \notin {"announce", "reading"}
  PROVE  \A w \in Wrappers : handler'[W(w)] \in {"announce", "reading"} =>
           handler[W(w)] \in {"announce", "reading"}
  BY ConnFacts DEF Goto, TypeOK

\* Removing a request from the table leads to "notify" or "return".
LEMMA TakeElsewhere ==
  ASSUME TypeOK, NEW c \in Conns, NEW id, NEW v, Take(c, id, v)
  PROVE  \A w \in Wrappers : handler'[W(w)] \in {"announce", "reading"} =>
           handler[W(w)] \in {"announce", "reading"}
<1>1. CASE requests[id] = None BY <1>1, GotoElsewhere DEF Take
<1>2. CASE requests[id] # None BY <1>2, GotoElsewhere DEF Take
<1> QED BY <1>1, <1>2

\* The goroutines every connection has keep the fates.
LEMMA ServeFates ==
  ASSUME TypeOK, Ownership, PaneFates, NEW c \in Conns, Serve(c) PROVE PaneFates'
<1> USE DEF tableVars, serverVars, clientVars, helperVars, paneVars
<1>1. CASE Accept(c) BY <1>1, GotoElsewhere, FatesStay DEF Accept
<1>2. CASE HandshakeFails(c) BY <1>2, GotoElsewhere, FatesStay DEF HandshakeFails
<1>3. CASE HandlerReturn(c) BY <1>3, GotoElsewhere, FatesStay DEF HandlerReturn
<1>4. CASE Notify(c)
  <2>1. victim[c] \in Wrappers /\ verdict[c] \in Verdicts
    BY <1>4 DEF Notify, Ownership, OneWorker, TypeOK
  <2>2. \A w \in Wrappers : ToldOpen(w)' => ToldOpen(w)
    BY <1>4, <2>1, ReplyTells DEF Notify, Verdicts
  <2>3. \A w \in Wrappers : fate'[w] = fate[w] \/ fate'[w] = "kept"
    BY <1>4 DEF Notify, TypeOK
  <2>4. \A w \in Wrappers : handler'[W(w)] \in {"announce", "reading"} =>
          handler[W(w)] \in {"announce", "reading"}
    BY <1>4, GotoElsewhere DEF Notify
  <2> QED BY <1>4, <2>2, <2>3, <2>4, FatesMove DEF Notify
<1>5. CASE ClosePane(c) BY <1>5, GotoElsewhere, CloseSettles DEF ClosePane
<1> QED BY <1>1, <1>2, <1>3, <1>4, <1>5 DEF Serve

\* handleWrapper keeps the fates: the handle of a pane is stored only while it is held.
LEMMA OpeningFates ==
  ASSUME TypeOK, Ownership, PaneFates, NEW w \in Wrappers, Opening(w) PROVE PaneFates'
<1> USE DEF tableVars, serverVars, clientVars, helperVars, paneVars
<1>a. W(w) \in Conns /\ \A v \in Wrappers : W(v) = W(w) => v = w BY ConnFacts
<1>b. handler[W(w)] \in {"creating", "verifying"} => ~handle[w] /\ fate[w] = "held"
  BY DEF Ownership, HandleSound, PaneAccount, OpenerHas
<1>1. CASE Register(w)
  <2>1. \A v \in Wrappers : ToldOpen(v)' => ToldOpen(v)
    <3>1. CASE Reply(w, "error") BY <3>1, ReplyTells DEF Verdicts
    <3>2. CASE UNCHANGED replies BY <3>2 DEF ToldOpen
    <3> QED BY <1>1, <3>1, <3>2 DEF Register
  <2>2. \A v \in Wrappers : handler'[W(v)] \in {"announce", "reading"} =>
          handler[W(v)] \in {"announce", "reading"}
    BY <1>1, <1>a, GotoElsewhere DEF Register
  <2> QED BY <1>1, <2>1, <2>2, FatesMove DEF Register
<1>2. CASE Barrier(w)
  <2>1. \A v \in Wrappers : handler'[W(v)] \in {"announce", "reading"} =>
          handler[W(v)] \in {"announce", "reading"}
    BY <1>2, <1>a, GotoElsewhere, TakeElsewhere DEF Barrier
  <2> QED BY <1>2, <2>1, FatesStay DEF Barrier
<1>3. CASE OpenFails(w) BY <1>3, <1>a, TakeElsewhere, FatesStay DEF OpenFails
<1>4. CASE OpenCreates(w)
  <2>1. \A v \in Wrappers : pane'[v] = "open" => pane[v] = "open" \/ fate'[v] = "held"
    BY <1>4 DEF OpenCreates, TypeOK
  <2>2. \A v \in Wrappers : fate'[v] = fate[v] \/ fate'[v] = "held"
    BY <1>4 DEF OpenCreates, TypeOK
  <2>3. \A v \in Wrappers : ToldOpen(v)' => ToldOpen(v) BY <1>4 DEF OpenCreates, ToldOpen
  <2>4. \A v \in Wrappers : handler'[W(v)] \in {"announce", "reading"} =>
          handler[W(v)] \in {"announce", "reading"}
    BY <1>4, <1>a, GotoElsewhere DEF OpenCreates
  <2> QED BY <1>4, <2>1, <2>2, <2>3, <2>4, FatesMove DEF OpenCreates
<1>5. CASE OpenIdentified(w) BY <1>5, <1>a, GotoElsewhere, FatesStay DEF OpenIdentified
<1>6. CASE OpenAborts(w)
  <2>1. ~handle[w] /\ handle' = handle /\ replies' = replies BY <1>6, <1>b DEF OpenAborts
  <2>2. \A v \in Wrappers : pane'[v] = "open" => pane[v] = "open"
    BY <1>6 DEF OpenAborts, TypeOK
  <2>3. \A v \in Wrappers : \/ fate'[v] = fate[v]
                            \/ v = w /\ fate'[v] \in {"stray", "suppressed"}
                            \/ v = w /\ fate'[v] = "aborted" /\ pane'[v] # "open"
    BY <1>6 DEF OpenAborts, TypeOK
  <2>4. \A v \in Wrappers : ToldOpen(v)' => ToldOpen(v) BY <2>1 DEF ToldOpen
  <2>5. \A v \in Wrappers : handler'[W(v)] \in {"announce", "reading"} =>
          handler[W(v)] \in {"announce", "reading"}
    BY <1>6, <1>a, TakeElsewhere DEF OpenAborts
  <2> QED BY <2>1, <2>2, <2>3, <2>4, <2>5, FatesMove
<1>7. CASE OpenReturns(w)
  <2>1. handler[W(w)] \in {"creating", "verifying"} BY <1>7 DEF OpenReturns
  <2>2. fate' = fate /\ pane' = pane /\ replies' = replies BY <1>7 DEF OpenReturns
  <2>3. \A v \in Wrappers : ToldOpen(v)' => ToldOpen(v) BY <2>2 DEF ToldOpen
  <2>4. CASE handle' = [handle EXCEPT ![w] = TRUE] /\ Goto(W(w), "announce")
    <3>1. \A v \in Wrappers : handle'[v] = handle[v] \/ (v = w /\ handle'[v])
      BY <2>4 DEF TypeOK
    <3>2. \A v \in Wrappers : handler'[W(v)] \in {"announce", "reading"} =>
            (v = w /\ handle'[v]) \/ handler[W(v)] \in {"announce", "reading"}
      BY <1>a, <2>4, ConnFacts DEF Goto, TypeOK
    <3>3. fate'[w] = "held" BY <1>b, <2>1, <2>2
    <3> QED BY <2>2, <2>3, <3>1, <3>2, <3>3, FatesMove
  <2>5. CASE Goto(W(w), "lateClose") /\ UNCHANGED handle
    BY <1>a, <2>2, <2>5, GotoElsewhere, FatesStay
  <2> QED BY <1>7, <2>4, <2>5 DEF OpenReturns
<1>8. CASE LateClose(w) BY <1>8, <1>a, GotoElsewhere, CloseSettles DEF LateClose
<1>9. CASE Announce(w)
  <2>1. handle[w] /\ handle' = handle /\ fate' = fate /\ pane' = pane
    BY <1>9 DEF Announce, PaneFates
  <2>2. CASE Reply(w, "opened") /\ Goto(W(w), "reading")
    <3>1. \A v \in Wrappers : ToldOpen(v)' => ToldOpen(v) \/ v = w BY <2>2, ReplyTells
    <3>2. \A v \in Wrappers : handler'[W(v)] \in {"announce", "reading"} =>
            v = w \/ handler[W(v)] \in {"announce", "reading"}
      BY <1>a, <2>2, ConnFacts DEF Goto, TypeOK
    <3> QED BY <2>1, <3>1, <3>2, FatesMove
  <2>3. CASE Take(W(w), IdOf[w], "cancel") /\ UNCHANGED replies
    BY <1>a, <2>1, <2>3, TakeElsewhere, FatesStay
  <2> QED BY <1>9, <2>2, <2>3 DEF Announce
<1>10. CASE WrapperLost(w) BY <1>10, <1>a, TakeElsewhere, FatesStay DEF WrapperLost
<1> QED
  BY <1>1, <1>2, <1>3, <1>4, <1>5, <1>6, <1>7, <1>8, <1>9, <1>10 DEF Opening

\* handlePane, probes and close keep the fates.
LEMMA ServerFates ==
  ASSUME TypeOK, PaneFates,
         \/ \E w \in Wrappers : Paning(w)
         \/ \E q \in Probes : Probing(q)
         \/ Closer
  PROVE  PaneFates'
<1> USE DEF tableVars, serverVars, clientVars, helperVars, paneVars
<1>1. ASSUME NEW w \in Wrappers, HandlePane(w) PROVE PaneFates'
  BY <1>1, ConnFacts, GotoElsewhere, FatesStay DEF HandlePane
<1>2. ASSUME NEW w \in Wrappers, PaneEnds(w) PROVE PaneFates'
  BY <1>2, ConnFacts, TakeElsewhere, FatesStay DEF PaneEnds
<1>3. ASSUME NEW q \in Probes, ProbeFirst(q) PROVE PaneFates'
  <2>1. \A w \in Wrappers : handler'[W(w)] \in {"announce", "reading"} =>
          handler[W(w)] \in {"announce", "reading"}
    BY <1>3, ConnFacts, GotoElsewhere, TakeElsewhere DEF ProbeFirst
  <2> QED BY <1>3, <2>1, FatesStay DEF ProbeFirst
<1>4. ASSUME NEW q \in Probes, ProbeBarrier(q) PROVE PaneFates'
  BY <1>4, ConnFacts, GotoElsewhere, FatesStay DEF ProbeBarrier
<1>5. CASE CloseDetach BY <1>5, FatesStay DEF CloseDetach
<1>6. CASE CloseHangup
  <2>1. \A w \in Wrappers : handler'[W(w)] \in {"announce", "reading"} =>
          handler[W(w)] \in {"announce", "reading"}
    BY <1>6, ConnFacts DEF CloseHangup
  <2> QED BY <1>6, <2>1, FatesStay DEF CloseHangup
<1>7. ASSUME NEW w \in Wrappers, CloseSweep(w) PROVE PaneFates'
  BY <1>7, CloseSettles, FatesStay DEF CloseSweep
<1>8. CASE CloseWait BY <1>8, FatesStay DEF CloseWait
<1> QED BY <1>1, <1>2, <1>3, <1>4, <1>5, <1>6, <1>7, <1>8 DEF Paning, Probing, Closer

\* The wrapper process, the helper process and their users keep the fates.
LEMMA ClientFates ==
  ASSUME TypeOK, PaneFates, \/ Environment
                            \/ \E w \in Wrappers : Helping(w) \/ WrapperStops(w, FALSE)
  PROVE  PaneFates'
<1> USE DEF tableVars, serverVars, clientVars, helperVars, paneVars
<1>0. ASSUME NEW w \in Wrappers, NEW v, SendExited(w, v) PROVE PaneFates'
  BY <1>0, FatesStay DEF SendExited
<1>1. ASSUME NEW w \in Wrappers, WrapperDial(w) PROVE PaneFates'
  BY <1>1, ConnFacts, GotoElsewhere, FatesStay DEF WrapperDial
<1>2. ASSUME NEW w \in Wrappers, WrapperSignal(w) PROVE PaneFates'
  BY <1>2, FatesStay DEF WrapperSignal
<1>3. ASSUME NEW w \in Wrappers, NEW d \in BOOLEAN, WrapperStops(w, d) PROVE PaneFates'
  BY <1>3, FatesStay DEF WrapperStops
<1>4. ASSUME NEW w \in Wrappers, DebuggerExits(w) PROVE PaneFates'
  BY <1>4, <1>0, FatesStay DEF DebuggerExits
<1>5. ASSUME NEW w \in Wrappers, HelperEnter(w) PROVE PaneFates'
  BY <1>5, <1>0 DEF HelperEnter
<1>6. ASSUME NEW w \in Wrappers, PaneGoes(w) PROVE PaneFates'
  <2>1. \A v \in Wrappers : pane'[v] = "open" => pane[v] = "open"
    BY <1>6 DEF PaneGoes, TypeOK
  <2> QED BY <1>6, <2>1, FatesStay DEF PaneGoes
<1>7. ASSUME NEW q \in Probes, ProbeDial(q) PROVE PaneFates'
  BY <1>7, ConnFacts, GotoElsewhere, FatesStay DEF ProbeDial
<1>8. CASE CloseBegin BY <1>8, FatesStay DEF CloseBegin
<1>9. ASSUME NEW w \in Wrappers, Helping(w) PROVE PaneFates'
  <2>1. CASE HelperDial(w) BY <2>1, ConnFacts, GotoElsewhere, FatesStay DEF HelperDial
  <2>2. CASE HelperFailsToStart(w) BY <2>2, FatesStay DEF HelperFailsToStart
  <2>3. CASE HelperCancelled(w) BY <2>3, <1>0 DEF HelperCancelled
  <2>4. CASE HelperHangup(w) BY <2>4, <1>0, FatesStay DEF HelperHangup
  <2> QED BY <1>9, <2>1, <2>2, <2>3, <2>4 DEF Helping
<1>10. CASE Environment
  BY <1>1, <1>2, <1>3, <1>4, <1>5, <1>6, <1>7, <1>8, <1>10 DEF Environment
<1>11. CASE \E w \in Wrappers : Helping(w) \/ WrapperStops(w, FALSE)
  BY <1>3, <1>9, <1>11
<1> QED BY <1>10, <1>11

\* An open pane that nobody has, nobody closed and nobody kept is that of an Open which
\* failed after the terminal created it: its wrapper was never told it is open, and no
\* handle was stored (handleWrapper, finish, cancel, fail, close, Zellij.Open).
THEOREM PanesOwned ==
  ASSUME UniqueIds PROVE Spec => []PaneOwned
<1>1. Init => PaneFates
  <2> SUFFICES ASSUME Init PROVE PaneFates OBVIOUS
  <2>1. \A w \in Wrappers : W(w) \in Conns BY ConnFacts
  <2>2. \A w \in Wrappers : ~ToldOpen(w) BY DEF Init, ToldOpen
  <2> QED BY <2>1, <2>2 DEF Init, PaneFates
<1>2. TypeOK /\ Ownership /\ PaneFates /\ [Next]_vars => PaneFates'
  <2> SUFFICES ASSUME TypeOK, Ownership, PaneFates, [Next]_vars PROVE PaneFates' OBVIOUS
  <2>1. CASE UNCHANGED vars
    BY <2>1, FatesStay DEF vars, tableVars, serverVars, paneVars
  <2>2. CASE Next
    BY <2>2, ServeFates, OpeningFates, ServerFates, ClientFates DEF Next
  <2> QED BY <2>1, <2>2
<1>3. TypeOK /\ Ownership /\ PaneFates => PaneOwned
  <2> SUFFICES ASSUME TypeOK, Ownership, PaneFates, NEW w \in Wrappers, pane[w] = "open"
               PROVE  \/ OpenerHas(w)
                      \/ handle[w] /\ Known(w)
                      \/ closeCalls[w] = 1 \/ fate[w] = "kept"
                      \/ fate[w] \in {"stray", "suppressed"} /\ ~handle[w] /\ ~ToldOpen(w)
    BY DEF PaneOwned
  <2>1. fate[w] \in {"held", "closed", "kept", "stray", "suppressed"}
    BY DEF TypeOK, PaneFates
  <2>2. CASE fate[w] = "held" BY <2>2 DEF Ownership, HeldOwned
  <2>3. CASE fate[w] = "closed" BY <2>3 DEF Ownership, PaneAccount
  <2>4. CASE fate[w] \in {"stray", "suppressed"} BY <2>4 DEF PaneFates
  <2> QED BY <2>1, <2>2, <2>3, <2>4
<1> QED BY <1>1, <1>2, <1>3, TypeCorrect, OwnershipHolds, PTL DEF Spec

\* Provider.Close is called at most once for a pane, whoever races to end its request.
THEOREM ClosedAtMostOnce ==
  ASSUME UniqueIds PROVE Spec => []CloseAtMostOnce
<1>1. Ownership => CloseAtMostOnce BY DEF Ownership, PaneAccount, CloseAtMostOnce
<1> QED BY <1>1, OwnershipHolds, PTL

\* A wrapper is told at most one verdict.
THEOREM AnsweredOnce ==
  ASSUME UniqueIds PROVE Spec => []OneVerdict
<1>1. Ownership => OneVerdict BY DEF Ownership
<1> QED BY <1>1, OwnershipHolds, PTL

=============================================================================

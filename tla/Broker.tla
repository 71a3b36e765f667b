------------------------------- MODULE Broker -------------------------------
(***************************************************************************)
(* The Mac-side debugger broker of one execution session                   *)
(* (internal/broker/broker.go), with the three parties that talk to it:    *)
(*                                                                         *)
(*   - the pwntools-terminal wrapper on the remote host                    *)
(*     (agent.terminalWrapper), one connection per debugger request;       *)
(*   - the pane helper `pwnbridge __pane' (broker.RunPane), started inside *)
(*     the terminal pane that the provider opens for a request;            *)
(*   - the terminal provider (internal/terminal/provider), which creates   *)
(*     and closes panes and may fail or be cut off by its context.         *)
(*                                                                         *)
(* Every accepted connection is served by a goroutine of its own; the      *)
(* request table is protected by Broker.mu, but sends, provider calls and  *)
(* barriers happen outside it.  One action is one critical section or one  *)
(* blocking call, so every order the scheduler can produce is explored.    *)
(*                                                                         *)
(* A wrapper w stands for the invocation, for the *request struct that     *)
(* handleWrapper allocates for it and for the pane opened on its behalf.   *)
(***************************************************************************)
EXTENDS Integers, Sequences, FiniteSets

CONSTANTS
  Wrappers,         \* pwntools-terminal invocations
  Probes,           \* other connections: ping, barrier, unauthenticated, stray exit
  Ids,              \* request ids
  IdOf,             \* the id each wrapper chose (identity.Random)
  MaxPanes,         \* const MaxPanes
  MaxConnections,   \* const maxBrokerConnections
  MaxOpens,         \* const maxOpenRequestsPerMinute
  CloseOnSuccess,   \* SessionRecord.CloseOnSuccess
  HoldOnFailure,    \* SessionRecord.HoldOnFailure
  Provider,         \* "zellij", "closable" (tmux, wezterm, kitty, custom) or "window"
  None              \* nil

ASSUME ConstantsAssumption ==
  /\ IdOf \in [Wrappers -> Ids]
  /\ MaxPanes \in Nat /\ MaxConnections \in Nat /\ MaxOpens \in Nat
  /\ CloseOnSuccess \in BOOLEAN /\ HoldOnFailure \in BOOLEAN
  /\ Provider \in {"zellij", "closable", "window"}
  /\ None \notin Wrappers

\* No two wrappers draw the same 128 random bits.
UniqueIds == \A v, w \in Wrappers : IdOf[v] = IdOf[w] => v = w

VARIABLES
  lifecycle,   \* how far Broker.close has come
  requests,    \* Broker.requests: id -> request
  doomed,      \* requests detached by close() whose handles it still has to close
  opens,       \* len(Broker.openTimes) after the last open
  slots,       \* taken entries of Broker.connectionSlots
  handler,     \* where the goroutine of each connection is
  victim,      \* the request a goroutine removed from the table and still works on
  verdict,     \* what that goroutine tells the wrapper of the removed request
  link,        \* the socket of each connection
  attached,    \* request.pane: whose helper connection the request points at
  handle,      \* request.provider/handle are set
  wrapper,     \* the wrapper process
  replies,     \* everything the broker sent on the wrapper's connection
  cancelSent,  \* the wrapper sent "cancel" after a signal
  helper,      \* the pane helper process
  toHelper,    \* the broker sent the helper a message (cancel or error)
  exitMsg,     \* the "exited" message the helper sent
  pane,        \* the terminal pane
  fate,        \* history: who is answerable for the pane
  closeCalls   \* history: Provider.Close calls the broker made for the pane

tableVars  == <<requests, doomed, opens, attached, handle>>
serverVars == <<lifecycle, slots, handler, victim, verdict>>
clientVars == <<wrapper, cancelSent>>
helperVars == <<helper, exitMsg>>
paneVars   == <<pane, fate, closeCalls>>
vars == <<tableVars, serverVars, clientVars, helperVars, paneVars,
          link, replies, toHelper>>

W(w) == <<"wrapper", w>>
P(w) == <<"pane", w>>
Q(q) == <<"probe", q>>
Conns == {W(w) : w \in Wrappers} \cup {P(w) : w \in Wrappers} \cup {Q(q) : q \in Probes}

Verdicts == {"ok", "failed", "cancel", "error"}

HandlerState == {"none", "queued", "refused", "handshake", "barrier", "opening",
                 "creating", "verifying", "lateClose", "announce", "reading",
                 "paneReading", "probeBarrier", "notify", "closing", "return", "done"}

\* Goroutines between serveListener's connectionWait.Add and its Done.
Idle == {"none", "queued", "refused", "done"}
Active(c) == handler[c] \notin Idle

\* b.lifecycleContext is cancelled; b.closing is set; the listeners are closed.
Cancelled == lifecycle # "up"
Closing   == lifecycle \in {"detached", "hungup", "closed"}
HungUp    == lifecycle \in {"hungup", "closed"}

Registered == {w \in Wrappers : requests[IdOf[w]] = w}
Answered(w) == \E i \in 1..Len(replies[w]) : replies[w][i] \in Verdicts

-----------------------------------------------------------------------------
Init ==
  /\ lifecycle  = "up"
  /\ requests   = [id \in Ids |-> None]
  /\ doomed     = {}
  /\ opens      = 0
  /\ slots      = 0
  /\ handler    = [c \in Conns |-> "none"]
  /\ victim     = [c \in Conns |-> None]
  /\ verdict    = [c \in Conns |-> "error"]
  /\ link       = [c \in Conns |-> "none"]
  /\ attached   = [w \in Wrappers |-> None]
  /\ handle     = [w \in Wrappers |-> FALSE]
  /\ wrapper    = [w \in Wrappers |-> "idle"]
  /\ replies    = [w \in Wrappers |-> <<>>]
  /\ cancelSent = [w \in Wrappers |-> FALSE]
  /\ helper     = [w \in Wrappers |-> "none"]
  /\ toHelper   = [w \in Wrappers |-> FALSE]
  /\ exitMsg    = [w \in Wrappers |-> "none"]
  /\ pane       = [w \in Wrappers |-> "none"]
  /\ fate       = [w \in Wrappers |-> "none"]
  /\ closeCalls = [w \in Wrappers |-> 0]

-----------------------------------------------------------------------------
(* Building blocks.                                                        *)

Goto(c, pc) == handler' = [handler EXCEPT ![c] = pc]

\* peer.send on a wrapper connection: nothing arrives once the socket is down.
Reply(w, msg) ==
  replies' = IF link[W(w)] = "up" THEN [replies EXCEPT ![w] = Append(@, msg)] ELSE replies

\* Mutant of Take: the entry stays in the table.
TakeLeavesEntry(c, id, v) ==
  /\ victim'  = [victim EXCEPT ![c] = requests[id]]
  /\ verdict' = [verdict EXCEPT ![c] = IF requests[id] = None THEN @ ELSE v]
  /\ Goto(c, IF requests[id] = None THEN "return" ELSE "notify")
  /\ UNCHANGED requests

\* Mutant of Take: the wrapper of the removed request is not told.
TakeSilently(c, id, v) ==
  /\ requests' = [requests EXCEPT ![id] = None]
  /\ Goto(c, "return")
  /\ UNCHANGED <<victim, verdict>>

\* The critical section shared by finish, cancel and fail: whoever deletes the
\* table entry, and nobody else, goes on to notify the wrapper.
Take(c, id, v) ==
  /\ requests' = [requests EXCEPT ![id] = None]
  /\ victim'   = [victim EXCEPT ![c] = requests[id]]
  /\ verdict'  = [verdict EXCEPT ![c] = IF requests[id] = None THEN @ ELSE v]
  /\ Goto(c, IF requests[id] = None THEN "return" ELSE "notify")

\* Which removed requests have their handle closed: cancel always does, fail never,
\* finish according to close_on_success and hold_on_failure.
ClosesHandle(v) ==
  \/ v = "cancel"
  \/ v = "ok" /\ CloseOnSuccess
  \/ v = "failed" /\ ~HoldOnFailure

\* Provider.Close with a fresh context: the pane goes away, or the call fails or
\* times out (the error is dropped).  The window providers only delete a file.
ProviderClose(w) ==
  /\ closeCalls' = [closeCalls EXCEPT ![w] = @ + 1]
  /\ fate' = [fate EXCEPT ![w] = "closed"]
  /\ \/ Provider # "window" /\ pane' = [pane EXCEPT ![w] = "gone"]
     \/ UNCHANGED pane

-----------------------------------------------------------------------------
(* The wrapper process: agent.terminalWrapper.                             *)

\* It dials the broker and sends "open"; once the listeners are closed it cannot.
WrapperDial(w) ==
  /\ wrapper[w] = "idle" /\ handler[W(w)] = "none" /\ ~HungUp
  /\ wrapper' = [wrapper EXCEPT ![w] = "waiting"]
  /\ link' = [link EXCEPT ![W(w)] = "up"]
  /\ Goto(W(w), "queued")
  /\ UNCHANGED <<tableVars, lifecycle, slots, victim, verdict, cancelSent, helperVars,
                 paneVars, replies, toHelper>>

\* SIGTERM, SIGINT or SIGHUP: it sends "cancel" and gives the broker one second.
WrapperSignal(w) ==
  /\ wrapper[w] = "waiting" /\ ~cancelSent[w] /\ link[W(w)] = "up"
  /\ cancelSent' = [cancelSent EXCEPT ![w] = TRUE]
  /\ UNCHANGED <<tableVars, serverVars, wrapper, helperVars, paneVars, link, replies,
                 toHelper>>

\* It stops on a verdict ("opened" is skipped), at the end of the stream, when the
\* deadline set by the signal passes, or because it is killed (`dies').
WrapperStops(w, dies) ==
  /\ wrapper[w] = "waiting"
  /\ dies \/ Answered(w) \/ link[W(w)] = "down" \/ cancelSent[w]
  /\ wrapper' = [wrapper EXCEPT ![w] = "done"]
  /\ link' = [link EXCEPT ![W(w)] = "down"]
  /\ UNCHANGED <<tableVars, serverVars, cancelSent, helperVars, paneVars, replies,
                 toHelper>>

-----------------------------------------------------------------------------
(* Accepting a connection and reading its first message.                   *)

\* serveListener: a connection gets a slot and a goroutine, or is closed at once.
Accept(c) ==
  /\ handler[c] = "queued"
  /\ \/ /\ slots < MaxConnections /\ ~Closing
        /\ slots' = slots + 1
        /\ Goto(c, "handshake")
        /\ UNCHANGED link
     \/ /\ slots >= MaxConnections \/ Closing
        /\ Goto(c, "refused")
        /\ link' = [link EXCEPT ![c] = "down"]
        /\ UNCHANGED slots
  /\ UNCHANGED <<tableVars, lifecycle, victim, verdict, clientVars, helperVars, paneVars,
                 replies, toHelper>>

\* The first frame does not arrive: the handshake deadline passes on a connection
\* that sends nothing, the client is killed before its frame is out, or close() shut the
\* socket.  A helper that reported its exit has certainly announced itself before.
HandshakeFails(c) ==
  /\ handler[c] = "handshake"
  /\ \/ \E q \in Probes : c = Q(q)
     \/ link[c] = "down" /\ (HungUp \/ \A w \in Wrappers : c = P(w) => exitMsg[w] = "none")
  /\ Goto(c, "return")
  /\ UNCHANGED <<tableVars, lifecycle, slots, victim, verdict, clientVars, helperVars,
                 paneVars, link, replies, toHelper>>

ProbeDial(q) ==
  /\ handler[Q(q)] = "none" /\ ~HungUp
  /\ Goto(Q(q), "queued")
  /\ link' = [link EXCEPT ![Q(q)] = "up"]
  /\ UNCHANGED <<tableVars, lifecycle, slots, victim, verdict, clientVars, helperVars,
                 paneVars, replies, toHelper>>

\* handle: ping, an unsupported type or a frame that fails validate are answered at
\* once; "barrier" first waits for BeforeOpen; a bare "exited" finishes a request.
ProbeFirst(q) ==
  /\ handler[Q(q)] = "handshake"
  /\ \/ /\ \E pc \in {"return", "probeBarrier"} : Goto(Q(q), pc)
        /\ UNCHANGED <<requests, victim, verdict>>
     \/ \E id \in Ids, v \in {"ok", "failed"} : Take(Q(q), id, v)
  /\ UNCHANGED <<doomed, opens, attached, handle, lifecycle, slots, clientVars,
                 helperVars, paneVars, link, replies, toHelper>>

\* BeforeOpen returned, well or badly, and the answer was sent.
ProbeBarrier(q) ==
  /\ handler[Q(q)] = "probeBarrier"
  /\ Goto(Q(q), "return")
  /\ UNCHANGED <<tableVars, lifecycle, slots, victim, verdict, clientVars, helperVars,
                 paneVars, link, replies, toHelper>>

\* Mutant of HandlerReturn: the slot is not given back.
HandlerReturnKeepsSlot(c) ==
  /\ handler[c] = "return"
  /\ Goto(c, "done")
  /\ link' = [link EXCEPT ![c] = "down"]
  /\ victim' = [victim EXCEPT ![c] = None]
  /\ verdict' = [verdict EXCEPT ![c] = "error"]
  /\ UNCHANGED <<tableVars, lifecycle, slots, clientVars, helperVars, paneVars,
                 replies, toHelper>>

\* The deferred part of the goroutine: close the socket, leave Broker.connections,
\* give the slot back, connectionWait.Done.
HandlerReturn(c) ==
  /\ handler[c] = "return"
  /\ Goto(c, "done")
  /\ slots' = slots - 1
  /\ link' = [link EXCEPT ![c] = "down"]
  /\ victim' = [victim EXCEPT ![c] = None]
  /\ verdict' = [verdict EXCEPT ![c] = "error"]
  /\ UNCHANGED <<tableVars, lifecycle, clientVars, helperVars, paneVars,
                 replies, toHelper>>

-----------------------------------------------------------------------------
(* handleWrapper.                                                          *)

\* The first critical section.  The open is counted whatever becomes of it; how many
\* earlier ones are still inside the minute is the clock's choice.  Note that
\* b.closing is not consulted: a request may enter the table after close() emptied it.
Register(w) ==
  /\ handler[W(w)] = "handshake"
  /\ \E current \in 0..opens :
       /\ opens' = current + 1
       /\ IF \/ current + 1 > MaxOpens
             \/ Cardinality(Registered) >= MaxPanes
             \/ requests[IdOf[w]] # None
          THEN /\ Reply(w, "error")
               /\ Goto(W(w), "return")
               /\ UNCHANGED requests
          ELSE /\ requests' = [requests EXCEPT ![IdOf[w]] = w]
               /\ Goto(W(w), "barrier")
               /\ UNCHANGED replies
  /\ UNCHANGED <<doomed, attached, handle, lifecycle, slots, victim, verdict, clientVars,
                 helperVars, paneVars, link, toHelper>>

\* BeforeOpen, the synchronization barrier every debugger waits for.
Barrier(w) ==
  /\ handler[W(w)] = "barrier"
  /\ \/ /\ Goto(W(w), "opening")
        /\ UNCHANGED <<requests, victim, verdict>>
     \/ Take(W(w), IdOf[w], "error")
  /\ UNCHANGED <<doomed, opens, attached, handle, lifecycle, slots, clientVars,
                 helperVars, paneVars, link, replies, toHelper>>

\* Registry.Select, the payload, the placement or Provider.Open fails and no pane exists.
OpenFails(w) ==
  /\ handler[W(w)] = "opening"
  /\ Take(W(w), IdOf[w], "error")
  /\ UNCHANGED <<doomed, opens, attached, handle, lifecycle, slots, clientVars,
                 helperVars, paneVars, link, replies, toHelper>>

\* The terminal creates the pane and starts the helper in it while Open still waits
\* for its command.  exec refuses to start a command under a cancelled context.
OpenCreates(w) ==
  /\ handler[W(w)] = "opening" /\ ~Cancelled
  /\ pane' = [pane EXCEPT ![w] = "open"]
  /\ fate' = [fate EXCEPT ![w] = "held"]
  /\ helper' = [helper EXCEPT ![w] = "spawned"]
  /\ Goto(W(w), "creating")
  /\ UNCHANGED <<tableVars, lifecycle, slots, victim, verdict, clientVars, exitMsg,
                 closeCalls, link, replies, toHelper>>

\* Zellij.Open knows the id now and polls until the pane is visible.
OpenIdentified(w) ==
  /\ handler[W(w)] = "creating" /\ Provider = "zellij"
  /\ Goto(W(w), "verifying")
  /\ UNCHANGED <<tableVars, lifecycle, slots, victim, verdict, clientVars, helperVars,
                 paneVars, link, replies, toHelper>>

\* Open fails although the pane exists.  Before the id is known nothing can be done;
\* Zellij.Open then tries Close, with the very context whose end may be the reason.
OpenAborts(w) ==
  /\ \/ /\ handler[W(w)] = "creating"
        /\ fate' = [fate EXCEPT ![w] = "stray"]
        /\ UNCHANGED pane
     \/ /\ handler[W(w)] = "verifying" /\ ~Cancelled
        /\ fate' = [fate EXCEPT ![w] = "aborted"]
        /\ pane' = [pane EXCEPT ![w] = "gone"]
     \/ /\ handler[W(w)] = "verifying"   \* lifecycle cancelled or open deadline passed
        /\ fate' = [fate EXCEPT ![w] = "suppressed"]
        /\ UNCHANGED pane
  /\ Take(W(w), IdOf[w], "error")
  /\ UNCHANGED <<doomed, opens, attached, handle, lifecycle, slots, clientVars,
                 helperVars, closeCalls, link, replies, toHelper>>

\* Mutant of OpenReturns: the table is not looked at again after Open.
OpenReturnsBlindly(w) ==
  /\ handler[W(w)] = IF Provider = "zellij" THEN "verifying" ELSE "creating"
  /\ handle' = [handle EXCEPT ![w] = TRUE]
  /\ Goto(W(w), "announce")
  /\ UNCHANGED <<requests, doomed, opens, attached, lifecycle, slots, victim, verdict,
                 clientVars, helperVars, paneVars, link, replies, toHelper>>

\* Open returned a handle: it is stored only if the request is still the one in the
\* table; otherwise this goroutine has to close the pane itself.
OpenReturns(w) ==
  /\ handler[W(w)] = IF Provider = "zellij" THEN "verifying" ELSE "creating"
  /\ IF requests[IdOf[w]] = w
       THEN /\ handle' = [handle EXCEPT ![w] = TRUE]
            /\ Goto(W(w), "announce")
       ELSE /\ Goto(W(w), "lateClose")
            /\ UNCHANGED handle
  /\ UNCHANGED <<requests, doomed, opens, attached, lifecycle, slots, victim, verdict,
                 clientVars, helperVars, paneVars, link, replies, toHelper>>

LateClose(w) ==
  /\ handler[W(w)] = "lateClose"
  /\ ProviderClose(w)
  /\ Goto(W(w), "return")
  /\ UNCHANGED <<tableVars, lifecycle, slots, victim, verdict, clientVars, helperVars,
                 link, replies, toHelper>>

\* Send "opened"; a failed send cancels the request.
Announce(w) ==
  /\ handler[W(w)] = "announce"
  /\ \/ /\ link[W(w)] = "up"
        /\ Reply(w, "opened")
        /\ Goto(W(w), "reading")
        /\ UNCHANGED <<requests, victim, verdict>>
     \/ /\ link[W(w)] = "down"
        /\ Take(W(w), IdOf[w], "cancel")
        /\ UNCHANGED replies
  /\ UNCHANGED <<doomed, opens, attached, handle, lifecycle, slots, clientVars,
                 helperVars, paneVars, link, toHelper>>

\* The read loop ends on "cancel" or on any decode error.
WrapperLost(w) ==
  /\ handler[W(w)] = "reading"
  /\ cancelSent[w] \/ link[W(w)] = "down"
  /\ Take(W(w), IdOf[w], "cancel")
  /\ UNCHANGED <<doomed, opens, attached, handle, lifecycle, slots, clientVars,
                 helperVars, paneVars, link, replies, toHelper>>

-----------------------------------------------------------------------------
(* handlePane, and the part of finish, cancel and fail after the unlock.   *)

\* "pane-started": the request learns its pane connection, or there is no request.
HandlePane(w) ==
  LET req == requests[IdOf[w]] IN
  /\ handler[P(w)] = "handshake"
  /\ IF req = None
       THEN /\ toHelper' = [toHelper EXCEPT ![w] = TRUE]
            /\ Goto(P(w), "return")
            /\ UNCHANGED attached
       ELSE /\ attached' = [attached EXCEPT ![req] = w]
            /\ Goto(P(w), "paneReading")
            /\ UNCHANGED toHelper
  /\ UNCHANGED <<requests, doomed, opens, handle, lifecycle, slots, victim, verdict,
                 clientVars, helperVars, paneVars, link, replies>>

\* Mutant of PaneEnds: a lost pane connection is ignored.
PaneEndsOnExitOnly(w) ==
  /\ handler[P(w)] = "paneReading"
  /\ exitMsg[w] # "none" /\ Take(P(w), IdOf[w], exitMsg[w])
  /\ UNCHANGED <<doomed, opens, attached, handle, lifecycle, slots, clientVars,
                 helperVars, paneVars, link, replies, toHelper>>

\* The pane's read loop: "exited" finishes the request, a decode error cancels it.
\* After close() shut the socket an unread "exited" can no longer be decoded.
PaneEnds(w) ==
  /\ handler[P(w)] = "paneReading"
  /\ \/ exitMsg[w] # "none" /\ Take(P(w), IdOf[w], exitMsg[w])
     \/ /\ link[P(w)] = "down" /\ (exitMsg[w] = "none" \/ HungUp)
        /\ Take(P(w), IdOf[w], "cancel")
  /\ UNCHANGED <<doomed, opens, attached, handle, lifecycle, slots, clientVars,
                 helperVars, paneVars, link, replies, toHelper>>

\* Tell the removed request's wrapper, and on cancel its pane; then decide about the handle.
Notify(c) ==
  LET r == victim[c]
      helperOf == {w \in Wrappers : attached[r] = w /\ link[P(w)] = "up"}
  IN
  /\ handler[c] = "notify"
  /\ Reply(r, verdict[c])
  /\ toHelper' = [w \in Wrappers |->
                     toHelper[w] \/ (verdict[c] = "cancel" /\ w \in helperOf)]
  /\ IF handle[r] /\ ClosesHandle(verdict[c])
       THEN Goto(c, "closing") /\ UNCHANGED fate
       ELSE /\ Goto(c, "return")
            /\ fate' = IF handle[r] /\ verdict[c] # "error"
                         THEN [fate EXCEPT ![r] = "kept"] ELSE fate
  /\ UNCHANGED <<tableVars, lifecycle, slots, victim, verdict, clientVars, helperVars,
                 pane, closeCalls, link>>

\* closeProvider at the end of finish and cancel.
ClosePane(c) ==
  /\ handler[c] = "closing"
  /\ ProviderClose(victim[c])
  /\ Goto(c, "return")
  /\ UNCHANGED <<tableVars, lifecycle, slots, victim, verdict, clientVars, helperVars,
                 link, replies, toHelper>>

-----------------------------------------------------------------------------
(* The pane helper: broker.RunPane, and the pane it runs in.               *)

\* Dial, send "pane-started" and start ssh.
HelperDial(w) ==
  /\ helper[w] = "spawned" /\ handler[P(w)] = "none" /\ ~HungUp
  /\ helper' = [helper EXCEPT ![w] = "running"]
  /\ link' = [link EXCEPT ![P(w)] = "up"]
  /\ Goto(P(w), "queued")
  /\ UNCHANGED <<tableVars, lifecycle, slots, victim, verdict, clientVars, exitMsg,
                 paneVars, replies, toHelper>>

\* It ends before dialling: the record or the socket is gone, or its pane is.
HelperFailsToStart(w) ==
  /\ helper[w] = "spawned"
  /\ HungUp \/ pane[w] = "gone"
  /\ helper' = [helper EXCEPT ![w] = "done"]
  /\ UNCHANGED <<tableVars, serverVars, clientVars, exitMsg, paneVars, link, replies,
                 toHelper>>

\* Send "exited", close the connection, return.
SendExited(w, v) ==
  /\ helper' = [helper EXCEPT ![w] = "done"]
  /\ exitMsg' = IF link[P(w)] = "up" THEN [exitMsg EXCEPT ![w] = v] ELSE exitMsg
  /\ link' = [link EXCEPT ![P(w)] = "down"]
  /\ UNCHANGED <<tableVars, serverVars, clientVars, paneVars, replies, toHelper>>

\* ssh exits by itself.  A failure is held for the user when hold_on_failure is set.
DebuggerExits(w) ==
  /\ helper[w] = "running"
  /\ \/ SendExited(w, "ok")
     \/ ~HoldOnFailure /\ SendExited(w, "failed")
     \/ /\ HoldOnFailure
        /\ helper' = [helper EXCEPT ![w] = "holding"]
        /\ UNCHANGED <<tableVars, serverVars, clientVars, exitMsg, paneVars, link,
                       replies, toHelper>>

\* Mutant of HelperCancelled: only a message stops ssh, not the end of the stream.
HelperCancelledByMessage(w) ==
  /\ helper[w] = "running" /\ toHelper[w]
  /\ SendExited(w, "failed")

\* Any message from the broker, or the end of the stream, stops ssh.
HelperCancelled(w) ==
  /\ helper[w] = "running"
  /\ toHelper[w] \/ link[P(w)] = "down"
  /\ SendExited(w, "failed")

\* The user presses Enter in a held pane.
HelperEnter(w) ==
  /\ helper[w] = "holding"
  /\ SendExited(w, "failed")

\* The pane is gone: SIGHUP ends the helper's context, which may still report, or the
\* process is killed before it can.
HelperHangup(w) ==
  /\ helper[w] \in {"running", "holding"} /\ pane[w] = "gone"
  /\ \/ SendExited(w, "failed")
     \/ /\ helper' = [helper EXCEPT ![w] = "done"]
        /\ link' = [link EXCEPT ![P(w)] = "down"]
        /\ UNCHANGED <<tableVars, serverVars, clientVars, exitMsg, paneVars, replies,
                       toHelper>>

\* The user closes the pane, or the terminal removes it after the helper ended.
PaneGoes(w) ==
  /\ pane[w] = "open"
  /\ pane' = [pane EXCEPT ![w] = "gone"]
  /\ UNCHANGED <<tableVars, serverVars, clientVars, helperVars, fate, closeCalls, link,
                 replies, toHelper>>

-----------------------------------------------------------------------------
(* Broker.close, which runs once.                                          *)

CloseBegin ==
  /\ lifecycle = "up"
  /\ lifecycle' = "cancelled"
  /\ UNCHANGED <<tableVars, slots, handler, victim, verdict, clientVars, helperVars,
                 paneVars, link, replies, toHelper>>

\* The critical section: set closing, snapshot and empty the table.
CloseDetach ==
  /\ lifecycle = "cancelled"
  /\ lifecycle' = "detached"
  /\ doomed' = Registered
  /\ requests' = [id \in Ids |-> None]
  /\ UNCHANGED <<opens, attached, handle, slots, handler, victim, verdict, clientVars,
                 helperVars, paneVars, link, replies, toHelper>>

\* Mutant of CloseHangup: only the listeners are closed.
CloseHangupListeners ==
  /\ lifecycle = "detached"
  /\ lifecycle' = "hungup"
  /\ handler' = [c \in Conns |-> IF handler[c] = "queued" THEN "refused" ELSE handler[c]]
  /\ UNCHANGED <<tableVars, slots, victim, verdict, clientVars, helperVars, paneVars,
                 link, replies, toHelper>>

\* Close both listeners and every accepted connection.
CloseHangup ==
  /\ lifecycle = "detached"
  /\ lifecycle' = "hungup"
  /\ link' = [c \in Conns |-> IF link[c] = "up" THEN "down" ELSE link[c]]
  /\ handler' = [c \in Conns |-> IF handler[c] = "queued" THEN "refused" ELSE handler[c]]
  /\ UNCHANGED <<tableVars, slots, victim, verdict, clientVars, helperVars, paneVars,
                 replies, toHelper>>

\* closeRequests: one detached request after the other, under one shared deadline.
CloseSweep(w) ==
  /\ lifecycle = "hungup" /\ w \in doomed
  /\ doomed' = doomed \ {w}
  /\ IF handle[w] THEN ProviderClose(w) ELSE UNCHANGED paneVars
  /\ UNCHANGED <<requests, opens, attached, handle, serverVars, clientVars, helperVars,
                 link, replies, toHelper>>

\* connectionWait.Wait returns.
CloseWait ==
  /\ lifecycle = "hungup" /\ doomed = {}
  /\ \A c \in Conns : ~Active(c)
  /\ lifecycle' = "closed"
  /\ UNCHANGED <<tableVars, slots, handler, victim, verdict, clientVars, helperVars,
                 paneVars, link, replies, toHelper>>

-----------------------------------------------------------------------------
\* Steps of handler goroutines and of close(): the Go scheduler runs them, and each
\* blocking call they make has a deadline or is ended by close().
Serve(c) ==
  \/ Accept(c) \/ HandshakeFails(c) \/ HandlerReturn(c) \/ Notify(c) \/ ClosePane(c)
Opening(w) ==
  \/ Register(w) \/ Barrier(w) \/ OpenFails(w) \/ OpenCreates(w) \/ OpenIdentified(w)
  \/ OpenAborts(w) \/ OpenReturns(w) \/ LateClose(w) \/ Announce(w) \/ WrapperLost(w)
Paning(w)  == HandlePane(w) \/ PaneEnds(w)
Probing(q) == ProbeFirst(q) \/ ProbeBarrier(q)
Closer     == CloseDetach \/ CloseHangup \/ (\E w \in Wrappers : CloseSweep(w)) \/ CloseWait

\* Steps of the helper process that need no user.
Helping(w) == HelperDial(w) \/ HelperFailsToStart(w) \/ HelperCancelled(w) \/ HelperHangup(w)

\* What users, signals, debuggers and remote clients do, when they please.
Environment ==
  \/ \E w \in Wrappers : \/ WrapperDial(w) \/ WrapperSignal(w) \/ WrapperStops(w, TRUE)
                         \/ DebuggerExits(w) \/ HelperEnter(w) \/ PaneGoes(w)
  \/ \E q \in Probes : ProbeDial(q)
  \/ CloseBegin

Next ==
  \/ \E c \in Conns : Serve(c)
  \/ \E w \in Wrappers : Opening(w) \/ Paning(w) \/ Helping(w) \/ WrapperStops(w, FALSE)
  \/ \E q \in Probes : Probing(q)
  \/ Closer
  \/ Environment

Spec == Init /\ [][Next]_vars

Fairness ==
  /\ \A c \in Conns : WF_vars(Serve(c))
  /\ \A w \in Wrappers : /\ WF_vars(Opening(w)) /\ WF_vars(Paning(w))
                          /\ WF_vars(Helping(w)) /\ WF_vars(WrapperStops(w, FALSE))
  /\ \A q \in Probes : WF_vars(Probing(q))
  /\ WF_vars(Closer)

FairSpec == Spec /\ Fairness

-----------------------------------------------------------------------------
(* Properties.                                                             *)

TypeOK ==
  /\ lifecycle \in {"up", "cancelled", "detached", "hungup", "closed"}
  /\ requests \in [Ids -> Wrappers \cup {None}]
  /\ doomed \subseteq Wrappers
  /\ opens \in Nat /\ slots \in Int
  /\ handler \in [Conns -> HandlerState]
  /\ victim \in [Conns -> Wrappers \cup {None}]
  /\ verdict \in [Conns -> Verdicts]
  /\ link \in [Conns -> {"none", "up", "down"}]
  /\ attached \in [Wrappers -> Wrappers \cup {None}]
  /\ handle \in [Wrappers -> BOOLEAN]
  /\ wrapper \in [Wrappers -> {"idle", "waiting", "done"}]
  /\ replies \in [Wrappers -> Seq(Verdicts \cup {"opened"})]
  /\ cancelSent \in [Wrappers -> BOOLEAN]
  /\ helper \in [Wrappers -> {"none", "spawned", "running", "holding", "done"}]
  /\ toHelper \in [Wrappers -> BOOLEAN]
  /\ exitMsg \in [Wrappers -> {"none", "ok", "failed"}]
  /\ pane \in [Wrappers -> {"none", "open", "gone"}]
  /\ fate \in [Wrappers -> {"none", "held", "closed", "kept", "aborted", "stray",
                         "suppressed"}]
  /\ closeCalls \in [Wrappers -> Nat]

\* Goroutine c removed request w from the table and has not finished with it.
WorksOn(c, w) == victim[c] = w /\ handler[c] \in {"notify", "closing"}

\* The goroutine serving w's wrapper has the pane and has not handed the handle on.
OpenerHas(w) == handler[W(w)] \in {"creating", "verifying", "lateClose"}

\* Request w is in the table, in close()'s snapshot, or with the goroutine that removed it.
Known(w) == w \in Registered \/ w \in doomed \/ \E c \in Conns : WorksOn(c, w)

\* The wrapper has been told that its pane is open.
ToldOpen(w) == \E i \in 1..Len(replies[w]) : replies[w][i] = "opened"

\* A pane nobody has closed or deliberately kept, whose Open has not failed.
HeldOwned ==
  \A w \in Wrappers : fate[w] = "held" =>
    OpenerHas(w) \/ (handle[w] /\ Known(w))

\* An open pane is in the hands of the goroutine that opens it, of the request table, of
\* close()'s snapshot, or of the one goroutine that removed the request (handleWrapper,
\* finish, cancel, close and closeRequests touch the handle without holding Broker.mu), or
\* it has been dealt with: Provider.Close was called for it, or the policy kept it.  One
\* kind of pane is orphaned, and only one: that of an Open that fails after the terminal
\* created it, before Zellij knew its id or with its cleanup under the context that ended
\* (zellij.go; against audit-log.md:246-248, see CleanupNotSuppressed).  Its wrapper was
\* never told that the pane is open, and no handle was stored.
PaneOwned ==
  \A w \in Wrappers : pane[w] = "open" =>
    \/ OpenerHas(w)
    \/ handle[w] /\ Known(w)
    \/ closeCalls[w] = 1 \/ fate[w] = "kept"
    \/ fate[w] \in {"stray", "suppressed"} /\ ~handle[w] /\ ~ToldOpen(w)

\* Whatever races (cancel, exit, parent loss, shutdown), Provider.Close is called at most
\* once for a pane: terminals reuse ids, so a second call could hit a stranger's pane.
CloseAtMostOnce == \A w \in Wrappers : closeCalls[w] <= 1

\* A wrapper is given at most one verdict (exited, cancel or error), although finish,
\* cancel, fail and the rejections in handleWrapper may all reach for its request.
OneVerdict ==
  \A w \in Wrappers : \A i, j \in 1..Len(replies[w]) :
    replies[w][i] \in Verdicts /\ replies[w][j] \in Verdicts => i = j

\* The parts of the inductive invariant behind PaneOwned, CloseAtMostOnce and OneVerdict.

\* The wrapper's goroutine has entered handleWrapper.
Past(w) == handler[W(w)] \notin {"none", "queued", "refused", "handshake"}

\* Nobody has been told of the end of request w yet, and somebody can still remove it.
Serving(w) ==
  handler[W(w)] \in {"barrier", "opening", "creating", "verifying", "announce", "reading"}

TableSound ==
  \A id \in Ids : requests[id] # None =>
    IdOf[requests[id]] = id /\ Serving(requests[id])

OneWorker ==
  \A c \in Conns : handler[c] \in {"notify", "closing"} =>
    /\ victim[c] \in Wrappers /\ Past(victim[c])
    /\ victim[c] \notin Registered /\ victim[c] \notin doomed
    /\ \A d \in Conns : WorksOn(d, victim[c]) => d = c

DoomedSound ==
  /\ ~Closing => doomed = {}
  /\ \A w \in doomed : w \notin Registered /\ Past(w)

HandleSound ==
  /\ \A w \in Wrappers : handle[w] =>
       handler[W(w)] \in {"announce", "reading", "notify", "closing", "return", "done"}
  /\ \A c \in Conns : handler[c] = "closing" => handle[victim[c]]
  /\ \A c \in Conns : handler[c] = "notify" /\ verdict[c] = "error" =>
       c = W(victim[c]) /\ ~handle[victim[c]]

PaneAccount ==
  \A w \in Wrappers :
    /\ ~Past(w) \/ handler[W(w)] \in {"barrier", "opening"} => fate[w] = "none"
    /\ OpenerHas(w) => fate[w] = "held"
    /\ handle[w] /\ Known(w) => fate[w] = "held"
    /\ closeCalls[w] = IF fate[w] = "closed" THEN 1 ELSE 0

Unanswered ==
  \A w \in Wrappers :
    \/ ~Past(w) \/ w \in Registered
    \/ \E c \in Conns : victim[c] = w /\ handler[c] = "notify"
    => ~Answered(w)

\* Who owns a request, its pane and its answer, at every moment of every race: the
\* goroutines of handleWrapper, finish, cancel, fail and close never overlap on one.
Ownership ==
  /\ TableSound /\ OneWorker /\ DoomedSound /\ HandleSound /\ PaneAccount /\ Unanswered
  /\ HeldOwned /\ OneVerdict

\* What an open pane tells of its fate: the part of PaneOwned that Ownership leaves open.
PaneFates ==
  \A w \in Wrappers :
    /\ pane[w] = "open" => fate[w] \notin {"none", "aborted"}
    /\ fate[w] \in {"aborted", "stray", "suppressed"} => ~handle[w]
    /\ ToldOpen(w) \/ handler[W(w)] \in {"announce", "reading"} => handle[w]

\* A wrapper that still waits on a live socket is known to somebody who will answer:
\* its connection is not served yet, its request is in the table, close() is about to
\* hang up, or a goroutine holds the removed request and has not notified yet.
NoForgottenWrapper ==
  \A w \in Wrappers : wrapper[w] = "waiting" /\ link[W(w)] = "up" /\ ~Answered(w) =>
    \/ handler[W(w)] \in {"queued", "handshake"}
    \/ w \in Registered
    \/ lifecycle = "detached"
    \/ \E c \in Conns : victim[c] = w /\ handler[c] = "notify"

\* Every taken slot belongs to one running goroutine, so refused, failed and shut down
\* connections never eat into maxBrokerConnections.
SlotsBalance == slots = Cardinality({c \in Conns : Active(c)})

\* When Close returns the broker is quiet: no goroutine, no request (not even one that
\* registered after close() emptied the table), no pane still to be dealt with.
ClosedIsQuiet ==
  lifecycle = "closed" =>
    /\ \A c \in Conns : ~Active(c)
    /\ Registered = {} /\ doomed = {}
    /\ \A w \in Wrappers : fate[w] # "held"
    /\ \A c \in Conns : link[c] # "up"

\* close_on_success = false keeps the pane of a debugger that exited cleanly: once its
\* wrapper has been told of the clean exit the broker does not close the pane.
KeepPolicy ==
  \A w \in Wrappers :
    ~CloseOnSuccess /\ (\E i \in 1..Len(replies[w]) : replies[w][i] = "ok") => closeCalls[w] = 0

\* A pane whose id Open has learnt is never left behind because the context that ended
\* Open also ended the cleanup.
CleanupNotSuppressed == \A w \in Wrappers : fate[w] # "suppressed"

\* The pane cap caps panes: at no time does the broker answer for more than MaxPanes of
\* them, however requests leave the table and new ones enter it (handleWrapper).
PaneLimit == Cardinality({w \in Wrappers : fate[w] = "held"}) <= MaxPanes

\* Close always returns: handlers blocked in a handshake, a barrier, Open or a read are
\* all released by the cancelled context and the closed sockets.
CloseTerminates == Cancelled ~> lifecycle = "closed"

\* Closing a pane whose helper has reported in reaches the wrapper (handlePane, cancel).
PaneCloseReachesWrapper ==
  \A w \in Wrappers :
    pane[w] = "gone" /\ handler[P(w)] = "paneReading" ~> wrapper[w] # "waiting"

\* Closing the pane always reaches the wrapper, whenever the user does it.
ManualCloseReachesWrapper ==
  \A w \in Wrappers : pane[w] = "gone" ~> wrapper[w] # "waiting"

\* After shutdown every pane helper ends (RunPane, CloseHangup, CloseSweep), but one that
\* holds a failed debugger for its user: it waits for Enter or a signal and not for its
\* connection any more, so it stays as long as its pane, if that could not be closed.
HelpersEnd ==
  lifecycle = "closed" ~>
    \A w \in Wrappers : \/ helper[w] \in {"none", "done"}
                        \/ helper[w] = "holding" /\ pane[w] = "open"

\* "must never turn session shutdown/SIGTERM into an immortal pane" (broker.go:691-693).
HeldHelpersEnd == lifecycle = "closed" ~> \A w \in Wrappers : helper[w] \in {"none", "done"}

-----------------------------------------------------------------------------
\* The broker implements the ledger: what it promises is visible in fate and replies.
Ledger == INSTANCE PaneLedger WITH
            Requests <- Wrappers,
            ledger   <- fate,
            answered <- {w \in Wrappers : Answered(w)},
            shut     <- (lifecycle = "closed")

\* Every step of the broker is a step of the ledger or leaves it alone.
ImplementsLedger == Ledger!Spec

=============================================================================

------------------------------ MODULE ShellProofs ------------------------------
(***************************************************************************)
(* Proofs about the interactive shell, for every configuration and every   *)
(* bound.  What a byte of the keyboard goes through is an invariant about  *)
(* five places (written, held, replayed, waiting for a barrier, refused)   *)
(* that never share a byte; what the barriers promise follows from it and  *)
(* from how far each end of the workspace has come.                        *)
(***************************************************************************)
EXTENDS ShellProxy, SequenceTheorems, FunctionTheorems, FiniteSetTheorems, TLAPS

-----------------------------------------------------------------------------
(* The type of every variable, by the part of the program that owns it.    *)

Waits == {"barrier", "release", "refuse"}     \* where a goroutine has an Enter in hand

SetupOK ==
  /\ setting \in Settings
  /\ transport \in {"unselected", "inline", "ssh", "mosh", "refused"}
KeyboardOK ==
  /\ typed \in Seq([kind : Kinds, saves : 0..MaxSaves])
  /\ Len(typed) <= MaxTyped
  /\ taken \in 0..Len(typed)
ControllerOK ==
  /\ atPrompt \in BOOLEAN /\ syncing \in BOOLEAN /\ paste \in BOOLEAN
  /\ pending \in Seq(Positions)
ThreadsOK ==
  /\ pc \in [Threads -> {"idle", "replay", "barrier", "release", "refuse", "after", "prompt", "done"}]
  /\ newline \in [Threads -> Positions \cup {NoLine}]
  /\ \A t \in Threads : pc[t] \in Waits <=> newline[t] # NoLine
  /\ replay \in Seq(Positions)
RemoteOK ==
  /\ tty \in Seq(Positions)
  /\ bash \in {"launching", "hook", "returning", "reading", "submitted", "running", "gone"}
  /\ trap \in BOOLEAN /\ insertion \in BOOLEAN
  /\ line \in Positions \cup {NoLine}
  /\ bash = "submitted" => line # NoLine
ScreenOK ==
  /\ output \in Seq(Event) /\ shown \in 0..MaxArtifacts
  /\ prompted \in BOOLEAN /\ early \in BOOLEAN
WorkspaceOK ==
  /\ saves \in 0..MaxSaves /\ remoteSaves \in 0..saves
  /\ artifacts \in 0..MaxArtifacts /\ localArtifacts \in 0..artifacts
  /\ failures \in 0..MaxFailures
  /\ settled \in BOOLEAN
HistoryOK ==
  /\ delivered \in Seq(Positions)
  /\ refused \subseteq Positions /\ released \subseteq Positions
  /\ ran \subseteq [enter : Positions, saw : 0..MaxSaves]

TypeInv == /\ SetupOK /\ KeyboardOK /\ ControllerOK /\ ThreadsOK
           /\ RemoteOK /\ ScreenOK /\ WorkspaceOK /\ HistoryOK

\* It says what TypeOK says, and that a goroutine has an Enter in hand exactly at a barrier.
LEMMA TypeInvIsTyping == TypeInv => TypeOK
BY DEF TypeInv, SetupOK, KeyboardOK, ControllerOK, ThreadsOK, RemoteOK, ScreenOK, WorkspaceOK,
       HistoryOK, TypeOK

\* Before the transport is chosen nothing has happened yet.
Unstarted ==
  transport = "unselected" =>
    /\ typed = <<>> /\ bash = "launching" /\ output = <<>>
    /\ \A t \in Threads : pc[t] = "idle"

\* The largest bounds bound those of every setting.
LEMMA SettingBounds ==
  ASSUME SetupOK
  PROVE  /\ MaxTyped \in Nat /\ MaxSaves \in Nat /\ MaxArtifacts \in Nat /\ MaxFailures \in Nat
         /\ setting.typed \in 0..MaxTyped /\ setting.saves \in 0..MaxSaves
         /\ setting.artifacts \in 0..MaxArtifacts /\ setting.failures \in 0..MaxFailures
<1>1. setting \in Setting
  BY ShellAssumption DEF SetupOK
<1> QED
  BY <1>1, ShellAssumption DEF Setting

\* Both outcomes of a barrier leave counters of files where they may be.
LEMMA BarrierTyped ==
  ASSUME WorkspaceOK, SetupOK, Synchronize \/ SynchronizeFails, settled' \in BOOLEAN
  PROVE  WorkspaceOK'
BY SettingBounds DEF WorkspaceOK, Synchronize, SynchronizeFails

\* What is written to the PTY consists of typed bytes.
LEMMA WriteTyped ==
  ASSUME NEW bytes \in Seq(Positions), tty \in Seq(Positions), delivered \in Seq(Positions), Write(bytes)
  PROVE  tty' \in Seq(Positions) /\ delivered' \in Seq(Positions)
BY ConcatProperties DEF Write

LEMMA UnreadTyped ==
  ASSUME SetupOK, KeyboardOK
  PROVE  Unread \in Seq(Positions)
<1>1. \A i \in 1..(Len(typed) - taken) : taken + i \in Positions
  BY SettingBounds DEF KeyboardOK, Positions
<1>2. Len(typed) - taken \in Nat
  BY DEF KeyboardOK
<1> DEFINE rest == [i \in 1..(Len(typed) - taken) |-> taken + i]
<1>3. rest \in [1..(Len(typed) - taken) -> Positions]
  BY <1>1
<1>4. rest \in Seq(Positions)
  BY <1>2, <1>3, SMT
<1> QED
  BY <1>4 DEF Unread

\* The two parts of a sequence around one of its elements.
LEMMA PartsTyped ==
  ASSUME NEW S, NEW s \in Seq(S), NEW i \in DOMAIN s
  PROVE  /\ SubSeq(s, 1, i - 1) \in Seq(S) /\ SubSeq(s, i + 1, Len(s)) \in Seq(S)
         /\ s[i] \in S
<1>1. i \in 1..Len(s)
  BY LenProperties
<1> QED
  BY <1>1, SubSeqProperties, ElementOfSeq

\* Inside a paste or not.
LEMMA PasteIsBoolean ==
  ASSUME NEW s, NEW i, NEW p \in BOOLEAN
  PROVE  InPaste(s, i, p) \in BOOLEAN
<1> DEFINE delimiters == {j \in 1..(i - 1) : typed[s[j]].kind \in {"begin", "end"}}
<1>1. CASE delimiters = {}
  <2>1. InPaste(s, i, p) = p
    BY <1>1 DEF InPaste
  <2> QED
    BY <2>1
<1>2. CASE delimiters # {}
  <2>1. InPaste(s, i, p) = \E j \in delimiters : (\A k \in delimiters : k <= j) /\ typed[s[j]].kind = "begin"
    BY <1>2 DEF InPaste
  <2> QED
    BY <2>1
<1> QED
  BY <1>1, <1>2

LEMMA SubmissionInData ==
  ASSUME NEW s, NEW i \in Submission(s)
  PROVE  i \in DOMAIN s
BY DEF Submission

-----------------------------------------------------------------------------
(* The type invariant, action by action.                                   *)

LEMMA InitTyped == Init => TypeInv
<1> SUFFICES ASSUME Init PROVE TypeInv
  OBVIOUS
<1>1. SetupOK /\ WorkspaceOK
  BY ShellAssumption DEF Init, SetupOK, WorkspaceOK
<1>4. HistoryOK
  BY EmptySeq DEF Init, HistoryOK
<1>6. ScreenOK
  <2>1. output \in Seq(Event)
    BY EmptySeq DEF Init
  <2>2. shown \in 0..MaxArtifacts
    BY ShellAssumption DEF Init
  <2> QED
    BY <2>1, <2>2 DEF Init, ScreenOK
<1>5. KeyboardOK
  BY ShellAssumption, EmptySeq DEF Init, KeyboardOK
<1>2. ControllerOK /\ RemoteOK
  BY EmptySeq DEF Init, ControllerOK, RemoteOK, NoLine
<1>3. ThreadsOK
  BY EmptySeq DEF Init, ThreadsOK, NoLine, Waits
<1> QED
  BY <1>1, <1>2, <1>3, <1>4, <1>5, <1>6 DEF TypeInv

\* A goroutine that moves between places without an Enter in hand.
LEMMA MoveTyped ==
  ASSUME ThreadsOK, NEW t \in Threads, NEW place \in {"idle", "replay", "after", "prompt", "done"},
         pc[t] \notin Waits, pc' = [pc EXCEPT ![t] = place], newline' = newline, replay' \in Seq(Positions)
  PROVE  ThreadsOK'
BY DEF ThreadsOK, Waits

\* A goroutine that takes an Enter, moves on with it, or lets go of it.
LEMMA HandTyped ==
  ASSUME ThreadsOK, NEW t \in Threads, NEW n \in Positions \cup {NoLine},
         NEW place \in {"idle", "barrier", "release", "refuse"}, place \in Waits <=> n # NoLine,
         pc' = [pc EXCEPT ![t] = place], newline' = [newline EXCEPT ![t] = n], replay' \in Seq(Positions)
  PROVE  ThreadsOK'
BY DEF ThreadsOK, Waits

\* Threads, controller and screen depend on their own variables only.
LEMMA PartsKept ==
  ASSUME TypeInv
  PROVE  /\ UNCHANGED <<setting, transport>> => SetupOK'
         /\ UNCHANGED <<typed, taken>> => KeyboardOK'
         /\ UNCHANGED controller => ControllerOK'
         /\ UNCHANGED threads => ThreadsOK'
         /\ UNCHANGED remote => RemoteOK'
         /\ UNCHANGED <<output, screen>> => ScreenOK'
         /\ UNCHANGED workspace => WorkspaceOK'
         /\ UNCHANGED history => HistoryOK'
<1> USE DEF TypeInv
<1>1. UNCHANGED <<setting, transport>> => SetupOK'
  BY DEF SetupOK
<1>2. UNCHANGED <<typed, taken>> => KeyboardOK'
  BY DEF KeyboardOK
<1>3. UNCHANGED controller => ControllerOK'
  BY DEF ControllerOK, controller
<1>4. UNCHANGED threads => ThreadsOK'
  BY DEF ThreadsOK, threads
<1>5. UNCHANGED remote => RemoteOK'
  BY DEF RemoteOK, remote
<1>6. UNCHANGED <<output, screen>> => ScreenOK'
  BY DEF ScreenOK, screen
<1>7. UNCHANGED workspace => WorkspaceOK'
  BY DEF WorkspaceOK, workspace
<1>8. UNCHANGED history => HistoryOK'
  BY DEF HistoryOK, history
<1> QED
  BY <1>1, <1>2, <1>3, <1>4, <1>5, <1>6, <1>7, <1>8

\* Starting the shell, and the user.
LEMMA SelectTyped == TypeInv /\ Unstarted /\ Select => TypeInv'
<1> SUFFICES ASSUME TypeInv, Unstarted, Select PROVE TypeInv'
  OBVIOUS
<1>1. SetupOK' /\ RemoteOK'
  BY DEF TypeInv, SetupOK, RemoteOK, Select, Transport
<1>2. \A t \in Threads : newline[t] = NoLine
  BY DEF TypeInv, ThreadsOK, Unstarted, Select, Waits
<1>3. ThreadsOK'
  BY <1>2 DEF TypeInv, ThreadsOK, Select, Waits
<1> QED
  BY <1>1, <1>3, PartsKept DEF TypeInv, Select, controller, workspace, history, screen

LEMMA LaunchTyped == TypeInv /\ Launch => TypeInv'
<1> SUFFICES ASSUME TypeInv, Launch PROVE TypeInv'
  OBVIOUS
<1>1. RemoteOK'
  BY DEF TypeInv, RemoteOK, Launch
<1> QED
  BY <1>1, PartsKept DEF TypeInv, Launch

LEMMA SaveTyped == TypeInv /\ Save => TypeInv'
<1> SUFFICES ASSUME TypeInv, Save PROVE TypeInv'
  OBVIOUS
<1>1. WorkspaceOK'
  BY SettingBounds DEF TypeInv, WorkspaceOK, Save
<1> QED
  BY <1>1, PartsKept DEF TypeInv, Save

LEMMA TypeTyped == ASSUME NEW kind \in Kinds PROVE TypeInv /\ Type(kind) => TypeInv'
<1> SUFFICES ASSUME TypeInv, Type(kind) PROVE TypeInv'
  OBVIOUS
<1> DEFINE byte == [kind |-> kind, saves |-> saves]
<1>1. byte \in [kind : Kinds, saves : 0..MaxSaves]
  BY DEF TypeInv, WorkspaceOK
<1>2. /\ typed' = Append(typed, byte) /\ typed' \in Seq([kind : Kinds, saves : 0..MaxSaves])
      /\ Len(typed') = Len(typed) + 1
  BY <1>1, AppendProperties DEF TypeInv, KeyboardOK, Type
<1>3. KeyboardOK'
  <2>1. Len(typed) < setting.typed /\ taken' = taken
    BY DEF Type
  <2> QED
    BY <1>2, <2>1, SettingBounds DEF TypeInv, KeyboardOK
<1>4. ScreenOK'
  BY DEF TypeInv, ScreenOK, Type
<1> QED
  BY <1>3, <1>4, PartsKept DEF TypeInv, Type

\* inputController.
LEMMA InputTyped == ASSUME NEW t \in Threads PROVE TypeInv /\ Input(t) => TypeInv'
<1> SUFFICES ASSUME TypeInv, Input(t) PROVE TypeInv'
  OBVIOUS
<1> DEFINE data == IF t = "in" THEN Unread ELSE replay
<1>1. data \in Seq(Positions)
  BY UnreadTyped DEF TypeInv, ThreadsOK
<1>2. /\ pc[t] \notin Waits /\ replay' \in Seq(Positions)
      /\ typed' = typed /\ taken' \in 0..Len(typed)
  <2>1. Given(t)
    BY DEF Input
  <2>2. taken' \in 0..Len(typed)
    BY <2>1 DEF Given, TypeInv, KeyboardOK
  <2>3. replay' \in Seq(Positions) /\ pc[t] \notin Waits
    BY <2>1, EmptySeq DEF Given, TypeInv, ThreadsOK, Waits
  <2> QED
    BY <2>2, <2>3 DEF Input
<1>3. KeyboardOK'
  BY <1>2 DEF TypeInv, KeyboardOK
<1>4. ControllerOK' /\ ThreadsOK' /\ tty' \in Seq(Positions) /\ delivered' \in Seq(Positions)
  <2> USE DEF TypeInv, ControllerOK, RemoteOK, HistoryOK
  <2>1. CASE /\ pending' = pending \o data /\ pc' = [pc EXCEPT ![t] = "idle"]
             /\ UNCHANGED <<newline, atPrompt, syncing, paste, tty, delivered>>
    BY <1>1, <1>2, <2>1, ConcatProperties, MoveTyped
  <2>2. CASE Write(data) /\ pc' = [pc EXCEPT ![t] = "idle"] /\ UNCHANGED <<newline, controller>>
    BY <1>1, <1>2, <2>2, WriteTyped, MoveTyped DEF controller
  <2>3. CASE /\ Write(data) /\ paste' = InPaste(data, Len(data) + 1, paste)
             /\ pc' = [pc EXCEPT ![t] = "idle"] /\ UNCHANGED <<newline, atPrompt, syncing, pending>>
    <3>1. paste' \in BOOLEAN
      BY <2>3, PasteIsBoolean
    <3> QED
      BY <1>1, <1>2, <2>3, <3>1, WriteTyped, MoveTyped
  <2>4. CASE /\ \E i \in Submission(data) :
                  /\ Write(SubSeq(data, 1, i - 1))
                  /\ newline' = [newline EXCEPT ![t] = data[i]]
                  /\ pending' = pending \o SubSeq(data, i + 1, Len(data))
             /\ syncing' = TRUE /\ paste' = FALSE /\ pc' = [pc EXCEPT ![t] = "barrier"]
             /\ UNCHANGED atPrompt
    <3>1. PICK i \in Submission(data) :
             /\ Write(SubSeq(data, 1, i - 1))
             /\ newline' = [newline EXCEPT ![t] = data[i]]
             /\ pending' = pending \o SubSeq(data, i + 1, Len(data))
      BY <2>4
    <3>2. /\ SubSeq(data, 1, i - 1) \in Seq(Positions) /\ SubSeq(data, i + 1, Len(data)) \in Seq(Positions)
          /\ data[i] \in Positions
      BY <1>1, SubmissionInData, PartsTyped
    <3>3. tty' \in Seq(Positions) /\ delivered' \in Seq(Positions)
      BY <3>1, <3>2, WriteTyped
    <3>4. ControllerOK'
      BY <2>4, <3>1, <3>2, ConcatProperties
    <3>5. data[i] # NoLine
      BY <3>2, SettingBounds DEF Positions, NoLine
    <3>6. ThreadsOK'
      BY <1>2, <2>4, <3>1, <3>2, <3>5, HandTyped DEF Waits
    <3> QED
      BY <3>3, <3>4, <3>6
  <2> QED
    BY <2>1, <2>2, <2>3, <2>4 DEF Input
<1>5. RemoteOK' /\ HistoryOK'
  BY <1>4 DEF TypeInv, RemoteOK, HistoryOK, Input
<1> QED
  BY <1>3, <1>4, <1>5, PartsKept DEF TypeInv, Input

LEMMA BarrierBeforeTyped == ASSUME NEW t \in Threads PROVE TypeInv /\ BarrierBefore(t) => TypeInv'
<1> SUFFICES ASSUME TypeInv, BarrierBefore(t) PROVE TypeInv'
  OBVIOUS
<1>1. WorkspaceOK'
  BY BarrierTyped DEF TypeInv, WorkspaceOK, BarrierBefore
<1>2. ThreadsOK'
  BY DEF TypeInv, ThreadsOK, Waits, BarrierBefore
<1> QED
  BY <1>1, <1>2, PartsKept DEF TypeInv, BarrierBefore

LEMMA ReleaseTyped == ASSUME NEW t \in Threads PROVE TypeInv /\ Release(t) => TypeInv'
<1> SUFFICES ASSUME TypeInv, Release(t) PROVE TypeInv'
  OBVIOUS
<1>1. newline[t] \in Positions
  BY DEF TypeInv, ThreadsOK, Release, Waits
<1>2. tty' \in Seq(Positions) /\ delivered' \in Seq(Positions)
  <2>1. <<newline[t]>> \in Seq(Positions)
    BY <1>1
  <2> QED
    BY <2>1, WriteTyped DEF TypeInv, RemoteOK, HistoryOK, Release
<1>3. ThreadsOK'
  BY HandTyped DEF TypeInv, ThreadsOK, Waits, Release
<1>4. ControllerOK' /\ RemoteOK' /\ HistoryOK'
  BY <1>1, <1>2 DEF TypeInv, ControllerOK, RemoteOK, HistoryOK, Release
<1> QED
  BY <1>3, <1>4, PartsKept DEF TypeInv, Release

LEMMA RefuseTyped == ASSUME NEW t \in Threads PROVE TypeInv /\ Refuse(t) => TypeInv'
<1> SUFFICES ASSUME TypeInv, Refuse(t) PROVE TypeInv'
  OBVIOUS
<1>1. newline[t] \in Positions
  BY DEF TypeInv, ThreadsOK, Refuse, Waits
<1>2. ThreadsOK'
  BY HandTyped DEF TypeInv, ThreadsOK, Waits, Refuse
<1>3. ControllerOK' /\ HistoryOK' /\ ScreenOK'
  BY <1>1 DEF TypeInv, ControllerOK, HistoryOK, ScreenOK, Refuse
<1> QED
  BY <1>2, <1>3, PartsKept DEF TypeInv, Refuse

\* The goroutine that reads the remote terminal.
LEMMA TailTyped ==
  ASSUME ScreenOK, output # <<>>
  PROVE  Tail(output) \in Seq(Event) /\ Head(output) \in Event
BY HeadTailProperties DEF ScreenOK

LEMMA ReadMarkerTyped == TypeInv /\ ReadMarker => TypeInv'
<1> SUFFICES ASSUME TypeInv, ReadMarker PROVE TypeInv'
  OBVIOUS
<1>1. ScreenOK'
  BY TailTyped DEF TypeInv, ScreenOK, ReadMarker, screen
<1>2. ThreadsOK' /\ ControllerOK'
  BY MoveTyped DEF TypeInv, ThreadsOK, ControllerOK, Threads, Waits, ReadMarker
<1> QED
  BY <1>1, <1>2, PartsKept DEF TypeInv, ReadMarker

LEMMA BarrierAfterTyped == TypeInv /\ BarrierAfter => TypeInv'
<1> SUFFICES ASSUME TypeInv, BarrierAfter PROVE TypeInv'
  OBVIOUS
<1>1. WorkspaceOK'
  BY BarrierTyped DEF TypeInv, WorkspaceOK, BarrierAfter
<1>2. ThreadsOK'
  BY MoveTyped DEF TypeInv, ThreadsOK, Threads, Waits, BarrierAfter
<1> QED
  BY <1>1, <1>2, PartsKept DEF TypeInv, BarrierAfter

LEMMA AtPromptTyped == TypeInv /\ AtPrompt => TypeInv'
<1> SUFFICES ASSUME TypeInv, AtPrompt PROVE TypeInv'
  OBVIOUS
<1>1. ThreadsOK' /\ ControllerOK'
  BY MoveTyped, EmptySeq DEF TypeInv, ThreadsOK, ControllerOK, Threads, Waits, AtPrompt
<1> QED
  BY <1>1, PartsKept DEF TypeInv, AtPrompt

LEMMA DisplayTyped == TypeInv /\ Display => TypeInv'
<1> SUFFICES ASSUME TypeInv, Display PROVE TypeInv'
  OBVIOUS
<1>1. ScreenOK'
  BY TailTyped DEF TypeInv, ScreenOK, Display, Event
<1> QED
  BY <1>1, PartsKept DEF TypeInv, Display

LEMMA OutputEndsTyped == TypeInv /\ OutputEnds => TypeInv'
<1> SUFFICES ASSUME TypeInv, OutputEnds PROVE TypeInv'
  OBVIOUS
<1>1. ScreenOK' /\ ThreadsOK'
  BY MoveTyped, EmptySeq DEF TypeInv, ScreenOK, ThreadsOK, Threads, Waits, OutputEnds, screen
<1> QED
  BY <1>1, PartsKept DEF TypeInv, OutputEnds

\* The remote bash.
LEMMA PrintedTyped ==
  ASSUME ScreenOK, WorkspaceOK, NEW kind \in {"marker", "prompt", "text"}
  PROVE  Printed(kind) \in Event
BY DEF Printed, Event, ScreenOK, WorkspaceOK

LEMMA PrintPromptTyped == TypeInv /\ PrintPrompt => TypeInv'
<1> SUFFICES ASSUME TypeInv, PrintPrompt PROVE TypeInv'
  OBVIOUS
<1> DEFINE both == <<Printed("marker"), Printed("prompt")>>
<1>1. both \in Seq(Event)
  <2>1. Printed("marker") \in Event /\ Printed("prompt") \in Event
    BY PrintedTyped DEF TypeInv
  <2> QED
    BY <2>1
<1>2. output \in Seq(Event) /\ output' = output \o both
  BY DEF TypeInv, ScreenOK, PrintPrompt
<1>3. output' \in Seq(Event)
  BY <1>1, <1>2, ConcatProperties
<1>4. ScreenOK' /\ RemoteOK'
  BY <1>3 DEF TypeInv, ScreenOK, RemoteOK, PrintPrompt, screen
<1> QED
  BY <1>4, PartsKept DEF TypeInv, PrintPrompt

LEMMA HookAfterTyped == TypeInv /\ HookAfter => TypeInv'
<1> SUFFICES ASSUME TypeInv, HookAfter PROVE TypeInv'
  OBVIOUS
<1>1. WorkspaceOK'
  BY BarrierTyped DEF TypeInv, WorkspaceOK, HookAfter
<1>2. RemoteOK'
  BY DEF TypeInv, RemoteOK, HookAfter
<1> QED
  BY <1>1, <1>2, PartsKept DEF TypeInv, HookAfter

LEMMA HookBeforeTyped == TypeInv /\ HookBefore => TypeInv'
<1> SUFFICES ASSUME TypeInv, HookBefore PROVE TypeInv'
  OBVIOUS
<1>1. WorkspaceOK'
  BY BarrierTyped DEF TypeInv, WorkspaceOK, HookBefore
<1>2. RemoteOK'
  BY DEF TypeInv, RemoteOK, HookBefore
<1> QED
  BY <1>1, <1>2, PartsKept DEF TypeInv, HookBefore

LEMMA HookReturnsTyped == TypeInv /\ HookReturns => TypeInv'
<1> SUFFICES ASSUME TypeInv, HookReturns PROVE TypeInv'
  OBVIOUS
<1>1. output' \in Seq(Event)
  BY PrintedTyped, AppendProperties DEF TypeInv, ScreenOK, HookReturns
<1>2. ScreenOK' /\ RemoteOK'
  BY <1>1 DEF TypeInv, ScreenOK, RemoteOK, HookReturns, screen
<1> QED
  BY <1>2, PartsKept DEF TypeInv, HookReturns

LEMMA ReadLineTyped == TypeInv /\ ReadLine => TypeInv'
<1> SUFFICES ASSUME TypeInv, ReadLine PROVE TypeInv'
  OBVIOUS
<1>1. CASE /\ insertion' = InPaste(tty, Len(tty) + 1, insertion) /\ tty' = <<>>
           /\ UNCHANGED <<bash, line>>
  <2>1. insertion' \in BOOLEAN
    BY <1>1, PasteIsBoolean DEF TypeInv, RemoteOK
  <2>2. RemoteOK'
    BY <1>1, <2>1, EmptySeq DEF TypeInv, RemoteOK, ReadLine
  <2> QED
    BY <2>2, PartsKept DEF TypeInv, ReadLine
<1>2. CASE /\ \E i \in Enters : /\ bash' = "submitted" /\ line' = tty[i]
                                /\ tty' = SubSeq(tty, i + 1, Len(tty))
           /\ UNCHANGED insertion
  <2>1. PICK i \in DOMAIN tty : bash' = "submitted" /\ line' = tty[i] /\ tty' = SubSeq(tty, i + 1, Len(tty))
    BY <1>2 DEF Enters
  <2>2. tty[i] \in Positions /\ SubSeq(tty, i + 1, Len(tty)) \in Seq(Positions)
    BY PartsTyped DEF TypeInv, RemoteOK
  <2>3. tty[i] # NoLine
    BY <2>2, SettingBounds DEF TypeInv, Positions, NoLine
  <2>4. RemoteOK'
    BY <1>2, <2>1, <2>2, <2>3 DEF TypeInv, RemoteOK, ReadLine
  <2> QED
    BY <2>4, PartsKept DEF TypeInv, ReadLine
<1> QED
  BY <1>1, <1>2 DEF ReadLine

LEMMA ExecuteTyped == TypeInv /\ Execute => TypeInv'
<1> SUFFICES ASSUME TypeInv, Execute PROVE TypeInv'
  OBVIOUS
<1>1. ScreenOK'
  <2>1. output' \in Seq(Event)
    BY PrintedTyped, AppendProperties DEF TypeInv, ScreenOK, Execute
  <2> QED
    BY <2>1 DEF TypeInv, ScreenOK, Execute, screen
<1>2. RemoteOK'
  BY DEF TypeInv, RemoteOK, Execute
<1>3. [enter |-> line, saw |-> remoteSaves] \in [enter : Positions, saw : 0..MaxSaves]
  BY SettingBounds DEF TypeInv, RemoteOK, WorkspaceOK, Execute
<1>4. HistoryOK'
  BY <1>3 DEF TypeInv, HistoryOK, Execute
<1> QED
  BY <1>1, <1>2, <1>4, PartsKept DEF TypeInv, Execute

LEMMA ProgramReadsTyped == TypeInv /\ ProgramReads => TypeInv'
<1> SUFFICES ASSUME TypeInv, ProgramReads PROVE TypeInv'
  OBVIOUS
<1>1. RemoteOK'
  BY EmptySeq DEF TypeInv, RemoteOK, ProgramReads
<1> QED
  BY <1>1, PartsKept DEF TypeInv, ProgramReads

LEMMA ProgramWritesTyped == TypeInv /\ ProgramWrites => TypeInv'
<1> SUFFICES ASSUME TypeInv, ProgramWrites PROVE TypeInv'
  OBVIOUS
<1>1. WorkspaceOK'
  BY SettingBounds DEF TypeInv, WorkspaceOK, ProgramWrites
<1> QED
  BY <1>1, PartsKept DEF TypeInv, ProgramWrites

LEMMA ProgramEndsTyped == TypeInv /\ ProgramEnds => TypeInv'
<1> SUFFICES ASSUME TypeInv, ProgramEnds PROVE TypeInv'
  OBVIOUS
<1>1. RemoteOK'
  BY DEF TypeInv, RemoteOK, ProgramEnds
<1> QED
  BY <1>1, PartsKept DEF TypeInv, ProgramEnds

LEMMA DisconnectTyped == TypeInv /\ Disconnect => TypeInv'
<1> SUFFICES ASSUME TypeInv, Disconnect PROVE TypeInv'
  OBVIOUS
<1>1. RemoteOK'
  BY DEF TypeInv, RemoteOK, Disconnect
<1> QED
  BY <1>1, PartsKept DEF TypeInv, Disconnect

LEMMA StutterTyped == TypeInv /\ UNCHANGED vars => TypeInv'
<1> SUFFICES ASSUME TypeInv, UNCHANGED vars PROVE TypeInv'
  OBVIOUS
<1> QED
  BY PartsKept DEF TypeInv, vars

\* Nothing but a save on the Mac happens before the transport is chosen.
LEMMA UnstartedKept == TypeInv /\ Unstarted /\ [Next]_vars => Unstarted'
<1> SUFFICES ASSUME TypeInv, Unstarted, [Next]_vars, transport' = "unselected" PROVE Unstarted'
  BY DEF Unstarted
<1>1. CASE Select
  BY <1>1 DEF Select, Transport
<1>2. CASE Launch
  BY <1>2 DEF Launch
<1>3. CASE Save
  BY <1>3 DEF Save, Unstarted, threads, remote
<1>4. CASE \E kind \in Kinds : Type(kind)
  BY <1>4 DEF Type
<1>5. ASSUME transport = "unselected" PROVE ~InputGoroutine /\ ~OutputGoroutine
  <2>1. pc["in"] = "idle" /\ pc["out"] = "idle" /\ output = <<>> /\ typed = <<>> /\ bash = "launching"
    BY <1>5 DEF Unstarted, Threads
  <2>2. Len(typed) = 0 /\ taken = 0
    BY <2>1 DEF TypeInv, KeyboardOK
  <2> QED
    BY <2>1, <2>2 DEF InputGoroutine, OutputGoroutine, Input, Given, BarrierBefore, Release, Refuse,
       ReadMarker, BarrierAfter, AtPrompt, Display, OutputEnds
<1>6. CASE InputGoroutine \/ OutputGoroutine
  <2>1. transport' = transport
    BY <1>6 DEF InputGoroutine, OutputGoroutine, Input, BarrierBefore, Release, Refuse, ReadMarker,
       BarrierAfter, AtPrompt, Display, OutputEnds
  <2> QED
    BY <1>5, <1>6, <2>1
<1>7. CASE Hooks \/ ReadLine \/ Execute \/ ProgramReads \/ ProgramWrites \/ ProgramEnds \/ Disconnect
  <2>1. transport' = transport /\ bash # "launching"
    BY <1>7 DEF Hooks, PrintPrompt, HookAfter, HookBefore, Trapped, HookReturns, ReadLine, Execute,
       ProgramReads, ProgramWrites, ProgramEnds, Disconnect
  <2> QED
    BY <2>1 DEF Unstarted
<1>8. CASE UNCHANGED vars
  BY <1>8 DEF vars, Unstarted, threads, remote
<1> QED
  BY <1>1, <1>2, <1>3, <1>4, <1>6, <1>7, <1>8 DEF Next

\* Every step keeps the types.
LEMMA NextTyped == TypeInv /\ Unstarted /\ [Next]_vars => TypeInv'
<1> SUFFICES ASSUME TypeInv, Unstarted, [Next]_vars PROVE TypeInv'
  OBVIOUS
<1>1. CASE Select \/ Launch \/ Save \/ (\E kind \in Kinds : Type(kind))
  BY <1>1, SelectTyped, LaunchTyped, SaveTyped, TypeTyped
<1>2. CASE InputGoroutine
  BY <1>2, InputTyped, BarrierBeforeTyped, ReleaseTyped, RefuseTyped DEF InputGoroutine, Threads
<1>3. CASE OutputGoroutine
  <2>1. CASE Input("out") \/ BarrierBefore("out") \/ Release("out") \/ Refuse("out")
    BY <2>1, InputTyped, BarrierBeforeTyped, ReleaseTyped, RefuseTyped DEF Threads
  <2>2. CASE ReadMarker \/ BarrierAfter \/ AtPrompt \/ Display \/ OutputEnds
    BY <2>2, ReadMarkerTyped, BarrierAfterTyped, AtPromptTyped, DisplayTyped, OutputEndsTyped
  <2> QED
    BY <1>3, <2>1, <2>2 DEF OutputGoroutine
<1>4. CASE Hooks
  BY <1>4, PrintPromptTyped, HookAfterTyped, HookBeforeTyped, HookReturnsTyped DEF Hooks
<1>5. CASE ReadLine \/ Execute \/ ProgramReads \/ ProgramWrites \/ ProgramEnds \/ Disconnect
  BY <1>5, ReadLineTyped, ExecuteTyped, ProgramReadsTyped, ProgramWritesTyped, ProgramEndsTyped,
     DisconnectTyped
<1>6. CASE UNCHANGED vars
  BY <1>6, StutterTyped
<1> QED
  BY <1>1, <1>2, <1>3, <1>4, <1>5, <1>6 DEF Next

LEMMA Typed == Spec => [](TypeInv /\ Unstarted)
<1>1. Init => TypeInv /\ Unstarted
  BY InitTyped DEF Init, Unstarted
<1>2. (TypeInv /\ Unstarted) /\ [Next]_vars => (TypeInv /\ Unstarted)'
  BY NextTyped, UnstartedKept
<1> QED
  BY <1>1, <1>2, PTL DEF Spec

\* The type invariant of the shell proxy: no interleaving of the two goroutines, the remote
\* bash and the barriers leaves a byte, a place or a counter outside its range.
THEOREM ShellTypeCorrect == Spec => []TypeOK
BY Typed, TypeInvIsTyping, PTL

-----------------------------------------------------------------------------
(* Where a byte can be.                                                    *)

Bytes(s) == {s[i] : i \in DOMAIN s}
Once(s) == \A i, j \in DOMAIN s : s[i] = s[j] => i = j

\* No two of the five places share a byte, and together they hold what `in' has read.
Apart(written, held, replayed, waiting, dropped) ==
  /\ written \cap (held \cup replayed \cup waiting \cup dropped) = {}
  /\ held \cap (replayed \cup waiting \cup dropped) = {}
  /\ replayed \cap (waiting \cup dropped) = {}
  /\ waiting \cap dropped = {}
OneEnterEach == newline["in"] = newline["out"] => newline["in"] = NoLine
ReplayIdle == pc["out"] # "replay" => replay = <<>>
PlacesInv ==
  /\ Once(delivered) /\ Once(pending) /\ Once(replay)
  /\ Apart(Bytes(delivered), Bytes(pending), Bytes(replay), Waiting, refused)
  /\ Bytes(delivered) \cup Bytes(pending) \cup Bytes(replay) \cup Waiting \cup refused = 1..taken
  /\ OneEnterEach
  /\ ReplayIdle

\* What bash has in hand was written to the PTY before.
WrittenInv ==
  /\ Bytes(tty) \cup released \cup {r.enter : r \in ran} \subseteq Bytes(delivered)
  /\ line \in Bytes(delivered) \cup {NoLine}

\* The bytes of a sequence put together from two.
LEMMA BytesOfConcat ==
  ASSUME NEW S, NEW a \in Seq(S), NEW b \in Seq(S)
  PROVE  /\ Bytes(a \o b) = Bytes(a) \cup Bytes(b)
         /\ Once(a) /\ Once(b) /\ Bytes(a) \cap Bytes(b) = {} => Once(a \o b)
<1> DEFINE c == a \o b
<1>1. /\ c \in Seq(S) /\ Len(c) = Len(a) + Len(b) /\ DOMAIN c = 1..(Len(a) + Len(b))
      /\ DOMAIN a = 1..Len(a) /\ DOMAIN b = 1..Len(b) /\ Len(a) \in Nat /\ Len(b) \in Nat
  BY ConcatProperties, LenProperties
<1>2. \A i \in 1..(Len(a) + Len(b)) : c[i] = IF i <= Len(a) THEN a[i] ELSE b[i - Len(a)]
  BY ConcatProperties
<1> HIDE DEF c
<1>3. \A i \in DOMAIN a : i \in DOMAIN c /\ c[i] = a[i]
  BY <1>1, <1>2
<1>4. \A i \in DOMAIN b : i + Len(a) \in DOMAIN c /\ c[i + Len(a)] = b[i]
  BY <1>1, <1>2
<1>5. \A i \in DOMAIN c : \/ i \in DOMAIN a /\ c[i] = a[i]
                          \/ i - Len(a) \in DOMAIN b /\ c[i] = b[i - Len(a)]
  BY <1>1, <1>2
<1>6. Bytes(c) = Bytes(a) \cup Bytes(b)
  BY <1>3, <1>4, <1>5 DEF Bytes
<1>7. ASSUME Once(a), Once(b), Bytes(a) \cap Bytes(b) = {}
      PROVE  Once(c)
  <2> SUFFICES ASSUME NEW i \in DOMAIN c, NEW j \in DOMAIN c, c[i] = c[j] PROVE i = j
    BY DEF Once
  <2>1. i \in Int /\ j \in Int
    BY <1>1
  <2>2. CASE i \in DOMAIN a /\ c[i] = a[i]
    <3>1. ~(j - Len(a) \in DOMAIN b /\ c[j] = b[j - Len(a)])
      BY <1>7, <2>2 DEF Bytes
    <3> QED
      BY <1>5, <1>7, <2>2, <3>1 DEF Once
  <2>3. CASE i - Len(a) \in DOMAIN b /\ c[i] = b[i - Len(a)]
    <3>1. ~(j \in DOMAIN a /\ c[j] = a[j])
      BY <1>7, <2>3 DEF Bytes
    <3>2. j - Len(a) \in DOMAIN b /\ c[j] = b[j - Len(a)]
      BY <1>5, <3>1
    <3>3. i - Len(a) = j - Len(a)
      BY <1>7, <2>3, <3>2 DEF Once
    <3> QED
      BY <1>1, <2>1, <3>3
  <2> QED
    BY <1>5, <2>2, <2>3
<1> QED
  BY <1>6, <1>7 DEF c

\* An element of a sequence parts its bytes in three.
LEMMA BytesOfParts ==
  ASSUME NEW S, NEW s \in Seq(S), NEW i \in DOMAIN s, Once(s)
  PROVE  LET before == SubSeq(s, 1, i - 1)
             after  == SubSeq(s, i + 1, Len(s))
         IN  /\ Bytes(s) = Bytes(before) \cup {s[i]} \cup Bytes(after)
             /\ Once(before) /\ Once(after)
             /\ Bytes(before) \cap Bytes(after) = {}
             /\ s[i] \notin Bytes(before) /\ s[i] \notin Bytes(after)
<1> DEFINE before == SubSeq(s, 1, i - 1)
           after  == SubSeq(s, i + 1, Len(s))
           n == Len(s)
<1>1. n \in Nat /\ DOMAIN s = 1..n /\ i \in 1..n
  BY LenProperties
<1>2. \A k \in 1..n : s[k] \in S
  BY ElementOfSeq
<1>3. /\ before \in Seq(S) /\ Len(before) = i - 1
      /\ \A k \in 1..(i - 1) : before[k] = s[k]
  <2>1. /\ before \in Seq(S) /\ Len(before) = IF 1 <= i - 1 THEN i - 1 - 1 + 1 ELSE 0
        /\ \A k \in 1..(i - 1 - 1 + 1) : before[k] = s[1 + k - 1]
    BY <1>1, <1>2, SubSeqProperties
  <2> QED
    BY <1>1, <2>1
<1>4. /\ after \in Seq(S) /\ Len(after) = n - i
      /\ \A k \in 1..(n - i) : after[k] = s[i + k]
  <2>1. /\ after \in Seq(S) /\ Len(after) = IF i + 1 <= n THEN n - (i + 1) + 1 ELSE 0
        /\ \A k \in 1..(n - (i + 1) + 1) : after[k] = s[i + 1 + k - 1]
    BY <1>1, <1>2, SubSeqProperties
  <2> QED
    BY SMTT(60), <1>1, <2>1
<1>5. DOMAIN before = 1..(i - 1) /\ DOMAIN after = 1..(n - i)
  BY <1>3, <1>4, LenProperties
<1> HIDE DEF before, after, n
<1>6. Bytes(s) = Bytes(before) \cup {s[i]} \cup Bytes(after)
  <2>1. \A k \in DOMAIN s : \/ k \in DOMAIN before /\ before[k] = s[k]
                            \/ k = i
                            \/ k - i \in DOMAIN after /\ after[k - i] = s[k]
    <3> SUFFICES ASSUME NEW k \in 1..n
                 PROVE  \/ k \in DOMAIN before /\ before[k] = s[k]
                        \/ k = i
                        \/ k - i \in DOMAIN after /\ after[k - i] = s[k]
      BY <1>1
    <3>1. CASE k < i
      BY <1>1, <1>3, <1>5, <3>1
    <3>2. CASE k > i
      <4>1. k - i \in 1..(n - i) /\ i + (k - i) = k
        BY <1>1, <3>2
      <4> QED
        BY <1>4, <1>5, <4>1
    <3> QED
      BY <1>1, <3>1, <3>2
  <2>2. \A k \in DOMAIN before : k \in DOMAIN s /\ before[k] = s[k]
    BY <1>1, <1>3, <1>5
  <2>3. \A k \in DOMAIN after : i + k \in DOMAIN s /\ after[k] = s[i + k]
    BY <1>1, <1>4, <1>5
  <2> QED
    BY <2>1, <2>2, <2>3 DEF Bytes
<1>7. Once(before)
  BY <1>1, <1>3, <1>5 DEF Once
<1>8. Once(after)
  <2> SUFFICES ASSUME NEW j \in DOMAIN after, NEW k \in DOMAIN after, after[j] = after[k] PROVE j = k
    BY DEF Once
  <2>1. i + j \in DOMAIN s /\ i + k \in DOMAIN s /\ s[i + j] = s[i + k]
    BY <1>1, <1>4, <1>5
  <2>2. i + j = i + k
    BY <2>1 DEF Once
  <2> QED
    BY <1>1, <1>5, <2>2
<1>9. Bytes(before) \cap Bytes(after) = {}
  <2> SUFFICES ASSUME NEW j \in DOMAIN before, NEW k \in DOMAIN after, before[j] = after[k] PROVE FALSE
    BY DEF Bytes
  <2>1. j \in DOMAIN s /\ i + k \in DOMAIN s /\ s[j] = s[i + k]
    BY <1>1, <1>3, <1>4, <1>5
  <2>2. j = i + k
    BY <2>1 DEF Once
  <2> QED
    BY <1>1, <1>5, <2>2
<1>10. s[i] \notin Bytes(before)
  <2> SUFFICES ASSUME NEW j \in DOMAIN before, before[j] = s[i] PROVE FALSE
    BY DEF Bytes
  <2>1. j \in DOMAIN s /\ s[j] = s[i]
    BY <1>1, <1>3, <1>5
  <2>2. j = i
    BY <2>1 DEF Once
  <2> QED
    BY <1>1, <1>5, <2>2
<1>11. s[i] \notin Bytes(after)
  <2> SUFFICES ASSUME NEW k \in DOMAIN after, after[k] = s[i] PROVE FALSE
    BY DEF Bytes
  <2>1. i + k \in DOMAIN s
    BY <1>1, <1>5
  <2>3. s[i + k] = s[i]
    BY <1>4, <1>5
  <2>2. i + k = i
    BY <2>1, <2>3 DEF Once
  <2> QED
    BY <1>1, <1>5, <2>2
<1> QED
  BY <1>6, <1>7, <1>8, <1>9, <1>10, <1>11 DEF before, after, n

-----------------------------------------------------------------------------
(* A byte stays in one place.                                              *)

LEMMA WaitingIs == Waiting = {newline["in"], newline["out"]} \ {NoLine}
BY DEF Waiting, Threads

LEMMA NothingInNothing == Bytes(<<>>) = {} /\ Once(<<>>)
BY DEF Bytes, Once

LEMMA InitPlaces == Init => PlacesInv
<1> SUFFICES ASSUME Init PROVE PlacesInv
  OBVIOUS
<1>1. Waiting = {}
  BY DEF Init, Waiting
<1> QED
  BY <1>1, NothingInNothing DEF Init, PlacesInv, Apart, OneEnterEach, ReplayIdle, Threads

\* A step that moves no byte, and does not leave the replay by another way than Input.
LEMMA PlacesKept ==
  ASSUME PlacesInv, UNCHANGED <<delivered, pending, replay, newline, refused, taken>>,
         pc'["out"] = pc["out"] \/ pc["out"] # "replay"
  PROVE  PlacesInv'
<1>1. Waiting' = Waiting
  BY DEF Waiting
<1>2. ReplayIdle'
  BY DEF PlacesInv, ReplayIdle
<1>3. Apart(Bytes(delivered), Bytes(pending), Bytes(replay), Waiting, refused)' =
      Apart(Bytes(delivered), Bytes(pending), Bytes(replay), Waiting, refused)
  BY <1>1
<1> QED
  BY <1>1, <1>2, <1>3 DEF PlacesInv, OneEnterEach

\* What Input is handed: bytes nobody else has any more.
LEMMA GivenBytes ==
  ASSUME TypeInv, PlacesInv, NEW t \in Threads, Given(t),
         NEW data, data = IF t = "in" THEN Unread ELSE replay
  PROVE  /\ data \in Seq(Positions) /\ Once(data) /\ Once(replay')
         /\ Bytes(data) \cap (Bytes(delivered) \cup Bytes(pending) \cup Bytes(replay') \cup Waiting \cup refused) = {}
         /\ Apart(Bytes(delivered), Bytes(pending), Bytes(replay'), Waiting, refused)
         /\ Bytes(delivered) \cup Bytes(pending) \cup Bytes(replay') \cup Waiting \cup refused \cup Bytes(data)
              = 1..taken'
         /\ t = "out" => replay' = <<>>
         /\ t = "in" => replay' = replay
<1>1. CASE t = "in"
  <2> DEFINE n == Len(typed) - taken
  <2>1. taken \in Nat /\ Len(typed) \in Nat /\ n \in Nat /\ taken' = Len(typed) /\ replay' = replay
    BY <1>1 DEF Given, TypeInv, KeyboardOK
  <2>2. DOMAIN data = 1..n /\ \A i \in 1..n : data[i] = taken + i
    BY <1>1 DEF Unread
  <2> HIDE DEF n
  <2>3. Bytes(data) = (taken + 1)..Len(typed)
    <3>1. \A i \in 1..n : data[i] \in (taken + 1)..Len(typed)
      BY <2>1, <2>2 DEF n
    <3>2. \A p \in (taken + 1)..Len(typed) : p - taken \in 1..n /\ data[p - taken] = p
      BY <2>1, <2>2 DEF n
    <3> QED
      BY <2>2, <3>1, <3>2 DEF Bytes
  <2>4. Once(data)
    BY <2>1, <2>2 DEF Once
  <2>5. data \in Seq(Positions)
    BY <1>1, UnreadTyped DEF TypeInv
  <2>6. (taken + 1)..Len(typed) \cap 1..taken = {} /\ 1..taken \cup (taken + 1)..Len(typed) = 1..Len(typed)
    BY <2>1 DEF TypeInv, KeyboardOK
  <2> QED
    BY <1>1, <2>1, <2>3, <2>4, <2>5, <2>6 DEF PlacesInv
<1>2. CASE t = "out"
  <2>1. replay' = <<>> /\ taken' = taken /\ data = replay
    BY <1>2 DEF Given
  <2>2. Bytes(replay') = {} /\ Once(replay')
    BY <2>1, NothingInNothing
  <2> QED
    BY <1>2, <2>1, <2>2 DEF PlacesInv, Apart, TypeInv, ThreadsOK
<1> QED
  BY <1>1, <1>2 DEF Threads

LEMMA InputPlaces == ASSUME NEW t \in Threads PROVE TypeInv /\ PlacesInv /\ Input(t) => PlacesInv'
<1> SUFFICES ASSUME TypeInv, PlacesInv, Input(t) PROVE PlacesInv'
  OBVIOUS
<1> DEFINE data == IF t = "in" THEN Unread ELSE replay
           D == Bytes(delivered)
           P == Bytes(pending)
           R == Bytes(replay')
           B == Bytes(data)
<1>1. Given(t) /\ refused' = refused
  BY DEF Input
<1>2. /\ data \in Seq(Positions) /\ Once(data) /\ Once(replay')
      /\ B \cap (D \cup P \cup R \cup Waiting \cup refused) = {}
      /\ Apart(D, P, R, Waiting, refused)
      /\ D \cup P \cup R \cup Waiting \cup refused \cup B = 1..taken'
      /\ t = "out" => replay' = <<>>
      /\ t = "in" => replay' = replay
  BY <1>1, GivenBytes
<1>3. /\ pc \in [Threads -> {"idle", "replay", "barrier", "release", "refuse", "after", "prompt", "done"}]
      /\ newline \in [Threads -> Positions \cup {NoLine}]
      /\ newline[t] = NoLine
      /\ delivered \in Seq(Positions) /\ pending \in Seq(Positions)
      /\ Once(delivered) /\ Once(pending) /\ OneEnterEach /\ ReplayIdle
  BY <1>1 DEF TypeInv, ThreadsOK, HistoryOK, ControllerOK, Given, PlacesInv, Waits
<1> HIDE DEF data
<1>4. ASSUME NEW place \in {"idle", "barrier"}, pc' = [pc EXCEPT ![t] = place]
      PROVE  ReplayIdle'
  BY <1>2, <1>3, <1>4 DEF ReplayIdle, Threads
<1>5. CASE /\ pending' = pending \o data /\ pc' = [pc EXCEPT ![t] = "idle"]
           /\ UNCHANGED <<newline, atPrompt, syncing, paste, tty, delivered>>
  <2>1. Bytes(pending') = P \cup B /\ Once(pending')
    BY <1>2, <1>3, <1>5, BytesOfConcat
  <2>2. Waiting' = Waiting /\ OneEnterEach' /\ Bytes(delivered') = D
    BY <1>3, <1>5 DEF Waiting, OneEnterEach
  <2> QED
    BY <1>1, <1>2, <1>3, <1>4, <1>5, <2>1, <2>2 DEF PlacesInv, Apart
<1>6. ASSUME Write(data), newline' = newline, pending' = pending, pc' = [pc EXCEPT ![t] = "idle"]
      PROVE  PlacesInv'
  <2>1. Bytes(delivered') = D \cup B /\ Once(delivered')
    BY <1>2, <1>3, <1>6, BytesOfConcat DEF Write
  <2>2. Waiting' = Waiting /\ OneEnterEach' /\ Bytes(pending') = P
    BY <1>3, <1>6 DEF Waiting, OneEnterEach
  <2> QED
    BY <1>1, <1>2, <1>3, <1>4, <1>6, <2>1, <2>2 DEF PlacesInv, Apart
<1>7. CASE /\ \E i \in Submission(data) :
                /\ Write(SubSeq(data, 1, i - 1))
                /\ newline' = [newline EXCEPT ![t] = data[i]]
                /\ pending' = pending \o SubSeq(data, i + 1, Len(data))
           /\ pc' = [pc EXCEPT ![t] = "barrier"]
  <2>1. PICK i \in Submission(data) :
           /\ Write(SubSeq(data, 1, i - 1))
           /\ newline' = [newline EXCEPT ![t] = data[i]]
           /\ pending' = pending \o SubSeq(data, i + 1, Len(data))
    BY <1>7
  <2> DEFINE before == SubSeq(data, 1, i - 1)
             after  == SubSeq(data, i + 1, Len(data))
  <2>2. /\ B = Bytes(before) \cup {data[i]} \cup Bytes(after)
        /\ Once(before) /\ Once(after) /\ Bytes(before) \cap Bytes(after) = {}
        /\ data[i] \notin Bytes(before) /\ data[i] \notin Bytes(after)
    BY <1>2, SubmissionInData, BytesOfParts
  <2>3. before \in Seq(Positions) /\ after \in Seq(Positions) /\ data[i] \in Positions
    BY <1>2, SubmissionInData, PartsTyped
  <2>10. delivered' = delivered \o before /\ pending' = pending \o after
    BY <2>1 DEF Write
  <2> HIDE DEF before, after
  <2>4. Bytes(delivered') = D \cup Bytes(before) /\ Once(delivered')
    BY <1>2, <1>3, <2>10, <2>2, <2>3, BytesOfConcat
  <2>5. Bytes(pending') = P \cup Bytes(after) /\ Once(pending')
    BY <1>2, <1>3, <2>10, <2>2, <2>3, BytesOfConcat
  <2>6. data[i] # NoLine
    BY <2>3, SettingBounds DEF TypeInv, Positions, NoLine
  <2>7. data[i] \notin Waiting
    BY <1>2, <2>2
  <2>8. Waiting' = Waiting \cup {data[i]}
    <3>1. newline'[t] = data[i] /\ \A u \in Threads \ {t} : newline'[u] = newline[u]
      BY <1>3, <2>1
    <3> QED
      BY <1>3, <2>6, <3>1 DEF Waiting
  <2>9. OneEnterEach'
    <3>1. newline'[t] = data[i] /\ \A u \in Threads \ {t} : newline'[u] = newline[u]
      BY <1>3, <2>1
    <3>2. \A u \in Threads : newline[u] # data[i]
      BY <2>6, <2>7 DEF Waiting
    <3> QED
      BY <3>1, <3>2 DEF OneEnterEach, Threads
  <2> QED
    BY <1>1, <1>2, <1>3, <1>4, <1>7, <2>2, <2>4, <2>5, <2>7, <2>8, <2>9 DEF PlacesInv, Apart
<1> QED
  BY <1>5, <1>6, <1>7 DEF Input, controller, data

LEMMA ReleasePlaces == ASSUME NEW t \in Threads PROVE TypeInv /\ PlacesInv /\ Release(t) => PlacesInv'
<1> SUFFICES ASSUME TypeInv, PlacesInv, Release(t) PROVE PlacesInv'
  OBVIOUS
<1> DEFINE n == newline[t]
<1>1. n \in Positions /\ n # NoLine /\ n \in Waiting
  BY DEF TypeInv, ThreadsOK, Release, Waits, Waiting
<1>2. \A u \in Threads : newline'[u] = IF u = t THEN NoLine ELSE newline[u]
  BY DEF TypeInv, ThreadsOK, Release
<1>3. Waiting' = Waiting \ {n} /\ OneEnterEach'
  BY <1>1, <1>2 DEF WaitingIs, Waiting, PlacesInv, OneEnterEach, Threads
<1>4. Bytes(delivered') = Bytes(delivered) \cup {n} /\ Once(delivered')
  <2>1. delivered' = delivered \o <<n>> /\ delivered \in Seq(Positions) /\ <<n>> \in Seq(Positions)
    BY <1>1 DEF Release, Write, TypeInv, HistoryOK
  <2>2. Bytes(<<n>>) = {n} /\ Once(<<n>>)
    BY DEF Bytes, Once
  <2>3. Bytes(delivered) \cap Bytes(<<n>>) = {} /\ Once(delivered)
    BY <1>1, <2>2 DEF PlacesInv, Apart
  <2>4. PICK e \in Seq(Positions) : e = <<n>>
    BY <2>1
  <2>6. Once(e) /\ Bytes(e) = {n} /\ Bytes(delivered) \cap Bytes(e) = {}
    BY <2>2, <2>3, <2>4
  <2>7. delivered \in Seq(Positions)
    BY <2>1
  <2>5. Bytes(delivered \o e) = Bytes(delivered) \cup Bytes(e) /\ Once(delivered \o e)
    BY <2>3, <2>6, <2>7, BytesOfConcat
  <2> QED
    BY <2>1, <2>2, <2>4, <2>5
<1>5. ReplayIdle'
  BY DEF PlacesInv, ReplayIdle, Release, TypeInv, ThreadsOK, Threads
<1>6. UNCHANGED <<pending, replay, refused, taken>>
  BY DEF Release
<1> QED
  BY <1>1, <1>3, <1>4, <1>5, <1>6 DEF PlacesInv, Apart

LEMMA RefusePlaces == ASSUME NEW t \in Threads PROVE TypeInv /\ PlacesInv /\ Refuse(t) => PlacesInv'
<1> SUFFICES ASSUME TypeInv, PlacesInv, Refuse(t) PROVE PlacesInv'
  OBVIOUS
<1> DEFINE n == newline[t]
<1>1. n \in Positions /\ n # NoLine /\ n \in Waiting
  BY DEF TypeInv, ThreadsOK, Refuse, Waits, Waiting
<1>2. \A u \in Threads : newline'[u] = IF u = t THEN NoLine ELSE newline[u]
  BY DEF TypeInv, ThreadsOK, Refuse
<1>3. Waiting' = Waiting \ {n} /\ OneEnterEach'
  BY <1>1, <1>2 DEF WaitingIs, Waiting, PlacesInv, OneEnterEach, Threads
<1>4. refused' = refused \cup {n} /\ UNCHANGED <<delivered, pending, replay, taken>>
  BY DEF Refuse
<1>5. ReplayIdle'
  BY DEF PlacesInv, ReplayIdle, Refuse, TypeInv, ThreadsOK, Threads
<1> QED
  BY <1>1, <1>3, <1>4, <1>5 DEF PlacesInv, Apart

LEMMA AtPromptPlaces == TypeInv /\ PlacesInv /\ AtPrompt => PlacesInv'
<1> SUFFICES ASSUME TypeInv, PlacesInv, AtPrompt PROVE PlacesInv'
  OBVIOUS
<1>1. replay = <<>> /\ replay' = pending /\ pending' = <<>> /\ UNCHANGED <<delivered, newline, refused, taken>>
  BY DEF AtPrompt, PlacesInv, ReplayIdle, history
<1>2. Waiting' = Waiting /\ OneEnterEach'
  BY <1>1 DEF Waiting, PlacesInv, OneEnterEach
<1>3. ReplayIdle'
  BY DEF AtPrompt, ReplayIdle, TypeInv, ThreadsOK, Threads
<1> QED
  BY <1>1, <1>2, <1>3, NothingInNothing DEF PlacesInv, Apart

\* Every step leaves every byte in exactly one place.
LEMMA NextPlaces == TypeInv /\ Unstarted /\ PlacesInv /\ [Next]_vars => PlacesInv'
<1> SUFFICES ASSUME TypeInv, Unstarted, PlacesInv, [Next]_vars PROVE PlacesInv'
  OBVIOUS
<1>2. CASE Select \/ Launch \/ Save \/ (\E kind \in Kinds : Type(kind))
  <2>1. UNCHANGED <<delivered, pending, replay, newline, refused, taken>>
    BY <1>2 DEF Select, Launch, Save, Type, controller, threads, history
  <2>2. pc'["out"] = pc["out"] \/ pc["out"] # "replay"
    BY <1>2 DEF Select, Launch, Save, Type, threads, Unstarted, Threads
  <2> QED
    BY <2>1, <2>2, PlacesKept
<1>3. ASSUME NEW t \in Threads, BarrierBefore(t) PROVE PlacesInv'
  <2>1. UNCHANGED <<delivered, pending, replay, newline, refused, taken>>
    BY <1>3 DEF BarrierBefore, controller, history
  <2>2. pc'["out"] = pc["out"] \/ pc["out"] # "replay"
    BY <1>3 DEF BarrierBefore, Threads, TypeInv, ThreadsOK
  <2> QED
    BY <2>1, <2>2, PlacesKept
<1>4. CASE ReadMarker \/ BarrierAfter \/ Display \/ OutputEnds
  <2>1. UNCHANGED <<delivered, pending, replay, newline, refused, taken>>
    BY <1>4 DEF ReadMarker, BarrierAfter, Display, OutputEnds, controller, threads, history
  <2>2. pc'["out"] = pc["out"] \/ pc["out"] # "replay"
    BY <1>4 DEF ReadMarker, BarrierAfter, Display, OutputEnds, threads
  <2> QED
    BY <2>1, <2>2, PlacesKept
<1>5. CASE Hooks \/ ReadLine \/ Execute \/ ProgramReads \/ ProgramWrites \/ ProgramEnds \/ Disconnect
           \/ UNCHANGED vars
  <2>1. UNCHANGED <<delivered, pending, replay, newline, refused, taken, pc>>
    BY <1>5 DEF Hooks, PrintPrompt, HookAfter, HookBefore, HookReturns, ReadLine, Execute, ProgramReads,
       ProgramWrites, ProgramEnds, Disconnect, vars, controller, threads, history
  <2> QED
    BY <2>1, PlacesKept
<1> QED
  BY <1>2, <1>3, <1>4, <1>5, InputPlaces, ReleasePlaces, RefusePlaces, AtPromptPlaces
     DEF Next, InputGoroutine, OutputGoroutine, Threads

LEMMA PlacesHold == Spec => [](TypeInv /\ PlacesInv)
<1>1. Init => TypeInv /\ Unstarted /\ PlacesInv
  BY InitTyped, InitPlaces DEF Init, Unstarted
<1>2. TypeInv /\ Unstarted /\ PlacesInv /\ [Next]_vars => (TypeInv /\ Unstarted /\ PlacesInv)'
  BY NextTyped, UnstartedKept, NextPlaces
<1> QED
  BY <1>1, <1>2, PTL DEF Spec

\* A sequence without repetition is as long as its bytes are many.
LEMMA OnceCounts ==
  ASSUME NEW S, NEW s \in Seq(S), Once(s)
  PROVE  IsFiniteSet(Bytes(s)) /\ Cardinality(Bytes(s)) = Len(s)
<1>1. Len(s) \in Nat /\ DOMAIN s = 1..Len(s) /\ s \in [1..Len(s) -> S]
  BY LenProperties
<1>2. IsFiniteSet(1..Len(s)) /\ Cardinality(1..Len(s)) = Len(s)
  BY <1>1, FS_Interval
<1>3. s \in Bijection(1..Len(s), Bytes(s))
  <2>1. s \in [1..Len(s) -> Bytes(s)]
    BY <1>1 DEF Bytes
  <2>2. \A i, j \in 1..Len(s) : s[i] = s[j] => i = j
    BY <1>1 DEF Once
  <2>3. \A b \in Bytes(s) : \E i \in 1..Len(s) : s[i] = b
    BY <1>1 DEF Bytes
  <2> QED
    BY <2>1, <2>2, <2>3, Fun_IsBij
<1> QED
  BY <1>2, <1>3, FS_Bijection DEF ExistsBijection

\* The set and the number of the bytes that are accounted for.
LEMMA PlacesAccount == TypeInv /\ PlacesInv => NothingLostOrRepeated
<1> SUFFICES ASSUME TypeInv, PlacesInv PROVE NothingLostOrRepeated
  OBVIOUS
<1> DEFINE held == delivered \o pending
           all  == held \o replay
<1>1. delivered \in Seq(Positions) /\ pending \in Seq(Positions) /\ replay \in Seq(Positions) /\ taken \in Nat
  BY DEF TypeInv, HistoryOK, ControllerOK, ThreadsOK, KeyboardOK
<1>2. held \in Seq(Positions) /\ all \in Seq(Positions)
  BY <1>1, ConcatProperties
<1>3. Bytes(held) = Bytes(delivered) \cup Bytes(pending) /\ Once(held)
  BY <1>1, BytesOfConcat DEF PlacesInv, Apart
<1>4. Bytes(all) = Bytes(held) \cup Bytes(replay) /\ Once(all)
  <2>1. Bytes(held) \cap Bytes(replay) = {}
    BY <1>3 DEF PlacesInv, Apart
  <2> HIDE DEF held
  <2> QED
    BY <1>1, <1>2, <1>3, <2>1, BytesOfConcat DEF PlacesInv
<1>5. IsFiniteSet(Bytes(all)) /\ Cardinality(Bytes(all)) = Len(all)
  BY <1>2, <1>4, OnceCounts
<1>6. Accounted = all
  BY <1>1, ConcatAssociative DEF Accounted
<1>7. Bytes(all) \cup Waiting \cup refused = 1..taken
  BY <1>3, <1>4 DEF PlacesInv
<1>8. Bytes(all) \cap Waiting = {} /\ (Bytes(all) \cup Waiting) \cap refused = {}
  BY <1>3, <1>4 DEF PlacesInv, Apart
<1>9. IsFiniteSet(1..taken) /\ Cardinality(1..taken) = taken
  BY <1>1, FS_Interval
<1>10. IsFiniteSet(Waiting) /\ IsFiniteSet(refused)
  BY <1>7, <1>9, FS_Subset
<1> HIDE DEF all
<1>11. /\ IsFiniteSet(Bytes(all) \cup Waiting)
       /\ Cardinality(Bytes(all) \cup Waiting) = Len(all) + Cardinality(Waiting)
  <2>1. Len(all) \in Nat /\ Cardinality(Waiting) \in Nat
    BY <1>2, <1>10, LenProperties, FS_CardinalityType
  <2> QED
    <3>1. /\ IsFiniteSet(Bytes(all) \cup Waiting)
          /\ Cardinality(Bytes(all) \cup Waiting) =
               Cardinality(Bytes(all)) + Cardinality(Waiting) - Cardinality(Bytes(all) \cap Waiting)
      BY <1>5, <1>10, FS_Union
    <3>2. Cardinality(Bytes(all) \cap Waiting) = 0
      BY <1>8, FS_EmptySet
    <3> QED
      BY <1>5, <2>1, <3>1, <3>2
<1>12. Cardinality(1..taken) = Len(all) + Cardinality(Waiting) + Cardinality(refused)
  <2>1. Len(all) \in Nat /\ Cardinality(Waiting) \in Nat /\ Cardinality(refused) \in Nat
    BY <1>2, <1>10, LenProperties, FS_CardinalityType
  <2> QED
    <3> DEFINE both == Bytes(all) \cup Waiting
    <3>1. Cardinality(both \cup refused) =
            Cardinality(both) + Cardinality(refused) - Cardinality(both \cap refused)
      BY <1>10, <1>11, FS_Union
    <3>2. Cardinality(both \cap refused) = 0
      BY <1>8, FS_EmptySet
    <3>3. both \cup refused = 1..taken
      BY <1>7
    <3>4. Cardinality(both) = Len(all) + Cardinality(Waiting)
      BY <1>11
    <3> HIDE DEF both
    <3>5. Cardinality(both \cup refused) = Len(all) + Cardinality(Waiting) + Cardinality(refused)
      BY <2>1, <3>1, <3>2, <3>4
    <3> QED
      BY <3>3, <3>5
<1> QED
  BY <1>6, <1>7, <1>9, <1>12 DEF NothingLostOrRepeated, Bytes

\* inputController (internal/shell/proxy.go:332-404): whatever the keyboard's and the
\* output's goroutine do to the same buffer, however the barriers end and whenever the shell
\* does, a byte that was read is in exactly one place: held, replayed, written, in front of
\* a barrier, or an Enter whose barrier failed.
THEOREM InputIsAccounted == Spec => []InputAccounted
<1>1. TypeInv /\ PlacesInv => InputAccounted
  BY TypeInvIsTyping, PlacesAccount DEF InputAccounted
<1> QED
  BY <1>1, PlacesHold, PTL

-----------------------------------------------------------------------------
(* What the barriers promise.                                              *)

\* How far the remote end has come: for an Enter behind its barrier, for one that was
\* released, and for a line that ran.
SavesInv ==
  /\ \A i \in DOMAIN typed : typed[i].saves <= saves
  /\ \A t \in Threads : pc[t] = "release" => remoteSaves >= typed[newline[t]].saves
  /\ \A e \in released : remoteSaves >= typed[e].saves
  /\ HeldCommandsObserveSaves

\* How far the Mac has come.  Over SSH a prompt on its way to the screen is behind a marker,
\* or its barrier is running or has been run; over Mosh the barrier was run before it was
\* printed, and no program writes between the two.
PromptIsBehind(i) ==
  \/ i > 1 /\ output[i - 1].kind = "marker"
  \/ i = 1 /\ pc["out"] = "after"
  \/ i = 1 /\ (settled => localArtifacts >= output[i].artifacts)
ArtifactsInv ==
  /\ \A i \in DOMAIN output : output[i].artifacts <= artifacts
  /\ shown <= artifacts
  /\ PromptShowsArtifacts
  /\ Marked => /\ bash # "returning"
               /\ \A i \in DOMAIN output : output[i].kind = "prompt" => PromptIsBehind(i)
  /\ ~Marked => /\ \A i \in DOMAIN output :
                     output[i].kind = "prompt" /\ settled => localArtifacts >= output[i].artifacts
                /\ bash = "returning" /\ settled => localArtifacts >= artifacts

\* What bash has in hand stays written.
LEMMA WrittenKept ==
  ASSUME WrittenInv, UNCHANGED <<delivered, released, ran>>, Bytes(tty') \subseteq Bytes(tty),
         line' \in {line, NoLine}
  PROVE  WrittenInv'
BY DEF WrittenInv

LEMMA WriteWritten ==
  ASSUME WrittenInv, tty \in Seq(Positions), delivered \in Seq(Positions),
         NEW bytes \in Seq(Positions), Write(bytes), released' \subseteq released \cup Bytes(bytes),
         UNCHANGED <<ran, line>>
  PROVE  WrittenInv'
<1>1. /\ Bytes(tty') = Bytes(tty) \cup Bytes(bytes)
      /\ Bytes(delivered') = Bytes(delivered) \cup Bytes(bytes)
  BY BytesOfConcat DEF Write
<1> QED
  BY <1>1 DEF WrittenInv

LEMMA InputWritten == ASSUME NEW t \in Threads PROVE TypeInv /\ WrittenInv /\ Input(t) => WrittenInv'
<1> SUFFICES ASSUME TypeInv, WrittenInv, Input(t) PROVE WrittenInv'
  OBVIOUS
<1> DEFINE data == IF t = "in" THEN Unread ELSE replay
<1>1. data \in Seq(Positions)
  BY UnreadTyped DEF TypeInv, ThreadsOK
<1>2. UNCHANGED <<released, ran, line>>
  BY DEF Input
<1> HIDE DEF data
<1>3. \/ UNCHANGED <<tty, delivered>>
      \/ Write(data)
      \/ \E i \in DOMAIN data : Write(SubSeq(data, 1, i - 1))
  <2>1. \/ UNCHANGED <<tty, delivered>>
        \/ Write(data)
        \/ \E i \in Submission(data) : Write(SubSeq(data, 1, i - 1))
    BY DEF Input, data
  <2> QED
    BY <2>1, SubmissionInData
<1>4. \A i \in DOMAIN data : SubSeq(data, 1, i - 1) \in Seq(Positions)
  BY <1>1, PartsTyped
<1>5. tty \in Seq(Positions) /\ delivered \in Seq(Positions)
  BY DEF TypeInv, RemoteOK, HistoryOK
<1> QED
  BY <1>1, <1>2, <1>3, <1>4, <1>5, WrittenKept, WriteWritten

LEMMA ReleaseWritten == ASSUME NEW t \in Threads PROVE TypeInv /\ WrittenInv /\ Release(t) => WrittenInv'
<1> SUFFICES ASSUME TypeInv, WrittenInv, Release(t) PROVE WrittenInv'
  OBVIOUS
<1>1. newline[t] \in Positions
  BY DEF TypeInv, ThreadsOK, Release, Waits
<1>6. <<newline[t]>> \in Seq(Positions)
  BY <1>1
<1>2. PICK bytes \in Seq(Positions) : bytes = <<newline[t]>>
  BY <1>6
<1>3. Bytes(bytes) = {newline[t]}
  <2>1. Bytes(<<newline[t]>>) = {newline[t]}
    BY DEF Bytes
  <2> QED
    BY <1>2, <2>1
<1>4. Write(bytes) /\ released' \subseteq released \cup Bytes(bytes) /\ UNCHANGED <<ran, line>>
  BY <1>2, <1>3 DEF Release
<1>5. tty \in Seq(Positions) /\ delivered \in Seq(Positions)
  BY DEF TypeInv, RemoteOK, HistoryOK
<1> QED
  BY <1>4, <1>5, WriteWritten

LEMMA BytesOfTail ==
  ASSUME NEW S, NEW s \in Seq(S), NEW i \in DOMAIN s
  PROVE  Bytes(SubSeq(s, i + 1, Len(s))) \subseteq Bytes(s)
<1> DEFINE rest == SubSeq(s, i + 1, Len(s))
<1>1. Len(s) \in Nat /\ DOMAIN s = 1..Len(s)
  BY LenProperties
<1>2. \A k \in (i + 1)..Len(s) : s[k] \in Bytes(s)
  BY <1>1 DEF Bytes
<1>3. rest \in Seq(Bytes(s))
  BY <1>1, <1>2, SubSeqProperties
<1> HIDE DEF rest
<1>4. \A k \in DOMAIN rest : rest[k] \in Bytes(s)
  BY <1>3, LenProperties, ElementOfSeq
<1>5. Bytes(rest) \subseteq Bytes(s)
  BY <1>4 DEF Bytes
<1> QED
  BY <1>5 DEF rest

LEMMA ReadLineWritten == TypeInv /\ WrittenInv /\ ReadLine => WrittenInv'
<1> SUFFICES ASSUME TypeInv, WrittenInv, ReadLine PROVE WrittenInv'
  OBVIOUS
<1>1. UNCHANGED <<delivered, released, ran>>
  BY DEF ReadLine, history
<1>2. CASE tty' = <<>> /\ UNCHANGED line
  BY <1>1, <1>2, NothingInNothing, WrittenKept
<1>3. CASE \E i \in DOMAIN tty : line' = tty[i] /\ tty' = SubSeq(tty, i + 1, Len(tty))
  <2>1. PICK i \in DOMAIN tty : line' = tty[i] /\ tty' = SubSeq(tty, i + 1, Len(tty))
    BY <1>3
  <2>2. Bytes(tty') \subseteq Bytes(tty) /\ line' \in Bytes(tty)
    BY <2>1, BytesOfTail DEF Bytes, TypeInv, RemoteOK
  <2> QED
    BY <1>1, <2>2 DEF WrittenInv
<1> QED
  BY <1>2, <1>3 DEF ReadLine, Enters

LEMMA ExecuteWritten == TypeInv /\ WrittenInv /\ Execute => WrittenInv'
BY DEF TypeInv, RemoteOK, WrittenInv, Execute

LEMMA NextWritten == TypeInv /\ WrittenInv /\ [Next]_vars => WrittenInv'
<1> SUFFICES ASSUME TypeInv, WrittenInv, [Next]_vars PROVE WrittenInv'
  OBVIOUS
<1>1. CASE \/ Select \/ Launch \/ Save \/ (\E kind \in Kinds : Type(kind))
           \/ (\E t \in Threads : BarrierBefore(t) \/ Refuse(t))
           \/ ReadMarker \/ BarrierAfter \/ AtPrompt \/ Display \/ OutputEnds
           \/ Hooks \/ ProgramWrites \/ ProgramEnds \/ Disconnect \/ UNCHANGED vars
  <2>1. UNCHANGED <<delivered, released, ran, tty, line>>
    BY <1>1 DEF Select, Launch, Save, Type, BarrierBefore, Refuse, ReadMarker, BarrierAfter, AtPrompt, Display,
       OutputEnds, Hooks, PrintPrompt, HookAfter, HookBefore, HookReturns, ProgramWrites, ProgramEnds,
       Disconnect, vars, remote, history
  <2> QED
    BY <2>1, WrittenKept
<1>2. CASE ProgramReads
  BY <1>2, NothingInNothing, WrittenKept DEF ProgramReads, history
<1> QED
  BY <1>1, <1>2, InputWritten, ReleaseWritten, ReadLineWritten, ExecuteWritten
     DEF Next, InputGoroutine, OutputGoroutine, Threads

\* A barrier never sets an end back, and one that succeeds brings it up to date.
LEMMA BarrierMovesOn ==
  ASSUME WorkspaceOK, Synchronize \/ SynchronizeFails
  PROVE  /\ remoteSaves' >= remoteSaves /\ localArtifacts' >= localArtifacts
         /\ UNCHANGED <<saves, artifacts>>
         /\ Synchronize => remoteSaves' = saves /\ localArtifacts' = artifacts
BY DEF WorkspaceOK, Synchronize, SynchronizeFails

\* The positions that are compared are those of typed bytes.
LEMMA PlacesAreTyped ==
  ASSUME TypeInv, PlacesInv, WrittenInv
  PROVE  /\ \A i \in DOMAIN typed : typed[i].saves \in 0..MaxSaves
         /\ \A t \in Threads : pc[t] = "release" => newline[t] \in DOMAIN typed
         /\ released \subseteq DOMAIN typed
         /\ {r.enter : r \in ran} \subseteq DOMAIN typed
         /\ line \in DOMAIN typed \cup {NoLine}
<1>1. DOMAIN typed = 1..Len(typed) /\ Len(typed) \in Nat /\ 1..taken \subseteq DOMAIN typed
  BY LenProperties DEF TypeInv, KeyboardOK
<1>2. \A i \in DOMAIN typed : typed[i] \in [kind : Kinds, saves : 0..MaxSaves]
  BY <1>1, ElementOfSeq DEF TypeInv, KeyboardOK
<1>3. \A t \in Threads : pc[t] = "release" => newline[t] \in Waiting
  BY DEF Waiting, TypeInv, ThreadsOK, Waits
<1>4. Bytes(delivered) \subseteq 1..taken /\ Waiting \subseteq 1..taken
  BY DEF PlacesInv
<1> QED
  BY <1>1, <1>2, <1>3, <1>4 DEF WrittenInv

\* A step that types nothing, releases nothing and runs nothing, and sets no end back.
LEMMA SavesKept ==
  ASSUME TypeInv, PlacesInv, WrittenInv, SavesInv,
         UNCHANGED <<typed, released, ran>>, saves' \in Nat, remoteSaves' \in Nat,
         saves' >= saves, remoteSaves' >= remoteSaves,
         \A t \in Threads : pc'[t] = "release" => pc[t] = "release" /\ newline'[t] = newline[t]
  PROVE  SavesInv'
<1>1. /\ saves \in Nat /\ remoteSaves \in Nat /\ MaxSaves \in Nat
      /\ \A r \in ran : r.saw \in Nat
  BY SettingBounds DEF TypeInv, WorkspaceOK, HistoryOK
<1>2. \A i \in DOMAIN typed' : typed'[i].saves <= saves'
  BY <1>1, PlacesAreTyped DEF SavesInv
<1>3. \A t \in Threads : pc'[t] = "release" => remoteSaves' >= typed'[newline'[t]].saves
  BY <1>1, PlacesAreTyped DEF SavesInv
<1>4. \A e \in released' : remoteSaves' >= typed'[e].saves
  BY <1>1, PlacesAreTyped DEF SavesInv
<1>5. HeldCommandsObserveSaves'
  BY DEF SavesInv, HeldCommandsObserveSaves
<1> QED
  BY <1>2, <1>3, <1>4, <1>5 DEF SavesInv

LEMMA TypeSaves ==
  ASSUME NEW kind \in Kinds
  PROVE  TypeInv /\ PlacesInv /\ WrittenInv /\ SavesInv /\ Type(kind) => SavesInv'
<1> SUFFICES ASSUME TypeInv, PlacesInv, WrittenInv, SavesInv, Type(kind) PROVE SavesInv'
  OBVIOUS
<1> DEFINE byte == [kind |-> kind, saves |-> saves]
<1>1. byte \in [kind : Kinds, saves : 0..MaxSaves] /\ saves \in Nat
  BY DEF TypeInv, WorkspaceOK
<1>2. /\ typed' = Append(typed, byte)
      /\ UNCHANGED <<saves, remoteSaves, pc, newline, released, ran>>
  BY DEF Type, threads, workspace, history
<1>3. /\ DOMAIN typed = 1..Len(typed) /\ DOMAIN typed' = 1..(Len(typed) + 1) /\ Len(typed) \in Nat
      /\ \A i \in DOMAIN typed : typed'[i] = typed[i]
      /\ typed'[Len(typed) + 1] = byte
  BY <1>1, <1>2, AppendProperties, LenProperties DEF TypeInv, KeyboardOK
<1>4. \A i \in DOMAIN typed' : typed'[i].saves <= saves'
  <2> SUFFICES ASSUME NEW i \in DOMAIN typed' PROVE typed'[i].saves <= saves
    BY <1>2
  <2>1. CASE i \in DOMAIN typed
    BY <1>3, <2>1 DEF SavesInv
  <2>2. CASE i = Len(typed) + 1
    BY <1>1, <1>3, <2>2
  <2> QED
    BY <1>3, <2>1, <2>2
<1>5. \A t \in Threads : pc[t] = "release" => remoteSaves >= typed'[newline[t]].saves
  BY <1>3, PlacesAreTyped DEF SavesInv
<1>6. \A e \in released : remoteSaves >= typed'[e].saves
  BY <1>3, PlacesAreTyped DEF SavesInv
<1>7. \A r \in ran : r.enter \in released => r.saw >= typed'[r.enter].saves
  BY <1>3, PlacesAreTyped DEF SavesInv, HeldCommandsObserveSaves
<1> QED
  BY <1>2, <1>4, <1>5, <1>6, <1>7 DEF SavesInv, HeldCommandsObserveSaves

LEMMA BarrierBeforeSaves ==
  ASSUME NEW t \in Threads
  PROVE  TypeInv /\ PlacesInv /\ WrittenInv /\ SavesInv /\ BarrierBefore(t) => SavesInv'
<1> SUFFICES ASSUME TypeInv, PlacesInv, WrittenInv, SavesInv, BarrierBefore(t) PROVE SavesInv'
  OBVIOUS
<1>1. UNCHANGED <<typed, released, ran, newline>>
  BY DEF BarrierBefore, history
<1>2. WorkspaceOK' /\ WorkspaceOK /\ pc \in [Threads -> {"idle", "replay", "barrier", "release", "refuse",
                                                         "after", "prompt", "done"}]
  BY BarrierBeforeTyped DEF TypeInv, ThreadsOK
<1>3. CASE SynchronizeFails /\ pc' = [pc EXCEPT ![t] = "refuse"]
  <2>1. saves' >= saves /\ remoteSaves' >= remoteSaves /\ saves' \in Nat /\ remoteSaves' \in Nat
    BY <1>2, <1>3, BarrierMovesOn DEF WorkspaceOK
  <2>2. \A u \in Threads : pc'[u] = "release" => pc[u] = "release" /\ newline'[u] = newline[u]
    BY <1>1, <1>2, <1>3
  <2> QED
    BY <1>1, <2>1, <2>2, SavesKept
<1>4. CASE Synchronize /\ pc' = [pc EXCEPT ![t] = "release"]
  <2>1. /\ saves' = saves /\ remoteSaves' = saves /\ remoteSaves' >= remoteSaves
        /\ saves \in Nat /\ remoteSaves \in Nat
    BY <1>2, <1>4, BarrierMovesOn DEF WorkspaceOK
  <2>2. newline[t] \in DOMAIN typed
    <3>1. newline[t] \in Waiting
      BY DEF Waiting, TypeInv, ThreadsOK, Waits, BarrierBefore
    <3>2. DOMAIN typed = 1..Len(typed)
      BY LenProperties DEF TypeInv, KeyboardOK
    <3> QED
      BY <3>1, <3>2 DEF PlacesInv, TypeInv, KeyboardOK
  <2>3. \A u \in Threads : pc'[u] = "release" => remoteSaves' >= typed[newline[u]].saves
    <3> SUFFICES ASSUME NEW u \in Threads, pc'[u] = "release" PROVE saves >= typed[newline[u]].saves
      BY <2>1
    <3>1. newline[u] \in DOMAIN typed
      BY <1>2, <1>4, <2>2, PlacesAreTyped
    <3> QED
      BY <2>1, <3>1, PlacesAreTyped DEF SavesInv
  <2>4. \A e \in released : remoteSaves' >= typed[e].saves
    BY <2>1, PlacesAreTyped, SettingBounds DEF SavesInv, TypeInv
  <2> QED
    BY <1>1, <2>1, <2>3, <2>4 DEF SavesInv, HeldCommandsObserveSaves
<1> QED
  BY <1>3, <1>4 DEF BarrierBefore

LEMMA ReleaseSaves ==
  ASSUME NEW t \in Threads
  PROVE  TypeInv /\ PlacesInv /\ WrittenInv /\ SavesInv /\ Release(t) => SavesInv'
<1> SUFFICES ASSUME TypeInv, PlacesInv, WrittenInv, SavesInv, Release(t) PROVE SavesInv'
  OBVIOUS
<1>1. UNCHANGED <<typed, ran, saves, remoteSaves>> /\ released' = released \cup {newline[t]}
  BY DEF Release, workspace
<1>2. \A u \in Threads : pc'[u] = "release" => pc[u] = "release" /\ newline'[u] = newline[u]
  BY DEF Release, TypeInv, ThreadsOK
<1>3. \A e \in released' : remoteSaves >= typed[e].saves
  BY <1>1 DEF SavesInv, Release
<1>4. newline[t] \in Waiting
  BY DEF Waiting, TypeInv, ThreadsOK, Waits, Release
<1>5. \A r \in ran : r.enter # newline[t]
  BY <1>4 DEF PlacesInv, Apart, WrittenInv
<1> QED
  BY <1>1, <1>2, <1>3, <1>5 DEF SavesInv, HeldCommandsObserveSaves

LEMMA ExecuteSaves == TypeInv /\ SavesInv /\ Execute => SavesInv'
BY DEF SavesInv, HeldCommandsObserveSaves, Execute, threads, workspace

LEMMA NextSaves ==
  TypeInv /\ Unstarted /\ PlacesInv /\ WrittenInv /\ SavesInv /\ [Next]_vars => SavesInv'
<1> SUFFICES ASSUME TypeInv, Unstarted, PlacesInv, WrittenInv, SavesInv, [Next]_vars PROVE SavesInv'
  OBVIOUS
<1>1. /\ WorkspaceOK /\ saves \in Nat /\ remoteSaves \in Nat /\ saves' \in Nat /\ remoteSaves' \in Nat
      /\ pc \in [Threads -> {"idle", "replay", "barrier", "release", "refuse", "after", "prompt", "done"}]
      /\ newline \in [Threads -> Positions \cup {NoLine}]
  BY NextTyped DEF TypeInv, WorkspaceOK, ThreadsOK
<1>2. CASE \/ Select \/ Launch \/ Save \/ ReadMarker \/ AtPrompt \/ Display \/ OutputEnds
           \/ PrintPrompt \/ HookReturns \/ ReadLine \/ ProgramReads \/ ProgramWrites \/ ProgramEnds
           \/ Disconnect \/ UNCHANGED vars
  <2>1. UNCHANGED <<typed, released, ran, newline>>
    BY <1>2 DEF Select, Launch, Save, ReadMarker, AtPrompt, Display, OutputEnds, PrintPrompt, HookReturns,
       ReadLine, ProgramReads, ProgramWrites, ProgramEnds, Disconnect, vars, threads, history
  <2>2. saves' >= saves /\ remoteSaves' >= remoteSaves
    BY <1>1, <1>2 DEF Select, Launch, Save, ReadMarker, AtPrompt, Display, OutputEnds, PrintPrompt,
       HookReturns, ReadLine, ProgramReads, ProgramWrites, ProgramEnds, Disconnect, vars, workspace
  <2>3. \A u \in Threads : pc'[u] = "release" => pc[u] = "release"
    BY <1>1, <1>2 DEF Select, Launch, Save, ReadMarker, AtPrompt, Display, OutputEnds, PrintPrompt,
       HookReturns, ReadLine, ProgramReads, ProgramWrites, ProgramEnds, Disconnect, vars, threads
  <2> QED
    BY <1>1, <2>1, <2>2, <2>3, SavesKept
<1>3. ASSUME NEW t \in Threads, Input(t) PROVE SavesInv'
  <2>1. UNCHANGED <<typed, released, ran, saves, remoteSaves>>
    BY <1>3 DEF Input, workspace
  <2>2. /\ pc[t] # "release"
        /\ \/ pc' = [pc EXCEPT ![t] = "idle"] /\ newline' = newline
           \/ pc' = [pc EXCEPT ![t] = "barrier"] /\ \E n : newline' = [newline EXCEPT ![t] = n]
    BY <1>3 DEF Input, Given, controller
  <2>3. \A u \in Threads : pc'[u] = "release" => pc[u] = "release" /\ newline'[u] = newline[u]
    BY <1>1, <2>2
  <2> QED
    BY <1>1, <2>1, <2>3, SavesKept
<1>4. ASSUME NEW t \in Threads, Refuse(t) PROVE SavesInv'
  <2>1. UNCHANGED <<typed, released, ran, saves, remoteSaves>>
    BY <1>4 DEF Refuse, workspace
  <2>2. \A u \in Threads : pc'[u] = "release" => pc[u] = "release" /\ newline'[u] = newline[u]
    BY <1>1, <1>4 DEF Refuse
  <2> QED
    BY <1>1, <2>1, <2>2, SavesKept
<1>5. CASE BarrierAfter \/ HookAfter \/ HookBefore
  <2>1. UNCHANGED <<typed, released, ran, newline>>
    BY <1>5 DEF BarrierAfter, HookAfter, HookBefore, threads, history
  <2>2. saves' >= saves /\ remoteSaves' >= remoteSaves
    BY <1>1, <1>5, BarrierMovesOn DEF BarrierAfter, HookAfter, HookBefore
  <2>3. \A u \in Threads : pc'[u] = "release" => pc[u] = "release"
    BY <1>1, <1>5 DEF BarrierAfter, HookAfter, HookBefore, threads
  <2> QED
    BY <1>1, <2>1, <2>2, <2>3, SavesKept
<1> QED
  BY <1>2, <1>3, <1>4, <1>5, TypeSaves, BarrierBeforeSaves, ReleaseSaves, ExecuteSaves
     DEF Next, InputGoroutine, OutputGoroutine, Hooks, Threads

\* A step that leaves the terminal's output and screen alone.
LEMMA ArtifactsKept ==
  ASSUME TypeInv, ArtifactsInv, UNCHANGED <<transport, output, shown, settled>>,
         artifacts' \in Nat, localArtifacts' \in Nat,
         artifacts' >= artifacts, localArtifacts' >= localArtifacts,
         pc["out"] = "after" => pc'["out"] = "after",
         bash' = "returning" => bash = "returning" /\ artifacts' = artifacts
  PROVE  ArtifactsInv'
<1>1. /\ artifacts \in Nat /\ localArtifacts \in Nat /\ shown \in Nat /\ MaxArtifacts \in Nat
      /\ DOMAIN output = 1..Len(output)
      /\ \A i \in DOMAIN output : output[i].artifacts \in Nat
  <2>1. \A i \in DOMAIN output : output[i] \in Event
    BY LenProperties, ElementOfSeq DEF TypeInv, ScreenOK
  <2> QED
    BY <2>1, SettingBounds, LenProperties DEF TypeInv, ScreenOK, WorkspaceOK, Event
<1>2. Marked' = Marked
  BY DEF Marked
<1>3. /\ \A i \in DOMAIN output' : output'[i].artifacts <= artifacts'
      /\ shown' <= artifacts' /\ PromptShowsArtifacts'
  BY <1>1 DEF ArtifactsInv, PromptShowsArtifacts
<1>4. \A i \in DOMAIN output' : PromptIsBehind(i) => PromptIsBehind(i)'
  BY <1>1 DEF PromptIsBehind
<1>5. Marked' => /\ bash' # "returning"
                 /\ \A i \in DOMAIN output' : output'[i].kind = "prompt" => PromptIsBehind(i)'
  BY <1>2, <1>4 DEF ArtifactsInv
<1>6. ~Marked' => /\ \A i \in DOMAIN output' :
                       output'[i].kind = "prompt" /\ settled' => localArtifacts' >= output'[i].artifacts
                  /\ bash' = "returning" /\ settled' => localArtifacts' >= artifacts'
  BY <1>1, <1>2 DEF ArtifactsInv
<1> QED
  BY <1>3, <1>5, <1>6 DEF ArtifactsInv

\* After a barrier that succeeded the Mac has everything, after one that failed nothing is promised.
LEMMA SettledBarrier ==
  ASSUME TypeInv, ArtifactsInv, UNCHANGED <<transport, output, shown>>,
         \/ Synchronize /\ settled' = TRUE
         \/ SynchronizeFails /\ settled' = FALSE /\ (Marked => pc["out"] = "after"),
         Marked => bash' # "returning"
  PROVE  ArtifactsInv'
<1>1. /\ artifacts \in Nat /\ localArtifacts \in Nat /\ artifacts' = artifacts
      /\ settled' => localArtifacts' = artifacts
  BY BarrierMovesOn DEF TypeInv, WorkspaceOK
<1>2. Marked' = Marked
  BY DEF Marked
<1>3. /\ \A i \in DOMAIN output' : output'[i].artifacts <= artifacts'
      /\ shown' <= artifacts'
  BY <1>1 DEF ArtifactsInv
<1>4. settled' => /\ \A i \in DOMAIN output' : localArtifacts' >= output'[i].artifacts
                  /\ localArtifacts' >= shown' /\ localArtifacts' >= artifacts'
  BY <1>1, <1>3
<1>5. \A i \in DOMAIN output' : PromptIsBehind(i) => PromptIsBehind(i)'
  BY <1>4 DEF PromptIsBehind
<1> QED
  BY <1>2, <1>3, <1>4, <1>5 DEF ArtifactsInv, PromptShowsArtifacts

\* The output goroutine takes the first event; those behind it move up by one.
LEMMA RestOfOutput ==
  ASSUME TypeInv, output # <<>>, output' = Tail(output)
  PROVE  /\ DOMAIN output = 1..Len(output) /\ Len(output) \in Nat /\ Len(output) >= 1
         /\ DOMAIN output' = 1..(Len(output) - 1)
         /\ \A i \in DOMAIN output' : i + 1 \in DOMAIN output /\ output'[i] = output[i + 1]
         /\ Head(output) = output[1]
<1>1. output \in Seq(Event)
  BY DEF TypeInv, ScreenOK
<1>2. /\ Tail(output) \in Seq(Event) /\ Len(Tail(output)) = Len(output) - 1
      /\ \A i \in 1..Len(Tail(output)) : Tail(output)[i] = output[i + 1]
  BY <1>1, HeadTailProperties
<1>3. DOMAIN output = 1..Len(output) /\ Len(output) \in Nat /\ DOMAIN output' = 1..Len(Tail(output))
  BY <1>1, <1>2, LenProperties
<1>4. Len(output) # 0
  BY <1>1, EmptySeq
<1> QED
  BY <1>1, <1>2, <1>3, <1>4

LEMMA ReadMarkerArtifacts == TypeInv /\ ArtifactsInv /\ ReadMarker => ArtifactsInv'
<1> SUFFICES ASSUME TypeInv, ArtifactsInv, ReadMarker PROVE ArtifactsInv'
  OBVIOUS
<1>1. /\ Marked /\ Marked' /\ pc'["out"] = "after" /\ output # <<>> /\ output' = Tail(output)
      /\ UNCHANGED <<artifacts, localArtifacts, shown, settled, bash>>
  BY DEF ReadMarker, Marked, TypeInv, ThreadsOK, Threads, screen, workspace, remote
<1>2. /\ DOMAIN output = 1..Len(output) /\ DOMAIN output' = 1..(Len(output) - 1) /\ Len(output) \in Nat
      /\ \A i \in DOMAIN output' : i + 1 \in DOMAIN output /\ output'[i] = output[i + 1]
  BY <1>1, RestOfOutput
<1>3. \A i \in DOMAIN output' : output'[i].artifacts <= artifacts
  BY <1>2 DEF ArtifactsInv
<1>4. ASSUME NEW i \in DOMAIN output', output'[i].kind = "prompt" PROVE PromptIsBehind(i)'
  <2>1. CASE i = 1
    BY <1>1, <2>1 DEF PromptIsBehind
  <2>2. CASE i # 1
    <3>1. i \in Nat /\ i > 1 /\ i + 1 > 1 /\ i + 1 # 1 /\ i - 1 \in DOMAIN output' /\ (i - 1) + 1 = i /\ (i + 1) - 1 = i
      BY <1>2, <2>2
    <3>2. output[i].kind = "marker"
      BY <1>1, <1>2, <1>4, <3>1 DEF ArtifactsInv, PromptIsBehind
    <3>3. output'[i - 1].kind = "marker"
      BY <1>2, <3>1, <3>2
    <3> QED
      BY <3>1, <3>3 DEF PromptIsBehind
  <2> QED
    BY <2>1, <2>2
<1> QED
  BY <1>1, <1>3, <1>4 DEF ArtifactsInv, PromptShowsArtifacts

LEMMA DisplayArtifacts == TypeInv /\ ArtifactsInv /\ Display => ArtifactsInv'
<1> SUFFICES ASSUME TypeInv, ArtifactsInv, Display PROVE ArtifactsInv'
  OBVIOUS
<1>1. /\ Marked' = Marked /\ pc'["out"] = "idle" /\ pc["out"] = "idle" /\ output # <<>> /\ output' = Tail(output)
      /\ UNCHANGED <<artifacts, localArtifacts, settled, bash>>
      /\ Head(output).kind # "marker"
      /\ shown' = IF Head(output).kind = "prompt" THEN Head(output).artifacts ELSE shown
  BY DEF Display, Marked, workspace, remote, threads
<1>2. /\ DOMAIN output = 1..Len(output) /\ DOMAIN output' = 1..(Len(output) - 1) /\ Len(output) \in Nat
      /\ \A i \in DOMAIN output' : i + 1 \in DOMAIN output /\ output'[i] = output[i + 1]
      /\ Head(output) = output[1] /\ 1 \in DOMAIN output
  BY <1>1, RestOfOutput
<1>3. \A i \in DOMAIN output' : output'[i].artifacts <= artifacts
  BY <1>2 DEF ArtifactsInv
<1>4. shown' <= artifacts
  BY <1>1, <1>2 DEF ArtifactsInv
<1>5. settled => localArtifacts >= shown'
  <2>1. CASE Head(output).kind = "prompt"
    <3>1. Marked => PromptIsBehind(1)
      BY <1>2, <2>1 DEF ArtifactsInv
    <3>2. settled => localArtifacts >= output[1].artifacts
      BY <1>1, <1>2, <2>1, <3>1 DEF ArtifactsInv, PromptIsBehind
    <3> QED
      BY <1>1, <1>2, <2>1, <3>2
  <2>2. CASE Head(output).kind # "prompt"
    BY <1>1, <2>2 DEF ArtifactsInv, PromptShowsArtifacts
  <2> QED
    BY <2>1, <2>2
<1>6. ASSUME Marked, NEW i \in DOMAIN output', output'[i].kind = "prompt" PROVE PromptIsBehind(i)'
  <2>1. i \in Nat /\ i >= 1 /\ i + 1 > 1 /\ i + 1 # 1 /\ (i + 1) - 1 = i
    BY <1>2
  <2>2. output[i].kind = "marker"
    BY <1>2, <1>6, <2>1 DEF ArtifactsInv, PromptIsBehind
  <2>3. i # 1
    BY <1>1, <1>2, <2>2
  <2>4. i > 1 /\ i - 1 \in DOMAIN output' /\ (i - 1) + 1 = i
    BY <1>2, <2>1, <2>3
  <2>5. output'[i - 1].kind = "marker"
    BY <1>2, <2>2, <2>4
  <2> QED
    BY <2>4, <2>5 DEF PromptIsBehind
<1>7. ~Marked => \A i \in DOMAIN output' : output'[i].kind = "prompt" /\ settled => localArtifacts >= output'[i].artifacts
  BY <1>2 DEF ArtifactsInv
<1> QED
  BY <1>1, <1>3, <1>4, <1>5, <1>6, <1>7 DEF ArtifactsInv, PromptShowsArtifacts

\* bash prints behind what it has printed: over SSH a prompt with its marker in front, over
\* Mosh one that waited for its barrier.
LEMMA PrintedArtifacts ==
  ASSUME TypeInv, ArtifactsInv, NEW new \in Seq(Event), output' = output \o new,
         UNCHANGED <<transport, artifacts, localArtifacts, shown, settled, pc>>, bash' # "returning",
         \A j \in DOMAIN new :
           /\ new[j].artifacts <= artifacts
           /\ Marked /\ new[j].kind = "prompt" => j > 1 /\ new[j - 1].kind = "marker"
           /\ ~Marked /\ new[j].kind = "prompt" /\ settled => localArtifacts >= new[j].artifacts
  PROVE  ArtifactsInv'
<1> DEFINE n == Len(output)
<1>1. /\ output \in Seq(Event) /\ n \in Nat /\ Len(new) \in Nat /\ DOMAIN output = 1..n
      /\ DOMAIN new = 1..Len(new) /\ DOMAIN output' = 1..(n + Len(new))
  BY LenProperties, ConcatProperties DEF TypeInv, ScreenOK
<1>2. /\ \A i \in DOMAIN output : output'[i] = output[i]
      /\ \A i \in DOMAIN output' \ DOMAIN output : i - n \in DOMAIN new /\ output'[i] = new[i - n]
  BY <1>1, ConcatProperties
<1>3. Marked' = Marked
  BY DEF Marked
<1> HIDE DEF n
<1>4. \A i \in DOMAIN output' : output'[i].artifacts <= artifacts
  BY <1>1, <1>2 DEF ArtifactsInv
<1>5. ASSUME Marked, NEW i \in DOMAIN output', output'[i].kind = "prompt" PROVE PromptIsBehind(i)'
  <2>1. CASE i \in DOMAIN output
    <3>1. i \in Nat /\ (i > 1 => i - 1 \in DOMAIN output)
      BY <1>1, <2>1
    <3>2. PromptIsBehind(i)
      BY <1>2, <1>5, <2>1 DEF ArtifactsInv
    <3> QED
      BY <1>2, <2>1, <3>1, <3>2 DEF PromptIsBehind
  <2>2. CASE i \notin DOMAIN output
    <3>1. i - n \in DOMAIN new /\ new[i - n].kind = "prompt"
      BY <1>2, <1>5, <2>2
    <3>2. i - n > 1 /\ new[(i - n) - 1].kind = "marker"
      BY <1>5, <3>1
    <3>3. /\ i > 1 /\ i - 1 \in DOMAIN output' \ DOMAIN output /\ (i - 1) - n = (i - n) - 1
      BY <1>1, <3>1, <3>2
    <3>4. output'[i - 1] = new[(i - n) - 1]
      BY <1>2, <3>3
    <3> QED
      BY <3>2, <3>3, <3>4 DEF PromptIsBehind
  <2> QED
    BY <2>1, <2>2
<1>6. ASSUME ~Marked, settled, NEW i \in DOMAIN output', output'[i].kind = "prompt"
      PROVE  localArtifacts >= output'[i].artifacts
  BY <1>2, <1>6 DEF ArtifactsInv
<1> QED
  BY <1>3, <1>4, <1>5, <1>6 DEF ArtifactsInv, PromptShowsArtifacts

LEMMA PrintPromptArtifacts == TypeInv /\ ArtifactsInv /\ PrintPrompt => ArtifactsInv'
<1> SUFFICES ASSUME TypeInv, ArtifactsInv, PrintPrompt PROVE ArtifactsInv'
  OBVIOUS
<1>1. Printed("marker") \in Event /\ Printed("prompt") \in Event /\ artifacts \in Nat
  BY PrintedTyped DEF TypeInv, WorkspaceOK
<1>2. PICK new \in Seq(Event) : new = <<Printed("marker"), Printed("prompt")>>
  <2>1. <<Printed("marker"), Printed("prompt")>> \in Seq(Event)
    BY <1>1
  <2> QED
    BY <2>1
<1>3. /\ DOMAIN new = 1..2 /\ new[1].kind = "marker" /\ new[2].kind = "prompt"
      /\ new[1].artifacts = artifacts /\ new[2].artifacts = artifacts
  BY <1>2 DEF Printed
<1>4. \A j \in DOMAIN new : /\ new[j].artifacts <= artifacts
                            /\ new[j].kind = "prompt" => j > 1 /\ new[j - 1].kind = "marker"
  <2> SUFFICES ASSUME NEW j \in 1..2
               PROVE  /\ new[j].artifacts <= artifacts
                      /\ new[j].kind = "prompt" => j > 1 /\ new[j - 1].kind = "marker"
    BY <1>3
  <2>1. CASE j = 1
    BY <1>1, <1>3, <2>1
  <2>2. CASE j = 2
    BY <1>1, <1>3, <2>2
  <2> QED
    BY <2>1, <2>2
<1>5. /\ Marked /\ output' = output \o new /\ bash' # "returning"
      /\ UNCHANGED <<transport, artifacts, localArtifacts, shown, settled, pc>>
  BY <1>2 DEF PrintPrompt, threads, workspace, screen
<1> QED
  BY <1>4, <1>5, PrintedArtifacts

\* What is printed last, alone.
LEMMA AppendedArtifacts ==
  ASSUME TypeInv, ArtifactsInv, NEW kind \in {"prompt", "text"}, output' = Append(output, Printed(kind)),
         UNCHANGED <<transport, artifacts, localArtifacts, shown, settled, pc>>, bash' # "returning",
         kind = "prompt" => ~Marked /\ (settled => localArtifacts >= artifacts)
  PROVE  ArtifactsInv'
<1>1. Printed(kind) \in Event /\ artifacts \in Nat /\ output \in Seq(Event)
  BY PrintedTyped DEF TypeInv, WorkspaceOK, ScreenOK
<1>2. PICK new \in Seq(Event) : new = <<Printed(kind)>>
  <2>1. <<Printed(kind)>> \in Seq(Event)
    BY <1>1
  <2> QED
    BY <2>1
<1>3. DOMAIN new = {1} /\ new[1].kind = kind /\ new[1].artifacts = artifacts
  BY <1>2 DEF Printed
<1>4. output' = output \o new
  BY <1>1, <1>2, AppendIsConcat
<1>5. \A j \in DOMAIN new :
         /\ new[j].artifacts <= artifacts
         /\ Marked /\ new[j].kind = "prompt" => j > 1 /\ new[j - 1].kind = "marker"
         /\ ~Marked /\ new[j].kind = "prompt" /\ settled => localArtifacts >= new[j].artifacts
  BY <1>1, <1>3
<1> QED
  BY <1>4, <1>5, PrintedArtifacts

LEMMA NextArtifacts == TypeInv /\ Unstarted /\ ArtifactsInv /\ [Next]_vars => ArtifactsInv'
<1> SUFFICES ASSUME TypeInv, Unstarted, ArtifactsInv, [Next]_vars PROVE ArtifactsInv'
  OBVIOUS
<1>1. /\ artifacts \in Nat /\ localArtifacts \in Nat /\ artifacts' \in Nat /\ localArtifacts' \in Nat
      /\ pc \in [Threads -> {"idle", "replay", "barrier", "release", "refuse", "after", "prompt", "done"}]
  BY NextTyped DEF TypeInv, WorkspaceOK, ThreadsOK
<1>2. CASE Select
  <2>1. output = <<>> /\ bash' \in {"launching", "gone"} /\ UNCHANGED <<output, shown, settled, artifacts, localArtifacts>>
    BY <1>2 DEF Select, Unstarted, screen, workspace
  <2> QED
    BY <2>1 DEF ArtifactsInv, PromptShowsArtifacts
<1>3. CASE Launch \/ Save \/ (\E kind \in Kinds : Type(kind)) \/ HookBefore \/ ReadLine \/ ProgramReads
           \/ ProgramWrites \/ ProgramEnds \/ Disconnect \/ UNCHANGED vars
  <2>1. UNCHANGED <<transport, output, shown, settled, pc>>
    BY <1>3 DEF Launch, Save, Type, HookBefore, ReadLine, ProgramReads, ProgramWrites, ProgramEnds,
       Disconnect, vars, screen, threads, workspace
  <2>2. artifacts' >= artifacts /\ localArtifacts' >= localArtifacts
    <3>1. CASE HookBefore
      BY <1>1, <3>1, BarrierMovesOn DEF HookBefore, TypeInv
    <3>2. CASE Launch \/ (\E kind \in Kinds : Type(kind)) \/ ReadLine \/ ProgramReads \/ ProgramEnds
               \/ Disconnect \/ UNCHANGED vars
      <4>1. UNCHANGED workspace
        BY <3>2 DEF Launch, Type, ReadLine, ProgramReads, ProgramEnds, Disconnect, vars
      <4> QED
        BY <1>1, <4>1 DEF workspace
    <3>3. CASE Save \/ ProgramWrites
      BY <1>1, <3>3 DEF Save, ProgramWrites
    <3> QED
      BY <1>3, <3>1, <3>2, <3>3
  <2>3. bash' = "returning" => bash = "returning" /\ artifacts' = artifacts
    BY <1>3, BarrierMovesOn DEF Launch, Save, Type, HookBefore, ReadLine, ProgramReads, ProgramWrites,
       ProgramEnds, Disconnect, vars, remote, workspace, TypeInv
  <2> QED
    BY <1>1, <2>1, <2>2, <2>3, ArtifactsKept
<1>4. ASSUME NEW t \in Threads, Input(t) \/ BarrierBefore(t) \/ Release(t) \/ Refuse(t)
      PROVE  ArtifactsInv'
  <2>1. UNCHANGED <<transport, output, shown, settled, bash>>
    BY <1>4 DEF Input, BarrierBefore, Release, Refuse, screen, remote, workspace
  <2>2. artifacts' = artifacts /\ localArtifacts' >= localArtifacts
    BY <1>1, <1>4, BarrierMovesOn DEF Input, BarrierBefore, Release, Refuse, workspace, TypeInv
  <2>3. pc[t] # "after" /\ \E place \in {"idle", "barrier", "release", "refuse"} : pc' = [pc EXCEPT ![t] = place]
    BY <1>4 DEF Input, Given, BarrierBefore, Release, Refuse
  <2>4. pc["out"] = "after" => pc'["out"] = "after"
    BY <1>1, <2>3 DEF Threads
  <2> QED
    BY <1>1, <2>1, <2>2, <2>4, ArtifactsKept
<1>5. CASE AtPrompt
  <2>1. UNCHANGED <<transport, output, shown, settled, artifacts, localArtifacts, bash>> /\ pc["out"] = "prompt"
    BY <1>5 DEF AtPrompt, screen, remote, workspace
  <2> QED
    BY <1>1, <2>1, ArtifactsKept
<1>6. CASE BarrierAfter
  <2>1. UNCHANGED <<transport, output, shown, bash>> /\ pc["out"] = "after"
    BY <1>6 DEF BarrierAfter, screen, remote
  <2>2. Marked => bash' # "returning"
    BY <2>1 DEF ArtifactsInv
  <2> QED
    BY <1>6, <2>1, <2>2, SettledBarrier DEF BarrierAfter
<1>7. CASE HookAfter
  BY <1>7, SettledBarrier DEF HookAfter, screen
<1>8. CASE OutputEnds
  <2>1. output' = <<>> /\ UNCHANGED <<transport, shown, settled, artifacts, localArtifacts, bash>>
    BY <1>8 DEF OutputEnds, screen, remote, workspace
  <2> QED
    BY <2>1 DEF ArtifactsInv, PromptShowsArtifacts, Marked
<1>9. CASE HookReturns
  <2>1. /\ output' = Append(output, Printed("prompt")) /\ bash = "returning" /\ bash' = "reading"
        /\ UNCHANGED <<transport, artifacts, localArtifacts, shown, settled, pc>>
    BY <1>9 DEF HookReturns, screen, workspace, threads
  <2>2. ~Marked /\ (settled => localArtifacts >= artifacts)
    BY <2>1 DEF ArtifactsInv
  <2> QED
    BY <2>1, <2>2, AppendedArtifacts
<1>10. CASE Execute
  <2>1. /\ output' = Append(output, Printed("text")) /\ bash' = "running"
        /\ UNCHANGED <<transport, artifacts, localArtifacts, shown, settled, pc>>
    BY <1>10 DEF Execute, screen, workspace, threads
  <2> QED
    BY <2>1, AppendedArtifacts
<1> QED
  BY <1>2, <1>3, <1>4, <1>5, <1>6, <1>7, <1>8, <1>9, <1>10, ReadMarkerArtifacts, DisplayArtifacts,
     PrintPromptArtifacts DEF Next, InputGoroutine, OutputGoroutine, Hooks, Threads

\* Both barriers, along every interleaving: the inductive invariant is the typing, the five
\* places of a byte, and how far either end has come.
LEMMA BarrierInvariant == Spec => [](SavesInv /\ ArtifactsInv)
<1> DEFINE I == TypeInv /\ Unstarted /\ PlacesInv /\ WrittenInv /\ SavesInv /\ ArtifactsInv
<1>1. Init => I
  <2> SUFFICES ASSUME Init PROVE I
    OBVIOUS
  <2>1. TypeInv /\ PlacesInv
    BY InitTyped, InitPlaces
  <2>2. Unstarted /\ WrittenInv
    BY NothingInNothing DEF Init, Unstarted, WrittenInv
  <2>3. SavesInv
    BY DEF Init, SavesInv, HeldCommandsObserveSaves
  <2>4. ArtifactsInv
    BY DEF Init, ArtifactsInv, PromptShowsArtifacts
  <2> QED
    BY <2>1, <2>2, <2>3, <2>4
<1>2. I /\ [Next]_vars => I'
  BY NextTyped, UnstartedKept, NextPlaces, NextWritten, NextSaves, NextArtifacts
<1> QED
  BY <1>1, <1>2, PTL DEF Spec

\* A command whose Enter the proxy held for a barrier sees every file that was saved before
\* the Enter was typed, and a prompt behind a barrier that succeeded is shown when the Mac
\* has every file the command wrote (internal/shell/proxy.go:104-115, 332-378; over Mosh the
\* hooks of internal/agent/agent.go).
THEOREM BarriersKeepTheirPromise == Spec => []BarriersHold
<1>1. SavesInv /\ ArtifactsInv => BarriersHold
  BY DEF SavesInv, ArtifactsInv, BarriersHold
<1> QED
  BY <1>1, BarrierInvariant, PTL

-----------------------------------------------------------------------------
(* A user who types at a displayed prompt only.                            *)

PasteAt(i) == InPaste(All, i, FALSE)     \* byte i comes inside a bracketed paste
Submits(i) == typed[i].kind = "enter" /\ ~PasteAt(i)
Rising(s) == \A i, j \in DOMAIN s : i < j => s[i] < s[j]

\* Whose turn it is, as inputController tells it.
Away  == ~atPrompt /\ ~syncing     \* a program owns the terminal
After == ~atPrompt /\ syncing      \* the barrier after a command
At    == atPrompt /\ ~syncing      \* the user edits a line
Held  == atPrompt /\ syncing       \* the barrier before a command

\* Nothing is ever held or replayed, and all that was typed has been read except while the
\* user edits.
ControllerTurn ==
  /\ pending = <<>> /\ replay = <<>>
  /\ pc["in"] \in {"idle"} \cup Waits /\ pc["out"] \in {"idle", "after", "prompt", "done"}
  /\ After <=> pc["out"] \in {"after", "prompt"}
  /\ Held <=> pc["in"] \in Waits
  /\ ~At => taken = Len(typed) /\ ~PasteAt(taken + 1)
  /\ ~Away => paste = PasteAt(taken + 1)

\* An Enter that submits a line is decided before anything is typed behind it.
EnterTurn ==
  /\ \A i \in DOMAIN typed : Submits(i) =>
        \/ i \in released \cup refused
        \/ i = Len(typed) /\ ~prompted /\ output = <<>> /\ (Held \/ (At /\ taken < i))
  /\ Held => newline["in"] = Len(typed) /\ Len(typed) > 0 /\ Submits(Len(typed)) /\ output = <<>>
  /\ \A i \in released \cup refused : ~PasteAt(i)

\* One prompt at most is on its way, behind the output of the program that ended.
OutputTurn ==
  /\ prompted => At /\ output = <<>>
  /\ output # <<>> => taken = Len(typed)
  /\ \A i \in DOMAIN output : output[i].kind = "marker" =>
        Away /\ i + 1 = Len(output) /\ output[i + 1].kind = "prompt"
  /\ \A i \in DOMAIN output : output[i].kind = "prompt" =>
        i = Len(output) /\ (i > 1 => output[i - 1].kind = "marker") /\ (i = 1 => After \/ At)

\* readline's idea of the paste, at the first byte it has not read, is the terminal's.
InStep ==
  \E a \in 1..(taken + 1) :
    /\ insertion = PasteAt(a)
    /\ \A i \in DOMAIN tty : tty[i] >= a
    /\ \A d \in a..taken : typed[d].kind \in {"begin", "end"} => d \in Bytes(tty)

\* While bash does not read, the terminal is a program's; while it reads, the only Enter it
\* can take for the end of a line is the one that was released.
BashTurn ==
  /\ bash \in {"launching", "hook", "submitted", "running"} =>
       Away /\ tty = <<>> /\ \A i \in DOMAIN output : output[i].kind = "text"
  /\ bash = "submitted" => line \in released
  /\ bash # "returning"
  /\ bash = "reading" =>
       /\ Rising(tty) /\ InStep
       /\ \A i \in DOMAIN tty : Submits(tty[i]) =>
             i = Len(tty) /\ tty[i] \in released /\ Away /\ output = <<>>
  /\ \A r \in ran : r.enter \in released

Disciplined == transport \notin {"mosh", "refused"} /\ ~early
TurnInv == Disciplined => ControllerTurn /\ EnterTurn /\ OutputTurn /\ BashTurn /\ Rising(delivered)

Delimits(i) == typed[i].kind \in {"begin", "end"}

\* InPaste without its case distinction: the last delimiter begins a paste, or there is none
\* and the sequence started inside one.
LEMMA InPasteIs ==
  ASSUME NEW s, NEW i \in Int, NEW p \in BOOLEAN
  PROVE  InPaste(s, i, p) <=>
           \/ \E j \in 1..(i - 1) : /\ typed[s[j]].kind = "begin"
                                    /\ \A k \in 1..(i - 1) : Delimits(s[k]) => k <= j
           \/ p /\ \A k \in 1..(i - 1) : ~Delimits(s[k])
<1> DEFINE delimiters == {j \in 1..(i - 1) : typed[s[j]].kind \in {"begin", "end"}}
<1>1. CASE delimiters = {}
  <2>1. InPaste(s, i, p) = p
    BY <1>1 DEF InPaste
  <2>2. \A k \in 1..(i - 1) : ~Delimits(s[k]) /\ typed[s[k]].kind # "begin"
    BY <1>1 DEF Delimits
  <2> QED
    BY <2>1, <2>2
<1>2. CASE delimiters # {}
  <2>1. InPaste(s, i, p) <=> \E j \in delimiters : (\A k \in delimiters : k <= j) /\ typed[s[j]].kind = "begin"
    BY <1>2 DEF InPaste
  <2>2. ~\A k \in 1..(i - 1) : ~Delimits(s[k])
    BY <1>2 DEF Delimits
  <2> QED
    BY <2>1, <2>2 DEF Delimits
<1> QED
  BY <1>1, <1>2

\* The same for the bytes as they were typed.
LEMMA PasteAtIs ==
  ASSUME KeyboardOK, NEW i \in 1..(Len(typed) + 1)
  PROVE  /\ PasteAt(i) \in BOOLEAN
         /\ PasteAt(i) <=> \E j \in 1..(i - 1) : /\ typed[j].kind = "begin"
                                                 /\ \A k \in 1..(i - 1) : Delimits(k) => k <= j
<1>1. Len(typed) \in Nat /\ \A k \in 1..(i - 1) : All[k] = k
  BY DEF KeyboardOK, All
<1>2. InPaste(All, i, FALSE) <=>
        \E j \in 1..(i - 1) : /\ typed[All[j]].kind = "begin"
                              /\ \A k \in 1..(i - 1) : Delimits(All[k]) => k <= j
  <2>1. i \in Int
    BY <1>1
  <2>2. InPaste(All, i, FALSE) <=>
          \/ \E j \in 1..(i - 1) : /\ typed[All[j]].kind = "begin"
                                   /\ \A k \in 1..(i - 1) : Delimits(All[k]) => k <= j
          \/ FALSE /\ \A k \in 1..(i - 1) : ~Delimits(All[k])
    BY <2>1, InPasteIs
  <2> QED
    BY <2>2
<1>3. InPaste(All, i, FALSE) \in BOOLEAN
  BY PasteIsBoolean
<1> QED
  BY <1>1, <1>2, <1>3 DEF PasteAt

\* Whoever reads all delimiters between two bytes, in their order, and was in step at the
\* first, is in step at the second.
LEMMA StaysInStep ==
  ASSUME KeyboardOK, NEW s, Rising(s), NEW i \in Nat, 1..(i - 1) \subseteq DOMAIN s,
         NEW a \in 1..(Len(typed) + 1), NEW b \in a..(Len(typed) + 1),
         \A j \in 1..(i - 1) : s[j] \in a..(b - 1),
         \A d \in a..(b - 1) : Delimits(d) => \E j \in 1..(i - 1) : s[j] = d
  PROVE  InPaste(s, i, PasteAt(a)) = PasteAt(b)
<1>1. Len(typed) \in Nat /\ PasteAt(a) \in BOOLEAN /\ PasteAt(b) \in BOOLEAN
  BY PasteAtIs DEF KeyboardOK
<1>2. InPaste(s, i, PasteAt(a)) \in BOOLEAN
  BY <1>1, PasteIsBoolean
<1>5. InPaste(s, i, PasteAt(a)) <=>
        \/ \E j \in 1..(i - 1) : /\ typed[s[j]].kind = "begin"
                                 /\ \A k \in 1..(i - 1) : Delimits(s[k]) => k <= j
        \/ PasteAt(a) /\ \A k \in 1..(i - 1) : ~Delimits(s[k])
  BY <1>1, InPasteIs
<1>6. PasteAt(a) <=> \E j \in 1..(a - 1) : /\ typed[j].kind = "begin"
                                          /\ \A k \in 1..(a - 1) : Delimits(k) => k <= j
  BY PasteAtIs
<1>7. b \in 1..(Len(typed) + 1)
  BY <1>1
<1>8. PasteAt(b) <=> \E j \in 1..(b - 1) : /\ typed[j].kind = "begin"
                                          /\ \A k \in 1..(b - 1) : Delimits(k) => k <= j
  BY <1>7, PasteAtIs
<1>3. ASSUME InPaste(s, i, PasteAt(a)) PROVE PasteAt(b)
  <2>1. CASE \E j \in 1..(i - 1) : /\ typed[s[j]].kind = "begin"
                                   /\ \A k \in 1..(i - 1) : Delimits(s[k]) => k <= j
    <3>1. PICK j \in 1..(i - 1) : /\ typed[s[j]].kind = "begin"
                                  /\ \A k \in 1..(i - 1) : Delimits(s[k]) => k <= j
      BY <2>1
    <3>2. s[j] \in 1..(b - 1) /\ s[j] >= a
      BY <1>1
    <3>3. ASSUME NEW d \in 1..(b - 1), Delimits(d) PROVE d <= s[j]
      <4>1. CASE d < a
        BY <1>1, <3>2, <4>1
      <4>2. CASE d >= a
        <5>1. PICK k \in 1..(i - 1) : s[k] = d
          BY <3>3, <4>2
        <5>2. k <= j
          BY <3>1, <3>3, <5>1
        <5>3. CASE k = j
          BY <3>2, <5>1, <5>3
        <5>4. CASE k < j
          <6>1. k \in DOMAIN s /\ j \in DOMAIN s
            OBVIOUS
          <6>2. s[k] < s[j]
            BY <5>4, <6>1 DEF Rising
          <6>3. d < s[j]
            BY <5>1, <6>2
          <6> QED
            BY <1>1, <3>2, <6>3
        <5> QED
          BY <5>2, <5>3, <5>4
      <4> QED
        BY <4>1, <4>2
    <3> QED
      BY <1>8, <3>1, <3>2, <3>3
  <2>2. CASE PasteAt(a) /\ \A k \in 1..(i - 1) : ~Delimits(s[k])
    <3>1. PICK j \in 1..(a - 1) : /\ typed[j].kind = "begin"
                                  /\ \A k \in 1..(a - 1) : Delimits(k) => k <= j
      BY <1>6, <2>2
    <3>2. \A d \in a..(b - 1) : ~Delimits(d)
      BY <2>2
    <3>3. j \in 1..(b - 1) /\ \A k \in 1..(b - 1) : Delimits(k) => k <= j
      BY <1>1, <3>1, <3>2
    <3> QED
      BY <1>8, <3>1, <3>3
  <2> QED
    BY <1>3, <1>5, <2>1, <2>2
<1>4. ASSUME PasteAt(b) PROVE InPaste(s, i, PasteAt(a))
  <2>1. PICK m \in 1..(b - 1) : /\ typed[m].kind = "begin"
                                /\ \A k \in 1..(b - 1) : Delimits(k) => k <= m
    BY <1>4, <1>8
  <2>2. CASE m >= a
    <3>1. PICK j \in 1..(i - 1) : s[j] = m
      BY <2>1, <2>2 DEF Delimits
    <3>2. ASSUME NEW k \in 1..(i - 1), Delimits(s[k]) PROVE k <= j
      <4>1. s[k] <= m
        BY <2>1, <3>2
      <4>2. CASE j < k
        <5>1. k \in DOMAIN s /\ j \in DOMAIN s
          OBVIOUS
        <5>2. m < s[k]
          BY <3>1, <4>2, <5>1 DEF Rising
        <5>3. m \in Nat /\ s[k] \in Int
          BY <2>1, <3>2, <1>1
        <5> QED
          BY <4>1, <5>2, <5>3
      <4> QED
        BY <4>2
    <3> QED
      BY <1>5, <2>1, <3>1, <3>2
  <2>3. CASE m < a
    <3>1. \A k \in 1..(i - 1) : ~Delimits(s[k])
      BY <2>1, <2>3
    <3>2. PasteAt(a)
      BY <1>6, <2>1, <2>3
    <3> QED
      BY <1>5, <3>1, <3>2
  <2> QED
    BY <2>2, <2>3
<1> QED
  BY <1>1, <1>2, <1>3, <1>4

\* A byte that does not delimit a paste leaves it as it was.
LEMMA PlainByte ==
  ASSUME KeyboardOK, NEW i \in 1..Len(typed), ~Delimits(i)
  PROVE  PasteAt(i + 1) = PasteAt(i)
<1>1. Len(typed) \in Nat
  BY DEF KeyboardOK
<1>2. i \in 1..(Len(typed) + 1) /\ i + 1 \in 1..(Len(typed) + 1) /\ (i + 1) - 1 = i
  BY <1>1
<1>3. 1..i = 1..(i - 1) \cup {i}
  BY <1>1
<1>4. typed[i].kind # "begin"
  BY DEF Delimits
<1>5. PasteAt(i + 1) <=> \E j \in 1..i : typed[j].kind = "begin" /\ \A k \in 1..i : Delimits(k) => k <= j
  BY <1>2, PasteAtIs
<1>6. PasteAt(i) <=> \E j \in 1..(i - 1) : typed[j].kind = "begin" /\ \A k \in 1..(i - 1) : Delimits(k) => k <= j
  BY <1>2, PasteAtIs
<1>7. PasteAt(i) <=> PasteAt(i + 1)
  BY <1>3, <1>4, <1>5, <1>6
<1> QED
  BY <1>2, <1>7, PasteAtIs

-----------------------------------------------------------------------------
(* Whose turn it is stays clear.                                           *)

TurnParts == ControllerTurn /\ EnterTurn /\ OutputTurn /\ BashTurn /\ Rising(delivered)

\* All that is known of a step of a disciplined shell.
Context == TypeInv /\ Unstarted /\ PlacesInv /\ WrittenInv /\ TurnParts

LEMMA PasteAtKept == typed' = typed => \A i : PasteAt(i)' = PasteAt(i) /\ (Submits(i)' <=> Submits(i))
BY DEF PasteAt, Submits, InPaste, All

LEMMA ControllerKept ==
  ASSUME ControllerTurn, UNCHANGED <<typed, taken, controller, pc, replay>>
  PROVE  ControllerTurn'
BY PasteAtKept DEF ControllerTurn, controller, After, Held, At, Away

LEMMA EnterKept ==
  ASSUME EnterTurn, UNCHANGED <<typed, taken, atPrompt, syncing, released, refused>>,
         Held => newline'["in"] = newline["in"], output = <<>> => output' = <<>>, prompted' => prompted,
         prompted' \in BOOLEAN, prompted \in BOOLEAN
  PROVE  EnterTurn'
<1>1. /\ \A i : PasteAt(i)' = PasteAt(i) /\ (Submits(i)' <=> Submits(i))
      /\ Held' = Held /\ At' = At
  BY PasteAtKept DEF Held, At
<1> QED
  BY <1>1 DEF EnterTurn

LEMMA OutputKept ==
  ASSUME OutputTurn, UNCHANGED <<typed, taken, atPrompt, syncing, output>>, prompted' => prompted
  PROVE  OutputTurn'
BY DEF OutputTurn, At, Away, After

LEMMA BashKept ==
  ASSUME BashTurn,
         UNCHANGED <<typed, taken, atPrompt, syncing, output, tty, bash, insertion, line, released, ran>>
  PROVE  BashTurn'
<1>1. \A i : PasteAt(i)' = PasteAt(i) /\ (Submits(i)' <=> Submits(i))
  BY PasteAtKept
<1>2. InStep' <=> InStep
  BY <1>1 DEF InStep
<1>3. Away' <=> Away
  BY DEF Away
<1> QED
  BY <1>1, <1>2, <1>3 DEF BashTurn, Rising

LEMMA RisingKept == delivered' = delivered /\ Rising(delivered) => Rising(delivered)'
BY DEF Rising

\* Steps of the Mac, of programs and of a choice that leaves everything else alone.
LEMMA AsideTurn ==
  Context /\ (Select \/ Save \/ ProgramWrites \/ UNCHANGED vars) /\ Disciplined' => TurnParts'
<1> SUFFICES ASSUME Context, Select \/ Save \/ ProgramWrites \/ UNCHANGED vars, Disciplined' PROVE TurnParts'
  OBVIOUS
<1>1. /\ UNCHANGED <<typed, taken, controller, pc, replay, newline, released, refused, delivered, ran>>
      /\ UNCHANGED <<output, prompted, tty, bash, insertion, line>>
  BY DEF Select, Save, ProgramWrites, vars, Disciplined, threads, remote, history, screen
<1> QED
  BY <1>1, ControllerKept, EnterKept, OutputKept, BashKept, RisingKept
     DEF Context, TurnParts, controller, TypeInv, ScreenOK

\* bash between two lines, and its end.
LEMMA BetweenLinesTurn ==
  Context /\ (Launch \/ ProgramReads \/ ProgramEnds \/ HookBefore \/ Disconnect) => TurnParts'
<1> SUFFICES ASSUME Context, Launch \/ ProgramReads \/ ProgramEnds \/ HookBefore \/ Disconnect PROVE TurnParts'
  OBVIOUS
<1>1. /\ UNCHANGED <<typed, taken, controller, pc, replay, newline, released, refused, delivered, ran>>
      /\ UNCHANGED <<output, prompted, insertion, line>>
  BY DEF Launch, ProgramReads, ProgramEnds, HookBefore, Disconnect, threads, history, screen
<1>2. ControllerTurn' /\ EnterTurn' /\ OutputTurn' /\ Rising(delivered)'
  BY <1>1, ControllerKept, EnterKept, OutputKept, RisingKept
     DEF Context, TurnParts, controller, TypeInv, ScreenOK
<1>3. /\ bash' # "reading" /\ bash' # "returning"
      /\ bash' \in {"launching", "hook", "submitted", "running"} =>
           bash \in {"launching", "hook", "submitted", "running"} /\ tty' = tty
      /\ bash' = "submitted" => bash = "submitted"
  BY DEF Launch, ProgramReads, ProgramEnds, HookBefore, Trapped, Disconnect, Context, TurnParts, BashTurn
<1>4. BashTurn'
  BY <1>1, <1>3 DEF Context, TurnParts, BashTurn, Away, controller
<1> QED
  BY <1>2, <1>4 DEF TurnParts

\* Over SSH bash has no hook that waits.
LEMMA NoHooks == Context /\ Disciplined => ~HookAfter /\ ~HookReturns
BY DEF Context, Disciplined, Unstarted, TurnParts, BashTurn, HookAfter, HookReturns, Marked, TypeInv, SetupOK

LEMMA RisingConcat ==
  ASSUME NEW S \in SUBSET Int, NEW s \in Seq(S), NEW new \in Seq(S), Rising(s), Rising(new),
         \A a \in Bytes(s), b \in Bytes(new) : a < b
  PROVE  Rising(s \o new)
<1> DEFINE c == s \o new
<1>1. /\ Len(s) \in Nat /\ Len(new) \in Nat /\ DOMAIN s = 1..Len(s) /\ DOMAIN new = 1..Len(new)
      /\ DOMAIN c = 1..(Len(s) + Len(new))
      /\ \A i \in DOMAIN c : c[i] = IF i <= Len(s) THEN s[i] ELSE new[i - Len(s)]
  BY LenProperties, ConcatProperties
<1> HIDE DEF c
<1> SUFFICES ASSUME NEW i \in DOMAIN c, NEW j \in DOMAIN c, i < j PROVE c[i] < c[j]
  BY DEF c, Rising
<1>2. CASE j <= Len(s)
  BY <1>1, <1>2 DEF Rising
<1>3. CASE i <= Len(s) /\ j > Len(s)
  <2>1. i \in DOMAIN s /\ j - Len(s) \in DOMAIN new /\ c[i] = s[i] /\ c[j] = new[j - Len(s)]
    BY <1>1, <1>3
  <2> QED
    BY <2>1 DEF Bytes
<1>4. CASE i > Len(s)
  <2>1. /\ i - Len(s) \in DOMAIN new /\ j - Len(s) \in DOMAIN new /\ i - Len(s) < j - Len(s)
        /\ c[i] = new[i - Len(s)] /\ c[j] = new[j - Len(s)]
    BY <1>1, <1>4
  <2> QED
    BY <2>1 DEF Rising
<1> QED
  BY <1>1, <1>2, <1>3, <1>4

\* What bash has not read comes from what was written, which was read from the keyboard.
LEMMA TtyBelow ==
  ASSUME Context
  PROVE  /\ \A b \in Bytes(delivered) : b \in 1..taken
         /\ \A i \in DOMAIN tty : tty[i] \in Bytes(delivered) /\ tty[i] \in 1..taken
         /\ \A i \in released : i \in 1..taken
BY DEF Context, PlacesInv, WrittenInv, Bytes

LEMMA BarrierBeforeTurn ==
  ASSUME NEW t \in Threads
  PROVE  Context /\ BarrierBefore(t) => TurnParts'
<1> SUFFICES ASSUME Context, BarrierBefore(t) PROVE TurnParts'
  OBVIOUS
<1>1. t = "in" /\ pc["in"] = "barrier"
  BY DEF BarrierBefore, Context, TurnParts, ControllerTurn, Threads
<1>2. /\ UNCHANGED <<typed, taken, controller, replay, newline, released, refused, delivered, ran>>
      /\ UNCHANGED <<output, prompted, tty, bash, insertion, line>>
  BY DEF BarrierBefore, remote, history, screen
<1>3. pc'["in"] \in {"release", "refuse"} /\ pc'["out"] = pc["out"]
  BY <1>1 DEF BarrierBefore, Context, TypeInv, ThreadsOK, Threads
<1>4. ControllerTurn'
  BY <1>1, <1>2, <1>3, PasteAtKept
     DEF Context, TurnParts, ControllerTurn, controller, After, Held, At, Away, Waits
<1> QED
  BY <1>2, <1>4, EnterKept, OutputKept, BashKept, RisingKept
     DEF Context, TurnParts, controller, TypeInv, ScreenOK

\* The goroutine with an Enter in hand is the keyboard's, and that Enter is the last byte.
LEMMA HeldEnter ==
  ASSUME Context, NEW t \in Threads, pc[t] \in Waits
  PROVE  /\ t = "in" /\ Held
         /\ taken = Len(typed) /\ newline[t] = taken /\ taken \in 1..Len(typed)
         /\ Submits(taken) /\ ~PasteAt(taken) /\ ~PasteAt(taken + 1) /\ ~Delimits(taken)
         /\ output = <<>> /\ ~prompted /\ pc["out"] \in {"idle", "done"} /\ paste = PasteAt(taken + 1)
<1>1. t = "in"
  BY DEF Context, TurnParts, ControllerTurn, Threads, Waits
<1>2. Held
  BY <1>1 DEF Context, TurnParts, ControllerTurn
<1>3. /\ taken = Len(typed) /\ newline[t] = taken /\ Len(typed) > 0 /\ Submits(taken) /\ output = <<>>
      /\ ~PasteAt(taken + 1) /\ paste = PasteAt(taken + 1)
  BY <1>1, <1>2 DEF Context, TurnParts, ControllerTurn, EnterTurn, Held, At, Away
<1>4. taken \in 1..Len(typed)
  BY <1>3 DEF Context, TypeInv, KeyboardOK
<1>5. ~Delimits(taken) /\ ~PasteAt(taken)
  BY <1>3 DEF Submits, Delimits
<1>6. ~prompted /\ pc["out"] \in {"idle", "done"}
  BY <1>2 DEF Context, TurnParts, ControllerTurn, OutputTurn, Held, At, After
<1> QED
  BY <1>1, <1>2, <1>3, <1>4, <1>5, <1>6

LEMMA RefuseTurn ==
  ASSUME NEW t \in Threads
  PROVE  Context /\ Refuse(t) => TurnParts'
<1> SUFFICES ASSUME Context, Refuse(t) PROVE TurnParts'
  OBVIOUS
<1>1. pc[t] = "refuse" /\ pc[t] \in Waits
  BY DEF Refuse, Waits
<1>2. /\ t = "in" /\ Held
      /\ taken = Len(typed) /\ newline[t] = taken /\ taken \in 1..Len(typed)
      /\ Submits(taken) /\ ~PasteAt(taken) /\ ~PasteAt(taken + 1) /\ ~Delimits(taken)
      /\ output = <<>> /\ ~prompted /\ pc["out"] \in {"idle", "done"} /\ paste = PasteAt(taken + 1)
  BY <1>1, HeldEnter
<1>3. /\ UNCHANGED <<typed, taken, pending, paste, replay, released, delivered, ran>>
      /\ UNCHANGED <<output, tty, bash, insertion, line>>
      /\ atPrompt' = TRUE /\ syncing' = FALSE /\ prompted' = TRUE
      /\ refused' = refused \cup {taken}
  BY <1>2 DEF Refuse, remote
<1>4. pc'["in"] = "idle" /\ pc'["out"] = pc["out"]
  BY <1>2 DEF Refuse, Context, TypeInv, ThreadsOK, Threads
<1>5. \A i : PasteAt(i)' = PasteAt(i) /\ (Submits(i)' <=> Submits(i))
  BY <1>3, PasteAtKept
<1>6. ControllerTurn'
  BY <1>2, <1>3, <1>4, <1>5 DEF Context, TurnParts, ControllerTurn, After, Held, At, Away, Waits
<1>7. EnterTurn'
  BY <1>2, <1>3, <1>5 DEF Context, TurnParts, EnterTurn, Held, At
<1>8. OutputTurn'
  BY <1>2, <1>3 DEF OutputTurn, At
<1>9. BashTurn'
  <2>1. bash \in {"reading", "gone"}
    BY <1>2 DEF Context, TurnParts, BashTurn, Held, Away, TypeInv, RemoteOK
  <2>2. bash = "reading" => \A i \in DOMAIN tty : ~Submits(tty[i])
    BY <1>2 DEF Context, TurnParts, BashTurn, Held, Away
  <2>3. InStep' <=> InStep
    BY <1>3, <1>5 DEF InStep
  <2> QED
    BY <1>3, <1>5, <2>1, <2>2, <2>3 DEF Context, TurnParts, BashTurn, Rising
<1> QED
  BY <1>3, <1>6, <1>7, <1>8, <1>9, RisingKept DEF Context, TurnParts

LEMMA ReleaseTurn ==
  ASSUME NEW t \in Threads
  PROVE  Context /\ Release(t) => TurnParts'
<1> SUFFICES ASSUME Context, Release(t) PROVE TurnParts'
  OBVIOUS
<1>1. pc[t] = "release" /\ pc[t] \in Waits
  BY DEF Release, Waits
<1>2. /\ t = "in" /\ Held
      /\ taken = Len(typed) /\ newline[t] = taken /\ taken \in 1..Len(typed)
      /\ Submits(taken) /\ ~PasteAt(taken) /\ ~PasteAt(taken + 1) /\ ~Delimits(taken)
      /\ output = <<>> /\ ~prompted /\ pc["out"] \in {"idle", "done"} /\ paste = PasteAt(taken + 1)
  BY <1>1, HeldEnter
<1>3. /\ UNCHANGED <<typed, taken, pending, paste, replay, refused, ran, prompted>>
      /\ UNCHANGED <<output, bash, insertion, line>>
      /\ atPrompt' = FALSE /\ syncing' = FALSE
      /\ released' = released \cup {taken}
      /\ tty' = tty \o <<taken>> /\ delivered' = delivered \o <<taken>>
  BY <1>2 DEF Release, Write, screen
<1>4. pc'["in"] = "idle" /\ pc'["out"] = pc["out"]
  BY <1>2 DEF Release, Context, TypeInv, ThreadsOK, Threads
<1>5. \A i : PasteAt(i)' = PasteAt(i) /\ (Submits(i)' <=> Submits(i))
  BY <1>3, PasteAtKept
<1>6. ControllerTurn'
  BY <1>2, <1>3, <1>4, <1>5 DEF Context, TurnParts, ControllerTurn, After, Held, At, Away, Waits
<1>7. EnterTurn'
  BY <1>2, <1>3, <1>5 DEF Context, TurnParts, EnterTurn, Held, At
<1>8. OutputTurn'
  BY <1>2, <1>3 DEF OutputTurn, At
<1>9. /\ taken \in Positions /\ Positions \subseteq Int
      /\ \A b \in Bytes(delivered) : b < taken
  <2>1. taken \in Waiting
    BY <1>1, <1>2 DEF Waiting, Context, TypeInv, ThreadsOK
  <2>2. taken \notin Bytes(delivered)
    BY <2>1 DEF Context, PlacesInv, Apart
  <2>3. taken \in Positions
    BY <1>2 DEF Context, TypeInv, ThreadsOK, Release, Waits, NoLine
  <2> QED
    BY <2>2, <2>3, TtyBelow DEF Positions
<1>10. PICK e \in Seq(Positions) : e = <<taken>>
  <2>1. <<taken>> \in Seq(Positions)
    BY <1>9
  <2> QED
    BY <2>1
<1>11. Bytes(e) = {taken} /\ Rising(e) /\ Len(e) = 1 /\ e[1] = taken
  <2>1. Bytes(<<taken>>) = {taken} /\ Rising(<<taken>>)
    BY DEF Bytes, Rising
  <2> QED
    BY <1>10, <2>1
<1>12. tty \in Seq(Positions) /\ delivered \in Seq(Positions)
  BY DEF Context, TypeInv, RemoteOK, HistoryOK
<1>13. Rising(delivered)'
  <2>1. Rising(delivered \o e)
    BY <1>9, <1>11, <1>12, RisingConcat DEF Context, TurnParts
  <2> QED
    BY <1>3, <1>10, <2>1 DEF Rising
<1>14. BashTurn'
  <2>1. bash \in {"reading", "gone"}
    BY <1>2 DEF Context, TurnParts, BashTurn, Held, Away, TypeInv, RemoteOK
  <2>2. /\ tty' = tty \o e /\ Len(tty') = Len(tty) + 1 /\ DOMAIN tty' = 1..(Len(tty) + 1)
        /\ DOMAIN tty = 1..Len(tty) /\ Len(tty) \in Nat
        /\ tty'[Len(tty) + 1] = taken /\ \A i \in DOMAIN tty : tty'[i] = tty[i]
        /\ Bytes(tty') = Bytes(tty) \cup {taken}
    <3>1. tty' = tty \o e
      BY <1>3, <1>10
    <3>2. /\ Len(tty \o e) = Len(tty) + 1 /\ tty \o e \in Seq(Positions)
          /\ \A i \in 1..(Len(tty) + 1) : (tty \o e)[i] = IF i <= Len(tty) THEN tty[i] ELSE e[i - Len(tty)]
      <4>1. /\ Len(tty \o e) = Len(tty) + Len(e) /\ tty \o e \in Seq(Positions)
            /\ \A i \in 1..Len(tty) + Len(e) : (tty \o e)[i] = IF i <= Len(tty) THEN tty[i] ELSE e[i - Len(tty)]
        BY <1>12, ConcatProperties
      <4> QED
        BY <1>11, <4>1
    <3>3. Bytes(tty \o e) = Bytes(tty) \cup {taken}
      BY <1>11, <1>12, BytesOfConcat
    <3>4. DOMAIN tty = 1..Len(tty) /\ Len(tty) \in Nat /\ DOMAIN (tty \o e) = 1..(Len(tty) + 1)
      BY <1>12, <3>2, LenProperties
    <3>5. (tty \o e)[Len(tty) + 1] = taken /\ \A i \in DOMAIN tty : (tty \o e)[i] = tty[i]
      BY <1>11, <3>2, <3>4
    <3> QED
      BY <3>1, <3>2, <3>3, <3>4, <3>5
  <2>3. ASSUME bash = "reading" PROVE Rising(tty') /\ \A i \in DOMAIN tty : ~Submits(tty[i])
    <3>1. Rising(tty) /\ \A i \in DOMAIN tty : ~Submits(tty[i])
      BY <1>2, <2>3 DEF Context, TurnParts, BashTurn, Held, Away
    <3>2. \A b \in Bytes(tty) : b < taken
      BY <1>9 DEF Context, WrittenInv
    <3> QED
      BY <1>9, <1>11, <1>12, <2>2, <3>1, <3>2, RisingConcat
  <2>4. ASSUME bash = "reading" PROVE InStep'
    <3>1. PICK a \in 1..(taken + 1) :
             /\ insertion = PasteAt(a)
             /\ \A i \in DOMAIN tty : tty[i] >= a
             /\ \A d \in a..taken : typed[d].kind \in {"begin", "end"} => d \in Bytes(tty)
      BY <2>4 DEF Context, TurnParts, BashTurn, InStep
    <3>2. CASE a <= taken
      <4>1. \A i \in DOMAIN tty' : tty'[i] >= a
        BY <2>2, <3>1, <3>2
      <4> QED
        BY <1>3, <1>5, <2>2, <3>1, <4>1 DEF InStep
    <3>3. CASE a = taken + 1
      <4>1. tty = <<>>
        <5>1. \A i \in DOMAIN tty : FALSE
          BY <1>2, <3>1, <3>3, TtyBelow
        <5> QED
          BY <1>12, <2>2, <5>1, EmptySeq
      <4>2. insertion = PasteAt(taken)
        BY <1>2, <3>1, <3>3, PlainByte DEF Context, TypeInv
      <4>3. \A i \in DOMAIN tty' : tty'[i] >= taken
        BY <1>2, <2>2, <4>1
      <4>4. \A d \in taken..taken : d \in Bytes(tty')
        BY <1>2, <2>2
      <4>5. taken \in 1..(taken + 1)
        BY <1>2
      <4> QED
        BY <1>3, <1>5, <4>2, <4>3, <4>4, <4>5 DEF InStep
    <3> QED
      BY <1>2, <3>1, <3>2, <3>3
  <2>5. ASSUME bash = "reading", NEW i \in DOMAIN tty', Submits(tty[i])'
        PROVE  i = Len(tty') /\ tty'[i] \in released' /\ Away' /\ output' = <<>>
    <3>1. Submits(tty'[i])
      BY <1>5, <2>5
    <3>2. i = Len(tty) + 1
      BY <2>2, <2>3, <2>5, <3>1
    <3> QED
      BY <1>2, <1>3, <2>2, <3>2 DEF Away
  <2> QED
    BY <1>3, <2>1, <2>3, <2>4, <2>5 DEF Context, TurnParts, BashTurn, Rising
<1> QED
  BY <1>6, <1>7, <1>8, <1>13, <1>14 DEF TurnParts

LEMMA ReadMarkerTurn == Context /\ ReadMarker => TurnParts'
<1> SUFFICES ASSUME Context, ReadMarker PROVE TurnParts'
  OBVIOUS
<1>1. /\ UNCHANGED <<typed, taken, pending, replay, newline, released, refused, delivered, ran, prompted>>
      /\ UNCHANGED <<tty, bash, insertion, line>>
      /\ atPrompt' = FALSE /\ syncing' = TRUE /\ paste' = FALSE
      /\ output # <<>> /\ output' = Tail(output) /\ Head(output).kind = "marker" /\ pc["out"] = "idle"
  BY DEF ReadMarker, remote, history, screen
<1>2. /\ DOMAIN output = 1..Len(output) /\ Len(output) \in Nat /\ 1 \in DOMAIN output
      /\ DOMAIN output' = 1..(Len(output) - 1)
      /\ \A i \in DOMAIN output' : output'[i] = output[i + 1]
      /\ Head(output) = output[1]
  BY <1>1, RestOfOutput DEF Context
<1>3. Away /\ Len(output) = 2 /\ output[2].kind = "prompt" /\ taken = Len(typed) /\ ~PasteAt(taken + 1)
  <2>1. Away /\ 1 + 1 = Len(output) /\ output[1 + 1].kind = "prompt"
    BY <1>1, <1>2 DEF Context, TurnParts, OutputTurn
  <2>2. taken = Len(typed) /\ ~PasteAt(taken + 1)
    BY <2>1 DEF Context, TurnParts, ControllerTurn, Away, At
  <2> QED
    BY <2>1, <2>2
<1>4. DOMAIN output' = {1} /\ output'[1].kind = "prompt" /\ Len(output') = 1 /\ output' # <<>>
  <2>1. Len(output') = Len(output) - 1
    BY <1>1, HeadTailProperties DEF Context, TypeInv, ScreenOK
  <2> QED
    BY SMTT(60), <1>2, <1>3, <2>1, NothingInNothing DEF Bytes
<1>5. pc'["in"] = pc["in"] /\ pc'["out"] = "after"
  BY DEF ReadMarker, Context, TypeInv, ThreadsOK, Threads
<1>6. \A i : PasteAt(i)' = PasteAt(i) /\ (Submits(i)' <=> Submits(i))
  BY <1>1, PasteAtKept
<1>7. ControllerTurn'
  <2>1. PasteAt(taken + 1) \in BOOLEAN
    BY <1>3, PasteAtIs DEF Context, TypeInv, KeyboardOK
  <2> QED
    BY <1>1, <1>3, <1>5, <1>6, <2>1 DEF Context, TurnParts, ControllerTurn, After, Held, At, Away, Waits
<1>8. EnterTurn'
  BY <1>1, <1>3, <1>6 DEF Context, TurnParts, EnterTurn, Held, At, Away
<1>9. OutputTurn'
  BY <1>1, <1>3, <1>4 DEF Context, TurnParts, OutputTurn, At, Away, After
<1>10. BashTurn'
  <2>1. bash \in {"reading", "gone"}
    BY <1>1, <1>2 DEF Context, TurnParts, BashTurn, TypeInv, RemoteOK
  <2>2. bash = "reading" => \A i \in DOMAIN tty : ~Submits(tty[i])
    BY <1>1 DEF Context, TurnParts, BashTurn
  <2>3. InStep' <=> InStep
    BY <1>1, <1>6 DEF InStep
  <2> QED
    BY <1>1, <1>6, <2>1, <2>2, <2>3 DEF Context, TurnParts, BashTurn, Rising
<1> QED
  BY <1>1, <1>7, <1>8, <1>9, <1>10, RisingKept DEF Context, TurnParts

LEMMA BarrierAfterTurn == Context /\ BarrierAfter => TurnParts'
<1> SUFFICES ASSUME Context, BarrierAfter PROVE TurnParts'
  OBVIOUS
<1>1. /\ UNCHANGED <<typed, taken, controller, replay, newline, released, refused, delivered, ran>>
      /\ UNCHANGED <<output, prompted, tty, bash, insertion, line>> /\ pc["out"] = "after"
  BY DEF BarrierAfter, remote, history, screen
<1>2. pc'["in"] = pc["in"] /\ pc'["out"] = "prompt"
  BY DEF BarrierAfter, Context, TypeInv, ThreadsOK, Threads
<1>3. ControllerTurn'
  BY <1>1, <1>2, PasteAtKept DEF Context, TurnParts, ControllerTurn, controller, After, Held, At, Away, Waits
<1> QED
  BY <1>1, <1>3, EnterKept, OutputKept, BashKept, RisingKept
     DEF Context, TurnParts, controller, TypeInv, ScreenOK

LEMMA AtPromptTurn == Context /\ AtPrompt => TurnParts'
<1> SUFFICES ASSUME Context, AtPrompt PROVE TurnParts'
  OBVIOUS
<1>1. /\ UNCHANGED <<typed, taken, paste, newline, released, refused, delivered, ran, prompted>>
      /\ UNCHANGED <<output, tty, bash, insertion, line>>
      /\ atPrompt' = TRUE /\ syncing' = FALSE /\ pc["out"] = "prompt"
      /\ pending = <<>> /\ pending' = <<>> /\ replay' = <<>>
  BY DEF AtPrompt, remote, history, screen, Context, TurnParts, ControllerTurn
<1>2. After /\ taken = Len(typed) /\ ~PasteAt(taken + 1) /\ paste = PasteAt(taken + 1)
  BY <1>1 DEF Context, TurnParts, ControllerTurn, After, At, Away
<1>3. pc'["in"] = pc["in"] /\ pc'["out"] = "idle"
  BY <1>1 DEF AtPrompt, Context, TypeInv, ThreadsOK, Threads
<1>4. \A i : PasteAt(i)' = PasteAt(i) /\ (Submits(i)' <=> Submits(i))
  BY <1>1, PasteAtKept
<1>5. ControllerTurn'
  BY <1>1, <1>2, <1>3, <1>4 DEF Context, TurnParts, ControllerTurn, After, Held, At, Away, Waits
<1>6. EnterTurn'
  BY <1>1, <1>2, <1>4 DEF Context, TurnParts, EnterTurn, Held, At, After
<1>7. OutputTurn'
  BY <1>1, <1>2 DEF Context, TurnParts, OutputTurn, At, Away, After
<1>8. BashTurn'
  <2>1. bash \in {"reading", "gone"}
    BY <1>2 DEF Context, TurnParts, BashTurn, After, Away, TypeInv, RemoteOK
  <2>2. bash = "reading" => \A i \in DOMAIN tty : ~Submits(tty[i])
    BY <1>2 DEF Context, TurnParts, BashTurn, After, Away
  <2>3. InStep' <=> InStep
    BY <1>1, <1>4 DEF InStep
  <2> QED
    BY <1>1, <1>4, <2>1, <2>2, <2>3 DEF Context, TurnParts, BashTurn, Rising
<1> QED
  BY <1>1, <1>5, <1>6, <1>7, <1>8, RisingKept DEF Context, TurnParts

LEMMA DisplayTurn == Context /\ Display => TurnParts'
<1> SUFFICES ASSUME Context, Display PROVE TurnParts'
  OBVIOUS
<1>1. /\ UNCHANGED <<typed, taken, controller, pc, replay, newline, released, refused, delivered, ran>>
      /\ UNCHANGED <<tty, bash, insertion, line>>
      /\ output # <<>> /\ output' = Tail(output) /\ Head(output).kind # "marker" /\ pc["out"] = "idle"
      /\ prompted' = (Head(output).kind = "prompt")
  BY DEF Display, remote, history, threads
<1>2. /\ DOMAIN output = 1..Len(output) /\ Len(output) \in Nat /\ 1 \in DOMAIN output
      /\ DOMAIN output' = 1..(Len(output) - 1) /\ Len(output') = Len(output) - 1
      /\ \A i \in DOMAIN output' : i + 1 \in DOMAIN output /\ output'[i] = output[i + 1]
      /\ Head(output) = output[1]
  BY <1>1, RestOfOutput, HeadTailProperties DEF Context, TypeInv, ScreenOK
<1>3. ControllerTurn'
  BY <1>1, ControllerKept DEF Context, TurnParts
<1>4. \A i : PasteAt(i)' = PasteAt(i) /\ (Submits(i)' <=> Submits(i))
  BY <1>1, PasteAtKept
<1>5. Away' = Away /\ At' = At /\ After' = After /\ Held' = Held
  BY <1>1 DEF Away, At, After, Held, controller
<1>6. EnterTurn'
  BY <1>1, <1>4, <1>5 DEF Context, TurnParts, EnterTurn
<1>7. ASSUME Head(output).kind = "prompt" PROVE At /\ output' = <<>>
  <2>1. Len(output) = 1 /\ (After \/ At)
    BY <1>2, <1>7 DEF Context, TurnParts, OutputTurn
  <2>2. At
    BY <1>1, <2>1 DEF Context, TurnParts, ControllerTurn
  <2>3. output' = <<>>
    BY <1>1, <1>2, <2>1, TailTyped, EmptySeq DEF Context, TypeInv, ScreenOK
  <2> QED
    BY <2>2, <2>3
<1>8. OutputTurn'
  <2>1. prompted' => At' /\ output' = <<>>
    BY <1>1, <1>5, <1>7
  <2>2. taken' = Len(typed')
    BY <1>1 DEF Context, TurnParts, OutputTurn
  <2>3. ASSUME NEW i \in DOMAIN output', output'[i].kind = "marker"
        PROVE  Away /\ i + 1 = Len(output') /\ output'[i + 1].kind = "prompt"
    <3>1. /\ i + 1 \in DOMAIN output /\ output[i + 1].kind = "marker"
          /\ (i + 1) + 1 = Len(output) /\ output[(i + 1) + 1].kind = "prompt" /\ Away
      BY <1>2, <2>3 DEF Context, TurnParts, OutputTurn
    <3>2. i + 1 = Len(output') /\ i + 1 \in DOMAIN output' /\ output'[i + 1] = output[(i + 1) + 1]
      BY <1>2, <3>1
    <3> QED
      BY <3>1, <3>2
  <2>4. ASSUME NEW i \in DOMAIN output', output'[i].kind = "prompt"
        PROVE  i = Len(output') /\ i > 1 /\ output'[i - 1].kind = "marker"
    <3>1. /\ i + 1 \in DOMAIN output /\ output[i + 1].kind = "prompt" /\ i + 1 = Len(output)
          /\ output[(i + 1) - 1].kind = "marker" /\ (i + 1) - 1 = i
      BY <1>2, <2>4 DEF Context, TurnParts, OutputTurn
    <3>2. i # 1
      BY <1>1, <1>2, <3>1
    <3>3. i > 1 /\ i - 1 \in DOMAIN output' /\ (i - 1) + 1 = i /\ i = Len(output')
      BY <1>2, <3>1, <3>2
    <3>4. output'[i - 1] = output[i]
      BY <1>2, <3>3
    <3> QED
      BY <3>1, <3>3, <3>4
  <2>5. \A i \in DOMAIN output' : i > 1 => i # 1
    BY <1>2
  <2> QED
    BY <1>5, <2>1, <2>2, <2>3, <2>4, <2>5 DEF OutputTurn
<1>9. BashTurn'
  <2>1. bash = "reading" => \A i \in DOMAIN tty : ~Submits(tty[i])
    BY <1>1 DEF Context, TurnParts, BashTurn
  <2>2. InStep' <=> InStep
    BY <1>1, <1>4 DEF InStep
  <2>3. bash \in {"launching", "hook", "submitted", "running"} =>
          \A i \in DOMAIN output' : output'[i].kind = "text"
    BY <1>2 DEF Context, TurnParts, BashTurn
  <2> QED
    BY <1>1, <1>4, <1>5, <2>1, <2>2, <2>3 DEF Context, TurnParts, BashTurn, Rising
<1> QED
  BY <1>1, <1>3, <1>6, <1>8, <1>9, RisingKept DEF Context, TurnParts

LEMMA OutputEndsTurn == Context /\ OutputEnds => TurnParts'
<1> SUFFICES ASSUME Context, OutputEnds PROVE TurnParts'
  OBVIOUS
<1>1. /\ UNCHANGED <<typed, taken, controller, replay, newline, released, refused, delivered, ran>>
      /\ UNCHANGED <<prompted, tty, bash, insertion, line>>
      /\ output' = <<>> /\ pc["out"] = "idle" /\ bash = "gone"
  BY DEF OutputEnds, remote, history, screen
<1>2. pc'["in"] = pc["in"] /\ pc'["out"] = "done"
  BY DEF OutputEnds, Context, TypeInv, ThreadsOK, Threads
<1>3. ControllerTurn'
  BY <1>1, <1>2, PasteAtKept DEF Context, TurnParts, ControllerTurn, controller, After, Held, At, Away, Waits
<1>4. EnterTurn'
  BY <1>1, EnterKept DEF Context, TurnParts, controller, TypeInv, ScreenOK
<1>5. OutputTurn'
  BY <1>1 DEF Context, TurnParts, OutputTurn, At, controller
<1>6. BashTurn'
  BY <1>1 DEF Context, TurnParts, BashTurn
<1> QED
  BY <1>1, <1>3, <1>4, <1>5, <1>6, RisingKept DEF Context, TurnParts

\* While bash does not read, every Enter is decided.
LEMMA BusyBash ==
  ASSUME Context, bash \in {"launching", "hook", "submitted", "running"}
  PROVE  /\ Away /\ tty = <<>> /\ ~prompted /\ taken = Len(typed) /\ PasteAt(taken + 1) = FALSE
         /\ \A i \in DOMAIN output : output[i].kind = "text"
         /\ \A i \in DOMAIN typed : Submits(i) => i \in released \cup refused
<1>1. Away /\ tty = <<>> /\ \A i \in DOMAIN output : output[i].kind = "text"
  BY DEF Context, TurnParts, BashTurn
<1>2. ~At /\ ~Held
  BY <1>1 DEF Away, At, Held
<1>3. taken = Len(typed) /\ ~PasteAt(taken + 1)
  BY <1>2 DEF Context, TurnParts, ControllerTurn
<1>4. PasteAt(taken + 1) \in BOOLEAN
  <2>1. taken + 1 \in 1..(Len(typed) + 1)
    BY <1>3 DEF Context, TypeInv, KeyboardOK
  <2> QED
    BY <2>1, PasteAtIs DEF Context, TypeInv
<1>5. ~prompted
  BY <1>2 DEF Context, TurnParts, OutputTurn
<1>6. \A i \in DOMAIN typed : Submits(i) => i \in released \cup refused
  BY <1>2 DEF Context, TurnParts, EnterTurn
<1> QED
  BY <1>1, <1>3, <1>4, <1>5, <1>6

LEMMA PrintPromptTurn == Context /\ PrintPrompt => TurnParts'
<1> SUFFICES ASSUME Context, PrintPrompt PROVE TurnParts'
  OBVIOUS
<1>1. /\ UNCHANGED <<typed, taken, controller, pc, replay, newline, released, refused, delivered, ran>>
      /\ UNCHANGED <<prompted, tty, line>>
      /\ bash = "hook" /\ bash' = "reading" /\ insertion' = FALSE
      /\ output' = output \o <<Printed("marker"), Printed("prompt")>>
  BY DEF PrintPrompt, history, screen, threads
<1>2. /\ Away /\ tty = <<>> /\ ~prompted /\ taken = Len(typed) /\ PasteAt(taken + 1) = FALSE
      /\ \A i \in DOMAIN output : output[i].kind = "text"
      /\ \A i \in DOMAIN typed : Submits(i) => i \in released \cup refused
  BY <1>1, BusyBash
<1>3. \A i : PasteAt(i)' = PasteAt(i) /\ (Submits(i)' <=> Submits(i))
  BY <1>1, PasteAtKept
<1>4. Away' /\ ~Held' /\ ~At'
  BY <1>1, <1>2 DEF Away, Held, At, controller
<1>5. ControllerTurn'
  BY <1>1, ControllerKept DEF Context, TurnParts
<1>6. EnterTurn'
  BY <1>1, <1>2, <1>3, <1>4 DEF Context, TurnParts, EnterTurn
<1>7. PICK new \in Seq(Event) : new = <<Printed("marker"), Printed("prompt")>>
  <2>1. Printed("marker") \in Event /\ Printed("prompt") \in Event
    BY PrintedTyped DEF Context, TypeInv
  <2>2. <<Printed("marker"), Printed("prompt")>> \in Seq(Event)
    BY <2>1
  <2> QED
    BY <2>2
<1>8. Len(new) = 2 /\ new[1].kind = "marker" /\ new[2].kind = "prompt"
  BY <1>7 DEF Printed
<1>9. OutputTurn'
  <2> DEFINE n == Len(output)
  <2>1. /\ n \in Nat /\ DOMAIN output = 1..n /\ DOMAIN output' = 1..(n + 2) /\ Len(output') = n + 2
        /\ \A i \in 1..n : output'[i] = output[i]
        /\ output'[n + 1].kind = "marker" /\ output'[n + 2].kind = "prompt"
    <3>1. output \in Seq(Event) /\ output' = output \o new
      BY <1>1, <1>7 DEF Context, TypeInv, ScreenOK
    <3>2. /\ Len(output \o new) = n + Len(new) /\ output \o new \in Seq(Event)
          /\ \A i \in 1..n + Len(new) : (output \o new)[i] = IF i <= n THEN output[i] ELSE new[i - n]
      BY <3>1, ConcatProperties
    <3>3. n \in Nat /\ DOMAIN output = 1..n /\ DOMAIN (output \o new) = 1..Len(output \o new)
      BY <3>1, <3>2, LenProperties
    <3> HIDE DEF n
    <3> QED
      BY <1>8, <3>1, <3>2, <3>3
  <2> HIDE DEF n
  <2>2. \A i \in 1..(n + 2) : \/ i \in 1..n /\ output'[i].kind = "text"
                              \/ i = n + 1 /\ output'[i].kind = "marker" /\ output'[i + 1].kind = "prompt"
                              \/ i = n + 2 /\ output'[i].kind = "prompt" /\ output'[i - 1].kind = "marker" /\ i > 1
    <3>1. (n + 1) + 1 = n + 2 /\ (n + 2) - 1 = n + 1 /\ n + 2 > 1
      BY <2>1
    <3>2. \A i \in 1..(n + 2) : i \in 1..n \/ i = n + 1 \/ i = n + 2
      BY <2>1
    <3> QED
      BY SMTT(60), <1>2, <2>1, <3>1, <3>2
  <2>3. ~prompted' /\ taken' = Len(typed')
    BY <1>1, <1>2
  <2>4. (n + 1) + 1 = Len(output') /\ n + 2 = Len(output') /\ ~(n + 2 = 1)
    BY <2>1
  <2> QED
    BY <1>4, <2>1, <2>2, <2>3, <2>4 DEF OutputTurn
<1>10. BashTurn'
  <2>1. InStep'
    <3>1. taken + 1 \in 1..(taken + 1)
      BY DEF Context, TypeInv, KeyboardOK
    <3>2. insertion' = PasteAt(taken + 1)' /\ taken' = taken
      BY <1>1, <1>2, <1>3
    <3>3. \A i \in DOMAIN tty' : FALSE
      BY <1>1, <1>2
    <3>4. \A d \in (taken + 1)..taken : FALSE
      BY DEF Context, TypeInv, KeyboardOK
    <3> QED
      BY <3>1, <3>2, <3>3, <3>4 DEF InStep
  <2> QED
    BY <1>1, <1>2, <2>1 DEF Context, TurnParts, BashTurn, Rising
<1> QED
  BY <1>1, <1>5, <1>6, <1>9, <1>10, RisingKept DEF Context, TurnParts

LEMMA ExecuteTurn == Context /\ Execute => TurnParts'
<1> SUFFICES ASSUME Context, Execute PROVE TurnParts'
  OBVIOUS
<1>1. /\ UNCHANGED <<typed, taken, controller, pc, replay, newline, released, refused, delivered>>
      /\ UNCHANGED <<prompted, tty, insertion>>
      /\ bash = "submitted" /\ bash' = "running" /\ ran' = ran \cup {[enter |-> line, saw |-> remoteSaves]}
      /\ output' = Append(output, Printed("text"))
  BY DEF Execute, screen, threads
<1>2. /\ Away /\ tty = <<>> /\ ~prompted /\ taken = Len(typed) /\ PasteAt(taken + 1) = FALSE
      /\ \A i \in DOMAIN output : output[i].kind = "text"
      /\ \A i \in DOMAIN typed : Submits(i) => i \in released \cup refused
  BY <1>1, BusyBash
<1>3. \A i : PasteAt(i)' = PasteAt(i) /\ (Submits(i)' <=> Submits(i))
  BY <1>1, PasteAtKept
<1>4. Away' /\ ~Held' /\ ~At'
  BY <1>1, <1>2 DEF Away, Held, At, controller
<1>5. ControllerTurn'
  BY <1>1, ControllerKept DEF Context, TurnParts
<1>6. EnterTurn'
  BY <1>1, <1>2, <1>3, <1>4 DEF Context, TurnParts, EnterTurn
<1>7. \A i \in DOMAIN output' : output'[i].kind = "text"
  <2>1. output \in Seq(Event) /\ Printed("text") \in Event /\ Printed("text").kind = "text"
    BY PrintedTyped DEF Context, TypeInv, ScreenOK, Printed
  <2>2. /\ output' \in Seq(Event) /\ Len(output') = Len(output) + 1
        /\ \A i \in 1..Len(output) : output'[i] = output[i]
        /\ output'[Len(output) + 1] = Printed("text")
    BY <1>1, <2>1, AppendProperties
  <2>3. DOMAIN output = 1..Len(output) /\ Len(output) \in Nat /\ DOMAIN output' = 1..(Len(output) + 1)
    BY <2>1, <2>2, LenProperties
  <2> QED
    BY <1>2, <2>1, <2>2, <2>3
<1>8. OutputTurn'
  BY <1>1, <1>2, <1>7 DEF OutputTurn
<1>9. BashTurn'
  BY <1>1, <1>2, <1>4, <1>7 DEF Context, TurnParts, BashTurn
<1> QED
  BY <1>1, <1>5, <1>6, <1>8, <1>9, RisingKept DEF Context, TurnParts

\* readline tells the Enters that submit a line from those of a paste as the terminal does.
LEMMA ReadlineInStep ==
  ASSUME Context, bash = "reading"
  PROVE  /\ \A i \in DOMAIN tty : InPaste(tty, i, insertion) = PasteAt(tty[i])
         /\ InPaste(tty, Len(tty) + 1, insertion) = PasteAt(taken + 1)
<1>1. PICK a \in 1..(taken + 1) :
         /\ insertion = PasteAt(a)
         /\ \A i \in DOMAIN tty : tty[i] >= a
         /\ \A d \in a..taken : typed[d].kind \in {"begin", "end"} => d \in Bytes(tty)
  BY DEF Context, TurnParts, BashTurn, InStep
<1>2. /\ KeyboardOK /\ Len(typed) \in Nat /\ taken \in 0..Len(typed) /\ Rising(tty)
      /\ DOMAIN tty = 1..Len(tty) /\ Len(tty) \in Nat
      /\ \A i \in DOMAIN tty : tty[i] \in 1..taken
  BY TtyBelow, LenProperties DEF Context, TypeInv, KeyboardOK, RemoteOK, TurnParts, BashTurn
<1>3. a \in 1..(Len(typed) + 1) /\ a \in Nat
  BY <1>2
<1>4. ASSUME NEW i \in DOMAIN tty PROVE InPaste(tty, i, insertion) = PasteAt(tty[i])
  <2>1. i \in Nat /\ 1..(i - 1) \subseteq DOMAIN tty /\ tty[i] \in a..(Len(typed) + 1)
    BY <1>1, <1>2
  <2>2. \A j \in 1..(i - 1) : tty[j] \in a..(tty[i] - 1)
    BY SMTT(60), <1>1, <1>2, <2>1 DEF Rising
  <2>3. ASSUME NEW d \in a..(tty[i] - 1), Delimits(d) PROVE \E j \in 1..(i - 1) : tty[j] = d
    <3>1. d \in a..taken
      BY <1>2, <1>3, <2>1
    <3>2. PICK j \in DOMAIN tty : tty[j] = d
      BY <1>1, <2>3, <3>1 DEF Delimits, Bytes
    <3>3. ~(i = j) /\ ~(i < j)
      BY <1>2, <1>3, <2>1, <3>2 DEF Rising
    <3> QED
      BY <1>2, <2>1, <3>2, <3>3
  <2> QED
    BY <1>1, <1>2, <1>3, <2>1, <2>2, <2>3, StaysInStep
<1>5. InPaste(tty, Len(tty) + 1, insertion) = PasteAt(taken + 1)
  <2> DEFINE i == Len(tty) + 1
             b == taken + 1
  <2>1. i \in Nat /\ 1..(i - 1) = DOMAIN tty /\ b \in a..(Len(typed) + 1)
    BY <1>2
  <2>2. \A j \in 1..(i - 1) : tty[j] \in a..(b - 1)
    BY <1>1, <1>2, <2>1
  <2>3. \A d \in a..(b - 1) : Delimits(d) => \E j \in 1..(i - 1) : tty[j] = d
    BY <1>1, <1>2, <2>1 DEF Delimits, Bytes
  <2> HIDE DEF i, b
  <2>4. InPaste(tty, i, PasteAt(a)) = PasteAt(b)
    BY <1>2, <1>3, <2>1, <2>2, <2>3, StaysInStep
  <2> QED
    BY <1>1, <2>4 DEF i, b
<1> QED
  BY <1>4, <1>5

LEMMA ReadLineTurn == Context /\ ReadLine => TurnParts'
<1> SUFFICES ASSUME Context, ReadLine PROVE TurnParts'
  OBVIOUS
<1>1. /\ UNCHANGED <<typed, taken, controller, pc, replay, newline, released, refused, delivered, ran>>
      /\ UNCHANGED <<output, prompted>> /\ bash = "reading"
  BY DEF ReadLine, history, screen, threads
<1>2. \A i : PasteAt(i)' = PasteAt(i) /\ (Submits(i)' <=> Submits(i))
  BY <1>1, PasteAtKept
<1>3. ControllerTurn' /\ EnterTurn' /\ OutputTurn' /\ Rising(delivered)'
  BY <1>1, ControllerKept, EnterKept, OutputKept, RisingKept
     DEF Context, TurnParts, controller, TypeInv, ScreenOK
<1>4. Enters = {i \in DOMAIN tty : Submits(tty[i])}
  BY <1>1, ReadlineInStep DEF Enters, Submits
<1>5. CASE insertion' = InPaste(tty, Len(tty) + 1, insertion) /\ tty' = <<>> /\ UNCHANGED <<bash, line>>
  <2>1. InStep'
    <3>1. taken + 1 \in 1..(taken + 1)
      BY DEF Context, TypeInv, KeyboardOK
    <3>2. insertion' = PasteAt(taken + 1)' /\ taken' = taken
      BY <1>1, <1>2, <1>5, ReadlineInStep
    <3>3. \A i \in DOMAIN tty' : FALSE
      BY <1>5
    <3>4. \A d \in (taken + 1)..taken : FALSE
      BY DEF Context, TypeInv, KeyboardOK
    <3> QED
      BY <3>1, <3>2, <3>3, <3>4 DEF InStep
  <2>2. BashTurn'
    BY <1>1, <1>5, <2>1 DEF Context, TurnParts, BashTurn, Rising
  <2> QED
    BY <1>3, <2>2 DEF TurnParts
<1>6. CASE \E i \in Enters : /\ bash' = "submitted" /\ line' = tty[i]
                             /\ tty' = SubSeq(tty, i + 1, Len(tty))
  <2>1. PICK i \in Enters : /\ bash' = "submitted" /\ line' = tty[i]
                            /\ tty' = SubSeq(tty, i + 1, Len(tty))
    BY <1>6
  <2>2. i \in DOMAIN tty /\ i = Len(tty) /\ tty[i] \in released /\ Away /\ output = <<>>
    BY <1>1, <1>4 DEF Context, TurnParts, BashTurn
  <2>3. tty' = <<>>
    <3>1. Len(tty) \in Nat
      BY LenProperties DEF Context, TypeInv, RemoteOK
    <3> QED
      BY <2>1, <2>2, <3>1, SubSeqEmpty
  <2>4. BashTurn'
    BY <1>1, <2>1, <2>2, <2>3 DEF Context, TurnParts, BashTurn, Away, controller
  <2> QED
    BY <1>3, <2>4 DEF TurnParts
<1> QED
  BY <1>5, <1>6 DEF ReadLine

\* A byte typed behind the others changes nothing about them.
LEMMA PasteAtTyped ==
  ASSUME KeyboardOK, NEW byte, typed' = Append(typed, byte), NEW i \in 1..(Len(typed) + 1)
  PROVE  /\ PasteAt(i)' = PasteAt(i)
         /\ i <= Len(typed) => typed'[i] = typed[i] /\ (Submits(i)' <=> Submits(i))
<1>1. Len(typed) \in Nat /\ Len(typed') = Len(typed) + 1 /\ \A j \in 1..Len(typed) : typed'[j] = typed[j]
  BY AppendProperties DEF KeyboardOK
<1> DEFINE delimiters == {j \in 1..(i - 1) : typed[j].kind \in {"begin", "end"}}
           inside == IF delimiters = {} THEN FALSE
                     ELSE \E j \in delimiters : (\A k \in delimiters : k <= j) /\ typed[j].kind = "begin"
<1>2. \A j \in 1..(i - 1) : All[j] = j /\ (All[j])' = j /\ typed'[j] = typed[j] /\ j \in 1..Len(typed)
  BY <1>1 DEF All
<1>3. PasteAt(i) = inside
  <2>1. {j \in 1..(i - 1) : typed[All[j]].kind \in {"begin", "end"}} = delimiters
    BY <1>2
  <2>2. \A j \in delimiters : All[j] = j
    BY <1>2
  <2> QED
    BY <2>1, <2>2 DEF PasteAt, InPaste
<1>4. PasteAt(i)' = inside
  <2>1. {j \in 1..(i - 1) : typed'[(All[j])'].kind \in {"begin", "end"}} = delimiters
    BY <1>2
  <2>2. \A j \in delimiters : (All[j])' = j /\ typed'[j] = typed[j]
    BY <1>2
  <2> QED
    BY ZenonT(60), <2>1, <2>2 DEF PasteAt, InPaste
<1>5. i <= Len(typed) => typed'[i] = typed[i] /\ (Submits(i)' <=> Submits(i))
  BY <1>1, <1>3, <1>4 DEF Submits
<1> QED
  BY <1>3, <1>4, <1>5

LEMMA TypeTurn ==
  ASSUME NEW kind \in Kinds
  PROVE  Context /\ Type(kind) /\ ~early' => TurnParts'
<1> SUFFICES ASSUME Context, Type(kind), ~early' PROVE TurnParts'
  OBVIOUS
<1> DEFINE n == Len(typed)
           byte == [kind |-> kind, saves |-> saves]
<1>1. /\ UNCHANGED <<taken, controller, pc, replay, newline, released, refused, delivered, ran>>
      /\ UNCHANGED <<output, tty, bash, insertion, line>>
      /\ typed' = Append(typed, byte) /\ prompted
      /\ prompted' = (prompted /\ ~(kind = "enter" /\ ~Pasting))
  BY DEF Type, threads, history, remote
<1>2. At /\ output = <<>>
  BY <1>1 DEF Context, TurnParts, OutputTurn
<1>3. At' /\ ~Away' /\ ~Held' /\ ~After' /\ ~Away /\ ~Held /\ ~After
  BY <1>1, <1>2 DEF At, Away, Held, After, controller
<1>4. KeyboardOK /\ n \in Nat /\ taken \in 0..n /\ DOMAIN typed = 1..n
  BY LenProperties DEF Context, TypeInv, KeyboardOK
<1>5. /\ typed'[n + 1].kind = kind /\ DOMAIN typed' = 1..(n + 1) /\ Len(typed') = n + 1
  <2>1. byte \in [kind : Kinds, saves : 0..MaxSaves] /\ byte.kind = kind
    BY DEF Context, TypeInv, WorkspaceOK
  <2>2. /\ Len(Append(typed, byte)) = n + 1 /\ Append(typed, byte)[n + 1] = byte
        /\ Append(typed, byte) \in Seq([kind : Kinds, saves : 0..MaxSaves])
    BY <1>4, <2>1, AppendProperties DEF KeyboardOK
  <2>3. DOMAIN Append(typed, byte) = 1..(n + 1)
    BY <1>4, <2>2, LenProperties
  <2> QED
    BY <1>1, <2>1, <2>2, <2>3
<1>6. /\ \A i \in 1..(n + 1) : PasteAt(i)' = PasteAt(i)
      /\ \A i \in 1..n : typed'[i] = typed[i] /\ (Submits(i)' <=> Submits(i))
  <2> HIDE DEF byte
  <2>1. ASSUME NEW i \in 1..(n + 1)
        PROVE  /\ PasteAt(i)' = PasteAt(i)
               /\ i <= n => typed'[i] = typed[i] /\ (Submits(i)' <=> Submits(i))
    BY <1>1, <1>4, PasteAtTyped
  <2> QED
    BY <1>4, <2>1
<1> HIDE DEF byte, n
<1>7. ControllerTurn'
  <2>1. PasteAt(taken + 1)' = PasteAt(taken + 1)
    BY <1>1, <1>4, <1>6
  <2> QED
    BY <1>1, <1>3, <2>1 DEF Context, TurnParts, ControllerTurn, controller
<1>8. EnterTurn'
  <2>1. ASSUME NEW i \in DOMAIN typed', Submits(i)'
        PROVE  i \in released \cup refused \/ (i = Len(typed') /\ ~prompted' /\ taken' < i)
    <3>1. CASE i \in 1..n
      BY <1>1, <1>4, <1>6, <2>1, <3>1 DEF Context, TurnParts, EnterTurn
    <3>2. CASE i = n + 1
      <4>1. kind = "enter" /\ ~PasteAt(n + 1)
        BY <1>4, <1>5, <1>6, <2>1, <3>2 DEF Submits
      <4>2. ~prompted'
        BY <1>1, <4>1 DEF PasteAt, Pasting, n
      <4> QED
        BY <1>1, <1>4, <1>5, <3>2, <4>2
    <3> QED
      BY <1>4, <1>5, <2>1, <3>1, <3>2
  <2>2. \A i \in released \cup refused : ~PasteAt(i)'
    <3>1. \A i \in released \cup refused : i \in 1..taken
      BY DEF Context, PlacesInv, WrittenInv
    <3>2. \A i \in 1..taken : i \in 1..(n + 1)
      BY <1>4
    <3> QED
      BY <1>6, <3>1, <3>2 DEF Context, TurnParts, EnterTurn
  <2> QED
    BY <1>1, <1>2, <1>3, <2>1, <2>2 DEF EnterTurn
<1>9. OutputTurn'
  BY <1>1, <1>2, <1>3 DEF OutputTurn
<1>10. BashTurn'
  <2>1. bash' \notin {"launching", "hook", "submitted", "running", "returning"}
    BY <1>1, <1>3 DEF Context, TurnParts, BashTurn
  <2>2. ASSUME bash = "reading" PROVE Rising(tty') /\ InStep' /\ \A i \in DOMAIN tty' : ~Submits(tty[i])'
    <3>1. Rising(tty) /\ InStep /\ \A i \in DOMAIN tty : ~Submits(tty[i])
      BY <1>3, <2>2 DEF Context, TurnParts, BashTurn
    <3>2. \A i \in DOMAIN tty : tty[i] \in 1..n
      BY <1>4, TtyBelow
    <3>3. \A i \in DOMAIN tty' : ~Submits(tty[i])'
      BY <1>1, <1>6, <3>1, <3>2
    <3>4. InStep'
      <4>1. PICK a \in 1..(taken + 1) :
               /\ insertion = PasteAt(a)
               /\ \A i \in DOMAIN tty : tty[i] >= a
               /\ \A d \in a..taken : typed[d].kind \in {"begin", "end"} => d \in Bytes(tty)
        BY <3>1 DEF InStep
      <4>2. a \in 1..(n + 1) /\ \A d \in a..taken : d \in 1..n
        BY <1>4
      <4> QED
        BY <1>1, <1>6, <4>1, <4>2 DEF InStep
    <3> QED
      BY <1>1, <3>1, <3>3, <3>4
  <2>3. \A r \in ran' : r.enter \in released'
    BY <1>1 DEF Context, TurnParts, BashTurn
  <2> QED
    BY <1>1, <2>1, <2>2, <2>3 DEF BashTurn
<1> QED
  BY <1>1, <1>7, <1>8, <1>9, <1>10, RisingKept DEF Context, TurnParts

\* What `in' writes of the bytes it has read keeps bash in step with the terminal.
LEMMA SentTurn ==
  ASSUME Context, At, NEW m \in taken..Len(typed), NEW bytes \in Seq(Positions), Rising(bytes),
         Bytes(bytes) = (taken + 1)..m, \A i \in (taken + 1)..m : ~Submits(i),
         \A d \in (m + 1)..Len(typed) : ~Delimits(d),
         Write(bytes), taken' = Len(typed), UNCHANGED <<typed, bash, insertion, line, released, ran, output>>
  PROVE  BashTurn' /\ Rising(delivered)'
<1>1. /\ tty \in Seq(Positions) /\ delivered \in Seq(Positions) /\ Positions \subseteq Int
      /\ taken \in Nat /\ Len(typed) \in Nat /\ taken <= Len(typed) /\ m \in Nat
  BY DEF Context, TypeInv, RemoteOK, HistoryOK, KeyboardOK, Positions
<1>2. /\ tty' = tty \o bytes /\ delivered' = delivered \o bytes
      /\ Bytes(tty') = Bytes(tty) \cup Bytes(bytes)
  BY <1>1, BytesOfConcat DEF Write
<1>3. \A a \in Bytes(delivered), b \in Bytes(bytes) : a < b
  BY <1>1, TtyBelow
<1>4. Bytes(tty) \subseteq Bytes(delivered)
  BY DEF Context, WrittenInv
<1>5. Rising(delivered)'
  <2>1. Rising(delivered \o bytes)
    BY <1>1, <1>3, RisingConcat DEF Context, TurnParts
  <2> QED
    BY <1>2, <2>1 DEF Rising
<1>6. \A i : PasteAt(i)' = PasteAt(i) /\ (Submits(i)' <=> Submits(i))
  BY PasteAtKept
<1>7. bash' \notin {"launching", "hook", "submitted", "running", "returning"}
  BY DEF Context, TurnParts, BashTurn, At, Away
<1>8. ASSUME bash = "reading"
      PROVE  Rising(tty') /\ InStep' /\ \A i \in DOMAIN tty' : ~Submits(tty[i])'
  <2>1. Rising(tty) /\ InStep /\ \A i \in DOMAIN tty : ~Submits(tty[i])
    BY <1>8 DEF Context, TurnParts, BashTurn, At, Away
  <2>2. Rising(tty')
    BY <1>1, <1>2, <1>3, <1>4, <2>1, RisingConcat
  <2>3. \A i \in DOMAIN tty' : tty'[i] \in Bytes(tty) \cup Bytes(bytes)
    BY <1>2 DEF Bytes
  <2>4. \A b \in Bytes(tty) : ~Submits(b)
    BY <2>1 DEF Bytes
  <2>5. \A i \in DOMAIN tty' : ~Submits(tty[i])'
    BY <1>6, <2>3, <2>4
  <2>6. InStep'
    <3>1. PICK a \in 1..(taken + 1) :
             /\ insertion = PasteAt(a)
             /\ \A i \in DOMAIN tty : tty[i] >= a
             /\ \A d \in a..taken : typed[d].kind \in {"begin", "end"} => d \in Bytes(tty)
      BY <2>1 DEF InStep
    <3>2. a \in 1..(taken' + 1) /\ insertion' = PasteAt(a)'
      BY <1>1, <1>6, <3>1
    <3>3. \A i \in DOMAIN tty' : tty'[i] >= a
      <4>1. \A b \in Bytes(tty) : b >= a
        BY <3>1 DEF Bytes
      <4>2. \A b \in Bytes(bytes) : b >= a
        BY <1>1, <3>1
      <4> QED
        BY <2>3, <4>1, <4>2
    <3>4. ASSUME NEW d \in a..taken', typed'[d].kind \in {"begin", "end"} PROVE d \in Bytes(tty')
      <4>1. CASE d <= taken
        BY <1>1, <1>2, <3>1, <3>4, <4>1
      <4>2. CASE d > taken /\ d <= m
        BY <1>1, <1>2, <4>2
      <4>3. ~(d > m)
        BY <1>1, <3>4 DEF Delimits
      <4> QED
        BY <1>1, <4>1, <4>2, <4>3
    <3> QED
      BY <3>2, <3>3, <3>4 DEF InStep
  <2> QED
    BY <2>2, <2>5, <2>6
<1>9. \A r \in ran' : r.enter \in released'
  BY DEF Context, TurnParts, BashTurn
<1> QED
  BY <1>5, <1>7, <1>8, <1>9 DEF BashTurn

\* What `in' finds when it has something to read.
LEMMA UnreadIs ==
  ASSUME Context, taken < Len(typed)
  PROVE  /\ At /\ pc["in"] = "idle" /\ output = <<>> /\ pending = <<>> /\ replay = <<>>
         /\ Unread \in Seq(Positions) /\ Len(Unread) = Len(typed) - taken
         /\ DOMAIN Unread = 1..(Len(typed) - taken)
         /\ \A i \in 1..(Len(typed) - taken) : Unread[i] = taken + i
         /\ \A i \in 1..(Len(typed) - taken + 1) : InPaste(Unread, i, paste) = PasteAt(taken + i)
         /\ \A i \in 1..(Len(typed) - taken) : Submits(taken + i) => taken + i = Len(typed) /\ ~prompted
         /\ Submission(Unread) = {i \in 1..(Len(typed) - taken) : Submits(taken + i)}
<1> DEFINE n == Len(typed) - taken
<1>1. /\ KeyboardOK /\ taken \in Nat /\ Len(typed) \in Nat /\ n \in Nat /\ taken + n = Len(typed)
      /\ Len(typed) # taken /\ DOMAIN typed = 1..Len(typed)
  BY LenProperties DEF Context, TypeInv, KeyboardOK
<1>2. At /\ output = <<>> /\ pending = <<>> /\ replay = <<>>
  BY <1>1 DEF Context, TurnParts, ControllerTurn, OutputTurn
<1>3. pc["in"] = "idle" /\ paste = PasteAt(taken + 1)
  BY <1>2 DEF Context, TurnParts, ControllerTurn, At, Held, Away
<1>4. Unread \in Seq(Positions) /\ DOMAIN Unread = 1..n /\ \A i \in 1..n : Unread[i] = taken + i
  BY UnreadTyped DEF Unread, Context, TypeInv
<1> HIDE DEF n
<1>5. Len(Unread) = n
  <2>1. DOMAIN Unread = 1..Len(Unread) /\ Len(Unread) \in Nat
    BY <1>4, LenProperties
  <2>2. \A m \in Nat : 1..m = 1..n => m = n
    <3>1. ASSUME NEW m \in Nat, 1..m = 1..n PROVE m = n
      <4>1. \A k : k \in 1..m <=> k \in 1..n
        BY <3>1, Zenon
      <4>2. (m \in 1..m <=> m \in 1..n) /\ (n \in 1..m <=> n \in 1..n)
        BY <4>1, Zenon
      <4> QED
        BY <1>1, <4>2
    <3> QED
      BY <3>1
  <2> QED
    BY <1>4, <2>1, <2>2
<1>6. Rising(Unread)
  BY <1>1, <1>4 DEF Rising
<1>7. ASSUME NEW i \in 1..(n + 1) PROVE InPaste(Unread, i, paste) = PasteAt(taken + i)
  <2> DEFINE a == taken + 1
             b == taken + i
  <2>1. i \in Nat /\ 1..(i - 1) \subseteq DOMAIN Unread /\ a \in 1..(Len(typed) + 1) /\ b \in a..(Len(typed) + 1)
    BY <1>1, <1>4
  <2>2. \A j \in 1..(i - 1) : Unread[j] \in a..(b - 1)
    BY SMTT(60), <1>1, <1>4
  <2>3. ASSUME NEW d \in a..(b - 1), Delimits(d) PROVE \E j \in 1..(i - 1) : Unread[j] = d
    <3>1. d - taken \in 1..(i - 1) /\ d - taken \in 1..n /\ taken + (d - taken) = d
      BY <1>1
    <3> QED
      BY <1>4, <3>1
  <2> HIDE DEF a, b
  <2>5. \A d \in a..(b - 1) : Delimits(d) => \E j \in 1..(i - 1) : Unread[j] = d
    BY <2>3
  <2>4. InPaste(Unread, i, PasteAt(a)) = PasteAt(b)
    BY <1>1, <1>6, <2>1, <2>2, <2>5, StaysInStep
  <2> QED
    BY <1>3, <2>4 DEF a, b
<1>8. ASSUME NEW i \in 1..n, Submits(taken + i) PROVE taken + i = Len(typed) /\ ~prompted
  <2>1. taken + i \in DOMAIN typed /\ taken + i > taken
    BY <1>1
  <2>2. taken + i \notin released \cup refused
    <3>1. released \cup refused \subseteq 1..taken
      BY TtyBelow DEF Context, PlacesInv
    <3>2. taken + i \notin 1..taken
      BY <1>1, <2>1
    <3> QED
      BY <3>1, <3>2
  <2> QED
    BY <1>8, <2>1, <2>2 DEF Context, TurnParts, EnterTurn
<1>9. Submission(Unread) = {i \in 1..n : Submits(taken + i)}
  <2>1. \A i \in 1..n : typed[Unread[i]].kind = "enter" /\ ~InPaste(Unread, i, paste) <=> Submits(taken + i)
    BY <1>1, <1>4, <1>7 DEF Submits
  <2>2. ASSUME NEW i \in 1..n, Submits(taken + i), NEW j \in 1..(i - 1)
        PROVE  typed[Unread[j]].kind = "enter" => InPaste(Unread, j, paste)
    <3>1. j \in 1..n /\ ~(taken + j = Len(typed))
      BY <1>1
    <3> QED
      BY <1>8, <2>1, <3>1
  <2> QED
    BY <1>4, <2>1, <2>2 DEF Submission
<1>10. /\ \A i \in 1..n : Unread[i] = taken + i
       /\ \A i \in 1..(n + 1) : InPaste(Unread, i, paste) = PasteAt(taken + i)
       /\ \A i \in 1..n : Submits(taken + i) => taken + i = Len(typed) /\ ~prompted
  BY <1>4, <1>7, <1>8
<1> QED
  BY <1>2, <1>3, <1>4, <1>5, <1>9, <1>10, Zenon DEF n

\* The critical section of Input, at the prompt: the bytes behind the first Enter that
\* submits a line, if there is one, are none.
LEMMA InputTurn ==
  ASSUME NEW t \in Threads
  PROVE  Context /\ Input(t) => TurnParts'
<1> SUFFICES ASSUME Context, Input(t) PROVE TurnParts'
  OBVIOUS
<1> DEFINE n == Len(typed) - taken
<1>1. t = "in" /\ taken < Len(typed) /\ taken' = Len(typed) /\ replay' = replay
  BY DEF Input, Given, Context, TurnParts, ControllerTurn, Threads
<1>2. /\ At /\ pc["in"] = "idle" /\ output = <<>> /\ pending = <<>> /\ replay = <<>>
      /\ Unread \in Seq(Positions) /\ Len(Unread) = n /\ DOMAIN Unread = 1..n
      /\ \A i \in 1..n : Unread[i] = taken + i
      /\ \A i \in 1..(n + 1) : InPaste(Unread, i, paste) = PasteAt(taken + i)
      /\ \A i \in 1..n : Submits(taken + i) => taken + i = Len(typed) /\ ~prompted
      /\ Submission(Unread) = {i \in 1..n : Submits(taken + i)}
  BY <1>1, UnreadIs
<1>3. KeyboardOK /\ taken \in Nat /\ Len(typed) \in Nat /\ n \in Nat /\ n > 0 /\ taken + n = Len(typed)
  BY <1>1 DEF Context, TypeInv, KeyboardOK
<1>4. /\ UNCHANGED <<typed, released, refused, ran>>
      /\ UNCHANGED <<output, prompted, bash, insertion, line>>
  BY DEF Input, screen
<1>5. \A i : PasteAt(i)' = PasteAt(i) /\ (Submits(i)' <=> Submits(i))
  BY <1>4, PasteAtKept
<1>6. taken' + 1 = taken + (n + 1) /\ n + 1 \in 1..(n + 1) /\ taken' = Len(typed')
  BY <1>1, <1>3, <1>4
<1> HIDE DEF n
<1>7. CASE /\ Submission(Unread) = {} /\ Write(Unread)
           /\ paste' = InPaste(Unread, Len(Unread) + 1, paste)
           /\ pc' = [pc EXCEPT ![t] = "idle"]
           /\ UNCHANGED <<newline, atPrompt, syncing, pending>>
  <2>1. pc'["in"] = "idle" /\ pc'["out"] = pc["out"]
    BY <1>1, <1>7 DEF Context, TypeInv, ThreadsOK, Threads
  <2>2. At' /\ ~After' /\ ~Held' /\ ~Away' /\ ~After /\ ~Held
    BY <1>2, <1>7 DEF At, After, Held, Away
  <2>3. paste' = PasteAt(taken + 1)'
    <3>1. paste' = PasteAt(taken + (n + 1))
      BY <1>2, <1>6, <1>7
    <3> QED
      BY <1>5, <1>6, <3>1
  <2>4. ControllerTurn'
    BY <1>1, <1>2, <1>7, <2>1, <2>2, <2>3 DEF Context, TurnParts, ControllerTurn
  <2>5. \A i \in 1..n : ~Submits(taken + i)
    BY <1>2, <1>7
  <2>6. EnterTurn'
    <3>1. ~Submits(Len(typed))
      BY <1>3, <2>5
    <3>2. \A i \in DOMAIN typed : Submits(i) => i \in released \cup refused
      BY <3>1 DEF Context, TurnParts, EnterTurn
    <3> QED
      BY <1>4, <1>5, <2>2, <3>2 DEF Context, TurnParts, EnterTurn
  <2>7. OutputTurn'
    BY <1>2, <1>4, <2>2 DEF OutputTurn
  <2>8. BashTurn' /\ Rising(delivered)'
    <3>1. Bytes(Unread) = (taken + 1)..Len(typed) /\ Rising(Unread)
      <4>1. \A i \in 1..n : Unread[i] \in (taken + 1)..Len(typed)
        BY <1>2, <1>3
      <4>2. \A p \in (taken + 1)..Len(typed) : p - taken \in 1..n /\ Unread[p - taken] = p
        BY <1>2, <1>3
      <4>3. Bytes(Unread) = (taken + 1)..Len(typed)
        BY <1>2, <4>1, <4>2 DEF Bytes
      <4>4. Rising(Unread)
        BY <1>2, <1>3 DEF Rising
      <4> QED
        BY <4>3, <4>4
    <3>2. \A i \in (taken + 1)..Len(typed) : ~Submits(i)
      <4>1. \A i \in (taken + 1)..Len(typed) : i - taken \in 1..n /\ taken + (i - taken) = i
        BY <1>3
      <4> QED
        BY <2>5, <4>1
    <3>3. Len(typed) \in taken..Len(typed) /\ (Len(typed) + 1)..Len(typed) = {}
      BY <1>1, <1>3
    <3> QED
      BY <1>1, <1>2, <1>4, <1>7, <3>1, <3>2, <3>3, SentTurn
  <2> QED
    BY <2>4, <2>6, <2>7, <2>8 DEF TurnParts
<1>8. CASE /\ \E i \in Submission(Unread) :
                /\ Write(SubSeq(Unread, 1, i - 1))
                /\ newline' = [newline EXCEPT ![t] = Unread[i]]
                /\ pending' = pending \o SubSeq(Unread, i + 1, Len(Unread))
           /\ syncing' = TRUE /\ paste' = FALSE /\ pc' = [pc EXCEPT ![t] = "barrier"]
           /\ UNCHANGED atPrompt
  <2>1. PICK i \in Submission(Unread) :
           /\ Write(SubSeq(Unread, 1, i - 1))
           /\ newline' = [newline EXCEPT ![t] = Unread[i]]
           /\ pending' = pending \o SubSeq(Unread, i + 1, Len(Unread))
    BY <1>8
  <2>2. i \in 1..n /\ Submits(taken + i) /\ taken + i = Len(typed) /\ ~prompted
    BY <1>2
  <2>3. i = n /\ Submits(Len(typed))
    BY <1>3, <2>2
  <2>4. newline'["in"] = Len(typed)
    BY <1>1, <1>2, <1>3, <2>1, <2>3 DEF Context, TypeInv, ThreadsOK, Threads
  <2>5. pending' = <<>>
    <3>1. SubSeq(Unread, i + 1, Len(Unread)) = <<>>
      BY <1>2, <1>3, <2>3, SubSeqEmpty
    <3>2. <<>> \o <<>> = <<>>
      OBVIOUS
    <3> QED
      BY <1>2, <2>1, <3>1, <3>2
  <2>6. pc'["in"] = "barrier" /\ pc'["out"] = pc["out"]
    BY <1>1, <1>8 DEF Context, TypeInv, ThreadsOK, Threads
  <2>7. Held' /\ ~At' /\ ~After' /\ ~Away' /\ ~After /\ ~Away
    BY <1>2, <1>8 DEF Held, At, After, Away
  <2>8. ~PasteAt(Len(typed)) /\ ~Delimits(Len(typed)) /\ ~PasteAt(Len(typed) + 1)
    <3>1. ~PasteAt(Len(typed)) /\ ~Delimits(Len(typed)) /\ Len(typed) \in 1..Len(typed)
      BY <1>1, <1>3, <2>3 DEF Submits, Delimits
    <3> QED
      BY <1>3, <3>1, PlainByte
  <2>9. PasteAt(taken + 1)' = FALSE
    <3>1. PasteAt(Len(typed) + 1) \in BOOLEAN
      BY <1>3, PasteAtIs
    <3> QED
      BY <1>1, <1>5, <2>8, <3>1
  <2>10. ControllerTurn'
    BY <1>1, <1>2, <1>6, <1>8, <2>5, <2>6, <2>7, <2>9 DEF Context, TurnParts, ControllerTurn, Waits
  <2>11. EnterTurn'
    <3>1. \A j \in DOMAIN typed : Submits(j) => j \in released \cup refused \/ j = Len(typed)
      BY DEF Context, TurnParts, EnterTurn
    <3> QED
      BY <1>1, <1>2, <1>3, <1>4, <1>5, <2>2, <2>3, <2>4, <2>7, <3>1 DEF Context, TurnParts, EnterTurn
  <2>12. OutputTurn'
    BY <1>2, <1>4, <2>2 DEF OutputTurn
  <2>13. BashTurn' /\ Rising(delivered)'
    <3> DEFINE before == SubSeq(Unread, 1, i - 1)
               m == Len(typed) - 1
    <3>1. /\ before \in Seq(Positions) /\ DOMAIN before = 1..(n - 1)
          /\ \A j \in 1..(n - 1) : before[j] = taken + j
      <4>1. 1 \in 1..(n + 1) /\ n - 1 \in (1 - 1)..n
        BY <1>3
      <4>2. /\ SubSeq(Unread, 1, n - 1) \in Seq(Positions)
            /\ DOMAIN SubSeq(Unread, 1, n - 1) = 1..(n - 1)
            /\ \A j \in 1..(n - 1) : SubSeq(Unread, 1, n - 1)[j] = Unread[j]
        BY <1>2, <1>3, <4>1, SubSeqProperties
      <4> QED
        BY <1>2, <1>3, <2>3, <4>2
    <3>2. m \in taken..Len(typed) /\ m + 1 = Len(typed) /\ m = taken + (n - 1)
      BY <1>1, <1>3
    <3> HIDE DEF before, m
    <3>3. Bytes(before) = (taken + 1)..m /\ Rising(before)
      <4>1. \A j \in 1..(n - 1) : before[j] \in (taken + 1)..m
        BY <1>3, <3>1, <3>2
      <4>2. \A p \in (taken + 1)..m : p - taken \in 1..(n - 1) /\ before[p - taken] = p
        BY <1>3, <3>1, <3>2
      <4>3. Bytes(before) = (taken + 1)..m
        BY <3>1, <4>1, <4>2 DEF Bytes
      <4>4. Rising(before)
        BY <1>3, <3>1 DEF Rising
      <4> QED
        BY <4>3, <4>4
    <3>4. \A j \in (taken + 1)..m : ~Submits(j)
      <4>1. \A j \in (taken + 1)..m : j - taken \in 1..n /\ taken + (j - taken) = j /\ j # Len(typed)
        BY <1>3, <3>2
      <4> QED
        BY <1>2, <4>1
    <3>5. \A d \in (m + 1)..Len(typed) : ~Delimits(d)
      BY <1>3, <2>8, <3>2
    <3>6. Write(before)
      BY <2>1 DEF before
    <3> QED
      BY <1>1, <1>2, <1>4, <3>1, <3>2, <3>3, <3>4, <3>5, <3>6, SentTurn
  <2> QED
    BY <2>10, <2>11, <2>12, <2>13 DEF TurnParts
<1> QED
  BY <1>1, <1>2, <1>7, <1>8 DEF Input, At

LEMMA InitTurn == Init => TurnInv
<1> SUFFICES ASSUME Init PROVE TurnInv
  OBVIOUS
<1>1. /\ typed = <<>> /\ taken = 0 /\ Len(typed) = 0 /\ DOMAIN typed = {} /\ output = <<>> /\ DOMAIN output = {}
      /\ tty = <<>> /\ pending = <<>> /\ replay = <<>> /\ bash = "launching"
      /\ delivered = <<>> /\ released = {} /\ refused = {} /\ ran = {}
      /\ Away /\ ~At /\ ~Held /\ ~After /\ ~prompted /\ pc["in"] = "idle" /\ pc["out"] = "idle"
  BY DEF Init, Away, At, Held, After, Threads
<1>2. KeyboardOK
  BY InitTyped DEF TypeInv
<1>3. ~PasteAt(taken + 1)
  <2>1. taken + 1 \in 1..(Len(typed) + 1) /\ 1..((taken + 1) - 1) = {}
    BY <1>1
  <2> QED
    BY <1>2, <2>1, PasteAtIs
<1>4. ControllerTurn /\ EnterTurn /\ OutputTurn
  BY <1>1, <1>3 DEF ControllerTurn, EnterTurn, OutputTurn, Waits
<1>5. BashTurn /\ Rising(delivered)
  BY <1>1 DEF BashTurn, Rising
<1> QED
  BY <1>4, <1>5 DEF TurnInv

LEMMA NextTurn ==
  TypeInv /\ Unstarted /\ PlacesInv /\ WrittenInv /\ TurnInv /\ [Next]_vars => TurnInv'
<1> SUFFICES ASSUME TypeInv, Unstarted, PlacesInv, WrittenInv, TurnInv, [Next]_vars, Disciplined'
             PROVE  TurnParts'
  BY DEF TurnInv, TurnParts
<1>1. Disciplined
  <2>1. early' = early \/ \E kind \in Kinds : Type(kind)
    BY DEF Next, Select, Launch, Save, InputGoroutine, Input, BarrierBefore, Release, Refuse, OutputGoroutine,
       ReadMarker, BarrierAfter, AtPrompt, Display, OutputEnds, Hooks, PrintPrompt, HookAfter, HookBefore,
       HookReturns, ReadLine, Execute, ProgramReads, ProgramWrites, ProgramEnds, Disconnect, vars, screen
  <2>2. ~early
    BY <2>1 DEF Disciplined, Type, TypeInv, ScreenOK
  <2>3. transport' = transport \/ transport = "unselected"
    BY DEF Next, Select, Launch, Save, Type, InputGoroutine, Input, BarrierBefore, Release, Refuse,
       OutputGoroutine, ReadMarker, BarrierAfter, AtPrompt, Display, OutputEnds, Hooks, PrintPrompt, HookAfter,
       HookBefore, HookReturns, ReadLine, Execute, ProgramReads, ProgramWrites, ProgramEnds, Disconnect, vars
  <2> QED
    BY <2>2, <2>3 DEF Disciplined
<1>2. Context
  BY <1>1 DEF TurnInv, Context, TurnParts
<1>3. CASE Select \/ Save \/ ProgramWrites \/ UNCHANGED vars
  BY <1>2, <1>3, AsideTurn
<1>4. CASE Launch \/ ProgramReads \/ ProgramEnds \/ HookBefore \/ Disconnect
  BY <1>2, <1>4, BetweenLinesTurn
<1>5. CASE \E kind \in Kinds : Type(kind)
  BY <1>2, <1>5, TypeTurn DEF Disciplined
<1>6. CASE InputGoroutine \/ (\E t \in Threads : Input(t) \/ BarrierBefore(t) \/ Release(t) \/ Refuse(t))
  BY <1>2, <1>6, InputTurn, BarrierBeforeTurn, ReleaseTurn, RefuseTurn DEF InputGoroutine, Threads
<1>7. CASE ReadMarker \/ BarrierAfter \/ AtPrompt \/ Display \/ OutputEnds
  BY <1>2, <1>7, ReadMarkerTurn, BarrierAfterTurn, AtPromptTurn, DisplayTurn, OutputEndsTurn
<1>8. CASE PrintPrompt \/ ReadLine \/ Execute
  BY <1>2, <1>8, PrintPromptTurn, ReadLineTurn, ExecuteTurn
<1>9. ~HookAfter /\ ~HookReturns
  BY <1>1, <1>2, NoHooks
<1> QED
  BY <1>3, <1>4, <1>5, <1>6, <1>7, <1>8, <1>9 DEF Next, OutputGoroutine, Hooks, Threads

\* Over SSH, as long as the user types at a displayed prompt only, every line bash runs ends
\* with an Enter the proxy held for a barrier that succeeded, the bytes reach the remote
\* terminal in the order they were typed, and no newline of a paste is held as an Enter
\* (inputController, internal/shell/proxy.go:320-404, with the rc file of
\* internal/agent/agent.go and the terminal's own bracketing of pastes).
THEOREM PromptIsDisciplined == Spec => []PromptDiscipline
<1> DEFINE I == TypeInv /\ Unstarted /\ PlacesInv /\ WrittenInv /\ TurnInv
<1>1. Init => I
  <2>1. Init => Unstarted /\ WrittenInv
    BY NothingInNothing DEF Init, Unstarted, WrittenInv
  <2> QED
    BY <2>1, InitTyped, InitPlaces, InitTurn
<1>2. I /\ [Next]_vars => I'
  BY NextTyped, UnstartedKept, NextPlaces, NextWritten, NextTurn
<1>3. I => PromptDiscipline
  <2> SUFFICES ASSUME I, Marked, ~early
               PROVE  /\ \A r \in ran : r.enter \in released
                      /\ \A i, j \in DOMAIN delivered : i < j => delivered[i] < delivered[j]
                      /\ \A i \in released \cup refused : ~InPaste(All, i, FALSE)
    BY DEF PromptDiscipline
  <2>1. BashTurn /\ EnterTurn /\ Rising(delivered)
    BY DEF TurnInv, Disciplined, Marked
  <2> QED
    BY <2>1 DEF BashTurn, EnterTurn, Rising, PasteAt
<1> QED
  BY <1>1, <1>2, <1>3, PTL DEF Spec

=============================================================================

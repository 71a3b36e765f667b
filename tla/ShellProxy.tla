------------------------------- MODULE ShellProxy -------------------------------
(***************************************************************************)
(* The interactive shell: the local PTY proxy (internal/shell/proxy.go),   *)
(* the remote bash it drives (its rc file, internal/agent/agent.go), and   *)
(* the choice between the two ways of synchronizing around a command       *)
(* (internal/cli/root.go, shellTransport).                                 *)
(*                                                                         *)
(* Over SSH the proxy holds Enter at a prompt for the barrier before the   *)
(* command, and everything from the prompt marker on for the barrier after *)
(* it.  Two goroutines do that: `in' reads the keyboard, `out' the remote  *)
(* terminal; both call inputController.Input, one critical section of its  *)
(* mutex at a time, with the barriers outside.  Over Mosh the proxy copies *)
(* bytes and bash itself runs the barriers, from its prompt and DEBUG      *)
(* hooks.  A byte is its position in `typed', so that what became of every *)
(* one of them can be told; a paste delimiter counts as one byte           *)
(* (TerminalStreams has their bytes).                                      *)
(***************************************************************************)
EXTENDS Integers, Sequences, FiniteSets

CONSTANTS
  Settings,      \* the configurations a shell is started with, each with its bounds
  MaxTyped, MaxSaves, MaxArtifacts, MaxFailures   \* the largest of these bounds

Setting == [wanted : {"auto", "ssh", "mosh"}, scope : {"host", "remote"},
            bridge : BOOLEAN, client : BOOLEAN, server : BOOLEAN,
            typed : 0..MaxTyped,           \* bound: bytes the user types
            saves : 0..MaxSaves,           \* bound: files the user saves on the Mac
            artifacts : 0..MaxArtifacts,   \* bound: files remote commands write
            failures : 0..MaxFailures]     \* bound: barriers that fail

ASSUME ShellAssumption ==
  /\ {MaxTyped, MaxSaves, MaxArtifacts, MaxFailures} \subseteq Nat
  /\ Settings \subseteq Setting

Threads == {"in", "out"}
Kinds == {"key", "enter", "begin", "end"}
Positions == 1..MaxTyped

VARIABLES
  setting,     \* the configuration of this shell
  transport,   \* what shellTransport chose
  typed,       \* the bytes typed so far, each with the number of saves before it
  taken,       \* how many of them the `in' goroutine has read
  atPrompt, syncing, pending, paste,   \* inputController
  pc, newline, replay,   \* where the two goroutines are, their Enter, what Prompt replays
  tty,         \* bytes written to the PTY which nobody has read at the other end
  bash,        \* what the remote shell is doing
  trap,        \* its DEBUG trap is set
  insertion,   \* readline is inside a bracketed paste
  line,        \* the Enter that submitted the current line
  output,      \* remote output on its way to the `out' goroutine
  prompted,    \* the terminal shows a prompt as the last thing
  saves, remoteSaves, artifacts, localArtifacts,   \* the two ends of the workspace
  failures,    \* barriers that failed
  delivered,   \* history: every byte written to the PTY, in order
  refused,     \* history: Enters whose barrier failed
  released,    \* history: Enters the proxy held for a barrier that succeeded
  ran,         \* history: lines bash executed, with the saves they could see
  shown,       \* history: what had been written when the last displayed prompt was printed
  settled,     \* history: the barrier after the last command succeeded
  early        \* history: the user has typed while no prompt was displayed

controller == <<atPrompt, syncing, pending, paste>>
threads    == <<pc, newline, replay>>
remote     == <<tty, bash, trap, insertion, line>>
workspace  == <<saves, remoteSaves, artifacts, localArtifacts, failures, settled>>
history    == <<delivered, refused, released, ran>>
screen     == <<prompted, shown, early>>
vars == <<setting, transport, typed, taken, controller, threads, remote, output, screen, workspace, history>>

Marked == transport \in {"inline", "ssh"}     \* Proxy.Nonce and Proxy.Barrier are set
NoLine == 0
Event == [kind : {"marker", "prompt", "text"}, artifacts : 0..MaxArtifacts]
Printed(kind) == [kind |-> kind, artifacts |-> artifacts]

Init ==
  /\ setting \in Settings /\ transport = "unselected"
  /\ typed = <<>> /\ taken = 0
  /\ atPrompt = FALSE /\ syncing = FALSE /\ pending = <<>> /\ paste = FALSE
  /\ pc = [t \in Threads |-> "idle"]
  /\ replay = <<>>
  /\ newline = [t \in Threads |-> NoLine]
  /\ tty = <<>> /\ bash = "launching" /\ trap = FALSE /\ insertion = FALSE /\ line = NoLine
  /\ output = <<>>
  /\ prompted = FALSE /\ shown = 0 /\ early = FALSE
  /\ saves = 0 /\ remoteSaves = 0 /\ artifacts = 0 /\ localArtifacts = 0 /\ failures = 0
  /\ settled = TRUE
  /\ delivered = <<>> /\ refused = {} /\ released = {} /\ ran = {}

-----------------------------------------------------------------------------
(* Starting the shell.                                                     *)

\* shellTransport.  `auto' is the predicting SSH shell; Mosh needs a host-scoped terminal,
\* the synchronization bridge and both programs.
MoshWorks(s) == s.scope = "host" /\ s.bridge /\ s.client /\ s.server
Transport(s) ==
  CASE s.wanted = "auto" -> "inline"
    [] s.wanted = "ssh" -> "ssh"
    [] s.wanted = "mosh" /\ MoshWorks(s) -> "mosh"
    [] OTHER -> "refused"

Select ==
  /\ transport = "unselected"
  /\ transport' = Transport(setting)
  /\ IF transport' = "refused"
     THEN bash' = "gone" /\ pc' = [t \in Threads |-> "done"]
     ELSE UNCHANGED <<bash, pc>>
  /\ UNCHANGED <<setting, typed, taken, controller, newline, replay, tty, trap, insertion, line, output,
                 screen, workspace, history>>

\* agent.shellCommand: wrappers, rc file, runtime, terminal configuration, exec.  Any of
\* them may fail, and the transport then ends.  Sourcing the rc file leads to the first
\* PROMPT_COMMAND.
Launch ==
  /\ transport \notin {"unselected", "refused"} /\ bash = "launching"
  /\ bash' \in {"hook", "gone"}
  /\ UNCHANGED <<setting, transport, typed, taken, controller, threads, tty, trap, insertion, line, output,
                 screen, workspace, history>>

-----------------------------------------------------------------------------
(* The user.                                                               *)

Save ==
  /\ saves < setting.saves
  /\ saves' = saves + 1
  /\ UNCHANGED <<setting, transport, typed, taken, controller, threads, remote, output, screen,
                 remoteSaves, artifacts, localArtifacts, failures, settled, history>>

\* Whether position i of the byte sequence s lies inside a bracketed paste, when the
\* sequence starts inside one (p) or not.
InPaste(s, i, p) ==
  LET delimiters == {j \in 1..(i - 1) : typed[s[j]].kind \in {"begin", "end"}}
  IN  IF delimiters = {} THEN p
      ELSE \E j \in delimiters : (\A k \in delimiters : k <= j) /\ typed[s[j]].kind = "begin"
All == [i \in 1..Len(typed) |-> i]
Pasting == InPaste(All, Len(typed) + 1, FALSE)

\* A terminal brackets a paste while a prompt is displayed (readline has switched that on),
\* and sends the end of what it has begun.
Type(kind) ==
  /\ transport \notin {"unselected", "refused"} /\ bash # "gone"
  /\ Len(typed) < setting.typed
  /\ kind = "begin" => prompted /\ ~Pasting
  /\ kind = "end" => Pasting
  /\ typed' = Append(typed, [kind |-> kind, saves |-> saves])
  /\ early' = (early \/ ~prompted)
  /\ prompted' = (prompted /\ ~(kind = "enter" /\ ~Pasting))
  /\ UNCHANGED <<setting, transport, taken, controller, threads, remote, output, shown, workspace, history>>

-----------------------------------------------------------------------------
(* inputController.                                                        *)

\* pty.Write
Write(bytes) == tty' = tty \o bytes /\ delivered' = delivered \o bytes

\* The first newline outside a paste ends the part of the data that may be written.
Submission(s) ==
  {i \in DOMAIN s : /\ typed[s[i]].kind = "enter" /\ ~InPaste(s, i, paste)
                    /\ \A j \in 1..(i - 1) : typed[s[j]].kind = "enter" => InPaste(s, j, paste)}

\* The critical section of Input.  `in' hands it what it has read from the keyboard, `out'
\* what Prompt found held.
Unread == [i \in 1..(Len(typed) - taken) |-> taken + i]
Given(t) ==
  \/ /\ t = "in" /\ pc[t] = "idle" /\ taken < Len(typed)
     /\ taken' = Len(typed)
     /\ UNCHANGED replay
  \/ /\ t = "out" /\ pc[t] = "replay"
     /\ replay' = <<>>
     /\ UNCHANGED taken
Input(t) ==
  /\ Given(t)
  /\ LET data == IF t = "in" THEN Unread ELSE replay IN
       \/ /\ syncing                                  \* hold everything
          /\ pending' = pending \o data
          /\ pc' = [pc EXCEPT ![t] = "idle"]
          /\ UNCHANGED <<newline, atPrompt, syncing, paste, tty, delivered>>
       \/ /\ ~syncing /\ ~atPrompt                    \* a program owns the terminal
          /\ Write(data)
          /\ pc' = [pc EXCEPT ![t] = "idle"]
          /\ UNCHANGED <<newline, controller>>
       \/ /\ ~syncing /\ atPrompt /\ Submission(data) = {}
          /\ Write(data)
          /\ paste' = InPaste(data, Len(data) + 1, paste)
          /\ pc' = [pc EXCEPT ![t] = "idle"]
          /\ UNCHANGED <<newline, atPrompt, syncing, pending>>
       \/ /\ ~syncing /\ atPrompt
          /\ \E i \in Submission(data) :
               /\ Write(SubSeq(data, 1, i - 1))
               /\ newline' = [newline EXCEPT ![t] = data[i]]
               /\ pending' = pending \o SubSeq(data, i + 1, Len(data))
          /\ syncing' = TRUE
          /\ paste' = FALSE
          /\ pc' = [pc EXCEPT ![t] = "barrier"]
          /\ UNCHANGED atPrompt
  /\ UNCHANGED <<setting, transport, typed, bash, trap, insertion, line, output, screen, workspace,
                 refused, released, ran>>

\* The barrier (SessionLifecycle's EnterBarrier to Flush) makes both ends equal; one that
\* fails may have done so or not.
Synchronize ==
  /\ remoteSaves' = saves /\ localArtifacts' = artifacts
  /\ UNCHANGED <<saves, artifacts, failures>>
SynchronizeFails ==
  /\ failures < setting.failures
  /\ failures' = failures + 1
  /\ \/ remoteSaves' = saves /\ localArtifacts' = artifacts
     \/ UNCHANGED <<remoteSaves, localArtifacts>>
  /\ UNCHANGED <<saves, artifacts>>

\* Mutant of BarrierBefore: the newline goes out whether the barrier failed or not.
BarrierBeforeUnchecked(t) ==
  /\ pc[t] = "barrier"
  /\ \/ Synchronize /\ pc' = [pc EXCEPT ![t] = "release"]
     \/ SynchronizeFails /\ pc' = [pc EXCEPT ![t] = "release"]
  /\ UNCHANGED <<setting, transport, typed, taken, controller, newline, replay, remote, output, screen, settled, history>>

BarrierBefore(t) ==
  /\ pc[t] = "barrier"
  /\ \/ Synchronize /\ pc' = [pc EXCEPT ![t] = "release"]
     \/ SynchronizeFails /\ pc' = [pc EXCEPT ![t] = "refuse"]
  /\ UNCHANGED <<setting, transport, typed, taken, controller, newline, replay, remote, output, screen, settled, history>>

\* Input's second critical section: the newline goes out and the command owns the terminal.
\* What was held meanwhile stays held until the next prompt.
Release(t) ==
  /\ pc[t] = "release"
  /\ Write(<<newline[t]>>)
  /\ released' = released \cup {newline[t]}
  /\ newline' = [newline EXCEPT ![t] = NoLine]
  /\ syncing' = FALSE /\ atPrompt' = FALSE
  /\ pc' = [pc EXCEPT ![t] = "idle"]
  /\ UNCHANGED <<setting, transport, typed, taken, pending, paste, replay, bash, trap, insertion, line,
                 output, screen, workspace, refused, ran>>

\* Mutant of Refuse: a refused Enter counts as having left the prompt.
RefuseLeavesPrompt(t) ==
  /\ pc[t] = "refuse"
  /\ refused' = refused \cup {newline[t]}
  /\ newline' = [newline EXCEPT ![t] = NoLine]
  /\ syncing' = FALSE /\ atPrompt' = FALSE
  /\ prompted' = TRUE
  /\ pc' = [pc EXCEPT ![t] = "idle"]
  /\ UNCHANGED <<setting, transport, typed, taken, pending, paste, replay, remote, output, shown, early,
                 workspace, delivered, released, ran>>

\* `execution blocked by sync barrier': the newline is dropped and the prompt is still there.
Refuse(t) ==
  /\ pc[t] = "refuse"
  /\ refused' = refused \cup {newline[t]}
  /\ newline' = [newline EXCEPT ![t] = NoLine]
  /\ syncing' = FALSE /\ atPrompt' = TRUE
  /\ prompted' = TRUE
  /\ pc' = [pc EXCEPT ![t] = "idle"]
  /\ UNCHANGED <<setting, transport, typed, taken, pending, paste, replay, remote, output, shown, early,
                 workspace, delivered, released, ran>>

-----------------------------------------------------------------------------
(* The goroutine that reads the remote terminal.                           *)

\* controller.BeginPrompt
ReadMarker ==
  /\ pc["out"] = "idle" /\ output # <<>> /\ Head(output).kind = "marker"
  /\ Marked
  /\ output' = Tail(output)
  /\ syncing' = TRUE /\ atPrompt' = FALSE /\ paste' = FALSE
  /\ pc' = [pc EXCEPT !["out"] = "after"]
  /\ UNCHANGED <<setting, transport, typed, taken, pending, replay, newline, remote, screen, workspace, history>>

\* The barrier after a command; its failure is reported and the prompt shown all the same.
BarrierAfter ==
  /\ pc["out"] = "after"
  /\ \/ Synchronize /\ settled' = TRUE
     \/ SynchronizeFails /\ settled' = FALSE
  /\ pc' = [pc EXCEPT !["out"] = "prompt"]
  /\ UNCHANGED <<setting, transport, typed, taken, controller, newline, replay, remote, output, screen, history>>

\* Mutant of AtPrompt: what is replayed also stays held.
AtPromptKeepsPending ==
  /\ pc["out"] = "prompt"
  /\ syncing' = FALSE /\ atPrompt' = TRUE
  /\ UNCHANGED pending
  /\ replay' = pending
  /\ pc' = [pc EXCEPT !["out"] = IF pending = <<>> THEN "idle" ELSE "replay"]
  /\ UNCHANGED <<setting, transport, typed, taken, paste, newline, remote, output, screen, workspace, history>>

\* controller.Prompt: what was held is handed to Input by this goroutine.
AtPrompt ==
  /\ pc["out"] = "prompt"
  /\ syncing' = FALSE /\ atPrompt' = TRUE
  /\ pending' = <<>>
  /\ replay' = pending
  /\ pc' = [pc EXCEPT !["out"] = IF pending = <<>> THEN "idle" ELSE "replay"]
  /\ UNCHANGED <<setting, transport, typed, taken, paste, newline, remote, output, screen, workspace, history>>

\* writeOutput
Display ==
  /\ pc["out"] = "idle" /\ output # <<>> /\ Head(output).kind # "marker"
  /\ output' = Tail(output)
  /\ prompted' = (Head(output).kind = "prompt")
  /\ shown' = IF Head(output).kind = "prompt" THEN Head(output).artifacts ELSE shown
  /\ UNCHANGED <<setting, transport, typed, taken, controller, threads, remote, early, workspace, history>>

\* Mutant of OutputEnds: Run waits for the goroutine that reads the keyboard too.
OutputEndsAfterInput ==
  /\ pc["out"] = "idle" /\ bash = "gone" /\ pc["in"] = "done"
  /\ output' = <<>>
  /\ pc' = [pc EXCEPT !["out"] = "done"]
  /\ UNCHANGED <<setting, transport, typed, taken, controller, newline, replay, remote, screen, workspace, history>>

\* The transport is gone: cmd.Wait returns, the PTY is closed (what had not been read may be
\* lost), the output goroutine ends, Run returns.  Nobody waits for the input goroutine.
OutputEnds ==
  /\ pc["out"] = "idle" /\ bash = "gone"
  /\ output' = <<>>
  /\ pc' = [pc EXCEPT !["out"] = "done"]
  /\ UNCHANGED <<setting, transport, typed, taken, controller, newline, replay, remote, screen, workspace, history>>

-----------------------------------------------------------------------------
(* The remote bash.                                                        *)

\* Over SSH, PROMPT_COMMAND prints the marker and bash its prompt.
PrintPrompt ==
  /\ bash = "hook" /\ Marked
  /\ output' = output \o <<Printed("marker"), Printed("prompt")>>
  /\ bash' = "reading" /\ insertion' = FALSE
  /\ UNCHANGED <<setting, transport, typed, taken, controller, threads, tty, trap, line, screen, workspace, history>>

\* Over Mosh, PROMPT_COMMAND runs __pwnbridge_after_command: pwnbridge-shell-barrier
\* (agent.shellBarrier, through the broker), whose failure is only printed, then the DEBUG
\* trap is set and the function returns.
HookAfter ==
  /\ bash = "hook" /\ ~Marked
  /\ \/ Synchronize /\ settled' = TRUE
     \/ SynchronizeFails /\ settled' = FALSE
  /\ trap' = TRUE
  /\ bash' = "returning"
  /\ UNCHANGED <<setting, transport, typed, taken, controller, threads, tty, insertion, line, output,
                 screen, history>>

\* __pwnbridge_before_command clears the trap, then runs the barrier; a failure makes bash
\* skip the command about to run.  `shopt -s extdebug' turns function tracing on, so the
\* first such command is the `return' of __pwnbridge_after_command itself.
Trapped == bash \in {"returning", "submitted"} /\ trap
HookBefore ==
  /\ Trapped
  /\ trap' = FALSE
  /\ \/ Synchronize /\ UNCHANGED bash
     \/ SynchronizeFails /\ bash' = IF bash = "returning" THEN bash ELSE "hook"
  /\ UNCHANGED <<setting, transport, typed, taken, controller, threads, tty, insertion, line, output,
                 screen, settled, history>>

HookReturns ==
  /\ bash = "returning" /\ ~trap
  /\ output' = Append(output, Printed("prompt"))
  /\ bash' = "reading" /\ insertion' = FALSE
  /\ UNCHANGED <<setting, transport, typed, taken, controller, threads, tty, trap, line, screen, workspace, history>>

\* readline takes what is there, up to an Enter outside a paste, which submits the line.
Enters == {i \in DOMAIN tty : typed[tty[i]].kind = "enter" /\ ~InPaste(tty, i, insertion)}
ReadLine ==
  /\ bash = "reading" /\ tty # <<>>
  /\ \/ /\ Enters = {}
        /\ insertion' = InPaste(tty, Len(tty) + 1, insertion)
        /\ tty' = <<>>
        /\ UNCHANGED <<bash, line>>
     \/ \E i \in Enters :
          /\ \A j \in Enters : i <= j
          /\ bash' = "submitted" /\ line' = tty[i]
          /\ tty' = SubSeq(tty, i + 1, Len(tty))
          /\ UNCHANGED insertion
  /\ UNCHANGED <<setting, transport, typed, taken, controller, threads, trap, output, screen, workspace, history>>

Execute ==
  /\ bash = "submitted" /\ ~trap
  /\ bash' = "running"
  /\ ran' = ran \cup {[enter |-> line, saw |-> remoteSaves]}
  /\ line' = NoLine
  /\ output' = Append(output, Printed("text"))
  /\ UNCHANGED <<setting, transport, typed, taken, controller, threads, tty, trap, insertion, screen,
                 workspace, delivered, refused, released>>

\* A program may read what is there; what it leaves is for bash.
ProgramReads ==
  /\ bash = "running" /\ tty # <<>>
  /\ tty' = <<>>
  /\ UNCHANGED <<setting, transport, typed, taken, controller, threads, bash, trap, insertion, line, output,
                 screen, workspace, history>>

ProgramWrites ==
  /\ bash = "running" /\ artifacts < setting.artifacts
  /\ artifacts' = artifacts + 1
  /\ UNCHANGED <<setting, transport, typed, taken, controller, threads, remote, output, screen,
                 saves, remoteSaves, localArtifacts, failures, settled, history>>

ProgramEnds ==
  /\ bash = "running"
  /\ bash' = "hook"
  /\ UNCHANGED <<setting, transport, typed, taken, controller, threads, tty, trap, insertion, line, output,
                 screen, workspace, history>>

\* `exit', or the connection is lost.
Disconnect ==
  /\ bash \notin {"launching", "gone"}
  /\ bash' = "gone"
  /\ UNCHANGED <<setting, transport, typed, taken, controller, threads, tty, trap, insertion, line, output,
                 screen, workspace, history>>

-----------------------------------------------------------------------------
InputGoroutine == Input("in") \/ BarrierBefore("in") \/ Release("in") \/ Refuse("in")
OutputGoroutine ==
  \/ ReadMarker \/ BarrierAfter \/ AtPrompt \/ Display \/ OutputEnds
  \/ Input("out") \/ BarrierBefore("out") \/ Release("out") \/ Refuse("out")
Hooks == PrintPrompt \/ HookAfter \/ HookBefore \/ HookReturns

Next ==
  \/ Select \/ Launch \/ Save \/ (\E kind \in Kinds : Type(kind))
  \/ InputGoroutine \/ OutputGoroutine
  \/ Hooks \/ ReadLine \/ Execute \/ ProgramReads \/ ProgramWrites \/ ProgramEnds \/ Disconnect

Spec == Init /\ [][Next]_vars

\* A goroutine that can go on does, and barriers have a deadline; nothing is assumed of the
\* user, of commands or of the keyboard's goroutine.
FairSpec == Spec /\ WF_vars(OutputGoroutine)

-----------------------------------------------------------------------------
(* Properties.                                                             *)

\* The type of every variable.
TypeOK ==
  /\ setting \in Settings
  /\ transport \in {"unselected", "inline", "ssh", "mosh", "refused"}
  /\ typed \in Seq([kind : Kinds, saves : 0..MaxSaves]) /\ taken \in 0..Len(typed)
  /\ {atPrompt, syncing, paste, trap, insertion, prompted, early, settled} \subseteq BOOLEAN
  /\ pc \in [Threads -> {"idle", "replay", "barrier", "release", "refuse", "after", "prompt", "done"}]
  /\ newline \in [Threads -> Positions \cup {NoLine}]
  /\ {pending, replay, tty, delivered} \subseteq Seq(Positions)
  /\ bash \in {"launching", "hook", "returning", "reading", "submitted", "running", "gone"}
  /\ line \in Positions \cup {NoLine}
  /\ output \in Seq(Event) /\ shown \in 0..MaxArtifacts
  /\ saves \in 0..MaxSaves /\ remoteSaves \in 0..saves
  /\ artifacts \in 0..MaxArtifacts /\ localArtifacts \in 0..artifacts
  /\ failures \in 0..MaxFailures
  /\ refused \subseteq Positions /\ released \subseteq Positions
  /\ ran \subseteq [enter : Positions, saw : 0..MaxSaves]

\* Whatever the two goroutines do to the same buffer, every byte the user typed is in
\* exactly one place: on its way, held, written, or an Enter whose barrier failed.
Accounted == delivered \o pending \o replay
Waiting == {newline[t] : t \in Threads} \ {NoLine}
NothingLostOrRepeated ==
  /\ {Accounted[i] : i \in DOMAIN Accounted} \cup Waiting \cup refused = 1..taken
  /\ Len(Accounted) + Cardinality(Waiting) + Cardinality(refused) = taken
InputAccounted == TypeOK /\ NothingLostOrRepeated

\* architecture.md: `save then immediately press Enter: the remote command observes the
\* save'.  It does whenever the proxy held the Enter, whatever else was typed...
HeldCommandsObserveSaves ==
  \A r \in ran : r.enter \in released => r.saw >= typed[r.enter].saves

\* ... and over SSH the proxy holds every Enter, keeps the order of the bytes and takes no
\* newline of a paste for an Enter, as long as the user types at a displayed prompt only.
PromptDiscipline ==
  Marked /\ ~early =>
    /\ \A r \in ran : r.enter \in released
    /\ \A i, j \in DOMAIN delivered : i < j => delivered[i] < delivered[j]
    /\ \A i \in released \cup refused : ~InPaste(All, i, FALSE)

\* architecture.md: `generate a core/log/patched binary: the local file exists before the
\* next managed prompt is visible', unless the barrier failed and said so.
PromptShowsArtifacts == settled => localArtifacts >= shown

\* The two barriers of a command: what was saved before it was submitted is there when
\* it runs, and what it wrote is there when the next prompt shows.
BarriersHold == HeldCommandsObserveSaves /\ PromptShowsArtifacts

\* What bash prints reaches the screen, also while input is held and replayed, as long as
\* the connection lives.
OutputReachesUser == output # <<>> ~> (output = <<>> \/ bash = "gone")

\* Proxy.Run returns once the transport is gone.
RunReturns == bash = "gone" ~> pc["out"] = "done"
OutputFlows == OutputReachesUser /\ RunReturns

\* README.md: `Before a command starts, Pwnbridge blocks until the latest local files are
\* safely synchronized.'  For a user who waits for the prompt...
PromptCommandsObserveSaves == ~early => \A r \in ran : r.saw >= typed[r.enter].saves

\* ... and for one who types ahead.
CommandsObserveSaves == \A r \in ran : r.saw >= typed[r.enter].saves

\* architecture.md: `Bytes pass through unchanged while a foreground program owns the
\* terminal.'
InputOrder == \A i, j \in DOMAIN delivered : i < j => delivered[i] < delivered[j]
=============================================================================

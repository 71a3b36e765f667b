---------------------------- MODULE TerminalStreams ----------------------------
(***************************************************************************)
(* The byte streams of the interactive shell (internal/shell): the parser  *)
(* of prompt markers, the filter that swallows Mosh's exit banner, the     *)
(* tracker of bracketed pastes and the echo predictor.  Bytes come in      *)
(* chunks of any size.  Each machine works on what it has been given so    *)
(* far; each is compared with a definition that sees the stream whole.     *)
(* A byte is a letter of a small alphabet, a delimiter a short word: like  *)
(* the real ones it starts with a letter (ESC, "[") it has nowhere else.   *)
(***************************************************************************)
EXTENDS Integers, Sequences, FiniteSets
LOCAL INSTANCE SequencesExt

CONSTANTS
  MaxStream,    \* bound: bytes in the stream of each machine
  MaxChunk      \* bound: bytes read at once

Markers == <<"esc", "p">>             \* \x1b]777;pwnbridge;<nonce>;prompt;
Notice  == <<"[", "m", "]">>          \* [mosh is exiting.]
PasteBegin == <<"esc", "0">>          \* \x1b[200~
PasteEnd   == <<"esc", "1">>          \* \x1b[201~

Alphabet(m) ==
  CASE m = "markers" -> {"esc", "p", "1", "-", "bell"}
    [] m = "notice"  -> {"[", "m", "]", "newline"}
    [] m = "paste"   -> {"esc", "0", "1", "newline"}
    [] m = "echo"    -> {"a", "esc", "[", "0", "1"}
Machines == {"markers", "notice", "paste", "echo"}

ASSUME StreamsAssumption == MaxStream \in [Machines -> Nat] /\ MaxChunk \in Nat

VARIABLES
  machine,    \* which of them this behaviour exercises
  fed,        \* the bytes it was given
  pending,    \* MarkerParser.pending, exitNoticeFilter.pending, echoPredictor.expected
  mode,       \* exitNoticeFilter.after, bracketedPasteTracker (active, match), echoPredictor.escape
  out,        \* what it let through
  echoed,     \* of the echo predictor: the bytes the remote terminal sent
  predicted,  \* history: the positions of the bytes displayed ahead of their echo
  foreign,    \* history: the remote terminal sent something else than their echo
  ended       \* Flush was called
streamVars == <<machine, fed, pending, mode, out, echoed, predicted, foreign, ended>>

NoMode == [after |-> FALSE, active |-> FALSE, match |-> 0, escape |-> 0]
StreamsInit ==
  /\ machine \in Machines
  /\ fed = <<>> /\ pending = <<>> /\ mode = NoMode /\ out = <<>> /\ echoed = <<>>
  /\ predicted = <<>> /\ foreign = FALSE /\ ended = FALSE

\* word occurs in s at position i
At(s, i, word) == i + Len(word) - 1 <= Len(s) /\ SubSeq(s, i, i + Len(word) - 1) = word
Occurrences(s, word) == {i \in DOMAIN s : At(s, i, word)}
First(S) == CHOOSE i \in S : \A j \in S : i <= j
Latest(S) == CHOOSE i \in S : \A j \in S : j <= i
From(s, i) == SubSeq(s, i, Len(s))
SelectSeqOf(s, S) ==
  FoldLeft(LAMBDA kept, i : IF i \in S THEN Append(kept, s[i]) ELSE kept, <<>>, [i \in DOMAIN s |-> i])

-----------------------------------------------------------------------------
(* MarkerParser.                                                           *)

\* strconv.Atoi succeeds: a sign may come first, then digits only.
Digits(s) == s # <<>> /\ \A i \in DOMAIN s : s[i] = "1"
Number(s) == Digits(s) \/ (s # <<>> /\ Head(s) = "-" /\ Digits(Tail(s)))

\* suffixPrefix: how much of the end of data may be the beginning of a marker.
SuffixPrefix(data) ==
  LET sizes == {n \in 1..(Len(Markers) - 1) :
                  n <= Len(data) /\ From(data, Len(data) - n + 1) = SubSeq(Markers, 1, n)}
  IN  IF sizes = {} THEN 0 ELSE Latest(sizes)

Prompt(status) == [prompt |-> status]

\* Mutant of Parse: a marker that is cut off is given up.
ParseUnbuffered(data, events) ==
  LET starts == Occurrences(data, Markers)
      body == IF starts = {} THEN <<>> ELSE From(data, First(starts) + Len(Markers))
      bells == Occurrences(body, <<"bell">>)
      status == SubSeq(body, 1, First(bells) - 1)
  IN IF bells = {} \/ ~Number(status) THEN [events |-> events \o data, pending |-> <<>>]
     ELSE [events |-> (events \o SubSeq(data, 1, First(starts) - 1))
                        \o <<Prompt(status)>> \o From(body, First(bells) + 1),
           pending |-> <<>>]

\* The loop of Feed, over what was pending and the new bytes; a prompt event is a record.
RECURSIVE Parse(_, _)
Parse(data, events) ==
  LET starts == Occurrences(data, Markers)
      kept   == SuffixPrefix(data)
  IN IF starts = {}
     THEN [events |-> events \o SubSeq(data, 1, Len(data) - kept),
           pending |-> From(data, Len(data) - kept + 1)]
     ELSE LET rest   == From(data, First(starts))
              before == events \o SubSeq(data, 1, First(starts) - 1)
              body   == From(rest, Len(Markers) + 1)
              bells  == Occurrences(body, <<"bell">>)
              status == SubSeq(body, 1, First(bells) - 1)
          IN CASE bells = {} -> [events |-> before, pending |-> rest]
               [] bells # {} /\ ~Number(status) -> Parse(Tail(rest), Append(before, Head(rest)))
               [] OTHER -> Parse(From(body, First(bells) + 1), Append(before, Prompt(status)))

FeedMarkers(chunk) ==
  LET result == Parse(pending \o chunk, <<>>)
  IN  out' = out \o result.events /\ pending' = result.pending /\ UNCHANGED <<mode, echoed, predicted>>

\* What the stream means: it is cut at the first place where a marker has begun whose end
\* is not there yet, and every whole marker before is a prompt.
Length(s, i) ==
  LET bells == Occurrences(From(s, i), <<"bell">>) IN IF bells = {} THEN 0 ELSE First(bells)
IsMarker(s, i) ==
  At(s, i, Markers) /\ Length(s, i) > 0
    /\ Number(SubSeq(s, i + Len(Markers), i + Length(s, i) - 2))
Undecided(s) ==
  {i \in DOMAIN s : \/ IsStrictPrefix(From(s, i), Markers)
                    \/ At(s, i, Markers) /\ Length(s, i) = 0}
Decided(s) == IF Undecided(s) = {} THEN s ELSE SubSeq(s, 1, First(Undecided(s)) - 1)
InsideMarker(s, i) == \E j \in 1..(i - 1) : IsMarker(s, j) /\ i < j + Length(s, j)
MarkerMeaning(s) ==
  FoldLeft(LAMBDA events, i :
             CASE IsMarker(s, i) -> Append(events, Prompt(SubSeq(s, i + Len(Markers), i + Length(s, i) - 2)))
               [] InsideMarker(s, i) -> events
               [] OTHER -> Append(events, s[i]),
           <<>>, [i \in DOMAIN s |-> i])

-----------------------------------------------------------------------------
(* exitNoticeFilter.                                                       *)

\* One byte of Write: drop from the front what cannot become the notice.
Drop(held) == First({n \in 0..Len(held) : IsPrefix(From(held, n + 1), Notice)})
NoticeByte(state, byte) ==
  LET held == Append(state.pending, byte)
      kept == From(held, Drop(held) + 1)
  IN IF state.after /\ byte = "newline" THEN state
     ELSE [after |-> kept = Notice,
           pending |-> IF kept = Notice THEN <<>> ELSE kept,
           out |-> state.out \o SubSeq(held, 1, Drop(held))]

FeedNotice(chunk) ==
  LET result == FoldLeft(NoticeByte, [after |-> mode.after, pending |-> pending, out |-> out], chunk)
  IN /\ out' = result.out /\ pending' = result.pending
     /\ mode' = [mode EXCEPT !.after = result.after]
     /\ UNCHANGED <<echoed, predicted>>

\* What the filter promises: the stream without the notices and the line ends that follow
\* them, as far as it is not the beginning of another notice.
InNotice(s, i) == \E j \in Occurrences(s, Notice) : j <= i /\ i < j + Len(Notice)
AfterNotice(s, i) ==
  \E j \in Occurrences(s, Notice) :
    j + Len(Notice) <= i /\ \A k \in (j + Len(Notice))..i : s[k] = "newline"
Begun(s) == {i \in DOMAIN s : IsStrictPrefix(From(s, i), Notice)}
NoticeMeaning(s) ==
  LET open == IF Begun(s) = {} \/ ended THEN Len(s) + 1 ELSE First(Begun(s))
  IN SelectSeqOf(s, {i \in 1..(open - 1) : ~InNotice(s, i) /\ ~AfterNotice(s, i)})

-----------------------------------------------------------------------------
(* bracketedPasteTracker.Feed, and the newlines inputController takes for   *)
(* submissions (out is their positions).                                    *)

TrackPaste(state, byte) ==
  LET delimiter == IF state.active THEN PasteEnd ELSE PasteBegin IN
  IF byte = delimiter[state.match + 1]
  THEN IF state.match + 1 = Len(delimiter)
       THEN [active |-> ~state.active, match |-> 0, paste |-> TRUE]
       ELSE [active |-> state.active, match |-> state.match + 1, paste |-> TRUE]
  ELSE LET match == IF byte = delimiter[1] THEN 1 ELSE 0
       IN  [active |-> state.active, match |-> match, paste |-> state.active \/ match > 0]

FeedPaste(chunk) ==
  LET step(state, i) ==
        LET next == TrackPaste(state, chunk[i])
        IN  [active |-> next.active, match |-> next.match,
             submitted |-> IF chunk[i] = "newline" /\ ~next.paste
                           THEN Append(state.submitted, Len(fed) + i) ELSE state.submitted]
      result == FoldLeft(step, [active |-> mode.active, match |-> mode.match, submitted |-> out],
                         [i \in DOMAIN chunk |-> i])
  IN /\ mode' = [mode EXCEPT !.active = result.active, !.match = result.match]
     /\ out' = result.submitted
     /\ UNCHANGED <<pending, echoed, predicted>>

\* A byte is inside a paste when the last delimiter before it began one.
Delimiters(s, i) ==
  {j \in 1..(i - 2) : At(s, j, PasteBegin) \/ At(s, j, PasteEnd)}
InsidePaste(s, i) ==
  LET before == Delimiters(s, i)
  IN  before # {} /\ At(s, Latest(before), PasteBegin)

-----------------------------------------------------------------------------
(* echoPredictor.                                                          *)

\* Predict displays printable bytes at once, except those of escape sequences and pastes.
Finals == {"a", "["}      \* 0x40 to 0x7e end a CSI sequence
PredictByte(state, i, byte) ==
  LET tracked == TrackPaste(state, byte)
      moved == [state EXCEPT !.active = tracked.active, !.match = tracked.match]
  IN CASE state.escape = 1 -> [moved EXCEPT !.escape = IF byte = "[" THEN 2 ELSE 0]
       [] state.escape = 2 -> [moved EXCEPT !.escape = IF byte \in Finals THEN 0 ELSE 2]
       [] state.escape = 0 /\ byte = "esc" -> [moved EXCEPT !.escape = 1]
       [] OTHER -> IF tracked.paste THEN moved ELSE [moved EXCEPT !.local = Append(@, i)]
Predict(chunk) ==
  LET result == FoldLeft(LAMBDA state, i : PredictByte(state, Len(fed) + i, chunk[i]),
                         [active |-> mode.active, match |-> mode.match,
                          escape |-> mode.escape, local |-> <<>>],
                         [i \in DOMAIN chunk |-> i])
      local == [k \in DOMAIN result.local |-> chunk[result.local[k] - Len(fed)]]
  IN /\ pending' = pending \o local
     /\ out' = out \o local
     /\ predicted' = predicted \o result.local
     /\ mode' = [mode EXCEPT !.active = result.active, !.match = result.match,
                             !.escape = result.escape]
     /\ UNCHANGED echoed

\* Write: remote bytes that were expected have been displayed already; the first that was
\* not cancels what is expected, and it and the rest are displayed.
EchoByte(state, byte) ==
  IF state.expected # <<>> /\ byte = Head(state.expected)
  THEN [state EXCEPT !.expected = Tail(@)]
  ELSE [expected |-> <<>>, remote |-> Append(state.remote, byte)]

\* The bytes outside escape sequences (ESC with one byte, or a CSI sequence up to its final
\* byte) and pastes.
EscapeEnd(s, i) ==
  LET finals == {j \in (i + 2)..Len(s) : s[j] \in Finals} IN
  IF At(s, i + 1, <<"[">>) THEN IF finals = {} THEN Len(s) ELSE First(finals) ELSE i + 1
RECURSIVE Plain(_, _)
Plain(s, i) ==
  IF i > Len(s) THEN {}
  ELSE IF s[i] = "esc" THEN Plain(s, EscapeEnd(s, i) + 1)
  ELSE {i} \cup Plain(s, i + 1)
InDelimiter(s, i) ==
  \E j \in (i - 1)..i : j > 0 /\ At(s, j, IF InsidePaste(s, j) THEN PasteEnd ELSE PasteBegin)
Typing(s) == {i \in Plain(s, 1) : ~InsidePaste(s, i) /\ ~InDelimiter(s, i)}
Predicted == [k \in DOMAIN predicted |-> fed[predicted[k]]]

RemoteEcho(chunk) ==
  /\ machine = "echo" /\ Len(fed) + Len(echoed) + Len(chunk) <= MaxStream[machine]
  /\ LET result == FoldLeft(EchoByte, [expected |-> pending, remote |-> <<>>], chunk)
     IN  pending' = result.expected /\ out' = out \o result.remote
  /\ echoed' = echoed \o chunk
  /\ foreign' = (foreign \/ ~IsPrefix(echoed', Predicted))
  /\ UNCHANGED <<machine, fed, mode, predicted, ended>>

\* Reset, at a prompt; the histories start again.
ResetPrediction ==
  /\ machine = "echo"
  /\ pending' = <<>> /\ mode' = NoMode
  /\ fed' = <<>> /\ out' = <<>> /\ echoed' = <<>>
  /\ predicted' = <<>> /\ foreign' = FALSE
  /\ UNCHANGED <<machine, ended>>

-----------------------------------------------------------------------------
Chunks(m) == UNION {[1..n -> Alphabet(m)] : n \in 1..MaxChunk}

Feed(chunk) ==
  /\ ~ended /\ Len(fed) + Len(echoed) + Len(chunk) <= MaxStream[machine]
  /\ fed' = fed \o chunk
  /\ CASE machine = "markers" -> FeedMarkers(chunk)
       [] machine = "notice"  -> FeedNotice(chunk)
       [] machine = "paste"   -> FeedPaste(chunk)
       [] machine = "echo"    -> Predict(chunk)
  /\ UNCHANGED <<machine, foreign, ended>>

\* The end of the stream: what was held is let through.
Flush ==
  /\ machine \in {"markers", "notice"} /\ ~ended
  /\ out' = out \o pending
  /\ pending' = <<>>
  /\ ended' = TRUE
  /\ UNCHANGED <<machine, fed, mode, echoed, predicted, foreign>>

StreamsNext ==
  \/ \E chunk \in Chunks(machine) : Feed(chunk)
  \/ \E chunk \in Chunks("echo") : RemoteEcho(chunk)
  \/ ResetPrediction
  \/ Flush
StreamsSpec == StreamsInit /\ [][StreamsNext]_streamVars

-----------------------------------------------------------------------------
(* Properties.                                                             *)

\* However the bytes are cut into reads, the parser finds the markers of the whole stream
\* (marker.go: a marker split between reads is recognised, a fake one preserved), holds
\* back only what may still become a marker, and gives it back at the end.
MarkersFound ==
  machine = "markers" =>
    IF ended THEN out = MarkerMeaning(Decided(fed)) \o From(fed, Len(Decided(fed)) + 1)
    ELSE out = MarkerMeaning(Decided(fed)) /\ pending = From(fed, Len(Decided(fed)) + 1)

\* However the bytes are cut, the filter removes the notices and nothing else, and holds
\* back nothing but the beginning of one.
NoticesRemoved == machine = "notice" => out = NoticeMeaning(fed)

\* However a paste is cut, its newlines are not submissions and all others are.
PastesTracked ==
  machine = "paste" =>
    out = SelectSeq([i \in DOMAIN fed |-> i], LAMBDA i : fed[i] = "newline" /\ ~InsidePaste(fed, i))

\* Every byte the remote terminal sends is on the screen, in order, predicted or not; while
\* it does nothing but echo what was predicted, so is every predicted byte, once; and no byte
\* of an escape sequence or a paste is displayed ahead of its echo.
EchoOnce ==
  machine = "echo" =>
    /\ \E S \in SUBSET DOMAIN out : SelectSeqOf(out, S) = echoed
    /\ ~foreign => out = Predicted
    /\ \A k \in DOMAIN predicted : predicted[k] \in Typing(fed)

\* Each of the four machines does what its definition over the whole stream says.
StreamsAgree == MarkersFound /\ NoticesRemoved /\ PastesTracked /\ EchoOnce
=============================================================================

----------------------------- MODULE SseDecoder -----------------------------
(***************************************************************************)
(* The incremental decoder of server.rs: chunks of the upstream body, cut  *)
(* anywhere, are appended to a buffer whose complete lines are decoded     *)
(* before push returns.  TLC is shown that the frames are those of the     *)
(* bytes received, whatever the chunks, and the proofs that the decoder    *)
(* implements SseLines.                                                    *)
(***************************************************************************)
EXTENDS Lists

CONSTANT Streams                \* the event streams that upstream may send

VARIABLES unsent,               \* bytes that have not arrived yet
          buffer,               \* SseDecoder::buffer
          data_lines,           \* SseDecoder::data_lines
          frames,               \* frames returned by push so far
          received              \* history: the bytes that have arrived

vars == <<unsent, buffer, data_lines, frames, received>>

\* The promise, read from what is buffered followed by what is still to come.
Lines == INSTANCE SseLines WITH rest <- buffer \o unsent

ASSUME StreamsAssumption == Streams \subseteq Seq(Lines!Bytes)

Init ==
  /\ unsent \in Streams
  /\ buffer = <<>> /\ data_lines = <<>> /\ frames = <<>> /\ received = <<>>

\* Mutant: the chunk replaces what was left of the last one.
Receive_Replaces ==
  /\ ~Lines!HasLine(buffer)
  /\ \E n \in 1 .. Len(unsent) :
       /\ buffer' = SubSeq(unsent, 1, n)
       /\ received' = received \o SubSeq(unsent, 1, n)
       /\ unsent' = SubSeq(unsent, n + 1, Len(unsent))
  /\ UNCHANGED <<data_lines, frames>>

\* push is called with the next chunk, of any length.
Receive ==
  /\ ~Lines!HasLine(buffer)
  /\ \E n \in 1 .. Len(unsent) :
       /\ buffer' = buffer \o SubSeq(unsent, 1, n)
       /\ received' = received \o SubSeq(unsent, 1, n)
       /\ unsent' = SubSeq(unsent, n + 1, Len(unsent))
  /\ UNCHANGED <<data_lines, frames>>

\* Mutant: the buffer is cleared, not drained.
TakeLine_Clears ==
  /\ Lines!HasLine(buffer)
  /\ Lines!Digest(Lines!Line(buffer))
  /\ buffer' = <<>>
  /\ UNCHANGED <<unsent, received>>

\* One round of the while loop of push.
TakeLine ==
  /\ Lines!HasLine(buffer)
  /\ Lines!Digest(Lines!Line(buffer))
  /\ buffer' = Lines!AfterLine(buffer)
  /\ UNCHANGED <<unsent, received>>

Next == Receive \/ TakeLine

Spec == Init /\ [][Next]_vars

-----------------------------------------------------------------------------
(* An independent reading of a byte sequence: what each of its lines adds, *)
(* told from the lines before it and not from any decoder state.           *)

Newlines(s) == {i \in 1 .. Len(s) : s[i] = Lines!LF}

\* Where the line that ends at position i starts: after the newline before it.
Starts(s, i) ==
  {f \in 1 .. i : /\ f > 1 => f - 1 \in Newlines(s)
                  /\ \A j \in Newlines(s) : j < i => j < f}

\* The line that ends at position i, without its line end.
LineAt(s, i) ==
  LET first == CHOOSE f \in Starts(s, i) : TRUE
  IN SubSeq(s, first, IF i > first /\ s[i - 1] = Lines!CR THEN i - 2 ELSE i - 1)

\* The data lines of the event that is open before position i, by where they end.
OpenLines(s, i) ==
  {j \in Newlines(s) : /\ j < i /\ Lines!IsData(LineAt(s, j))
                       /\ \A k \in Newlines(s) : j < k /\ k < i => LineAt(s, k) # <<>>}

\* What they hold, in order.
OpenData(s, i) == Pick([j \in 1 .. Len(s) |-> Lines!Value(LineAt(s, j))], OpenLines(s, i))

\* The positions whose line completes a frame, and that frame.
Completes(s, i) ==
  \/ LineAt(s, i) = <<>> /\ OpenData(s, i) # <<>>
  \/ Lines!StartsWith(LineAt(s, i), <<":">>) /\ OpenData(s, i) = <<>>

FrameAt(s, i) ==
  IF LineAt(s, i) = <<>> THEN Lines!FrameOf(OpenData(s, i))
                         ELSE [kind |-> "comment", lines |-> <<LineAt(s, i)>>]

FramesOf(s) ==
  Pick([i \in 1 .. Len(s) |-> FrameAt(s, i)], {i \in Newlines(s) : Completes(s, i)})

-----------------------------------------------------------------------------
\* The parts of the stream stay sequences of bytes, and no newline gets into a
\* data line or a comment (of which the join of the data lines makes use).
TypeOK ==
  /\ {unsent, buffer, received} \subseteq Seq(Lines!Bytes)
  /\ data_lines \in Seq(Seq(Lines!Text))
  /\ frames \in Seq([kind : {"comment", "data", "done"}, lines : Seq(Seq(Lines!Text))])

\* Whenever push has returned, the frames returned so far are those of the bytes
\* received so far read in one piece: no cut loses, splits, doubles, reorders or
\* holds back an event, at no place in a field name, a CR LF pair or a marker.
ChunksDoNotMatter == ~Lines!HasLine(buffer) => frames = FramesOf(received)

\* The chunked decoder is the decoder of the whole stream, line by line.
ImplementsLines == Lines!Spec
=============================================================================

------------------------------ MODULE SseLines ------------------------------
(***************************************************************************)
(* What SseDecoder promises: the frames of an event stream that lies there *)
(* in one piece, read line by line.                                        *)
(*                                                                         *)
(* A byte is one of the strings below.  "data" stands for the four letters *)
(* of the field name and "[DONE]" for the six bytes of the end marker: the *)
(* code looks at them only in whole lines, so where a chunk cuts them open *)
(* makes no difference that a cut before or after them does not make.      *)
(* The join of the data lines is the sequence of the lines itself, which   *)
(* says the same, for no line holds a newline.                             *)
(***************************************************************************)
EXTENDS Sequences, Naturals

CONSTANT Streams                \* the event streams that may be sent

LF == "\n"
CR == "\r"
Text == {"data", ":", " ", "x", "[DONE]", CR}
Bytes == Text \cup {LF}

VARIABLES rest,                 \* bytes whose lines are still to be read
          data_lines,           \* data lines of the event being read
          frames                \* Comment, Data and Done frames so far

vars == <<rest, data_lines, frames>>

\* position(|byte| *byte == b'\n')
IsNewline(s, i) ==
  i \in 1 .. Len(s) /\ s[i] = LF /\ \A j \in 1 .. i - 1 : s[j] # LF

HasLine(s) == \E i \in 1 .. Len(s) : IsNewline(s, i)

Newline(s) == CHOOSE i \in 1 .. Len(s) : IsNewline(s, i)

\* drain(..=newline), pop the newline and a carriage return before it
Line(s) ==
  LET n == Newline(s)
  IN SubSeq(s, 1, IF n > 1 /\ s[n - 1] = CR THEN n - 2 ELSE n - 1)

AfterLine(s) == SubSeq(s, Newline(s) + 1, Len(s))

StartsWith(line, prefix) ==
  Len(prefix) <= Len(line) /\ SubSeq(line, 1, Len(prefix)) = prefix

IsData(line) == StartsWith(line, <<"data", ":">>)

\* The value of a data line: what follows the colon and at most one space.
Value(line) ==
  SubSeq(line, IF StartsWith(line, <<"data", ":", " ">>) THEN 4 ELSE 3, Len(line))

\* flush: the frame of the collected data lines
FrameOf(lines) ==
  IF lines = <<<<"[DONE]">>>> THEN [kind |-> "done", lines |-> <<>>]
                              ELSE [kind |-> "data", lines |-> lines]

\* The body of the while loop once the line is cut off: a blank line ends the
\* event, a data line is collected, and a comment is passed on at once unless
\* it lies inside an event; every other field is ignored.
Digest(line) ==
  \/ /\ line = <<>>
     /\ data_lines' = <<>>
     /\ frames' = IF data_lines = <<>> THEN frames
                                       ELSE Append(frames, FrameOf(data_lines))
  \/ /\ IsData(line)
     /\ data_lines' = Append(data_lines, Value(line))
     /\ frames' = frames
  \/ /\ StartsWith(line, <<":">>) /\ data_lines = <<>>
     /\ frames' = Append(frames, [kind |-> "comment", lines |-> <<line>>])
     /\ data_lines' = data_lines
  \/ /\ line # <<>> /\ ~IsData(line)
     /\ ~(StartsWith(line, <<":">>) /\ data_lines = <<>>)
     /\ UNCHANGED <<data_lines, frames>>

Init == rest \in Streams /\ data_lines = <<>> /\ frames = <<>>

ReadLine ==
  /\ HasLine(rest)
  /\ Digest(Line(rest))
  /\ rest' = AfterLine(rest)

Spec == Init /\ [][ReadLine]_vars
=============================================================================

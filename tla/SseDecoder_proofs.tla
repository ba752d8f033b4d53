------------------------- MODULE SseDecoder_proofs -------------------------
(***************************************************************************)
(* The decoder implements SseLines for every set of streams: where the     *)
(* chunks are cut makes no difference, because the first newline of the    *)
(* buffer is the first newline of the buffer and all that is still to come.*)
(***************************************************************************)
EXTENDS SseDecoder, Lists_proofs

\* What the first newline of a sequence that has one is.
LEMMA NewlineFound ==
  ASSUME NEW s, Lines!HasLine(s)
  PROVE  Lines!IsNewline(s, Lines!Newline(s))
  BY DEF Lines!HasLine, Lines!Newline

\* A sequence has one first newline.
LEMMA NewlineUnique ==
  ASSUME NEW s, NEW i, NEW j, Len(s) \in Nat,
         Lines!IsNewline(s, i), Lines!IsNewline(s, j)
  PROVE  i = j
  BY DEF Lines!IsNewline

\* What follows the buffer does not move its first newline.
LEMMA NewlineStays ==
  ASSUME NEW S, NEW b \in Seq(S), NEW u \in Seq(S), Lines!HasLine(b)
  PROVE  Lines!HasLine(b \o u) /\ Lines!Newline(b \o u) = Lines!Newline(b)
<1>1. Lines!IsNewline(b, Lines!Newline(b))
  BY NewlineFound
<1>2. Lines!IsNewline(b \o u, Lines!Newline(b))
  BY <1>1 DEF Lines!IsNewline
<1>3. Lines!HasLine(b \o u)
  BY <1>2 DEF Lines!HasLine, Lines!IsNewline
<1>4. Lines!IsNewline(b \o u, Lines!Newline(b \o u))
  BY <1>3, NewlineFound
<1>5. Len(b \o u) \in Nat
  OBVIOUS
<1> QED
  BY <1>2, <1>3, <1>4, <1>5, NewlineUnique

\* The first line is the same, and the rest is the rest of the buffer followed
\* by what comes after it.
LEMMA LineStays ==
  ASSUME NEW S, NEW b \in Seq(S), NEW u \in Seq(S), Lines!HasLine(b)
  PROVE  /\ Lines!Line(b \o u) = Lines!Line(b)
         /\ Lines!AfterLine(b \o u) = Lines!AfterLine(b) \o u
<1> DEFINE n == Lines!Newline(b)
<1>1. n \in 1 .. Len(b)
  BY NewlineFound DEF Lines!IsNewline
<1>2. Lines!Newline(b \o u) = n
  BY NewlineStays
<1>3. \A i \in 1 .. Len(b) : (b \o u)[i] = b[i]
  OBVIOUS
<1>4. \A k \in 0 .. Len(b) : SubSeq(b \o u, 1, k) = SubSeq(b, 1, k)
  OBVIOUS
<1> HIDE DEF n
<1>5. Lines!Line(b \o u) = Lines!Line(b)
  <2>1. CASE n > 1 /\ b[n - 1] = Lines!CR
    BY <1>1, <1>2, <1>3, <1>4, <2>1 DEF Lines!Line, n
  <2>2. CASE ~(n > 1 /\ b[n - 1] = Lines!CR)
    BY <1>1, <1>2, <1>3, <1>4, <2>2 DEF Lines!Line, n
  <2> QED
    BY <2>1, <2>2
<1>6. SubSeq(b \o u, n + 1, Len(b \o u)) = SubSeq(b, n + 1, Len(b)) \o u
  <2> DEFINE l == SubSeq(b \o u, n + 1, Len(b \o u))
             r == SubSeq(b, n + 1, Len(b)) \o u
  <2>1. l \in Seq(S) /\ r \in Seq(S)
    BY <1>1
  <2>2. Len(l) = Len(r)
    BY <1>1
  <2>3. \A i \in 1 .. Len(l) : l[i] = r[i]
    BY <1>1
  <2> QED
    BY <2>1, <2>2, <2>3, SeqEqual
<1> QED
  BY <1>2, <1>5, <1>6 DEF Lines!AfterLine, n

\* A chunk goes over from the front of one sequence to the end of the other.
LEMMA ChunkMoves ==
  ASSUME NEW S, NEW b \in Seq(S), NEW u \in Seq(S), NEW n \in 1 .. Len(u)
  PROVE  (b \o SubSeq(u, 1, n)) \o SubSeq(u, n + 1, Len(u)) = b \o u
<1>1. ASSUME NEW a \in Seq(S), NEW z \in Seq(S),
             a = SubSeq(u, 1, n), z = SubSeq(u, n + 1, Len(u))
      PROVE  (b \o a) \o z = b \o u
  <2>1. a \o z = u
    BY <1>1
  <2>2. (b \o a) \o z = b \o (a \o z)
    OBVIOUS
  <2> QED
    BY <2>1, <2>2
<1>2. SubSeq(u, 1, n) \in Seq(S) /\ SubSeq(u, n + 1, Len(u)) \in Seq(S)
  OBVIOUS
<1> QED
  BY <1>1, <1>2, Zenon

\* A sequence is cut into sequences.
LEMMA CutTyped ==
  ASSUME NEW S, NEW s \in Seq(S), NEW m \in Nat, NEW n \in Int, m >= 1, n <= Len(s)
  PROVE  SubSeq(s, m, n) \in Seq(S)
<1>1. \A i \in m .. n : s[i] \in S
  BY ElementOfSeq, LenProperties
<1> QED
  BY <1>1, SubSeqProperties

LEMMA ValueTyped ==
  ASSUME NEW s \in Seq(Lines!Text)
  PROVE  Lines!Value(s) \in Seq(Lines!Text)
<1>1. Len(s) \in Nat
  BY LenProperties
<1>2. SubSeq(s, 3, Len(s)) \in Seq(Lines!Text) /\ SubSeq(s, 4, Len(s)) \in Seq(Lines!Text)
  BY <1>1, CutTyped
<1> QED
  BY <1>2 DEF Lines!Value

LEMMA LineTyped ==
  ASSUME NEW s \in Seq(Lines!Bytes), Lines!HasLine(s)
  PROVE  Lines!Line(s) \in Seq(Lines!Text) /\ Lines!AfterLine(s) \in Seq(Lines!Bytes)
<1> DEFINE n == Lines!Newline(s)
<1>1. n \in 1 .. Len(s) /\ Len(s) \in Nat /\ \A j \in 1 .. n - 1 : s[j] # Lines!LF
  BY NewlineFound, LenProperties DEF Lines!IsNewline
<1> HIDE DEF n
<1>2. SubSeq(s, n + 1, Len(s)) \in Seq(Lines!Bytes)
  BY <1>1, CutTyped
<1>3. \A j \in 1 .. n - 1 : s[j] \in Lines!Text
  <2> SUFFICES ASSUME NEW j \in 1 .. n - 1 PROVE s[j] \in Lines!Text
    OBVIOUS
  <2>1. s[j] \in Lines!Bytes
    BY <1>1, ElementOfSeq
  <2> QED
    BY <1>1, <2>1 DEF Lines!Bytes
<1>4. SubSeq(s, 1, n - 1) \in Seq(Lines!Text) /\ SubSeq(s, 1, n - 2) \in Seq(Lines!Text)
  BY <1>1, <1>3, SubSeqProperties
<1> QED
  BY <1>2, <1>4 DEF Lines!Line, Lines!AfterLine, n

Frame == [kind : {"comment", "data", "done"}, lines : Seq(Seq(Lines!Text))]

\* One line leaves the data lines and the frames well typed.
LEMMA DigestTyped ==
  ASSUME NEW line \in Seq(Lines!Text), Lines!Digest(line),
         data_lines \in Seq(Seq(Lines!Text)), frames \in Seq(Frame)
  PROVE  data_lines' \in Seq(Seq(Lines!Text)) /\ frames' \in Seq(Frame)
<1>1. Lines!Value(line) \in Seq(Lines!Text)
  BY ValueTyped
<1>2. Lines!FrameOf(data_lines) \in Frame
  BY DEF Lines!FrameOf, Frame
<1>3. [kind |-> "comment", lines |-> <<line>>] \in Frame
  BY DEF Frame
<1>4. CASE data_lines' = <<>> /\ frames' \in {frames, Append(frames, Lines!FrameOf(data_lines))}
  BY SMTT(40), <1>2, <1>4, AppendProperties
<1>5. CASE data_lines' = Append(data_lines, Lines!Value(line)) /\ frames' = frames
  BY <1>1, <1>5, AppendProperties
<1>6. CASE /\ frames' = Append(frames, [kind |-> "comment", lines |-> <<line>>])
           /\ data_lines' = data_lines
  BY <1>3, <1>6, AppendProperties
<1>7. CASE UNCHANGED <<data_lines, frames>>
  BY <1>7
<1> QED
  BY <1>4, <1>5, <1>6, <1>7, Zenon DEF Lines!Digest

\* The parts of the stream stay sequences of bytes, and no newline gets into a
\* data line or a frame.
THEOREM Typed == Spec => []TypeOK
<1>1. Init => TypeOK
  BY StreamsAssumption DEF Init, TypeOK
<1>2. TypeOK /\ [Next]_vars => TypeOK'
  <2> SUFFICES ASSUME TypeOK, [Next]_vars PROVE TypeOK'
    OBVIOUS
  <2>1. CASE Receive
    <3>1. PICK n \in 1 .. Len(unsent) :
             /\ buffer' = buffer \o SubSeq(unsent, 1, n)
             /\ received' = received \o SubSeq(unsent, 1, n)
             /\ unsent' = SubSeq(unsent, n + 1, Len(unsent))
      BY <2>1 DEF Receive
    <3>2. /\ unsent \in Seq(Lines!Bytes) /\ Len(unsent) \in Nat
          /\ buffer \in Seq(Lines!Bytes) /\ received \in Seq(Lines!Bytes)
      BY LenProperties DEF TypeOK
    <3>3. /\ SubSeq(unsent, 1, n) \in Seq(Lines!Bytes)
          /\ SubSeq(unsent, n + 1, Len(unsent)) \in Seq(Lines!Bytes)
      BY <3>2, CutTyped
    <3>4. UNCHANGED <<data_lines, frames>>
      BY <2>1 DEF Receive
    <3> QED
      BY <3>1, <3>2, <3>3, <3>4, ConcatProperties DEF TypeOK
  <2>2. CASE TakeLine
    <3>1. buffer \in Seq(Lines!Bytes) /\ Lines!HasLine(buffer)
      BY <2>2 DEF TypeOK, TakeLine
    <3>2. Lines!Line(buffer) \in Seq(Lines!Text) /\ buffer' \in Seq(Lines!Bytes)
      BY <2>2, <3>1, LineTyped DEF TakeLine
    <3>3. data_lines' \in Seq(Seq(Lines!Text)) /\ frames' \in Seq(Frame)
      BY <2>2, <3>2, DigestTyped DEF TakeLine, TypeOK, Frame
    <3> QED
      BY <2>2, <3>2, <3>3 DEF TakeLine, TypeOK, Frame
  <2>3. CASE UNCHANGED vars
    BY <2>3 DEF vars, TypeOK
  <2> QED
    BY <2>1, <2>2, <2>3 DEF Next
<1> QED
  BY <1>1, <1>2, PTL DEF Spec

\* Receiving a chunk moves bytes from what is to come to what is buffered and
\* changes nothing of their sequence; taking a line of the buffer takes the first
\* line of that sequence.
THEOREM ImplementsTheLines == Spec => ImplementsLines
<1>1. Init => Lines!Init
  BY StreamsAssumption DEF Init, Lines!Init
<1>2. TypeOK /\ [Next]_vars => [Lines!ReadLine]_Lines!vars
  <2> SUFFICES ASSUME TypeOK, [Next]_vars
               PROVE  Lines!ReadLine \/ UNCHANGED Lines!vars
    OBVIOUS
  <2>0. unsent \in Seq(Lines!Bytes) /\ buffer \in Seq(Lines!Bytes) /\ Len(unsent) \in Nat
    BY LenProperties DEF TypeOK
  <2>1. CASE Receive
    <3>1. PICK n \in 1 .. Len(unsent) :
             /\ buffer' = buffer \o SubSeq(unsent, 1, n)
             /\ unsent' = SubSeq(unsent, n + 1, Len(unsent))
      BY <2>1 DEF Receive
    <3>2. (buffer \o unsent)' = buffer \o unsent
      BY <2>0, <3>1, ChunkMoves
    <3> QED
      BY <2>1, <3>2 DEF Receive, Lines!vars
  <2>2. CASE TakeLine
    <3>1. Lines!HasLine(buffer \o unsent)
      BY <2>0, <2>2, NewlineStays DEF TakeLine
    <3>2. Lines!Digest(Lines!Line(buffer \o unsent))
      BY <2>0, <2>2, LineStays DEF TakeLine
    <3>3. (buffer \o unsent)' = Lines!AfterLine(buffer \o unsent)
      BY <2>0, <2>2, LineStays DEF TakeLine
    <3> QED
      BY <3>1, <3>2, <3>3 DEF Lines!ReadLine
  <2>3. CASE UNCHANGED vars
    BY <2>3 DEF vars, Lines!vars
  <2> QED
    BY <2>1, <2>2, <2>3 DEF Next
<1> QED
  BY <1>1, <1>2, Typed, PTL DEF Spec, ImplementsLines, Lines!Spec
-----------------------------------------------------------------------------
(* The frames of the bytes received.                                       *)
(*                                                                         *)
(* The invariant is that the decoder has read the bytes received up to a   *)
(* newline (Read): what is left of them is the buffer, its data lines are  *)
(* those of the event that is open there, and its frames those completed   *)
(* so far.                                                                 *)

\* Every line starts somewhere, and at one place only.
LEMMA StartIs ==
  ASSUME NEW s \in Seq(Lines!Bytes), NEW i \in Nat, i >= 1
  PROVE  Starts(s, i) # {} /\ \A f, g \in Starts(s, i) : f = g
<1> DEFINE S == {n \in Nat : n >= 1 => Starts(s, n) # {}}
<1>0. Len(s) \in Nat /\ Newlines(s) \subseteq 1 .. Len(s)
  BY LenProperties DEF Newlines
<1>1. 0 \in S
  OBVIOUS
<1>2. ASSUME NEW n \in Nat, n \in S PROVE n + 1 \in S
  <2>1. CASE n = 0 \/ n \in Newlines(s)
    <3>1. n + 1 \in Starts(s, n + 1)
      BY <1>0, <2>1 DEF Starts
    <3> QED
      BY <3>1
  <2>2. CASE n >= 1 /\ n \notin Newlines(s)
    <3>1. PICK f : f \in Starts(s, n)
      BY <1>2, <2>2
    <3>2. f \in Starts(s, n + 1)
      BY <1>0, <2>2, <3>1 DEF Starts
    <3> QED
      BY <3>2
  <2> QED
    BY <2>1, <2>2
<1> HIDE DEF S
<1>3. i \in S
  BY <1>1, <1>2, SetInduction
<1>4. Starts(s, i) # {}
  BY <1>3 DEF S
<1>5. ASSUME NEW f \in Starts(s, i), NEW g \in Starts(s, i) PROVE f = g
  <2>1. ~(f < g)
    BY <1>0 DEF Starts
  <2>2. ~(g < f)
    BY <1>0 DEF Starts
  <2> QED
    BY <2>1, <2>2 DEF Starts
<1> QED
  BY <1>4, <1>5

LEMMA LineIs ==
  ASSUME NEW s \in Seq(Lines!Bytes), NEW i \in Nat, NEW f \in Starts(s, i)
  PROVE  LineAt(s, i) = SubSeq(s, f, IF i > f /\ s[i - 1] = Lines!CR THEN i - 2 ELSE i - 1)
<1>1. f \in 1 .. i /\ i >= 1
  BY DEF Starts
<1> DEFINE g == CHOOSE h \in Starts(s, i) : TRUE
<1>2. g \in Starts(s, i)
  OBVIOUS
<1> HIDE DEF g
<1>3. g = f
  BY <1>1, <1>2, StartIs
<1> QED
  BY <1>3 DEF LineAt, g

\* s and t are the same up to position m.
Alike(s, t, m) ==
  /\ s \in Seq(Lines!Bytes) /\ t \in Seq(Lines!Bytes)
  /\ m \in Nat /\ m <= Len(s) /\ m <= Len(t)
  /\ \A j \in 1 .. m : s[j] = t[j]

LEMMA NewlinesAlike ==
  ASSUME NEW s, NEW t, NEW m, Alike(s, t, m), NEW j \in Nat, j <= m
  PROVE  j \in Newlines(s) <=> j \in Newlines(t)
<1>1. Len(s) \in Nat /\ Len(t) \in Nat
  BY LenProperties DEF Alike
<1> QED
  BY <1>1 DEF Alike, Newlines

LEMMA LineAlike ==
  ASSUME NEW s, NEW t, NEW m, Alike(s, t, m), NEW i \in 1 .. m
  PROVE  LineAt(s, i) = LineAt(t, i)
<1>0. /\ s \in Seq(Lines!Bytes) /\ t \in Seq(Lines!Bytes) /\ m \in Nat
      /\ Len(s) \in Nat /\ Len(t) \in Nat /\ m <= Len(s) /\ m <= Len(t)
      /\ \A j \in 1 .. m : s[j] = t[j]
  BY LenProperties DEF Alike
<1>1. Newlines(s) \subseteq Nat /\ Newlines(t) \subseteq Nat
  BY <1>0 DEF Newlines
<1>2. PICK f : f \in Starts(s, i)
  BY <1>0, StartIs
<1>3. f \in 1 .. i /\ f \in Starts(t, i)
  <2>1. /\ f \in 1 .. i
        /\ f > 1 => f - 1 \in Newlines(s)
        /\ \A j \in Newlines(s) : j < i => j < f
    BY <1>2 DEF Starts
  <2>2. \A j \in Nat : j <= m => (j \in Newlines(s) <=> j \in Newlines(t))
    BY NewlinesAlike
  <2>3. f > 1 => f - 1 \in Newlines(t)
    <3> SUFFICES ASSUME f > 1 PROVE f - 1 \in Newlines(t)
      OBVIOUS
    <3>1. f - 1 \in Nat /\ f - 1 <= m
      BY <1>0, <2>1
    <3> QED
      BY <2>1, <2>2, <3>1
  <2>4. \A j \in Newlines(t) : j < i => j < f
    BY <1>0, <1>1, <2>1, <2>2
  <2>5. f \in {g \in 1 .. i : /\ g > 1 => g - 1 \in Newlines(t)
                              /\ \A j \in Newlines(t) : j < i => j < g}
    BY <2>1, <2>3, <2>4
  <2> QED
    BY <2>1, <2>5, Zenon DEF Starts
<1>4. i \in Nat /\ i - 1 <= m /\ (i > f => s[i - 1] = t[i - 1])
  BY <1>0, <1>3
<1> DEFINE e == IF i > f /\ s[i - 1] = Lines!CR THEN i - 2 ELSE i - 1
<1>5. LineAt(s, i) = SubSeq(s, f, e) /\ LineAt(t, i) = SubSeq(t, f, e)
  BY <1>0, <1>2, <1>3, <1>4, LineIs
<1>6. f \in Nat /\ f >= 1 /\ e \in Int /\ e <= m
  BY <1>0, <1>3
<1> HIDE DEF e
<1>7. SubSeq(s, f, e) = SubSeq(t, f, e)
  <2>1. PICK x, y : x = SubSeq(s, f, e) /\ y = SubSeq(t, f, e)
    OBVIOUS
  <2>2. \A k \in f .. e : s[k] \in Lines!Bytes /\ t[k] \in Lines!Bytes
    BY <1>0, <1>6, ElementOfSeq
  <2>3. f \in Int /\ e \in Int
    BY <1>6
  <2>4. /\ SubSeq(s, f, e) \in Seq(Lines!Bytes)
        /\ Len(SubSeq(s, f, e)) = (IF f <= e THEN e - f + 1 ELSE 0)
        /\ \A k \in 1 .. e - f + 1 : SubSeq(s, f, e)[k] = s[f + k - 1]
    BY ONLY <2>2, <2>3, SubSeqProperties
  <2>5. /\ SubSeq(t, f, e) \in Seq(Lines!Bytes)
        /\ Len(SubSeq(t, f, e)) = (IF f <= e THEN e - f + 1 ELSE 0)
        /\ \A k \in 1 .. e - f + 1 : SubSeq(t, f, e)[k] = t[f + k - 1]
    BY ONLY <2>2, <2>3, SubSeqProperties
  <2>6. x \in Seq(Lines!Bytes) /\ y \in Seq(Lines!Bytes) /\ Len(x) = Len(y)
    BY ONLY <2>1, <2>4, <2>5
  <2>7. \A k \in 1 .. Len(x) : x[k] = y[k]
    <3>1. Len(x) = IF f <= e THEN e - f + 1 ELSE 0
      BY ONLY <2>1, <2>4
    <3>2. \A k \in 1 .. e - f + 1 : x[k] = s[f + k - 1] /\ y[k] = t[f + k - 1]
      BY ONLY <2>1, <2>4, <2>5
    <3>3. \A k \in 1 .. e - f + 1 : s[f + k - 1] = t[f + k - 1]
      BY ONLY <1>0, <1>6
    <3>4. \A k \in 1 .. Len(x) : k \in 1 .. e - f + 1
      BY ONLY <1>6, <3>1
    <3> QED
      BY ONLY <3>2, <3>3, <3>4, Zenon
  <2>8. x = y
    BY ONLY <2>6, <2>7, SeqEqual
  <2> QED
    BY ONLY <2>1, <2>8
<1> QED
  BY <1>5, <1>7

\* The values and the frames by position, of which OpenData and FramesOf pick.
Values(s) == [j \in 1 .. Len(s) |-> Lines!Value(LineAt(s, j))]
FramesAt(s) == [i \in 1 .. Len(s) |-> FrameAt(s, i)]
Ends(s, n) == {i \in Newlines(s) : i <= n /\ Completes(s, i)}

LEMMA OpenLinesTyped ==
  ASSUME NEW s \in Seq(Lines!Bytes), NEW i
  PROVE  OpenLines(s, i) \in SUBSET Nat /\ IsFiniteSet(OpenLines(s, i))
<1>1. Len(s) \in Nat
  BY LenProperties
<1>2. IsFiniteSet(1 .. Len(s))
  BY <1>1, FS_Interval
<1>3. OpenLines(s, i) \subseteq 1 .. Len(s)
  BY DEF OpenLines, Newlines
<1>4. 1 .. Len(s) \subseteq Nat
  BY <1>1
<1> QED
  BY <1>2, <1>3, <1>4, FS_Subset

LEMMA EndsTyped ==
  ASSUME NEW s \in Seq(Lines!Bytes), NEW n
  PROVE  Ends(s, n) \in SUBSET Nat /\ IsFiniteSet(Ends(s, n))
<1>1. Len(s) \in Nat
  BY LenProperties
<1>2. IsFiniteSet(1 .. Len(s))
  BY <1>1, FS_Interval
<1>3. Ends(s, n) \subseteq 1 .. Len(s)
  BY DEF Ends, Newlines
<1>4. 1 .. Len(s) \subseteq Nat
  BY <1>1
<1> QED
  BY <1>2, <1>3, <1>4, FS_Subset

LEMMA OpenAlike ==
  ASSUME NEW s, NEW t, NEW m, Alike(s, t, m), NEW i \in Nat, i <= m + 1
  PROVE  OpenLines(s, i) = OpenLines(t, i) /\ OpenData(s, i) = OpenData(t, i)
<1>0. /\ s \in Seq(Lines!Bytes) /\ t \in Seq(Lines!Bytes) /\ m \in Nat
      /\ Len(s) \in Nat /\ Len(t) \in Nat /\ m <= Len(s) /\ m <= Len(t)
  BY LenProperties DEF Alike
<1>1. \A j \in Nat : j < i => (j \in Newlines(s) <=> j \in Newlines(t))
  BY <1>0, NewlinesAlike
<1>2. \A j \in Nat : j >= 1 /\ j < i => LineAt(s, j) = LineAt(t, j)
  BY <1>0, LineAlike
<1>3. /\ \A j \in Newlines(s) : j \in Nat /\ j >= 1
      /\ \A j \in Newlines(t) : j \in Nat /\ j >= 1
  BY <1>0 DEF Newlines
<1>4. ASSUME NEW j PROVE j \in OpenLines(s, i) <=> j \in OpenLines(t, i)
  BY <1>1, <1>2, <1>3 DEF OpenLines
<1>5. OpenLines(s, i) = OpenLines(t, i)
  BY <1>4
<1>6. \A j \in OpenLines(s, i) : Values(s)[j] = Values(t)[j]
  <2> SUFFICES ASSUME NEW j \in OpenLines(s, i) PROVE Values(s)[j] = Values(t)[j]
    OBVIOUS
  <2>1. j \in Nat /\ j >= 1 /\ j < i
    BY <1>3 DEF OpenLines
  <2>2. j \in 1 .. Len(s) /\ j \in 1 .. Len(t) /\ LineAt(s, j) = LineAt(t, j)
    BY <1>0, <1>2, <2>1
  <2> QED
    BY <2>2 DEF Values
<1>7. OpenLines(s, i) \in SUBSET Nat /\ IsFiniteSet(OpenLines(s, i))
  BY <1>0, OpenLinesTyped
<1>8. Pick(Values(s), OpenLines(s, i)) = Pick(Values(t), OpenLines(s, i))
  BY <1>6, <1>7, PickSame
<1> QED
  BY <1>5, <1>8 DEF OpenData, Values

LEMMA EndsAlike ==
  ASSUME NEW s, NEW t, NEW m, Alike(s, t, m)
  PROVE  /\ Ends(s, m) = Ends(t, m)
         /\ Pick(FramesAt(s), Ends(s, m)) = Pick(FramesAt(t), Ends(t, m))
<1>0. /\ s \in Seq(Lines!Bytes) /\ t \in Seq(Lines!Bytes) /\ m \in Nat
      /\ Len(s) \in Nat /\ Len(t) \in Nat /\ m <= Len(s) /\ m <= Len(t)
  BY LenProperties DEF Alike
<1>1. \A i \in 1 .. m : /\ i \in Newlines(s) <=> i \in Newlines(t)
                        /\ LineAt(s, i) = LineAt(t, i)
                        /\ OpenData(s, i) = OpenData(t, i)
  <2> SUFFICES ASSUME NEW i \in 1 .. m
               PROVE  /\ i \in Newlines(s) <=> i \in Newlines(t)
                      /\ LineAt(s, i) = LineAt(t, i)
                      /\ OpenData(s, i) = OpenData(t, i)
    OBVIOUS
  <2>1. i \in Nat /\ i <= m /\ i <= m + 1
    BY <1>0
  <2> QED
    BY <2>1, NewlinesAlike, LineAlike, OpenAlike
<1>2. \A i \in 1 .. m : (Completes(s, i) <=> Completes(t, i)) /\ FrameAt(s, i) = FrameAt(t, i)
  BY <1>1 DEF Completes, FrameAt
<1>3. /\ \A j \in Newlines(s) : j <= m => j \in 1 .. m
      /\ \A j \in Newlines(t) : j <= m => j \in 1 .. m
  BY <1>0 DEF Newlines
<1>4. ASSUME NEW i PROVE i \in Ends(s, m) <=> i \in Ends(t, m)
  BY <1>1, <1>2, <1>3 DEF Ends
<1>5. Ends(s, m) = Ends(t, m)
  BY <1>4
<1>6. \A i \in Ends(s, m) : FramesAt(s)[i] = FramesAt(t)[i]
  <2> SUFFICES ASSUME NEW i \in Ends(s, m) PROVE FramesAt(s)[i] = FramesAt(t)[i]
    OBVIOUS
  <2>1. i \in 1 .. m
    BY <1>3 DEF Ends
  <2>2. i \in 1 .. Len(s) /\ i \in 1 .. Len(t)
    BY <1>0, <2>1
  <2> QED
    BY <1>2, <2>1, <2>2 DEF FramesAt
<1>7. Ends(s, m) \in SUBSET Nat /\ IsFiniteSet(Ends(s, m))
  BY <1>0, EndsTyped
<1>8. Pick(FramesAt(s), Ends(s, m)) = Pick(FramesAt(t), Ends(s, m))
  BY <1>6, <1>7, PickSame
<1> QED
  BY <1>5, <1>8

\* The line that ends at m is the next one after n.
NextLine(s, n, m) ==
  /\ s \in Seq(Lines!Bytes) /\ n \in Nat /\ m \in Newlines(s) /\ n < m
  /\ n > 0 => n \in Newlines(s)
  /\ \A j \in Newlines(s) : j <= n \/ m <= j

LEMMA NextLineIs ==
  ASSUME NEW s, NEW n, NEW m, NextLine(s, n, m)
  PROVE  /\ m \in Nat /\ n + 1 \in Starts(s, m)
         /\ OpenLines(s, m) = OpenLines(s, n + 1)
         /\ OpenData(s, m) = OpenData(s, n + 1)
         /\ OpenLines(s, m + 1) =
              (IF LineAt(s, m) = <<>> THEN {} ELSE OpenLines(s, m))
              \cup (IF Lines!IsData(LineAt(s, m)) THEN {m} ELSE {})
         /\ Ends(s, m) = Ends(s, n) \cup (IF Completes(s, m) THEN {m} ELSE {})
<1>0. /\ s \in Seq(Lines!Bytes) /\ n \in Nat /\ m \in Nat /\ n < m
      /\ m \in Newlines(s) /\ Newlines(s) \subseteq Nat
      /\ \A j \in Newlines(s) : j <= n \/ m <= j
  BY LenProperties DEF NextLine, Newlines
<1>1. n + 1 \in Starts(s, m)
  BY <1>0 DEF Starts, NextLine
<1>2. \A j \in Newlines(s) : j < m <=> j < n + 1
  BY <1>0
<1>3. OpenLines(s, m) = OpenLines(s, n + 1)
  BY <1>2 DEF OpenLines
<1>4. OpenData(s, m) = OpenData(s, n + 1)
  BY <1>3 DEF OpenData
<1>5. \A j \in Newlines(s) : j < m + 1 <=> j < m \/ j = m
  BY <1>0
<1>6. ASSUME NEW j \in Newlines(s), j # m
      PROVE  j \in OpenLines(s, m + 1) <=> j \in OpenLines(s, m) /\ LineAt(s, m) # <<>>
  BY <1>0, <1>5, <1>6 DEF OpenLines
<1>7. m \in OpenLines(s, m + 1) <=> Lines!IsData(LineAt(s, m))
  <2>1. \A k \in Newlines(s) : ~(m < k /\ k < m + 1)
    BY <1>0
  <2> QED
    BY <1>0, <2>1 DEF OpenLines
<1>8. m \notin OpenLines(s, m) /\ OpenLines(s, m) \subseteq Newlines(s)
      /\ OpenLines(s, m + 1) \subseteq Newlines(s)
  BY <1>0 DEF OpenLines
<1>9. OpenLines(s, m + 1) =
        (IF LineAt(s, m) = <<>> THEN {} ELSE OpenLines(s, m))
        \cup (IF Lines!IsData(LineAt(s, m)) THEN {m} ELSE {})
  BY <1>6, <1>7, <1>8
<1>10. \A j \in Newlines(s) : j <= m <=> j <= n \/ j = m
  BY <1>0
<1>11. Ends(s, m) = Ends(s, n) \cup (IF Completes(s, m) THEN {m} ELSE {})
  BY <1>0, <1>10 DEF Ends
<1> QED
  BY <1>0, <1>1, <1>3, <1>4, <1>9, <1>11

LEMMA NextData ==
  ASSUME NEW s, NEW n, NEW m, NextLine(s, n, m)
  PROVE  OpenData(s, m + 1) =
           IF LineAt(s, m) = <<>> THEN <<>>
           ELSE IF Lines!IsData(LineAt(s, m))
                THEN Append(OpenData(s, n + 1), Lines!Value(LineAt(s, m)))
                ELSE OpenData(s, n + 1)
<1> DEFINE line == LineAt(s, m)
           v == Values(s)
           O == OpenLines(s, m)
<1>0. /\ s \in Seq(Lines!Bytes) /\ n \in Nat /\ m \in Nat /\ m \in 1 .. Len(s)
      /\ O \in SUBSET Nat /\ IsFiniteSet(O)
  BY OpenLinesTyped, LenProperties DEF NextLine, Newlines
<1>1. /\ \A i : OpenData(s, i) = Pick(v, OpenLines(s, i))
      /\ v[m] = Lines!Value(line)
  BY <1>0 DEF OpenData, Values
<1>2. /\ OpenData(s, n + 1) = Pick(v, O)
      /\ OpenLines(s, m + 1) = (IF line = <<>> THEN {} ELSE O)
                               \cup (IF Lines!IsData(line) THEN {m} ELSE {})
  BY <1>1, NextLineIs
<1>3. \A i \in O : i < m
  BY DEF OpenLines
<1>4. Pick(v, O \cup {m}) = Append(Pick(v, O), v[m])
  BY <1>0, <1>3, PickNext
<1>5. line = <<>> => ~Lines!IsData(line)
  BY DEF Lines!IsData, Lines!StartsWith
<1> HIDE DEF line, v, O
<1>6. CASE line = <<>>
  <2>1. OpenLines(s, m + 1) = {}
    BY <1>2, <1>5, <1>6
  <2> QED
    BY <1>1, <1>6, <2>1, PickNone DEF line
<1>7. CASE line # <<>> /\ Lines!IsData(line)
  <2>1. OpenLines(s, m + 1) = O \cup {m}
    BY <1>2, <1>7
  <2> QED
    BY <1>1, <1>2, <1>4, <1>7, <2>1 DEF line
<1>8. CASE line # <<>> /\ ~Lines!IsData(line)
  <2>1. OpenLines(s, m + 1) = O
    BY <1>2, <1>8
  <2> QED
    BY <1>1, <1>2, <1>8, <2>1 DEF line
<1> QED
  BY <1>6, <1>7, <1>8

LEMMA NextFrame ==
  ASSUME NEW s, NEW n, NEW m, NextLine(s, n, m)
  PROVE  Pick(FramesAt(s), Ends(s, m)) =
           IF Completes(s, m) THEN Append(Pick(FramesAt(s), Ends(s, n)), FrameAt(s, m))
                              ELSE Pick(FramesAt(s), Ends(s, n))
<1> DEFINE v == FramesAt(s)
           E == Ends(s, n)
<1>0. /\ s \in Seq(Lines!Bytes) /\ n \in Nat /\ m \in Nat /\ m \in 1 .. Len(s) /\ n < m
      /\ E \in SUBSET Nat /\ IsFiniteSet(E)
  BY EndsTyped, LenProperties DEF NextLine, Newlines
<1>1. v[m] = FrameAt(s, m)
  BY <1>0 DEF FramesAt
<1>2. Ends(s, m) = E \cup (IF Completes(s, m) THEN {m} ELSE {})
  BY NextLineIs
<1>3. \A i \in E : i < m
  <2>1. \A i \in E : i <= n
    BY DEF Ends
  <2> QED
    BY <1>0, <2>1
<1>4. Pick(v, E \cup {m}) = Append(Pick(v, E), v[m])
  BY <1>0, <1>3, PickNext
<1> HIDE DEF v, E
<1>5. CASE Completes(s, m)
  <2>1. Ends(s, m) = E \cup {m}
    BY <1>2, <1>5
  <2> QED
    BY <1>1, <1>4, <1>5, <2>1 DEF v, E
<1>6. CASE ~Completes(s, m)
  <2>1. Ends(s, m) = E
    BY <1>2, <1>6
  <2> QED
    BY <1>6, <2>1 DEF v, E
<1> QED
  BY <1>5, <1>6

\* The bytes received are read up to n, and the rest of them is buffered.
Read(n) ==
  /\ n \in Nat /\ n + Len(buffer) = Len(received)
  /\ \A i \in 1 .. Len(buffer) : received[n + i] = buffer[i]
  /\ n > 0 => n \in Newlines(received)
  /\ data_lines = OpenData(received, n + 1)
  /\ frames = Pick(FramesAt(received), Ends(received, n))

ReadInv == TypeOK /\ \E n : Read(n)

LEMMA InitRead == Init => ReadInv
<1> SUFFICES ASSUME Init PROVE ReadInv
  OBVIOUS
<1>1. TypeOK
  BY StreamsAssumption DEF Init, TypeOK
<1>2. buffer = <<>> /\ received = <<>> /\ data_lines = <<>> /\ frames = <<>>
  BY DEF Init
<1>3. Newlines(received) = {}
  BY <1>2 DEF Newlines
<1>4. OpenLines(received, 1) = {} /\ Ends(received, 0) = {}
  BY <1>3 DEF OpenLines, Ends
<1>5. OpenData(received, 1) = <<>> /\ Pick(FramesAt(received), Ends(received, 0)) = <<>>
  BY <1>4, PickNone DEF OpenData
<1>6. Read(0)
  BY <1>2, <1>5 DEF Read
<1> QED
  BY <1>1, <1>6 DEF ReadInv

\* A chunk changes nothing of what was read.
LEMMA ReceiveRead ==
  ASSUME TypeOK, TypeOK', Receive, NEW n, Read(n)
  PROVE  Read(n)'
<1>1. PICK k \in 1 .. Len(unsent) :
        /\ buffer' = buffer \o SubSeq(unsent, 1, k)
        /\ received' = received \o SubSeq(unsent, 1, k)
  BY DEF Receive
<1> DEFINE c == SubSeq(unsent, 1, k)
<1>2. /\ unsent \in Seq(Lines!Bytes) /\ Len(unsent) \in Nat
      /\ buffer \in Seq(Lines!Bytes) /\ received \in Seq(Lines!Bytes)
      /\ received' \in Seq(Lines!Bytes)
  BY LenProperties DEF TypeOK
<1>3. c \in Seq(Lines!Bytes)
  BY <1>2, CutTyped
<1>4. /\ data_lines' = data_lines /\ frames' = frames
      /\ buffer' = buffer \o c /\ received' = received \o c
  BY <1>1 DEF Receive
<1> HIDE DEF c
<1>5. Len(buffer) \in Nat /\ Len(received) \in Nat /\ Len(c) \in Nat
  BY <1>2, <1>3, LenProperties
<1>6. /\ Len(buffer') = Len(buffer) + Len(c)
      /\ \A i \in 1 .. Len(buffer) : buffer'[i] = buffer[i]
      /\ \A i \in 1 .. Len(c) : buffer'[Len(buffer) + i] = c[i]
      /\ Len(received') = Len(received) + Len(c)
      /\ \A i \in 1 .. Len(received) : received'[i] = received[i]
      /\ \A i \in 1 .. Len(c) : received'[Len(received) + i] = c[i]
  BY <1>2, <1>3, <1>4, SeqIsList, ConcatIs
<1>7. n \in Nat /\ n + Len(buffer) = Len(received)
  BY DEF Read
<1>8. Alike(received, received', n)
  BY <1>2, <1>5, <1>6, <1>7 DEF Alike
<1>9. \A i \in 1 .. Len(buffer') : received'[n + i] = buffer'[i]
  <2> SUFFICES ASSUME NEW i \in 1 .. Len(buffer') PROVE received'[n + i] = buffer'[i]
    OBVIOUS
  <2>1. CASE i <= Len(buffer)
    BY <1>5, <1>6, <1>7, <2>1 DEF Read
  <2>2. CASE i > Len(buffer)
    <3> DEFINE j == i - Len(buffer)
    <3>0. i \in Nat /\ i <= Len(buffer) + Len(c)
      BY <1>5, <1>6
    <3>1. j \in 1 .. Len(c) /\ i = Len(buffer) + j
      BY <1>5, <2>2, <3>0
    <3> HIDE DEF j
    <3>2. j \in Nat /\ n + i = Len(received) + j
      BY <1>5, <1>7, <3>1
    <3> QED
      BY <1>6, <3>1, <3>2
  <2> QED
    BY <1>5, <1>6, <2>1, <2>2
<1>10. n > 0 => n \in Newlines(received')
  BY <1>7, <1>8, NewlinesAlike DEF Read
<1>11. data_lines' = OpenData(received', n + 1)
  BY <1>4, <1>7, <1>8, OpenAlike DEF Read
<1>12. frames' = Pick(FramesAt(received'), Ends(received', n))
  BY <1>4, <1>8, EndsAlike DEF Read
<1>13. n + Len(buffer') = Len(received')
  <2>1. Len(buffer') = Len(buffer) + Len(c) /\ Len(received') = Len(received) + Len(c)
    BY <1>6
  <2> QED
    BY ONLY <1>5, <1>7, <2>1
<1> QED
  BY <1>7, <1>9, <1>10, <1>11, <1>12, <1>13, Zenon DEF Read

LEMMA StartsFirst ==
  ASSUME NEW line \in Seq(Lines!Text), NEW a, NEW b
  PROVE  /\ Lines!StartsWith(line, <<a>>) => line # <<>> /\ line[1] = a
         /\ Lines!StartsWith(line, <<a, b>>) => line # <<>> /\ line[1] = a
<1>1. Len(line) \in Nat /\ (Len(line) >= 1 => line # <<>>)
  BY LenProperties
<1>2. ASSUME Lines!StartsWith(line, <<a>>) PROVE line # <<>> /\ line[1] = a
  <2>1. Len(line) >= 1 /\ SubSeq(line, 1, 1) = <<a>>
    BY <1>1, <1>2 DEF Lines!StartsWith
  <2>2. SubSeq(line, 1, 1)[1] = line[1]
    BY <1>1, <2>1
  <2>3. line[1] = <<a>>[1] /\ line # <<>>
    BY ONLY <1>1, <2>1, <2>2, Zenon
  <2> QED
    BY <2>3
<1>3. ASSUME Lines!StartsWith(line, <<a, b>>) PROVE line # <<>> /\ line[1] = a
  <2>1. Len(line) >= 2 /\ SubSeq(line, 1, 2) = <<a, b>>
    BY <1>1, <1>3 DEF Lines!StartsWith
  <2>2. SubSeq(line, 1, 2)[1] = line[1] /\ Len(line) >= 1
    BY <1>1, <2>1
  <2>3. line[1] = <<a, b>>[1] /\ line # <<>>
    BY ONLY <1>1, <2>1, <2>2, Zenon
  <2> QED
    BY <2>3
<1> QED
  BY <1>2, <1>3

\* The line taken from the buffer is the next line of the bytes received, and what
\* it adds is what FramesOf reads there.
LEMMA TakeRead ==
  ASSUME TypeOK, TypeOK', TakeLine, NEW n, Read(n)
  PROVE  \E m : Read(m)'
<1> PICK k : k = Lines!Newline(buffer)
  OBVIOUS
<1> DEFINE s == received
           m == n + k
           line == LineAt(s, m)
<1>0. /\ s \in Seq(Lines!Bytes) /\ buffer \in Seq(Lines!Bytes)
      /\ Len(s) \in Nat /\ Len(buffer) \in Nat
  BY LenProperties DEF TypeOK
<1>1. /\ n \in Nat /\ n + Len(buffer) = Len(s)
      /\ \A i \in 1 .. Len(buffer) : s[n + i] = buffer[i]
      /\ n > 0 => n \in Newlines(s)
      /\ data_lines = OpenData(s, n + 1)
      /\ frames = Pick(FramesAt(s), Ends(s, n))
  BY DEF Read
<1>2. /\ k \in 1 .. Len(buffer) /\ buffer[k] = Lines!LF
      /\ \A j \in 1 .. k - 1 : buffer[j] # Lines!LF
  BY NewlineFound DEF TakeLine, Lines!IsNewline
<1>3. /\ buffer' = SubSeq(buffer, k + 1, Len(buffer)) /\ received' = s
      /\ Lines!Digest(Lines!Line(buffer))
  BY DEF TakeLine, Lines!AfterLine
<1>k. k \in Nat /\ k >= 1 /\ k <= Len(buffer)
  BY <1>0, <1>2
<1>4. m \in Nat /\ n < m /\ m <= Len(s) /\ s[m] = Lines!LF
  BY <1>0, <1>1, <1>2, <1>k
<1>5. \A j \in Newlines(s) : j <= n \/ m <= j
  <2> SUFFICES ASSUME NEW j \in Newlines(s), n < j, j < m PROVE FALSE
    BY <1>1, <1>4 DEF Newlines
  <2> DEFINE i == j - n
  <2>1. j \in Nat /\ s[j] = Lines!LF
    BY <1>0 DEF Newlines
  <2>2. i \in 1 .. k - 1 /\ j = n + i /\ i \in 1 .. Len(buffer)
    BY <1>0, <1>1, <1>k, <2>1
  <2> HIDE DEF i
  <2> QED
    BY <1>1, <1>2, <2>1, <2>2
<1>6. NextLine(s, n, m)
  BY <1>0, <1>1, <1>4, <1>5 DEF NextLine, Newlines
<1>7. line = Lines!Line(buffer)
  <2> DEFINE e == IF k > 1 /\ buffer[k - 1] = Lines!CR THEN k - 2 ELSE k - 1
  <2>1. Lines!Line(buffer) = SubSeq(buffer, 1, e)
    BY DEF Lines!Line
  <2>2. k > 1 => s[m - 1] = buffer[k - 1]
    <3> SUFFICES ASSUME k > 1 PROVE s[m - 1] = buffer[k - 1]
      OBVIOUS
    <3>1. k - 1 \in 1 .. Len(buffer) /\ m - 1 = n + (k - 1)
      BY <1>1, <1>k
    <3> QED
      BY <1>1, <3>1
  <2>3. n + 1 \in Starts(s, m) /\ m \in Nat
    BY <1>6, NextLineIs
  <2>4. line = SubSeq(s, n + 1, IF m > n + 1 /\ s[m - 1] = Lines!CR THEN m - 2 ELSE m - 1)
    BY <1>0, <2>3, LineIs
  <2>5. m > n + 1 <=> k > 1
    BY <1>1, <1>k
  <2>6. line = SubSeq(s, n + 1, n + e)
    BY SMTT(40), <1>1, <1>k, <2>2, <2>4, <2>5
  <2>7. e \in Int /\ e <= Len(buffer) /\ 0 <= e
    BY <1>0, <1>k
  <2> HIDE DEF e, m, line
  <2>8. /\ SubSeq(buffer, 1, e) \in Seq(Lines!Bytes) /\ SubSeq(s, n + 1, n + e) \in Seq(Lines!Bytes)
    BY <1>0, <1>1, <2>7, CutTyped
  <2>9. /\ Len(SubSeq(buffer, 1, e)) = e /\ Len(SubSeq(s, n + 1, n + e)) = e
        /\ \A i \in 1 .. e : SubSeq(buffer, 1, e)[i] = buffer[i]
        /\ \A i \in 1 .. e : SubSeq(s, n + 1, n + e)[i] = s[n + i]
    <3>1. /\ \A i \in 1 .. e : buffer[i] \in Lines!Bytes
          /\ \A i \in n + 1 .. n + e : s[i] \in Lines!Bytes
          /\ n + 1 \in Int /\ n + e \in Int /\ 1 \in Int
      BY <1>0, <1>1, <2>7, ElementOfSeq
    <3>2. /\ Len(SubSeq(buffer, 1, e)) = IF 1 <= e THEN e - 1 + 1 ELSE 0
          /\ \A i \in 1 .. e - 1 + 1 : SubSeq(buffer, 1, e)[i] = buffer[1 + i - 1]
      BY <2>7, <3>1, SubSeqProperties
    <3>3. /\ Len(SubSeq(s, n + 1, n + e)) =
               IF n + 1 <= n + e THEN (n + e) - (n + 1) + 1 ELSE 0
          /\ \A i \in 1 .. (n + e) - (n + 1) + 1 :
               SubSeq(s, n + 1, n + e)[i] = s[(n + 1) + i - 1]
      BY <2>7, <3>1, SubSeqProperties
    <3>4. /\ e - 1 + 1 = e /\ (n + e) - (n + 1) + 1 = e
          /\ (IF 1 <= e THEN e - 1 + 1 ELSE 0) = e
          /\ (IF n + 1 <= n + e THEN (n + e) - (n + 1) + 1 ELSE 0) = e
      BY <1>1, <2>7
    <3>5. \A i \in 1 .. e : 1 + i - 1 = i /\ (n + 1) + i - 1 = n + i
      BY <1>1, <2>7
    <3> QED
      BY ONLY <3>2, <3>3, <3>4, <3>5
  <2>10. \A i \in 1 .. e : SubSeq(buffer, 1, e)[i] = SubSeq(s, n + 1, n + e)[i]
    BY <1>0, <1>1, <2>7, <2>9
  <2> QED
    BY <2>1, <2>6, <2>8, <2>9, <2>10, SeqEqual
<1>8. /\ Len(buffer') = Len(buffer) - k
      /\ \A i \in 1 .. Len(buffer') : buffer'[i] = buffer[k + i]
  BY <1>0, <1>3, <1>k
<1>9. m + Len(buffer') = Len(received')
  BY <1>0, <1>1, <1>3, <1>k, <1>8
<1>10. \A i \in 1 .. Len(buffer') : received'[m + i] = buffer'[i]
  <2> SUFFICES ASSUME NEW i \in 1 .. Len(buffer') PROVE s[m + i] = buffer'[i]
    BY <1>3
  <2>0. i \in Nat /\ i >= 1 /\ i <= Len(buffer) - k
    <3>1. Len(buffer') = Len(buffer) - k
      BY <1>8
    <3> QED
      BY ONLY <1>0, <1>k, <3>1
  <2>1. k + i \in 1 .. Len(buffer) /\ m + i = n + (k + i)
    BY <1>0, <1>1, <1>k, <2>0
  <2> QED
    BY <1>1, <1>8, <2>1
<1>11. OpenData(s, m) = data_lines
  BY <1>1, <1>6, NextLineIs
<1>12. data_lines' = OpenData(s, m + 1) /\ frames' = Pick(FramesAt(s), Ends(s, m))
  <2>1. /\ OpenData(s, m + 1) = IF line = <<>> THEN <<>>
             ELSE IF Lines!IsData(line) THEN Append(data_lines, Lines!Value(line)) ELSE data_lines
        /\ Pick(FramesAt(s), Ends(s, m)) =
             IF Completes(s, m) THEN Append(frames, FrameAt(s, m)) ELSE frames
    BY <1>1, <1>6, NextData, NextFrame
  <2>2. Completes(s, m) <=> \/ line = <<>> /\ data_lines # <<>>
                            \/ Lines!StartsWith(line, <<":">>) /\ data_lines = <<>>
    BY <1>11 DEF Completes
  <2>3. FrameAt(s, m) = IF line = <<>> THEN Lines!FrameOf(data_lines)
                                       ELSE [kind |-> "comment", lines |-> <<line>>]
    BY <1>11 DEF FrameAt
  <2>4. Lines!Digest(line)
    BY <1>3, <1>7
  <2>5. /\ line = <<>> => ~Lines!IsData(line) /\ ~Lines!StartsWith(line, <<":">>)
        /\ Lines!IsData(line) => ~Lines!StartsWith(line, <<":">>)
    <3>1. line \in Seq(Lines!Text)
      BY <1>0, <1>7, LineTyped DEF TakeLine
    <3> HIDE DEF line
    <3>2. Lines!StartsWith(line, <<":">>) => line # <<>> /\ line[1] = ":"
      BY <3>1, StartsFirst
    <3>3. Lines!StartsWith(line, <<"data", ":">>) => line # <<>> /\ line[1] = "data"
      BY <3>1, StartsFirst
    <3> QED
      BY <3>2, <3>3 DEF Lines!IsData
  <2> HIDE DEF line, m, s
  <2> QED
    BY <2>1, <2>2, <2>3, <2>4, <2>5 DEF Lines!Digest
<1>13. m > 0 => m \in Newlines(received')
  BY <1>3, <1>6 DEF NextLine
<1>14. Read(m)'
  BY <1>3, <1>4, <1>9, <1>10, <1>12, <1>13 DEF Read
<1> QED
  BY <1>14

LEMMA ReadStep == ReadInv /\ TypeOK' /\ [Next]_vars => ReadInv'
<1> SUFFICES ASSUME ReadInv, TypeOK', [Next]_vars PROVE ReadInv'
  OBVIOUS
<1>1. TypeOK
  BY DEF ReadInv
<1>2. PICK n : Read(n)
  BY DEF ReadInv
<1>3. CASE Receive
  BY <1>1, <1>2, <1>3, ReceiveRead DEF ReadInv
<1>4. CASE TakeLine
  BY <1>1, <1>2, <1>4, TakeRead DEF ReadInv
<1>5. CASE UNCHANGED vars
  <2>1. Read(n)'
    BY <1>2, <1>5 DEF vars, Read
  <2> QED
    BY <2>1 DEF ReadInv
<1> QED
  BY <1>3, <1>4, <1>5 DEF Next

\* For all streams and all ways to cut them, the frames returned by the time the
\* buffer holds no line are those of the bytes received, read in one piece.
THEOREM ChunksAreTransparent == Spec => []ChunksDoNotMatter
<1>1. ReadInv => ChunksDoNotMatter
  <2> SUFFICES ASSUME ReadInv, ~Lines!HasLine(buffer)
               PROVE  frames = FramesOf(received)
    BY DEF ChunksDoNotMatter
  <2>1. PICK n : Read(n)
    BY DEF ReadInv
  <2>2. /\ buffer \in Seq(Lines!Bytes) /\ received \in Seq(Lines!Bytes)
        /\ Len(buffer) \in Nat /\ Len(received) \in Nat
    BY LenProperties DEF ReadInv, TypeOK
  <2>3. \A i \in 1 .. Len(buffer) : buffer[i] # Lines!LF
    <3> DEFINE S == {k \in Nat : \A i \in 1 .. k : i <= Len(buffer) => buffer[i] # Lines!LF}
    <3>1. 0 \in S
      BY <2>2
    <3>2. ASSUME NEW k \in Nat, k \in S PROVE k + 1 \in S
      BY <2>2, <3>2 DEF Lines!HasLine, Lines!IsNewline
    <3> HIDE DEF S
    <3>3. Len(buffer) \in S
      BY <2>2, <3>1, <3>2, SetInduction
    <3> QED
      BY <2>2, <3>3 DEF S
  <2>4. \A i \in Newlines(received) : i <= n
    <3> SUFFICES ASSUME NEW i \in Newlines(received), i > n PROVE FALSE
      BY <2>1, <2>2 DEF Read, Newlines
    <3> DEFINE j == i - n
    <3>1. j \in 1 .. Len(buffer) /\ i = n + j /\ received[i] = Lines!LF
      BY <2>1, <2>2 DEF Read, Newlines
    <3> HIDE DEF j
    <3> QED
      BY <2>1, <2>3, <3>1 DEF Read
  <2>5. Ends(received, n) = {i \in Newlines(received) : Completes(received, i)}
    BY <2>4 DEF Ends
  <2> QED
    BY <2>1, <2>5 DEF Read, FramesOf, FramesAt
<1> QED
  BY <1>1, InitRead, ReadStep, Typed, PTL DEF Spec
=============================================================================

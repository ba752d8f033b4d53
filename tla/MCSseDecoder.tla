---------------------------- MODULE MCSseDecoder ----------------------------
(* SseDecoder on every stream of at most MaxLines of the lines below. *)
EXTENDS SseDecoder, SequencesExt

CONSTANT MaxLines

\* Blank lines, data lines with and without the space, an empty one, the end
\* marker and a comment, ended by LF or CR LF; one line ends in two CRs, of which
\* one belongs to the line.
Wire == { <<"\n">>, <<"\r", "\n">>,
          <<"data", ":", " ", "x", "\n">>, <<"data", ":", " ", "[DONE]", "\r", "\n">>,
          <<"data", ":", "\n">>, <<"data", ":", "x", "\r", "\r", "\n">>,
          <<":", " ", "\r", "\n">> }

MCStreams == {FlattenSeq(s) : s \in BoundedSeq(Wire, MaxLines) \ {<<>>}}

\* The operators of Lists are those of the libraries.
IsNewlineByte(c) == c = "\n"
ASSUME KeepIsSelectSeq ==
  \A s \in BoundedSeq({"\n", "\r", "x"}, 4) : Keep(s, IsNewlineByte) = SelectSeq(s, IsNewlineByte)
ASSUME AscendingSorts == \A S \in SUBSET (0 .. 4) : Ascending(S) = SetToSortSeq(S, <)
=============================================================================

---------------------------- MODULE MCTransformer ----------------------------
\* Instances of Transformer for TLC: every response of at most MaxItems items.
EXTENDS Transformer

CONSTANT MaxItems

Part(type, t) == Obj([type |-> type, text |-> <<t>>])

\* Summaries in the forms that the code tells apart; "secret" is the text of a
\* part that is no summary text.
Summaries == { Other, Arr(<<Str(<<"s">>), Obj([text |-> <<"t">>])>>),
               Arr(<<Part("summary_text", "s"), Part("x", "secret"), Other>>) }

\* The items that may stand at a place, as announced and as finished.
ItemsAt(n) ==
  LET id == "id" \o ToString(n)
      call == [type |-> "function_call", id |-> id, call_id |-> "call" \o ToString(n),
               name |-> "tool" \o ToString(n)]
  IN { [added |-> [type |-> "reasoning", id |-> id],
        done |-> [type |-> "reasoning", id |-> id, encrypted_content |-> "c",
                  content |-> <<"thought">>, summary |-> s]] : s \in Summaries }
     \cup { [added |-> call, done |-> call],
            [added |-> call @@ [status |-> "in_progress"],
             done |-> call @@ [status |-> "completed", arguments |-> "{}"]],
            [added |-> [type |-> "message", id |-> id],
             done |-> [type |-> "message", id |-> id, content |-> Str(<<"a">>)]] }

MCOutputs ==
  UNION { {o \in [1 .. k -> UNION {ItemsAt(n) : n \in 1 .. k}] :
             \A n \in 1 .. k : o[n] \in ItemsAt(n)} : k \in 0 .. MaxItems }
=============================================================================

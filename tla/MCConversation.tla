--------------------------- MODULE MCConversation ---------------------------
\* Instances of Conversation for TLC: answers of at most MaxItems thoughts, calls
\* and messages, with and without ciphertexts.
EXTENDS Conversation, TLC

CONSTANT MaxItems

\* The n-th item of the answer of turn t.
Answered(kind, t, n, ciphertext) ==
  LET k == ToString(10 * t + n)
      thought == [type |-> "reasoning", id |-> "rs_" \o k]
      call == [type |-> "function_call", id |-> "fc_" \o k, call_id |-> "call_" \o k,
               name |-> "tool"]
      message == [type |-> "message", id |-> "msg_" \o k, role |-> "assistant",
                  content |-> Arr(<<Obj([type |-> "output_text", text |-> <<k>>])>>)]
  IN CASE kind = "thought" ->
            [added |-> thought,
             done |-> thought @@ [content |-> Arr(<<"thought">>)]
                      @@ IF ciphertext THEN "encrypted_content" :> "c" \o k ELSE <<>>]
       [] kind = "call" -> [added |-> call, done |-> call]
       [] kind = "message" -> [added |-> message, done |-> message]

MCAnswers ==
  [t \in 0 .. Turns |->
     {[n \in DOMAIN kinds |-> Answered(kinds[n], t, n, ciphertext)] :
        ciphertext \in BOOLEAN,
        kinds \in BoundedSeq({"thought", "call", "message"}, MaxItems)}]

MCOutputs == UNION Range(MCAnswers)
MCUpstreamIds == {"rs_" \o ToString(n) : n \in 1 .. 10 * (Turns + 1)}
=============================================================================

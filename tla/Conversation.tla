---------------------------- MODULE Conversation ----------------------------
(***************************************************************************)
(* Several turns of one conversation, composed of Adapt and Transformer:   *)
(* Grok keeps the history and sends all of it with every request, adapted  *)
(* by the bridge; Codex keeps nothing (store is false) and takes the       *)
(* request only if it can resolve what is replayed; the answer is streamed *)
(* back through a new transformer and becomes part of the history.         *)
(* Sometimes Grok sends an item of the history not as it got it, and       *)
(* sometimes a stream is cut and Grok asks again.                          *)
(***************************************************************************)
EXTENDS Adapt, Transformer

CONSTANTS Turns,        \* bound: answered requests; one more is asked
          Cuts,         \* bound: streams that are cut
          Answers       \* by turn, the responses that Codex may give

\* Of Codex: its items are thoughts with an id of the upstream form, calls and
\* messages of the assistant, and no two turns share an id.
ASSUME ConversationAssumption ==
  /\ Turns \in Nat /\ "rs-made-up" \notin UpstreamIds
  /\ \A t \in 0 .. Turns : \A o \in Answers[t] : o \in Outputs /\ \A i \in DOMAIN o :
       LET item == o[i].done
       IN /\ \/ item.type = "reasoning" /\ Role(item) = "" /\ item.id \in UpstreamIds
             \/ item.type = "function_call" /\ Role(item) = "" /\ item.call_id # NULL
             \/ /\ item.type = "message" /\ Role(item) = "assistant"
                /\ Has(item, "content") /\ IsContent(item.content)
          /\ Has(item, "encrypted_content") => item.encrypted_content \notin {NULL, ""}
          /\ \A u \in 0 .. Turns \ {t} : \A q \in Answers[u] :
               \A k \in DOMAIN q : q[k].done.id # item.id

VARIABLES history,      \* Grok: the items of the conversation
          phase,        \* compose, answer, refused
          turn, cuts,   \* answered requests and cut streams
          issued,       \* Codex: the thoughts it can resolve, <<id, ciphertext>>
          transcript,   \* what was said in the finished turns
          garbled       \* ids of the thoughts that this request garbles

conversation == <<history, phase, turn, cuts, issued, transcript, garbled,
                  request, vars>>

-----------------------------------------------------------------------------
(* What is said *)

User(n) == [role |-> "user", content |-> Str(<<"question", n>>)]

IsCall(item) == Type(item) = "function_call"
OutputOf(call) ==
  [type |-> "function_call_output", call_id |-> call.call_id, output |-> "done"]

\* The turn with this answer: Grok runs the calls and adds their outputs.
Told(items) == <<User(turn)>> \o items \o MapSeq(OutputOf, Keep(items, IsCall))

\* The answers of this turn, with ciphertexts if they were asked for.
Possible(asked) ==
  {o \in Answers[turn] : \A i \in DOMAIN o :
     Type(o[i].done) = "reasoning" => (Has(o[i].done, "encrypted_content") <=> asked)}

\* What an item is remembered by.
Label(item) ==
  CASE Type(item) = "reasoning" -> <<"reasoning", item.id>>
    [] Type(item) \in {"function_call", "function_call_output"} ->
         <<Type(item), item.call_id>>
    [] OTHER -> <<Role(item), ExtractText(item)>>

Labels(items) == MapSeq(Label, items)

-----------------------------------------------------------------------------
(* Codex *)

Resolvable(items) ==
  \A n \in DOMAIN items : Type(items[n]) = "reasoning" =>
    <<items[n].id, items[n].encrypted_content>> \in issued

Paired(items) ==
  \A n \in DOMAIN items : Type(items[n]) = "function_call_output" =>
    \E k \in 1 .. n - 1 : /\ Type(items[k]) = "function_call"
                          /\ items[k].call_id = items[n].call_id

Formed(items) ==
  \A n \in DOMAIN items :
    /\ Type(items[n]) = "function_call" =>
         {"id", "status", "arguments"} \subseteq DOMAIN items[n]
    /\ Role(items[n]) = "user" => items[n].content.kind = "array"

Accepts(r) ==
  Resolvable(r.input.parts) /\ Paired(r.input.parts) /\ Formed(r.input.parts)

-----------------------------------------------------------------------------
Opening ==
  /\ history = <<[role |-> "system", content |-> Str(<<"rules">>)]>>
  /\ phase = "compose" /\ turn = 0 /\ cuts = 0
  /\ issued = {} /\ transcript = <<>>
  /\ body = Other /\ outcome = Pending /\ garbled = {}
  /\ plan = <<>> /\ given = <<>> /\ shown = <<>> /\ forwarded = Nothing
  /\ items_by_index = <<>> /\ id_to_index = <<>> /\ call_metadata = <<>>

\* Mutant: one transformer for all streams.
EndStream_KeepsItems ==
  /\ phase' = "compose"
  /\ body' = Other /\ outcome' = Pending /\ garbled' = {}
  /\ plan' = <<>> /\ given' = <<>> /\ shown' = <<>> /\ forwarded' = Nothing
  /\ UNCHANGED transformer

\* The stream ends, and its transformer with it.
EndStream ==
  /\ phase' = "compose"
  /\ body' = Other /\ outcome' = Pending /\ garbled' = {}
  /\ plan' = <<>> /\ given' = <<>> /\ shown' = <<>> /\ forwarded' = Nothing
  /\ items_by_index' = <<>> /\ id_to_index' = <<>> /\ call_metadata' = <<>>

\* A thought may go under a made-up id with a ciphertext that no longer verifies,
\* or without ciphertext.
Replay(thought, form) ==
  CASE form = "made up" ->
         With(With(thought, "id", "rs-made-up"), "encrypted_content", "stale")
    [] form = "without ciphertext" -> Without(thought, {"encrypted_content"})
    [] form = "as it came" -> thought

Thoughts == {n \in DOMAIN history : Type(history[n]) = "reasoning"}

\* The history as it is sent: the calls may go with or without what the bridge
\* can fill in.
Replayed(form, bare) ==
  [n \in DOMAIN history |->
     CASE n \in Thoughts -> Replay(history[n], form[n])
       [] IsCall(history[n]) /\ bare -> Without(history[n], {"id", "status", "arguments"})
       [] OTHER -> history[n]]

\* Grok sends the history and a question; Codex refuses the request or begins an
\* answer.
Ask ==
  /\ phase = "compose"
  /\ \E bare \in BOOLEAN,
        form \in [Thoughts -> {"as it came", "made up", "without ciphertext"}] :
       /\ body' = Obj([model |-> "gpt-5.6-sol",
                       input |-> Arr(Append(Replayed(form, bare), User(turn)))])
       /\ garbled' = {history[n].id : n \in {m \in Thoughts : form[m] # "as it came"}}
  /\ outcome' = AdaptRequest(body')
  /\ IF outcome'.ok /\ Accepts(outcome'.request)
     THEN /\ phase' = "answer"
          /\ plan' \in Possible(Contains(outcome'.request.include.parts, Ciphertext))
     ELSE phase' = "refused" /\ plan' = <<>>
  /\ given' = [n \in DOMAIN plan' |-> "none"]
  /\ UNCHANGED <<history, turn, cuts, issued, transcript, shown, forwarded, transformer>>

\* An event of the answer goes through the transformer (a delta changes nothing
\* that a later turn depends on).  A thought counts as issued once it was sent,
\* whatever becomes of the rest of the stream.
Stream ==
  /\ phase = "answer" /\ turn < Turns
  /\ \/ \E i \in DOMAIN plan : Item(i, "added") \/ Item(i, "done")
     \/ Completed
  /\ issued' = issued \cup
       {<<plan[i].done.id, plan[i].done.encrypted_content>> :
          i \in {j \in DOMAIN plan : /\ given'[j] = "done"
                                     /\ Has(plan[j].done, "encrypted_content")}}
  /\ UNCHANGED <<history, turn, cuts, transcript, garbled, body, outcome, phase>>

\* The answer is complete: Grok takes the output of the completed response, or the
\* items as they were streamed, and runs the calls.
Answer ==
  /\ phase = "answer" /\ ~Live
  /\ \E items \in {forwarded.response.output, [n \in DOMAIN plan |-> shown[n - 1]]} :
       history' = history \o Told(items)
  /\ transcript' = transcript \o Labels(Told([n \in DOMAIN plan |-> plan[n].done]))
  /\ turn' = turn + 1
  /\ EndStream
  /\ UNCHANGED <<cuts, issued>>

\* The stream is cut: Grok drops what it has got and may ask again.
Cut ==
  /\ phase = "answer" /\ Live /\ turn < Turns /\ cuts < Cuts
  /\ cuts' = cuts + 1
  /\ EndStream
  /\ UNCHANGED <<history, turn, issued, transcript>>

Exchange == Ask \/ Stream \/ Answer \/ Cut

Talking == Opening /\ [][Exchange]_conversation

-----------------------------------------------------------------------------
(* Properties *)

\* No request of the conversation is refused for what it replays, whatever Grok
\* garbles and however the earlier turns were streamed or cut: every thought in it
\* can be resolved, every output follows its call, every item has its form.
NeverRefused == phase # "refused"

\* Codex, which keeps nothing, is told the whole conversation again with every
\* request: each question, message, call, output and thought of every finished
\* turn, once and in order; only the thoughts that Grok garbled are missing.
Remembers ==
  phase = "answer" =>
    Labels(outcome.request.input.parts) =
      Append(Keep(transcript, LAMBDA l : l[1] = "reasoning" => l[2] \notin garbled),
             Label(User(turn)))
=============================================================================

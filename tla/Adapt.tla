-------------------------------- MODULE Adapt --------------------------------
(***************************************************************************)
(* adapt_request of protocol.rs: the request that Grok posts, as the one   *)
(* that goes to Codex.                                                     *)
(*                                                                         *)
(* A text is a sequence of atoms, so that joining texts is concatenation.  *)
(* An input item that is no object takes the way of an object without role *)
(* and type: it is passed on as it is.                                     *)
(***************************************************************************)
EXTENDS Json

CONSTANTS Bodies,       \* the bodies that may be posted
          UpstreamIds   \* ids that begin with rs_ and have no dash

\* Arrays and texts are sequences.
IsValue(v) ==
  /\ v.kind = "string" => IsList(v.text)
  /\ v.kind = "array" => IsList(v.parts)
  /\ v.kind = "object" /\ Has(v.fields, "text") => IsList(v.fields.text)

IsContent(c) ==
  IsValue(c) /\ (c.kind = "array" => \A k \in DOMAIN c.parts : IsValue(c.parts[k]))

ASSUME BodiesAssumption ==
  \A b \in Bodies : b.kind = "object" =>
    /\ \A f \in {"input", "instructions", "include"} \cap DOMAIN b.fields :
         IsValue(b.fields[f])
    /\ Has(b.fields, "input") /\ b.fields.input.kind = "array" =>
         \A n \in DOMAIN b.fields.input.parts :
           LET item == b.fields.input.parts[n]
           IN Has(item, "content") => IsContent(item.content)

VARIABLES body,         \* the body of the request being handled
          outcome       \* what adapt_request makes of it

request == <<body, outcome>>

Join(texts, sep) ==
  FlattenSeq([i \in 1 .. Len(texts) |->
                IF i = 1 THEN texts[i] ELSE <<sep>> \o texts[i]])

DroppedFields == {"user", "service_tier", "metadata", "background",
  "prompt_cache_key", "temperature", "max_output_tokens", "stream_tool_calls",
  "x_grok_doom_loop_check", "x-grok-doom-loop-check"}
AllowedFields == {"model", "input", "instructions", "tools", "tool_choice",
  "parallel_tool_calls", "reasoning", "include", "max_tool_calls", "text",
  "truncation", "stream", "store"}

-----------------------------------------------------------------------------
(* The input items *)

HasText(p) == p.kind = "string" \/ (p.kind = "object" /\ Has(p.fields, "text"))
TextOf(p) == IF p.kind = "string" THEN p.text ELSE p.fields.text

\* extract_text; its caller treats no text and an empty text alike.
ExtractText(item) ==
  LET c == IF Has(item, "content") THEN item.content ELSE Other
  IN CASE c.kind = "array" -> Join(MapSeq(TextOf, Keep(c.parts, HasText)), "\n")
       [] HasText(c) -> TextOf(c)
       [] OTHER -> <<>>

ContentType(role) == IF role = "user" THEN "input_text" ELSE "output_text"

\* Mutant: the type of a text is that of the user's.
TypedPart_OneType(role, p) ==
  CASE p.kind = "string" -> Obj([type |-> "input_text", text |-> p.text])
    [] p.kind = "object" /\ Type(p.fields) = "text" ->
         Obj(With(p.fields, "type", "input_text"))
    [] OTHER -> p

TypedPart(role, p) ==
  CASE p.kind = "string" -> Obj([type |-> ContentType(role), text |-> p.text])
    [] p.kind = "object" /\ Type(p.fields) = "text" ->
         Obj(With(p.fields, "type", ContentType(role)))
    [] OTHER -> p

NormalizeMessage(item) ==
  LET role == Role(item)
      c == item.content
  IN IF role \notin {"user", "assistant"} \/ ~Has(item, "content") THEN item
     ELSE With(item, "content",
            CASE c.kind = "string" -> Arr(<<TypedPart(role, c)>>)
              [] c.kind = "array" -> Arr([k \in 1 .. Len(c.parts) |-> TypedPart(role, c.parts[k])])
              [] OTHER -> c)

NormalizeHistoryItem(item) ==
  CASE Type(item) = "reasoning" -> Default(item, "summary", Arr(<<>>))
    [] Type(item) = "function_call" ->
         LET named == IF ~Has(item, "id") /\ Has(item, "call_id") /\ item.call_id # NULL
                      THEN With(item, "id", "fc_" \o item.call_id) ELSE item
         IN Default(Default(named, "status", "completed"), "arguments", "")
    [] Type(item) = "function_call_output" -> Default(item, "output", "")
    [] OTHER -> item

\* Mutant: any ciphertext is trusted.
Replayable_AnyId(item) ==
  Has(item, "encrypted_content") /\ item.encrypted_content \notin {NULL, ""}

\* replayable_reasoning
Replayable(item) ==
  /\ Has(item, "encrypted_content") /\ item.encrypted_content \notin {NULL, ""}
  /\ Has(item, "id") /\ item.id \in UpstreamIds

IsSystem(item) == Role(item) \in {"system", "developer"}

Kept(item) == ~IsSystem(item) /\ (Type(item) = "reasoning" => Replayable(item))

NormalizeItem(item) == NormalizeHistoryItem(NormalizeMessage(item))

NormalizeInput(items) == MapSeq(NormalizeItem, Keep(items, Kept))

NotEmpty(text) == text # <<>>

\* Mutant: a system message replaces the one before it.
SystemTexts_Last(items) ==
  LET texts == Keep(MapSeq(ExtractText, Keep(items, IsSystem)), NotEmpty)
  IN IF texts = <<>> THEN <<>> ELSE <<Last(texts)>>

SystemTexts(items) == Keep(MapSeq(ExtractText, Keep(items, IsSystem)), NotEmpty)

\* The items of the input field; a missing one is empty, a string is one message.
Items(r) ==
  CASE ~Has(r, "input") -> <<>>
    [] Has(r, "input") /\ r.input.kind = "string" ->
         <<[role |-> "user",
            content |-> Arr(<<Obj([type |-> "input_text", text |-> r.input.text])>>)]>>
    [] OTHER -> r.input.parts

-----------------------------------------------------------------------------
(* The other fields *)

\* Mutant: the name that Codex uses is not among the names of its class.
MapEffort_Alias(e) ==
  CASE e \in {"none", "off"} -> "none"
    [] e \in {"minimal", "light", "low"} -> "low"
    [] e = "high" -> "high"
    [] e \in {"extra_high", "extrahigh", "extra-high", "ultra"} -> "xhigh"
    [] e \in {"max", "maximum"} -> "max"
    [] OTHER -> "medium"

\* map_effort, of the lower-cased name
MapEffort(e) ==
  CASE e \in {"none", "off"} -> "none"
    [] e \in {"minimal", "light", "low"} -> "low"
    [] e = "high" -> "high"
    [] e \in {"extra_high", "extrahigh", "extra-high", "xhigh", "ultra"} -> "xhigh"
    [] e \in {"max", "maximum"} -> "max"
    [] OTHER -> "medium"

NormalizeReasoning(r) ==
  [effort |-> IF Has(r, "reasoning") /\ Has(r.reasoning, "effort")
              THEN MapEffort(r.reasoning.effort) ELSE "medium",
   summary |-> "concise"]

Ciphertext == "reasoning.encrypted_content"

NormalizeInclude(r) ==
  LET values == IF Has(r, "include") /\ r.include.kind = "array"
                THEN r.include.parts ELSE <<>>
  IN Arr(IF Contains(values, Ciphertext) THEN values ELSE Append(values, Ciphertext))

Own(r) == IF Has(r, "instructions") THEN <<r.instructions.text>> ELSE <<>>

\* The instructions of the request, if any, before the system messages.
Instructions(r) ==
  LET texts == Own(r) \o SystemTexts(Items(r))
  IN Str(IF texts = <<>> THEN <<"default">> ELSE Join(texts, "\n\n"))

-----------------------------------------------------------------------------
Error(e) == [ok |-> FALSE, error |-> e]

AdaptRequest(b) ==
  IF b.kind # "object" THEN Error("RootMustBeObject") ELSE
  LET r == Without(b.fields, DroppedFields)
  IN IF DOMAIN r \ AllowedFields # {} THEN Error("UnsupportedField")
     ELSE IF ~Has(r, "model") \/ r.model \in {NULL, ""} THEN Error("MissingModel")
     ELSE IF r.model \notin {"gpt-5.6-sol", "gpt-5.6-terra"} THEN Error("UnsupportedModel")
     ELSE IF Has(r, "instructions") /\ r.instructions.kind # "string"
     THEN Error("InvalidInstructions")
     ELSE IF Has(r, "input") /\ r.input.kind \notin {"string", "array"}
     THEN Error("InvalidInput")
     ELSE [ok |-> TRUE,
           request |-> Merge([stream |-> TRUE, store |-> FALSE,
                              input |-> Arr(NormalizeInput(Items(r))),
                              instructions |-> Instructions(r),
                              reasoning |-> NormalizeReasoning(r),
                              include |-> NormalizeInclude(r)], r)]

Pending == [ok |-> FALSE, error |-> "pending"]

Posted == body \in Bodies /\ outcome = Pending

Handle == /\ outcome = Pending
          /\ outcome' = AdaptRequest(body)
          /\ UNCHANGED body

Adapting == Posted /\ [][Handle]_request

-----------------------------------------------------------------------------
(* Properties *)

\* What a sequence of items says to the model, whatever JSON form it has: who
\* says which texts, and which calls, outputs and thoughts stand between them.
Said(items) ==
  MapSeq(LAMBDA i : <<Role(i), Type(i), IF Has(i, "call_id") THEN i.call_id ELSE "",
                      ExtractText(i)>>, items)

\* Adapting an adapted request changes nothing: a client that replays what the
\* bridge made of its request, or a second bridge on the way, is harmless, and
\* every alias and default is mapped to a value that stands for itself.
Settled == outcome.ok => AdaptRequest(Obj(outcome.request)) = outcome

NoThought(item) == Type(item) # "reasoning"
IsSaid(item) == ~IsSystem(item) /\ NoThought(item)
IsWord(a) == a \notin {"\n", "\n\n", "default"}

\* Nothing that was said is lost, doubled or moved by the change of forms: the
\* user, the assistant, the calls and their outputs keep their texts and order,
\* and the instructions are the client's own followed by the system messages.
SaysTheSame ==
  outcome.ok =>
    LET sent == Items(body.fields)
        system == MapSeq(ExtractText, Keep(sent, IsSystem))
    IN /\ Said(Keep(outcome.request.input.parts, NoThought)) = Said(Keep(sent, IsSaid))
       /\ Keep(outcome.request.instructions.text, IsWord) =
            Keep(FlattenSeq(Own(body.fields) \o system), IsWord)

SentParts(r) == UNION {Range(Parts(item, "content")) : item \in Range(Items(r))}

\* The form that Codex insists on, whatever mix of forms Grok has sent: streamed
\* and not stored, ciphertexts asked for, no system message and no bare string in
\* the input, no part still of the plain type "text" (a part with another type, or
\* none, stays as Grok sent it), every replayed thought resolvable, every call and
\* output complete.
CodexForm ==
  outcome.ok =>
    /\ outcome.request.stream /\ ~outcome.request.store
    /\ Contains(outcome.request.include.parts, Ciphertext)
    /\ \A n \in DOMAIN outcome.request.input.parts :
         LET item == outcome.request.input.parts[n]
         IN /\ Role(item) \notin {"system", "developer"}
            /\ Role(item) \in {"user", "assistant"} /\ Has(item, "content") =>
                 /\ item.content.kind # "string"
                 /\ item.content.kind = "array" =>
                      \A k \in DOMAIN item.content.parts :
                        LET p == item.content.parts[k]
                        IN /\ p.kind # "string"
                           /\ p.kind = "object" =>
                                \/ Type(p.fields) = ContentType(Role(item))
                                \/ Type(p.fields) # "text" /\ p \in SentParts(body.fields)
            /\ Type(item) = "reasoning" =>
                 Replayable(item) /\ Has(item, "summary")
            /\ Type(item) = "function_call" =>
                 {"status", "arguments"} \subseteq DOMAIN item
            /\ Type(item) = "function_call_output" => Has(item, "output")
=============================================================================

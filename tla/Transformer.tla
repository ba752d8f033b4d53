----------------------------- MODULE Transformer -----------------------------
(***************************************************************************)
(* StreamTransformer of protocol.rs: what becomes of the events of one     *)
(* response on their way from Codex to Grok.  Codex streams the items of   *)
(* the response, several at a time: it announces an item, sends deltas of  *)
(* it and finishes it, and completes the response with or without a list   *)
(* of its output.                                                          *)
(***************************************************************************)
EXTENDS Json

CONSTANT Outputs        \* the responses: sequences of [added, done] items

\* Of Codex: an item keeps its id, type, name and call id, and no two items share
\* an id or use each other's as a call id.
ASSUME TransformerAssumption ==
  \A o \in Outputs : IsList(o) /\ \A i \in DOMAIN o :
    LET item == o[i].added
    IN /\ \A version \in {item, o[i].done} :
            /\ {"id", "type"} \subseteq DOMAIN version
            /\ IsList(Parts(version, "summary"))
            /\ version.id = item.id /\ version.type = item.type
            /\ item.type = "function_call" =>
                 /\ {"name", "call_id"} \subseteq DOMAIN version
                 /\ version.name = item.name /\ version.call_id = item.call_id
       /\ \A j \in DOMAIN o \ {i} :
            /\ o[j].added.id # item.id
            /\ o[j].added.type = "function_call" => o[j].added.call_id # item.id

VARIABLES items_by_index, id_to_index, call_metadata,   \* StreamTransformer
          plan,         \* upstream: the items of this response
          given,        \* upstream: how far each item is: none, added, done
          forwarded,    \* the last event as it was forwarded, or Nothing
          shown         \* Grok: the last version of each item it was sent

transformer == <<items_by_index, id_to_index, call_metadata>>
vars == <<transformer, plan, given, forwarded, shown>>

Nothing == [type |-> "nothing"]

-----------------------------------------------------------------------------
(* The transformer *)

Hidden == {"keepalive", "response.metadata",
           "response.reasoning_text.delta", "response.reasoning_text.done"}
ItemEvents == {"response.output_item.added", "response.output_item.done"}
ItemEvent == [added |-> "response.output_item.added", done |-> "response.output_item.done"]
SummaryEvents == {"response.reasoning_summary_text.delta",
                  "response.reasoning_summary_text.done"}
CallEvents == {"response.function_call_arguments.delta",
               "response.function_call_arguments.done"}

\* A part of a summary that is kept, and its text.
IsSummary(p) ==
  p.kind = "string" \/ (p.kind = "object" /\ Type(p.fields) \in {"", "summary_text"})
SummaryText(p) ==
  CASE p.kind = "string" -> p.text
    [] p.kind = "object" /\ Has(p.fields, "text") -> p.fields.text
    [] OTHER -> <<>>
SummaryPart(p) == Obj([type |-> "summary_text", text |-> SummaryText(p)])

\* The summary keeps its texts, as summary_text parts, and the thought is dropped.
NormalizeReasoningItem(item) ==
  Merge([content |-> Arr(<<>>),
         summary |-> Arr(MapSeq(SummaryPart, Keep(Parts(item, "summary"), IsSummary)))],
        item)

NormalizeReasoningValue(item) ==
  IF Type(item) = "reasoning" THEN NormalizeReasoningItem(item) ELSE item

\* Mutant: the metadata is found by the call id only.
MetadataKeys_CallId(item) == {item[f] : f \in {"call_id"} \cap DOMAIN item}

\* A delta may name a call by its id or by its call id.
MetadataKeys(item) == {item[f] : f \in {"id", "call_id"} \cap DOMAIN item}

\* Mutant: the first version of an item stays.
Remember_First(index, item, done) ==
  IF index \notin DOMAIN items_by_index THEN With(items_by_index, index, item)
                                         ELSE items_by_index

\* The finished item replaces the announced one.
Remember(index, item, done) ==
  IF done \/ index \notin DOMAIN items_by_index THEN With(items_by_index, index, item)
                                                 ELSE items_by_index

\* transform_output_item
OutputItem(p) ==
  LET index == IF Has(p, "output_index") THEN p.output_index ELSE 0
      done == p.type = "response.output_item.done"
      status == IF done THEN "completed" ELSE "in_progress"
      item == IF Type(p.item) = "function_call"
              THEN Default(Default(p.item, "status", status), "arguments", "")
              ELSE NormalizeReasoningValue(p.item)
      metadata == [f \in {"name", "call_id"} \cap DOMAIN item |-> item[f]]
  IN /\ id_to_index' = IF Has(item, "id") THEN With(id_to_index, item.id, index)
                                          ELSE id_to_index
     /\ call_metadata' = IF Type(item) = "function_call"
                         THEN Merge([k \in MetadataKeys(item) |-> metadata], call_metadata)
                         ELSE call_metadata
     /\ items_by_index' = Remember(index, item, done)
     /\ forwarded' = With(p, "item", item)

AttachIndex(p) ==
  IF Has(p, "item_id") /\ p.item_id \in DOMAIN id_to_index
  THEN Default(p, "output_index", id_to_index[p.item_id]) ELSE p

AttachFunctionMetadata(p) ==
  IF Has(p, "item_id") /\ p.item_id \in DOMAIN call_metadata
  THEN Merge(AttachIndex(p), call_metadata[p.item_id]) ELSE AttachIndex(p)

\* Mutant: a list of Codex is passed on as it is.
PatchCompleted_Raw(p) ==
  LET output == p.response.output
  IN With(p, "response", With(p.response, "output",
       IF output = <<>> THEN Pick(items_by_index, DOMAIN items_by_index) ELSE output))

PatchCompleted(p) ==
  LET output == p.response.output
  IN With(p, "response", With(p.response, "output",
       IF output = <<>> THEN Pick(items_by_index, DOMAIN items_by_index)
                        ELSE MapSeq(NormalizeReasoningValue, output)))

Transform(p) ==
  \/ /\ p.type \in ItemEvents
     /\ OutputItem(p)
  \/ /\ p.type \notin ItemEvents
     /\ forwarded' = CASE p.type \in Hidden -> Nothing
                       [] p.type \in SummaryEvents -> AttachIndex(p)
                       [] p.type \in CallEvents -> AttachFunctionMetadata(p)
                       [] p.type = "response.completed" -> PatchCompleted(p)
                       [] OTHER -> p
     /\ UNCHANGED transformer

-----------------------------------------------------------------------------
(* Codex *)

Init ==
  /\ plan \in Outputs
  /\ given = [i \in DOMAIN plan |-> "none"]
  /\ items_by_index = <<>> /\ id_to_index = <<>> /\ call_metadata = <<>>
  /\ forwarded = Nothing /\ shown = <<>>

Live == forwarded.type # "response.completed"

\* Items are announced in order; a short one may be sent finished at once.
Item(i, stage) ==
  /\ Live
  /\ \A j \in 1 .. i - 1 : given[j] # "none"
  /\ given[i] \notin {stage, "done"}
  /\ given' = [given EXCEPT ![i] = stage]
  /\ Transform([type |-> ItemEvent[stage], output_index |-> i - 1,
                item |-> plan[i][stage]])
  /\ shown' = With(shown, i - 1, forwarded'.item)
  /\ UNCHANGED plan

DeltaTypes(item) ==
  CASE Type(item) = "reasoning" -> SummaryEvents \cup {"response.reasoning_text.delta"}
    [] Type(item) = "function_call" -> CallEvents
    [] OTHER -> {"response.output_text.delta"}

\* A delta of an item in progress names the item by its id and may or may not
\* carry the index.
Delta(i) ==
  /\ Live /\ given[i] = "added"
  /\ \E t \in DeltaTypes(plan[i].added), x \in {<<>>, [output_index |-> i - 1]} :
       Transform(Merge([type |-> t, item_id |-> plan[i].added.id], x))
  /\ UNCHANGED <<plan, given, shown>>

Unrelated ==
  /\ Live
  /\ \E t \in {"keepalive", "response.metadata", "response.in_progress"} :
       Transform([type |-> t])
  /\ UNCHANGED <<plan, given, shown>>

\* The completed event may have an empty output, or list the finished items.
Completed ==
  /\ Live
  /\ \A i \in DOMAIN plan : given[i] = "done"
  /\ \E output \in {<<>>, [i \in DOMAIN plan |-> plan[i].done]} :
       Transform([type |-> "response.completed", response |-> [output |-> output]])
  /\ UNCHANGED <<plan, given, shown>>

Next ==
  \/ \E i \in DOMAIN plan :
       Item(i, "added") \/ Item(i, "done") \/ Delta(i)
  \/ Unrelated
  \/ Completed

Spec == Init /\ [][Next]_vars

-----------------------------------------------------------------------------
(* Properties *)

ItemsOf(event) ==
  CASE Has(event, "item") -> <<event.item>>
    [] event.type = "response.completed" -> event.response.output
    [] OTHER -> <<>>

\* A delta reaches Grok with the index of its item, and an argument delta with
\* the name and the call id, whether Codex repeated them or not and whatever was
\* announced, finished or completed in between.
DeltaAddressed ==
  forwarded.type \in SummaryEvents \cup CallEvents =>
    \E i \in DOMAIN plan :
      /\ plan[i].added.id = forwarded.item_id
      /\ Has(forwarded, "output_index") /\ forwarded.output_index = i - 1
      /\ forwarded.type \in CallEvents =>
           /\ {"name", "call_id"} \subseteq DOMAIN forwarded
           /\ forwarded.name = plan[i].added.name
           /\ forwarded.call_id = plan[i].added.call_id

\* The completed response holds every item of the response once, in the order of
\* the indices and in the version that Grok was sent last (its own list may leave
\* out the defaults that the bridge adds to a call).
CompletedIsWhole ==
  forwarded.type = "response.completed" =>
    LET output == forwarded.response.output
        Core(item) == Without(item, {"status", "arguments"})
    IN /\ Len(output) = Len(plan)
       /\ \A i \in DOMAIN plan : Core(output[i]) = Core(shown[i - 1])

\* A reasoning item reaches Grok, in an item event or in the completed response,
\* without its thoughts, with every text of its summary, and with the id and the
\* ciphertext that Codex needs to resolve it when it is replayed.
ThoughtsStayBehind ==
  /\ forwarded.type \notin Hidden
  /\ \A n \in DOMAIN ItemsOf(forwarded) :
       LET item == ItemsOf(forwarded)[n]
           Texts(o) == MapSeq(SummaryText, Keep(Parts(o, "summary"), IsSummary))
           Rest(o) == Without(o, {"content", "summary"})
       IN Type(item) = "reasoning" =>
            /\ item.content = Arr(<<>>)
            /\ \A k \in DOMAIN item.summary.parts :
                 item.summary.parts[k].fields.type = "summary_text"
            /\ \E i \in DOMAIN plan, stage \in {"added", "done"} :
                 /\ Rest(item) = Rest(plan[i][stage])
                 /\ Texts(item) = Texts(plan[i][stage])
=============================================================================

------------------------------- MODULE MCAdapt -------------------------------
\* Instances of Adapt for TLC: every field of the request in every form that the
\* code tells apart, and every input of at most MaxItems of the items below.
EXTENDS Adapt

CONSTANT MaxItems

Text(a) == Obj([type |-> "text", text |-> <<a>>])

Contents == { Str(<<"a">>), Str(<<>>), Other, Text("b"),
              Arr(<<Str(<<"a">>), Text("b")>>), Arr(<<Other>>) }

Messages == { [role |-> r, content |-> c] :
                r \in {"user", "assistant", "system", "developer"}, c \in Contents }
            \cup { [role |-> "user"], [role |-> "system"] }

Reasoning == [type : {"reasoning"}, id : {"rs_1", "rs-1", NULL},
              encrypted_content : {"c", "", NULL}]
             \cup { [type |-> "reasoning", id |-> "rs_1"],
                    [type |-> "reasoning", encrypted_content |-> "c"] }

Calls == { [type |-> "function_call", call_id |-> "call"],
           [type |-> "function_call", call_id |-> NULL],
           [type |-> "function_call", id |-> "fc", call_id |-> "call",
            status |-> "failed", arguments |-> "{}"],
           [type |-> "function_call_output", call_id |-> "call"],
           [type |-> "function_call_output", call_id |-> "call", output |-> "done"] }

Inputs == { Arr(s) : s \in BoundedSeq(Messages \cup Reasoning \cup Calls, MaxItems) }

Base == [model |-> "gpt-5.6-sol"]

Efforts == {"none", "off", "minimal", "light", "low", "medium", "med", "high",
            "extra_high", "xhigh", "ultra", "max", "maximum", "unknown"}

\* One value, or none, for a field.
Maybe(f, V) == {<<>>} \cup {f :> v : v \in V}

MCBodies ==
  { Obj(Base @@ ("input" :> i)) : i \in Inputs }
  \cup { Obj(m @@ i @@ n @@ r @@ c @@ x) :
           m \in Maybe("model", {"gpt-5.6-sol", "gpt-5.6-luna", "", NULL}),
           i \in Maybe("input", {Str(<<"a">>), Other,
                                 Arr(<<[role |-> "system", content |-> Str(<<"s">>)]>>)}),
           n \in Maybe("instructions", {Str(<<"i">>), Str(<<>>), Other}),
           r \in Maybe("reasoning", {[effort |-> e] : e \in Efforts} \cup {<<>>}),
           c \in Maybe("include", {Other, Arr(<<>>), Arr(<<"x">>), Arr(<<Ciphertext>>)}),
           x \in Maybe("temperature", {"0.2"}) \cup Maybe("secret_field", {"s"}) }
  \cup { Other }
=============================================================================

--------------------------- MODULE Protocol_proofs ---------------------------
(***************************************************************************)
(* Theorems about Adapt, for every body that may be posted, about          *)
(* Transformer, for every response of any number of items, and about       *)
(* Conversation, for any number of turns and any answers.                  *)
(*                                                                         *)
(* Adapt.  The outcome is AdaptRequest(body) or still pending (AdaptInv),  *)
(* so each theorem is one about AdaptRequest.  An item keeps every field   *)
(* but its content, which keeps its texts, and once normalised and         *)
(* complete it stays as it is (ItemIs, ItemSays, ItemSettled); the lists   *)
(* of items and of texts are compared place by place, through the places   *)
(* that are picked, and what is joined by induction over its length.       *)
(*                                                                         *)
(* Transformer.  Once an item was announced, id_to_index and call_metadata *)
(* hold its index, its name and its call id under its id (Known), and what *)
(* comes later cannot overwrite them, since no other item uses that id.    *)
(* items_by_index holds under each index the version that Grok was sent    *)
(* last (ShownInv), so that the completed response, which is made of them  *)
(* or of the finished items, is that response.                             *)
(*                                                                         *)
(* Conversation.  The history that Grok keeps says, item by item, what the *)
(* transcript says (HistoryInv); what is sent of it and kept by the bridge *)
(* are the places that the request recalls, in order (SentIs), and each of *)
(* them arrives as an item that says the same (InputArrives).              *)
(***************************************************************************)
EXTENDS Conversation, Lists_proofs

-----------------------------------------------------------------------------
(* JSON objects *)

IsObject(o) == o = [f \in DOMAIN o |-> o[f]]

LEMMA WithSame ==
  ASSUME NEW o, IsObject(o), NEW f \in DOMAIN o
  PROVE  With(o, f, o[f]) = o
  BY DEF With, IsObject

\* Object n has the fields of object o, and of the others only some of F.
Grows(o, n, F) ==
  /\ DOMAIN o \subseteq DOMAIN n /\ DOMAIN n \subseteq DOMAIN o \cup F
  /\ \A f \in DOMAIN o : n[f] = o[f]
  /\ IsObject(o) => IsObject(n)

LEMMA WithGrows ==
  ASSUME NEW o, NEW f, NEW v, f \notin DOMAIN o
  PROVE  Grows(o, With(o, f, v), {f}) /\ f \in DOMAIN With(o, f, v)
<1>1. PICK n : n = [g \in DOMAIN o \cup {f} |-> IF g = f THEN v ELSE o[g]]
  OBVIOUS
<1>2. With(o, f, v) = n
  BY <1>1 DEF With
<1>3. DOMAIN n = DOMAIN o \cup {f} /\ \A g \in DOMAIN o : n[g] = o[g]
  BY <1>1
<1>4. IsObject(n)
  BY <1>1 DEF IsObject
<1> QED
  BY <1>2, <1>3, <1>4 DEF Grows

LEMMA DefaultGrows ==
  ASSUME NEW o, NEW f, NEW v
  PROVE  Grows(o, Default(o, f, v), {f}) /\ f \in DOMAIN Default(o, f, v)
<1>1. CASE Has(o, f)
  BY <1>1 DEF Default, Has, Grows
<1>2. CASE ~Has(o, f)
  <2>1. Default(o, f, v) = With(o, f, v)
    BY <1>2 DEF Default
  <2> QED
    BY <1>2, <2>1, WithGrows DEF Has
<1> QED
  BY <1>1, <1>2

-----------------------------------------------------------------------------
(* The items of the history *)

HistoryFields == {"summary", "id", "status", "arguments", "output"}

\* What the fields of an item are once its defaults are there.
Complete(h) ==
  /\ Type(h) = "reasoning" => Has(h, "summary")
  /\ Type(h) = "function_call" =>
       /\ Has(h, "status") /\ Has(h, "arguments")
       /\ Has(h, "id") \/ ~Has(h, "call_id") \/ h.call_id = NULL
  /\ Type(h) = "function_call_output" => Has(h, "output")

LEMMA TypeGrows ==
  ASSUME NEW o, NEW n, NEW F, Grows(o, n, F), "type" \notin F, "role" \notin F
  PROVE  Type(n) = Type(o) /\ Role(n) = Role(o)
  BY DEF Grows, Type, Role, Has

LEMMA CallIs ==
  ASSUME NEW m, Type(m) = "function_call", NEW h, h = NormalizeHistoryItem(m)
  PROVE  /\ Grows(m, h, {"id", "status", "arguments"})
         /\ Has(h, "status") /\ Has(h, "arguments")
         /\ Has(h, "id") \/ ~Has(h, "call_id") \/ h.call_id = NULL
<1> DEFINE lacks == ~Has(m, "id") /\ Has(m, "call_id") /\ m.call_id # NULL
<1>0. PICK v : v = "fc_" \o m.call_id
  OBVIOUS
<1>1. PICK n : n = IF lacks THEN With(m, "id", v) ELSE m
  OBVIOUS
<1>2. h = Default(Default(n, "status", "completed"), "arguments", "")
  BY <1>0, <1>1 DEF NormalizeHistoryItem
<1>3. Grows(m, n, {"id"})
  <2>1. CASE lacks
    BY <1>1, <2>1, WithGrows DEF Has
  <2>2. CASE ~lacks
    BY <1>1, <2>2 DEF Grows
  <2> QED
    BY <2>1, <2>2
<1>4. Has(n, "id") \/ ~Has(n, "call_id") \/ n.call_id = NULL
  <2>1. CASE lacks
    BY <1>1, <2>1, WithGrows DEF Has
  <2>2. CASE ~lacks
    BY <1>1, <2>2
  <2> QED
    BY <2>1, <2>2
<1>5. PICK d : d = Default(n, "status", "completed")
  OBVIOUS
<1>6. Grows(n, d, {"status"}) /\ "status" \in DOMAIN d
  BY <1>5, DefaultGrows
<1>7. Grows(d, h, {"arguments"}) /\ "arguments" \in DOMAIN h
  BY <1>2, <1>5, DefaultGrows
<1> HIDE DEF lacks
<1>8. Grows(n, h, {"status", "arguments"})
  BY ONLY <1>6, <1>7 DEF Grows
<1>9. Grows(m, h, {"id", "status", "arguments"})
  BY ONLY <1>3, <1>8 DEF Grows
<1>10. Has(h, "status") /\ Has(h, "arguments")
  BY ONLY <1>6, <1>7 DEF Grows, Has
<1>11. Has(h, "id") \/ ~Has(h, "call_id") \/ h.call_id = NULL
  BY ONLY <1>4, <1>8 DEF Grows, Has
<1> QED
  BY <1>9, <1>10, <1>11

LEMMA HistoryIs ==
  ASSUME NEW m, NEW h, h = NormalizeHistoryItem(m)
  PROVE  /\ Grows(m, h, HistoryFields) /\ Complete(h)
         /\ Type(m) = "reasoning" => Grows(m, h, {"summary"})
<1>1. CASE Type(m) = "reasoning"
  <2>1. h = Default(m, "summary", Arr(<<>>))
    BY <1>1 DEF NormalizeHistoryItem
  <2>2. Grows(m, h, {"summary"}) /\ "summary" \in DOMAIN h
    BY <2>1, DefaultGrows
  <2>3. Type(h) = Type(m)
    BY <2>2, TypeGrows
  <2> QED
    BY <1>1, <2>2, <2>3 DEF Grows, Complete, Has, HistoryFields
<1>2. CASE Type(m) = "function_call"
  <2>1. /\ Grows(m, h, {"id", "status", "arguments"})
        /\ Has(h, "status") /\ Has(h, "arguments")
        /\ Has(h, "id") \/ ~Has(h, "call_id") \/ h.call_id = NULL
    BY <1>2, CallIs
  <2>2. Type(h) = Type(m)
    BY <2>1, TypeGrows
  <2> QED
    BY <1>2, <2>1, <2>2 DEF Grows, Complete, HistoryFields
<1>3. CASE Type(m) = "function_call_output"
  <2>1. h = Default(m, "output", "")
    BY <1>3 DEF NormalizeHistoryItem
  <2>2. Grows(m, h, {"output"}) /\ "output" \in DOMAIN h
    BY <2>1, DefaultGrows
  <2>3. Type(h) = Type(m)
    BY <2>2, TypeGrows
  <2> QED
    BY <1>3, <2>2, <2>3 DEF Grows, Complete, Has, HistoryFields
<1>4. CASE Type(m) \notin {"reasoning", "function_call", "function_call_output"}
  <2>1. h = m
    BY <1>4 DEF NormalizeHistoryItem
  <2> QED
    BY <1>4, <2>1 DEF Grows, Complete
<1> QED
  BY <1>1, <1>2, <1>3, <1>4

LEMMA CompleteStays ==
  ASSUME NEW h, Complete(h)
  PROVE  NormalizeHistoryItem(h) = h
<1>1. CASE Type(h) = "reasoning"
  BY <1>1 DEF NormalizeHistoryItem, Complete, Default
<1>2. CASE Type(h) = "function_call"
  BY <1>2 DEF NormalizeHistoryItem, Complete, Default
<1>3. CASE Type(h) = "function_call_output"
  BY <1>3 DEF NormalizeHistoryItem, Complete, Default
<1>4. CASE Type(h) \notin {"reasoning", "function_call", "function_call_output"}
  BY <1>4 DEF NormalizeHistoryItem
<1> QED
  BY <1>1, <1>2, <1>3, <1>4

-----------------------------------------------------------------------------
(* The contents of messages *)

\* NormalizeMessage's content.
NewContent(role, c) ==
  CASE c.kind = "string" -> Arr(<<TypedPart(role, c)>>)
    [] c.kind = "array" -> Arr([k \in 1 .. Len(c.parts) |-> TypedPart(role, c.parts[k])])
    [] OTHER -> c

\* Where the texts of a list stand, and those texts.
TextAt(s) == Where(s, HasText)
TextsIn(s) == MapSeq(TextOf, Pick(s, TextAt(s)))

\* ExtractText of an item with this content.
TextIn(c) ==
  CASE c.kind = "array" -> Join(TextsIn(c.parts), "\n")
    [] HasText(c) -> TextOf(c)
    [] OTHER -> <<>>

Speaks(i) == Role(i) \in {"user", "assistant"} /\ Has(i, "content")

LEMMA TypedIs ==
  ASSUME NEW role, NEW p, NEW t, t = TypedPart(role, p)
  PROVE  /\ HasText(t) <=> HasText(p)
         /\ HasText(p) => TextOf(t) = TextOf(p)
         /\ t.kind # "string"
         /\ t.kind = "object" =>
              Type(t.fields) = ContentType(role) \/ (Type(t.fields) # "text" /\ t = p)
         /\ TypedPart(role, t) = t
<1>1. ContentType(role) # "text"
  BY DEF ContentType
<1>2. PICK ct : ct = ContentType(role)
  OBVIOUS
<1>3. CASE p.kind = "string"
  <2>1. t = Obj([type |-> ct, text |-> p.text])
    BY <1>2, <1>3 DEF TypedPart
  <2>2. PICK o : o = [type |-> ct, text |-> p.text]
    OBVIOUS
  <2>3. t.kind = "object" /\ t.fields = o
    BY <2>1, <2>2 DEF Obj
  <2>4. Has(o, "text") /\ o.text = p.text /\ Has(o, "type") /\ o.type = ct
    BY <2>2 DEF Has
  <2>5. HasText(t) /\ HasText(p) /\ TextOf(t) = TextOf(p)
    BY <1>3, <2>3, <2>4 DEF HasText, TextOf
  <2>6. Type(t.fields) = ct
    BY <2>3, <2>4 DEF Type
  <2>7. TypedPart(role, t) = t
    BY <1>1, <1>2, <2>3, <2>6 DEF TypedPart
  <2> QED
    BY <1>2, <2>3, <2>5, <2>6, <2>7
<1>4. CASE p.kind # "string" /\ p.kind = "object" /\ Type(p.fields) = "text"
  <2>1. PICK o : o = With(p.fields, "type", ct)
    OBVIOUS
  <2>2. t = Obj(o)
    BY <1>2, <1>4, <2>1 DEF TypedPart
  <2>3. t.kind = "object" /\ t.fields = o
    BY <2>2 DEF Obj
  <2>4. /\ Has(o, "text") <=> Has(p.fields, "text")
        /\ Has(p.fields, "text") => o.text = p.fields.text
        /\ Has(o, "type") /\ o.type = ct
    BY <2>1 DEF With, Has
  <2>5. HasText(t) <=> HasText(p)
    BY <1>4, <2>3, <2>4 DEF HasText
  <2>6. HasText(p) => TextOf(t) = TextOf(p)
    BY <1>4, <2>3, <2>4 DEF HasText, TextOf
  <2>7. Type(t.fields) = ct
    BY <2>3, <2>4 DEF Type
  <2>8. TypedPart(role, t) = t
    BY <1>1, <1>2, <2>3, <2>7 DEF TypedPart
  <2> QED
    BY <1>2, <2>3, <2>5, <2>6, <2>7, <2>8
<1>5. CASE p.kind # "string" /\ ~(p.kind = "object" /\ Type(p.fields) = "text")
  <2>1. t = p
    BY <1>5 DEF TypedPart
  <2> QED
    BY <1>5, <2>1
<1> QED
  BY <1>3, <1>4, <1>5

LEMMA JoinOne == ASSUME NEW x, NEW sep PROVE Join(<<x>>, sep) = x
<1>1. PICK s : s = <<x>>
  OBVIOUS
<1>2. Len(s) = 1 /\ s[1] = x
  BY <1>1
<1>3. [i \in 1 .. Len(s) |-> IF i = 1 THEN s[i] ELSE <<sep>> \o s[i]] = <<x>>
  <2>1. PICK g : g = [i \in 1 .. 1 |-> IF i = 1 THEN s[i] ELSE <<sep>> \o s[i]]
    OBVIOUS
  <2>2. DOMAIN g = 1 .. 1 /\ g[1] = x
    BY <1>2, <2>1
  <2>3. g = [i \in 1 .. 1 |-> x]
    BY <1>2, <2>1
  <2> QED
    BY <1>2, <2>1, <2>3
<1> QED
  BY <1>1, <1>3, FlattenOne DEF Join

\* What Join lays end to end.
Separated(texts, sep) ==
  [i \in 1 .. Len(texts) |-> IF i = 1 THEN texts[i] ELSE <<sep>> \o texts[i]]

LEMMA SeparatedIs ==
  ASSUME NEW s, IsList(s), NEW sep, \A i \in 1 .. Len(s) : IsList(s[i]), NEW j, j = Separated(s, sep)
  PROVE  /\ IsList(j) /\ Len(j) = Len(s)
         /\ \A i \in 1 .. Len(s) :
              IsList(j[i]) /\ j[i] = IF i = 1 THEN s[i] ELSE <<sep>> \o s[i]
<1>1. Len(s) \in Nat
  BY DEF IsList
<1>2. IsList(j) /\ Len(j) = Len(s)
  BY <1>1 DEF Separated, IsList
<1>3. ASSUME NEW i \in 1 .. Len(s)
      PROVE  IsList(j[i]) /\ j[i] = IF i = 1 THEN s[i] ELSE <<sep>> \o s[i]
  <2>1. j[i] = IF i = 1 THEN s[i] ELSE <<sep>> \o s[i]
    BY DEF Separated
  <2>2. PICK e, x : e = <<sep>> /\ x = s[i]
    OBVIOUS
  <2>3. IsList(e) /\ IsList(x)
    BY <2>2, OneIsList
  <2>4. IsList(e \o x)
    BY <2>3, ConcatIs
  <2> QED
    BY <2>1, <2>2, <2>3, <2>4
<1> QED
  BY <1>2, <1>3

LEMMA JoinIsList ==
  ASSUME NEW s, IsList(s), NEW sep, \A i \in 1 .. Len(s) : IsList(s[i])
  PROVE  IsList(Join(s, sep))
<1>1. PICK j : j = Separated(s, sep)
  OBVIOUS
<1>2. IsList(j) /\ \A i \in 1 .. Len(j) : IsList(j[i])
  BY <1>1, SeparatedIs
<1> QED
  BY <1>1, <1>2, FlattenIsList DEF Join, Separated

LEMMA ContentIs ==
  ASSUME NEW role, NEW c, NEW n, n = NewContent(role, c)
  PROVE  /\ n.kind # "string"
         /\ n.kind = "array" <=> c.kind \in {"string", "array"}
         /\ c.kind = "string" => n.parts = <<TypedPart(role, c)>>
         /\ c.kind = "array" =>
              n.parts = [k \in 1 .. Len(c.parts) |-> TypedPart(role, c.parts[k])]
         /\ c.kind \notin {"string", "array"} => n = c
<1>1. CASE c.kind = "string"
  BY <1>1 DEF NewContent, Arr
<1>2. CASE c.kind = "array"
  BY <1>2 DEF NewContent, Arr
<1>3. CASE c.kind \notin {"string", "array"}
  BY <1>3 DEF NewContent
<1> QED
  BY <1>1, <1>2, <1>3

LEMMA ContentSettled ==
  ASSUME NEW role, NEW c, NEW n, n = NewContent(role, c), c.kind = "array" => IsList(c.parts)
  PROVE  NewContent(role, n) = n
<1>1. CASE c.kind = "string"
  <2>1. PICK t : t = TypedPart(role, c)
    OBVIOUS
  <2>2. n = Arr(<<t>>)
    BY <1>1, <2>1 DEF NewContent
  <2>3. n.kind = "array" /\ n.parts = <<t>>
    BY <2>2 DEF Arr
  <2>4. TypedPart(role, t) = t
    BY <2>1, TypedIs
  <2>5. [k \in 1 .. Len(n.parts) |-> TypedPart(role, n.parts[k])] = <<t>>
    <3>1. PICK s : s = <<t>>
      OBVIOUS
    <3>2. Len(s) = 1 /\ s = [k \in 1 .. 1 |-> t] /\ s[1] = t
      BY <3>1
    <3>3. \A k \in 1 .. 1 : TypedPart(role, s[k]) = t
      BY <2>4, <3>2
    <3>4. [k \in 1 .. Len(s) |-> TypedPart(role, s[k])] = [k \in 1 .. 1 |-> t]
      BY <3>2, <3>3
    <3> QED
      BY <2>3, <3>1, <3>2, <3>4
  <2>6. NewContent(role, n) = Arr([k \in 1 .. Len(n.parts) |-> TypedPart(role, n.parts[k])])
    BY <2>3 DEF NewContent
  <2> QED
    BY <2>2, <2>5, <2>6
<1>2. CASE c.kind = "array"
  <2>1. PICK s : s = c.parts
    OBVIOUS
  <2>2. PICK g : g = [k \in 1 .. Len(s) |-> TypedPart(role, s[k])]
    OBVIOUS
  <2>3. Len(s) \in Nat
    BY <1>2, <2>1 DEF IsList
  <2>4. n = Arr(g)
    BY <1>2, <2>1, <2>2 DEF NewContent
  <2>5. n.kind = "array" /\ n.parts = g
    BY <2>4 DEF Arr
  <2>6. Len(g) = Len(s) /\ \A k \in 1 .. Len(s) : g[k] = TypedPart(role, s[k])
    BY <2>2, <2>3
  <2>7. \A k \in 1 .. Len(s) : TypedPart(role, g[k]) = g[k]
    BY <2>6, TypedIs
  <2>8. [k \in 1 .. Len(g) |-> TypedPart(role, g[k])] = [k \in 1 .. Len(s) |-> g[k]]
    BY ONLY <2>6, <2>7
  <2>9. [k \in 1 .. Len(s) |-> g[k]] = g
    BY <2>2
  <2>10. NewContent(role, n) = Arr([k \in 1 .. Len(g) |-> TypedPart(role, g[k])])
    BY <2>5 DEF NewContent
  <2> QED
    BY <2>4, <2>8, <2>9, <2>10
<1>3. CASE c.kind \notin {"string", "array"}
  <2>1. n = c
    BY <1>3 DEF NewContent
  <2> QED
    BY <2>1
<1> QED
  BY <1>1, <1>2, <1>3

LEMMA TextAtIs ==
  ASSUME NEW s
  PROVE  TextAt(s) = {i \in 1 .. Len(s) : HasText(s[i])}
  BY DEF TextAt, Where

LEMMA TextsInIs ==
  ASSUME NEW s
  PROVE  TextsIn(s) = [i \in 1 .. Len(Pick(s, TextAt(s))) |-> TextOf(Pick(s, TextAt(s))[i])]
  BY DEF TextsIn, MapSeq

LEMMA TextInIs ==
  ASSUME NEW c
  PROVE  /\ c.kind = "array" => TextIn(c) = Join(TextsIn(c.parts), "\n")
         /\ HasText(c) => TextIn(c) = TextOf(c)
         /\ c.kind # "array" /\ ~HasText(c) => TextIn(c) = <<>>
<1>1. HasText(c) => c.kind # "array"
  BY DEF HasText
<1> QED
  BY <1>1 DEF TextIn

LEMMA ExtractIs ==
  ASSUME NEW i
  PROVE  ExtractText(i) = IF Has(i, "content") THEN TextIn(i.content) ELSE <<>>
<1>1. PICK c : c = IF Has(i, "content") THEN i.content ELSE Other
  OBVIOUS
<1>2. ExtractText(i) = TextIn(c)
  BY <1>1 DEF ExtractText, TextIn, TextsIn, TextAt, MapSeq, Keep, Where
<1>3. TextIn(Other) = <<>>
  BY DEF TextIn, Other, HasText
<1> QED
  BY <1>1, <1>2, <1>3

LEMMA TextInSame ==
  ASSUME NEW role, NEW c, NEW n, n = NewContent(role, c), c.kind = "array" => IsList(c.parts)
  PROVE  TextIn(n) = TextIn(c)
<1>1. CASE c.kind = "string"
  <2>1. PICK t : t = TypedPart(role, c)
    OBVIOUS
  <2>2. PICK s : s = <<t>>
    OBVIOUS
  <2>3. n.kind = "array" /\ n.parts = s
    BY ZenonT(60), <1>1, <2>1, <2>2, ContentIs
  <2>4. IsList(s) /\ Len(s) = 1 /\ s[1] = t
    BY <2>2, OneIsList
  <2>5. HasText(t) /\ TextOf(t) = c.text
    BY <1>1, <2>1, TypedIs DEF HasText, TextOf
  <2>6. TextAt(s) = 1 .. Len(s)
    BY <2>4, <2>5, TextAtIs
  <2>7. Pick(s, TextAt(s)) = s
    BY <2>4, <2>6, PickWhole
  <2>8. TextsIn(s) = <<c.text>>
    <3>1. \A i \in 1 .. 1 : TextOf(s[i]) = c.text
      BY <2>4, <2>5
    <3>2. TextsIn(s) = [i \in 1 .. 1 |-> c.text]
      BY <2>4, <2>7, <3>1, TextsInIs
    <3> QED
      BY <3>2
  <2>9. TextIn(n) = Join(<<c.text>>, "\n")
    BY <2>3, <2>8, TextInIs
  <2>10. TextIn(c) = c.text
    BY <1>1, TextInIs DEF HasText, TextOf
  <2> QED
    BY <2>9, <2>10, JoinOne
<1>2. CASE c.kind = "array"
  <2>1. PICK s : s = c.parts
    OBVIOUS
  <2>2. PICK g : g = [k \in 1 .. Len(s) |-> TypedPart(role, s[k])]
    OBVIOUS
  <2>3. IsList(s) /\ Len(s) \in Nat
    BY <1>2, <2>1 DEF IsList
  <2>4. n.kind = "array" /\ n.parts = g
    BY <1>2, <2>1, <2>2, ContentIs
  <2>5. Len(g) = Len(s) /\ \A k \in 1 .. Len(s) : g[k] = TypedPart(role, s[k])
    BY <2>2, <2>3
  <2>6. \A k \in 1 .. Len(s) : /\ HasText(g[k]) <=> HasText(s[k])
                               /\ HasText(s[k]) => TextOf(g[k]) = TextOf(s[k])
    BY <2>5, TypedIs
  <2>7. PICK I : I = TextAt(s)
    OBVIOUS
  <2>8. TextAt(g) = I /\ I \in SUBSET (1 .. Len(s)) /\ \A i \in I : HasText(s[i])
    BY <2>5, <2>6, <2>7, TextAtIs
  <2>9. I \in SUBSET Nat /\ IsFiniteSet(I)
    BY <2>3, <2>8, PositionsAre
  <2>10. PICK p, q : p = Pick(s, I) /\ q = Pick(g, I)
    OBVIOUS
  <2>11. /\ Len(p) = Len(q)
         /\ \A k \in 1 .. Len(p) : \E i \in I : p[k] = s[i] /\ q[k] = g[i]
    BY ONLY <2>9, <2>10, PickBoth
  <2>12. \A k \in 1 .. Len(p) : TextOf(q[k]) = TextOf(p[k])
    <3> SUFFICES ASSUME NEW k \in 1 .. Len(p) PROVE TextOf(q[k]) = TextOf(p[k])
      OBVIOUS
    <3>1. PICK i \in I : p[k] = s[i] /\ q[k] = g[i]
      BY <2>11
    <3>2. TextOf(g[i]) = TextOf(s[i])
      BY <2>6, <2>8
    <3> QED
      BY <3>1, <3>2
  <2>13. [i \in 1 .. Len(q) |-> TextOf(q[i])] = [i \in 1 .. Len(p) |-> TextOf(p[i])]
    BY ONLY <2>11, <2>12
  <2>14. TextsIn(g) = TextsIn(s)
    BY <2>7, <2>8, <2>10, <2>13, TextsInIs
  <2>15. TextIn(n) = Join(TextsIn(g), "\n") /\ TextIn(c) = Join(TextsIn(s), "\n")
    BY <1>2, <2>1, <2>4, TextInIs
  <2> QED
    BY <2>14, <2>15
<1>3. CASE c.kind \notin {"string", "array"}
  <2>1. n = c
    BY <1>3, ContentIs
  <2> QED
    BY <2>1
<1> QED
  BY <1>1, <1>2, <1>3

\* The text of a content is a list of atoms.
LEMMA TextInList ==
  ASSUME NEW c, IsContent(c)
  PROVE  IsList(TextIn(c))
<1>1. CASE c.kind = "array"
  <2>1. PICK s : s = c.parts
    OBVIOUS
  <2>2. IsList(s) /\ Len(s) \in Nat /\ \A k \in 1 .. Len(s) : IsValue(s[k])
    BY <1>1, <2>1 DEF IsContent, IsValue, IsList
  <2>3. PICK I : I = TextAt(s)
    OBVIOUS
  <2>4. I \in SUBSET (1 .. Len(s)) /\ \A i \in I : HasText(s[i])
    BY <2>3, TextAtIs
  <2>5. I \in SUBSET Nat /\ IsFiniteSet(I)
    BY <2>2, <2>4, PositionsAre
  <2>6. PICK p : p = Pick(s, I)
    OBVIOUS
  <2>7. IsList(p) /\ \A k \in 1 .. Len(p) : \E i \in I : p[k] = s[i]
    BY ONLY <2>5, <2>6, PickIs, PickFrom
  <2>8. \A i \in I : IsList(TextOf(s[i]))
    BY <2>2, <2>4 DEF HasText, TextOf, IsValue
  <2>9. \A k \in 1 .. Len(p) : IsList(TextOf(p[k]))
    BY ONLY <2>7, <2>8
  <2>10. PICK m : m = [i \in 1 .. Len(p) |-> TextOf(p[i])]
    OBVIOUS
  <2>11. IsList(m) /\ \A k \in 1 .. Len(m) : IsList(m[k])
    BY ONLY <2>7, <2>9, <2>10 DEF IsList
  <2>12. TextIn(c) = Join(m, "\n")
    BY <1>1, <2>1, <2>3, <2>6, <2>10, TextsInIs, TextInIs
  <2> QED
    BY <2>11, <2>12, JoinIsList
<1>2. CASE c.kind # "array" /\ HasText(c)
  <2>1. TextIn(c) = TextOf(c)
    BY <1>2, TextInIs
  <2> QED
    BY <1>2, <2>1 DEF HasText, TextOf, IsContent, IsValue
<1>3. CASE c.kind # "array" /\ ~HasText(c)
  <2>1. TextIn(c) = <<>>
    BY <1>3, TextInIs
  <2> QED
    BY <2>1 DEF IsList
<1> QED
  BY <1>1, <1>2, <1>3

-----------------------------------------------------------------------------
(* The input items *)

\* What an input item must be for the lemmas: BodiesAssumption's part of it.
IsItem(i) == Has(i, "content") => IsContent(i.content)

LEMMA MessageIs ==
  ASSUME NEW i, NEW m, m = NormalizeMessage(i)
  PROVE  /\ DOMAIN m = DOMAIN i /\ \A f \in DOMAIN i : f # "content" => m[f] = i[f]
         /\ Role(m) = Role(i) /\ Type(m) = Type(i)
         /\ Speaks(i) => IsObject(m) /\ m.content = NewContent(Role(i), i.content)
         /\ ~Speaks(i) => m = i
<1>1. CASE Speaks(i)
  <2>1. PICK c : c = NewContent(Role(i), i.content)
    OBVIOUS
  <2>2. m = With(i, "content", c)
    BY <1>1, <2>1 DEF NormalizeMessage, NewContent, Speaks
  <2>3. m = [g \in DOMAIN i \cup {"content"} |-> IF g = "content" THEN c ELSE i[g]]
    BY <2>2 DEF With
  <2>4. "content" \in DOMAIN i
    BY <1>1 DEF Speaks, Has
  <2>5. DOMAIN m = DOMAIN i /\ (\A f \in DOMAIN i : f # "content" => m[f] = i[f]) /\ m.content = c
    BY <2>3, <2>4
  <2>6. IsObject(m)
    BY <2>3 DEF IsObject
  <2>7. Role(m) = Role(i) /\ Type(m) = Type(i)
    BY ONLY <2>5 DEF Role, Type, Has
  <2> QED
    BY <1>1, <2>1, <2>5, <2>6, <2>7
<1>2. CASE ~Speaks(i)
  <2>1. m = i
    BY <1>2 DEF NormalizeMessage, Speaks
  <2> QED
    BY <1>2, <2>1
<1> QED
  BY <1>1, <1>2

LEMMA ItemIs ==
  ASSUME NEW i, NEW j, j = NormalizeItem(i)
  PROVE  /\ DOMAIN i \subseteq DOMAIN j /\ DOMAIN j \subseteq DOMAIN i \cup HistoryFields
         /\ \A f \in DOMAIN i : f # "content" => j[f] = i[f]
         /\ Type(i) = "reasoning" => DOMAIN j \subseteq DOMAIN i \cup {"summary"}
         /\ Role(j) = Role(i) /\ Type(j) = Type(i) /\ Complete(j)
         /\ Has(j, "content") <=> Has(i, "content")
         /\ Speaks(i) => IsObject(j) /\ j.content = NewContent(Role(i), i.content)
         /\ ~Speaks(i) /\ Has(i, "content") => j.content = i.content
<1>1. PICK m : m = NormalizeMessage(i)
  OBVIOUS
<1>2. /\ DOMAIN m = DOMAIN i /\ \A f \in DOMAIN i : f # "content" => m[f] = i[f]
      /\ Role(m) = Role(i) /\ Type(m) = Type(i)
      /\ Speaks(i) => IsObject(m) /\ m.content = NewContent(Role(i), i.content)
      /\ ~Speaks(i) => m = i
  BY <1>1, MessageIs
<1>3. /\ Grows(m, j, HistoryFields) /\ Complete(j)
      /\ Type(m) = "reasoning" => Grows(m, j, {"summary"})
  BY <1>1, HistoryIs DEF NormalizeItem
<1>4. "content" \notin HistoryFields /\ "type" \notin HistoryFields /\ "role" \notin HistoryFields
  BY DEF HistoryFields
<1>5. Type(j) = Type(m) /\ Role(j) = Role(m)
  BY <1>3, <1>4, TypeGrows
<1>6. /\ DOMAIN m \subseteq DOMAIN j /\ DOMAIN j \subseteq DOMAIN m \cup HistoryFields
      /\ \A f \in DOMAIN m : j[f] = m[f]
      /\ IsObject(m) => IsObject(j)
      /\ Type(m) = "reasoning" => DOMAIN j \subseteq DOMAIN m \cup {"summary"}
  BY ONLY <1>3 DEF Grows
<1>7. /\ DOMAIN i \subseteq DOMAIN j /\ DOMAIN j \subseteq DOMAIN i \cup HistoryFields
      /\ \A f \in DOMAIN i : f # "content" => j[f] = i[f]
      /\ Type(i) = "reasoning" => DOMAIN j \subseteq DOMAIN i \cup {"summary"}
      /\ Has(j, "content") <=> Has(i, "content")
  BY ONLY <1>2, <1>4, <1>6 DEF Has
<1>8. Has(i, "content") => j.content = m.content
  BY ONLY <1>2, <1>6 DEF Has
<1> QED
  BY <1>2, <1>3, <1>5, <1>6, <1>7, <1>8 DEF Speaks

LEMMA ItemSettled ==
  ASSUME NEW i, IsItem(i), NEW j, j = NormalizeItem(i)
  PROVE  NormalizeItem(j) = j
<1>1. /\ Role(j) = Role(i) /\ Complete(j)
      /\ Has(j, "content") <=> Has(i, "content")
      /\ Speaks(i) => IsObject(j) /\ j.content = NewContent(Role(i), i.content)
  BY ItemIs
<1>2. NormalizeMessage(j) = j
  <2>1. CASE Speaks(i)
    <3>1. PICK c, r : c = i.content /\ r = Role(i)
      OBVIOUS
    <3>2. c.kind = "array" => IsList(c.parts)
      BY <2>1, <3>1 DEF Speaks, IsItem, IsContent, IsValue
    <3>3. NewContent(r, j.content) = j.content
      BY <1>1, <2>1, <3>1, <3>2, ContentSettled
    <3>4. Speaks(j) /\ Role(j) = r
      BY <1>1, <2>1, <3>1 DEF Speaks
    <3>5. NormalizeMessage(j) = With(j, "content", NewContent(r, j.content))
      BY <3>4 DEF NormalizeMessage, NewContent, Speaks
    <3>6. IsObject(j) /\ "content" \in DOMAIN j
      BY <1>1, <2>1, <3>4 DEF Speaks, Has
    <3>7. With(j, "content", j["content"]) = j
      BY <3>6, WithSame
    <3> QED
      BY <3>3, <3>5, <3>7
  <2>2. CASE ~Speaks(i)
    <3>1. ~Speaks(j)
      BY <1>1, <2>2 DEF Speaks
    <3> QED
      BY <3>1 DEF NormalizeMessage, Speaks
  <2> QED
    BY <2>1, <2>2
<1> QED
  BY <1>1, <1>2, CompleteStays DEF NormalizeItem

LEMMA ItemKept ==
  ASSUME NEW i, NEW j, j = NormalizeItem(i), Kept(i)
  PROVE  Kept(j) /\ (Type(j) = "reasoning" => Replayable(j))
<1>1. /\ DOMAIN i \subseteq DOMAIN j /\ \A f \in DOMAIN i : f # "content" => j[f] = i[f]
      /\ Role(j) = Role(i) /\ Type(j) = Type(i)
  BY ItemIs
<1>2. Type(i) = "reasoning" => Replayable(j)
  <2> SUFFICES ASSUME Type(i) = "reasoning" PROVE Replayable(j)
    OBVIOUS
  <2>1. Replayable(i)
    BY DEF Kept
  <2> QED
    BY ONLY <1>1, <2>1 DEF Replayable, Has
<1> QED
  BY <1>1, <1>2 DEF Kept, IsSystem

LEMMA ItemSays ==
  ASSUME NEW i, IsItem(i), NEW j, j = NormalizeItem(i)
  PROVE  ExtractText(j) = ExtractText(i)
<1>1. /\ Has(j, "content") <=> Has(i, "content")
      /\ Speaks(i) => j.content = NewContent(Role(i), i.content)
      /\ ~Speaks(i) /\ Has(i, "content") => j.content = i.content
  BY ItemIs
<1>2. Has(i, "content") => TextIn(j.content) = TextIn(i.content)
  <2>1. CASE Speaks(i)
    <3>1. PICK c : c = i.content
      OBVIOUS
    <3>2. c.kind = "array" => IsList(c.parts)
      BY <2>1, <3>1 DEF Speaks, IsItem, IsContent, IsValue
    <3> QED
      BY <1>1, <2>1, <3>1, <3>2, TextInSame
  <2>2. CASE ~Speaks(i)
    BY <1>1, <2>2
  <2> QED
    BY <2>1, <2>2
<1> QED
  BY <1>1, <1>2, ExtractIs

LEMMA ItemTextList ==
  ASSUME NEW i, IsItem(i)
  PROVE  IsList(ExtractText(i))
<1>1. IsList(<<>>)
  BY DEF IsList
<1> QED
  BY <1>1, ExtractIs, TextInList DEF IsItem

-----------------------------------------------------------------------------
(* The request *)

\* The fields that AdaptRequest sets, and when it gets that far.
Forced(r) ==
  [stream |-> TRUE, store |-> FALSE, input |-> Arr(NormalizeInput(Items(r))),
   instructions |-> Instructions(r), reasoning |-> NormalizeReasoning(r),
   include |-> NormalizeInclude(r)]

ForcedFields == {"stream", "store", "input", "instructions", "reasoning", "include"}

Accepted(r) ==
  /\ DOMAIN r \subseteq AllowedFields
  /\ Has(r, "model") /\ r.model \in {"gpt-5.6-sol", "gpt-5.6-terra"}
  /\ Has(r, "instructions") => r.instructions.kind = "string"
  /\ Has(r, "input") => r.input.kind \in {"string", "array"}

LEMMA AcceptedIs ==
  ASSUME NEW b, NEW r, r = Without(b.fields, DroppedFields)
  PROVE  /\ AdaptRequest(b).ok => b.kind = "object" /\ Accepted(r)
         /\ b.kind = "object" /\ Accepted(r) =>
              AdaptRequest(b) = [ok |-> TRUE, request |-> Merge(Forced(r), r)]
<1>1. \A e : Error(e).ok = FALSE
  BY DEF Error
<1>2. PICK q : q = Merge(Forced(r), r)
  OBVIOUS
<1>3. AdaptRequest(b) =
        IF b.kind # "object" THEN Error("RootMustBeObject")
        ELSE IF DOMAIN r \ AllowedFields # {} THEN Error("UnsupportedField")
        ELSE IF ~Has(r, "model") \/ r.model \in {NULL, ""} THEN Error("MissingModel")
        ELSE IF r.model \notin {"gpt-5.6-sol", "gpt-5.6-terra"} THEN Error("UnsupportedModel")
        ELSE IF Has(r, "instructions") /\ r.instructions.kind # "string"
        THEN Error("InvalidInstructions")
        ELSE IF Has(r, "input") /\ r.input.kind \notin {"string", "array"}
        THEN Error("InvalidInput")
        ELSE [ok |-> TRUE, request |-> q]
  BY <1>2 DEF AdaptRequest, Forced
<1>4. "gpt-5.6-sol" \notin {NULL, ""} /\ "gpt-5.6-terra" \notin {NULL, ""}
  BY DEF NULL
<1>5. b.kind = "object" /\ Accepted(r) => AdaptRequest(b) = [ok |-> TRUE, request |-> q]
  BY <1>3, <1>4 DEF Accepted
<1>6. AdaptRequest(b).ok => b.kind = "object" /\ Accepted(r)
  BY <1>1, <1>3 DEF Accepted
<1> QED
  BY <1>2, <1>5, <1>6

LEMMA RequestIs ==
  ASSUME NEW r, NEW q, q = Merge(Forced(r), r)
  PROVE  /\ DOMAIN q = ForcedFields \cup DOMAIN r /\ IsObject(q)
         /\ q.stream = TRUE /\ q.store = FALSE
         /\ q.input = Arr(NormalizeInput(Items(r)))
         /\ q.instructions = Instructions(r)
         /\ q.reasoning = NormalizeReasoning(r)
         /\ q.include = NormalizeInclude(r)
         /\ \A f \in DOMAIN r : f \notin ForcedFields => q[f] = r[f]
<1>1. PICK d : d = Forced(r)
  OBVIOUS
<1>2. /\ DOMAIN d = ForcedFields
      /\ d.stream = TRUE /\ d.store = FALSE
      /\ d.input = Arr(NormalizeInput(Items(r)))
      /\ d.instructions = Instructions(r)
      /\ d.reasoning = NormalizeReasoning(r)
      /\ d.include = NormalizeInclude(r)
  BY <1>1 DEF Forced, ForcedFields
<1>3. q = [f \in DOMAIN d \cup DOMAIN r |-> IF f \in DOMAIN d THEN d[f] ELSE r[f]]
  BY <1>1 DEF Merge
<1>4. /\ DOMAIN q = ForcedFields \cup DOMAIN r /\ IsObject(q)
      /\ \A f \in ForcedFields : q[f] = d[f]
      /\ \A f \in DOMAIN r : f \notin ForcedFields => q[f] = r[f]
  BY <1>2, <1>3 DEF IsObject
<1>5. {"stream", "store", "input", "instructions", "reasoning", "include"} \subseteq ForcedFields
  BY DEF ForcedFields
<1> QED
  BY <1>2, <1>4, <1>5

LEMMA NothingDropped ==
  ASSUME NEW q, IsObject(q), NEW F, DOMAIN q \cap F = {}
  PROVE  Without(q, F) = q
<1>1. DOMAIN q \ F = DOMAIN q
  OBVIOUS
<1> QED
  BY <1>1 DEF Without, IsObject

LEMMA ItemsAre ==
  ASSUME NEW b \in Bodies, b.kind = "object", NEW r, r = Without(b.fields, DroppedFields),
         Has(r, "input") => r.input.kind \in {"string", "array"}
  PROVE  /\ IsList(Items(r)) /\ \A n \in 1 .. Len(Items(r)) : IsItem(Items(r)[n])
         /\ Items(b.fields) = Items(r)
<1>1. "input" \notin DroppedFields
  BY DEF DroppedFields
<1>2. PICK o : o = b.fields
  OBVIOUS
<1>3. DOMAIN r = DOMAIN o \ DroppedFields /\ \A f \in DOMAIN r : r[f] = o[f]
  BY <1>2 DEF Without
<1>4. Has(o, "input") <=> Has(r, "input")
  BY ONLY <1>1, <1>3 DEF Has
<1>5. Has(r, "input") => r.input = o.input
  BY ONLY <1>1, <1>3 DEF Has
<1>6. Items(b.fields) = Items(r)
  BY <1>2, <1>4, <1>5 DEF Items
<1>7. Has(r, "input") => IsValue(r.input)
  BY <1>2, <1>4, <1>5, BodiesAssumption DEF Has
<1>8. CASE ~Has(r, "input")
  <2>1. Items(r) = <<>>
    BY <1>8 DEF Items
  <2> QED
    BY <1>6, <2>1 DEF IsList
<1>9. CASE Has(r, "input") /\ r.input.kind = "string"
  <2>1. PICK p : p = Obj([type |-> "input_text", text |-> r.input.text])
    OBVIOUS
  <2>2. PICK c : c = Arr(<<p>>)
    OBVIOUS
  <2>3. PICK i : i = [role |-> "user", content |-> c]
    OBVIOUS
  <2>4. Items(r) = <<i>>
    BY <1>9, <2>1, <2>2, <2>3 DEF Items
  <2>5. IsList(r.input.text)
    BY <1>7, <1>9 DEF IsValue
  <2>6. IsValue(p)
    BY <2>1, <2>5 DEF IsValue, Obj, Has
  <2>7. IsContent(c)
    <3>1. PICK s : s = <<p>>
      OBVIOUS
    <3>2. IsList(s) /\ Len(s) = 1 /\ s[1] = p /\ DOMAIN s = {1}
      BY <3>1, OneIsList
    <3>3. c.kind = "array" /\ c.parts = s
      BY <2>2, <3>1 DEF Arr
    <3> QED
      BY <2>6, <3>2, <3>3 DEF IsContent, IsValue
  <2>8. IsItem(i)
    BY <2>3, <2>7 DEF IsItem
  <2>9. PICK s : s = <<i>>
    OBVIOUS
  <2>10. IsList(s) /\ Len(s) = 1 /\ s[1] = i
    BY <2>9, OneIsList
  <2> QED
    BY <1>6, <2>4, <2>8, <2>9, <2>10
<1>10. CASE Has(r, "input") /\ r.input.kind = "array"
  <2>1. PICK s : s = r.input.parts
    OBVIOUS
  <2>2. Items(r) = s
    BY <1>10, <2>1 DEF Items
  <2>3. IsList(s)
    BY <1>7, <1>10, <2>1 DEF IsValue
  <2>4. DOMAIN s = 1 .. Len(s)
    BY <2>3 DEF IsList
  <2>5. \A n \in DOMAIN s : IsItem(s[n])
    BY <1>2, <1>4, <1>5, <1>10, <2>1, BodiesAssumption DEF IsItem
  <2> QED
    BY <1>6, <2>2, <2>3, <2>4, <2>5
<1> QED
  BY <1>8, <1>9, <1>10

\* The items that are kept.
KeptAt(s) == {i \in 1 .. Len(s) : Kept(s[i])}
KeptOf(s) == Pick(s, KeptAt(s))

LEMMA NormalizeInputIs ==
  ASSUME NEW s
  PROVE  NormalizeInput(s) = [k \in 1 .. Len(KeptOf(s)) |-> NormalizeItem(KeptOf(s)[k])]
  BY DEF NormalizeInput, MapSeq, Keep, Where, KeptOf, KeptAt

LEMMA KeptOfIs ==
  ASSUME NEW s, IsList(s)
  PROVE  /\ KeptAt(s) \in SUBSET Nat /\ IsFiniteSet(KeptAt(s)) /\ IsList(KeptOf(s))
         /\ \A k \in 1 .. Len(KeptOf(s)) : \E n \in KeptAt(s) : KeptOf(s)[k] = s[n]
<1>1. KeptAt(s) \in SUBSET (1 .. Len(s))
  BY DEF KeptAt
<1>2. KeptAt(s) \in SUBSET Nat /\ IsFiniteSet(KeptAt(s))
  BY <1>1, PositionsAre
<1> QED
  BY <1>2, PickIs, PickFrom DEF KeptOf

LEMMA InputIs ==
  ASSUME NEW s, IsList(s), NEW out, out = NormalizeInput(s)
  PROVE  /\ IsList(out) /\ Len(out) = Len(KeptOf(s))
         /\ \A k \in 1 .. Len(out) :
              \E n \in 1 .. Len(s) :
                Kept(s[n]) /\ KeptOf(s)[k] = s[n] /\ out[k] = NormalizeItem(s[n])
<1>1. PICK p : p = KeptOf(s)
  OBVIOUS
<1>2. IsList(p) /\ \A k \in 1 .. Len(p) : \E n \in KeptAt(s) : p[k] = s[n]
  BY <1>1, KeptOfIs
<1>3. out = [k \in 1 .. Len(p) |-> NormalizeItem(p[k])]
  BY <1>1, NormalizeInputIs
<1>4. IsList(out) /\ Len(out) = Len(p) /\ \A k \in 1 .. Len(p) : out[k] = NormalizeItem(p[k])
  BY <1>2, <1>3 DEF IsList
<1>5. \A n \in KeptAt(s) : n \in 1 .. Len(s) /\ Kept(s[n])
  BY DEF KeptAt
<1> QED
  BY ONLY <1>1, <1>2, <1>4, <1>5

-----------------------------------------------------------------------------
(* CodexForm *)

LEMMA ContentForm ==
  ASSUME NEW role, NEW c, c.kind = "array" => IsList(c.parts), NEW n, n = NewContent(role, c),
         n.kind = "array", NEW k \in DOMAIN n.parts, NEW p, p = n.parts[k]
  PROVE  /\ p.kind # "string"
         /\ p.kind = "object" =>
              \/ Type(p.fields) = ContentType(role)
              \/ Type(p.fields) # "text" /\ c.kind = "array" /\ p \in Range(c.parts)
<1>1. c.kind \in {"string", "array"}
  BY ContentIs
<1>2. CASE c.kind = "string"
  <2>1. PICK t : t = TypedPart(role, c)
    OBVIOUS
  <2>2. PICK s : s = <<t>>
    OBVIOUS
  <2>3. p = t
    <3>1. DOMAIN s = {1} /\ s[1] = t
      BY <2>2
    <3>2. n.parts = s
      BY <1>2, <2>1, <2>2 DEF NewContent, Arr
    <3> QED
      BY <3>1, <3>2
  <2>4. /\ t.kind # "string"
        /\ t.kind = "object" =>
             Type(t.fields) = ContentType(role) \/ (Type(t.fields) # "text" /\ t = c)
    BY <2>1, TypedIs
  <2> QED
    BY <1>2, <2>3, <2>4
<1>3. CASE c.kind = "array"
  <2>1. PICK s : s = c.parts
    OBVIOUS
  <2>2. IsList(s)
    BY <1>3, <2>1
  <2>3. n.parts = [h \in 1 .. Len(s) |-> TypedPart(role, s[h])]
    BY <1>3, <2>1, ContentIs
  <2>4. k \in 1 .. Len(s) /\ p = TypedPart(role, s[k])
    BY <2>3
  <2>5. /\ p.kind # "string"
        /\ p.kind = "object" =>
             Type(p.fields) = ContentType(role) \/ (Type(p.fields) # "text" /\ p = s[k])
    BY <2>4, TypedIs
  <2>6. s[k] \in Range(s)
    BY <2>2, <2>4 DEF Range, IsList
  <2> QED
    BY <1>3, <2>1, <2>5, <2>6
<1> QED
  BY <1>1, <1>2, <1>3

LEMMA ItemForm ==
  ASSUME NEW i, IsItem(i), Kept(i), NEW j, j = NormalizeItem(i)
  PROVE  /\ Role(j) \notin {"system", "developer"}
         /\ Role(j) \in {"user", "assistant"} /\ Has(j, "content") =>
              /\ j.content.kind # "string"
              /\ j.content.kind = "array" =>
                   \A k \in DOMAIN j.content.parts :
                     LET p == j.content.parts[k]
                     IN /\ p.kind # "string"
                        /\ p.kind = "object" =>
                             \/ Type(p.fields) = ContentType(Role(j))
                             \/ Type(p.fields) # "text" /\ p \in Range(Parts(i, "content"))
         /\ Type(j) = "reasoning" => Replayable(j) /\ Has(j, "summary")
         /\ Type(j) = "function_call" => {"status", "arguments"} \subseteq DOMAIN j
         /\ Type(j) = "function_call_output" => Has(j, "output")
<1>1. /\ Role(j) = Role(i) /\ Type(j) = Type(i) /\ Complete(j)
      /\ Has(j, "content") <=> Has(i, "content")
      /\ Speaks(i) => j.content = NewContent(Role(i), i.content)
  BY ItemIs
<1>2. Kept(j) /\ (Type(j) = "reasoning" => Replayable(j))
  BY ItemKept
<1>3. ASSUME Role(j) \in {"user", "assistant"}, Has(j, "content")
      PROVE  /\ j.content.kind # "string"
             /\ j.content.kind = "array" =>
                  \A k \in DOMAIN j.content.parts :
                    LET p == j.content.parts[k]
                    IN /\ p.kind # "string"
                       /\ p.kind = "object" =>
                            \/ Type(p.fields) = ContentType(Role(j))
                            \/ Type(p.fields) # "text" /\ p \in Range(Parts(i, "content"))
  <2>1. PICK n, c, role : n = j.content /\ c = i.content /\ role = Role(j)
    OBVIOUS
  <2>2. Has(i, "content") /\ Role(i) = role /\ n = NewContent(role, c)
    BY <1>1, <1>3, <2>1 DEF Speaks
  <2>3. c.kind = "array" => IsList(c.parts)
    BY <2>1, <2>2 DEF IsItem, IsContent, IsValue
  <2>4. n.kind # "string"
    BY <2>2, ContentIs
  <2>5. c.kind = "array" => Parts(i, "content") = c.parts
    BY <2>1, <2>2 DEF Parts
  <2>6. ASSUME n.kind = "array", NEW k \in DOMAIN n.parts, NEW p, p = n.parts[k]
        PROVE  /\ p.kind # "string"
               /\ p.kind = "object" =>
                    \/ Type(p.fields) = ContentType(role)
                    \/ Type(p.fields) # "text" /\ p \in Range(Parts(i, "content"))
    <3>1. /\ p.kind # "string"
          /\ p.kind = "object" =>
               \/ Type(p.fields) = ContentType(role)
               \/ Type(p.fields) # "text" /\ c.kind = "array" /\ p \in Range(c.parts)
      BY <2>2, <2>3, <2>6, ContentForm
    <3> QED
      BY <2>5, <3>1
  <2> QED
    BY <2>1, <2>4, <2>6
<1>4. Role(j) \notin {"system", "developer"}
  BY <1>2 DEF Kept, IsSystem
<1> QED
  BY <1>1, <1>2, <1>3, <1>4 DEF Complete, Has

LEMMA IncludeHas ==
  ASSUME NEW r, Has(r, "include") => IsValue(r.include), NEW n, n = NormalizeInclude(r)
  PROVE  n.kind = "array" /\ Contains(n.parts, Ciphertext)
<1>1. PICK v : v = IF Has(r, "include") /\ r.include.kind = "array" THEN r.include.parts ELSE <<>>
  OBVIOUS
<1>2. IsList(v)
  BY <1>1 DEF IsValue, IsList
<1>3. PICK w : w = IF Contains(v, Ciphertext) THEN v ELSE Append(v, Ciphertext)
  OBVIOUS
<1>4. n = Arr(w)
  BY <1>1, <1>3 DEF NormalizeInclude
<1>5. Contains(w, Ciphertext)
  <2>1. CASE Contains(v, Ciphertext)
    BY <1>3, <2>1
  <2>2. CASE ~Contains(v, Ciphertext)
    <3>1. w = Append(v, Ciphertext)
      BY <1>3, <2>2
    <3>2. Len(w) = Len(v) + 1 /\ w[Len(v) + 1] = Ciphertext /\ Len(v) \in Nat
      BY <1>2, <3>1, AppendIs DEF IsList
    <3>3. Len(v) + 1 \in 1 .. Len(w)
      BY <3>2
    <3> QED
      BY <3>2, <3>3 DEF Contains
  <2> QED
    BY <2>1, <2>2
<1> QED
  BY <1>4, <1>5 DEF Arr

\* What is known of an outcome that is ok.
LEMMA Adapted ==
  ASSUME NEW b \in Bodies, NEW r, r = Without(b.fields, DroppedFields), AdaptRequest(b).ok
  PROVE  /\ b.kind = "object" /\ Accepted(r)
         /\ AdaptRequest(b) = [ok |-> TRUE, request |-> Merge(Forced(r), r)]
         /\ IsList(Items(r)) /\ \A n \in 1 .. Len(Items(r)) : IsItem(Items(r)[n])
         /\ Items(b.fields) = Items(r)
         /\ Has(r, "include") => IsValue(r.include)
         /\ Has(r, "instructions") => IsList(r.instructions.text)
         /\ Own(b.fields) = Own(r)
<1>1. /\ b.kind = "object" /\ Accepted(r)
      /\ AdaptRequest(b) = [ok |-> TRUE, request |-> Merge(Forced(r), r)]
  BY AcceptedIs
<1>2. /\ IsList(Items(r)) /\ \A n \in 1 .. Len(Items(r)) : IsItem(Items(r)[n])
      /\ Items(b.fields) = Items(r)
  BY <1>1, ItemsAre DEF Accepted
<1>3. PICK o : o = b.fields
  OBVIOUS
<1>4. DOMAIN r = DOMAIN o \ DroppedFields /\ \A f \in DOMAIN r : r[f] = o[f]
  BY <1>3 DEF Without
<1>5. "include" \notin DroppedFields /\ "instructions" \notin DroppedFields
  BY DEF DroppedFields
<1>6. \A f \in {"input", "instructions", "include"} \cap DOMAIN o : IsValue(o[f])
  BY <1>1, <1>3, BodiesAssumption
<1>7. Has(r, "include") => IsValue(r.include)
  BY ONLY <1>4, <1>6 DEF Has
<1>8. Has(r, "instructions") => IsValue(r.instructions)
  BY ONLY <1>4, <1>6 DEF Has
<1>9. Has(r, "instructions") => IsList(r.instructions.text)
  BY ONLY <1>1, <1>8 DEF IsValue, Accepted
<1>10. Own(o) = Own(r)
  BY ONLY <1>4, <1>5 DEF Own, Has
<1> QED
  BY <1>1, <1>2, <1>3, <1>7, <1>9, <1>10

\* The outcome is not there yet or that of AdaptRequest.
AdaptInv == body \in Bodies /\ (outcome = Pending \/ outcome = AdaptRequest(body))

LEMMA AdaptInvariant == Adapting => []AdaptInv
<1>1. Posted => AdaptInv
  BY DEF Posted, AdaptInv
<1>2. AdaptInv /\ [Handle]_request => AdaptInv'
  <2> SUFFICES ASSUME AdaptInv, [Handle]_request PROVE AdaptInv'
    OBVIOUS
  <2>1. CASE Handle
    BY <2>1 DEF AdaptInv, Handle
  <2>2. CASE UNCHANGED request
    BY <2>2 DEF AdaptInv, request
  <2> QED
    BY <2>1, <2>2
<1> QED
  BY <1>1, <1>2, PTL DEF Adapting

\* The form that Codex insists on, for every body that may be posted.
THEOREM RequestsHaveCodexForm == Adapting => []CodexForm
<1>1. AdaptInv => CodexForm
  <2> SUFFICES ASSUME AdaptInv, outcome.ok PROVE CodexForm
    BY DEF CodexForm
  <2>1. PICK b, o : b = body /\ o = outcome
    OBVIOUS
  <2>2. b \in Bodies /\ o = AdaptRequest(b) /\ o.ok
    BY <2>1 DEF AdaptInv, Pending
  <2>3. PICK r : r = Without(b.fields, DroppedFields)
    OBVIOUS
  <2>4. PICK q : q = Merge(Forced(r), r)
    OBVIOUS
  <2>5. /\ o = [ok |-> TRUE, request |-> q]
        /\ IsList(Items(r)) /\ \A n \in 1 .. Len(Items(r)) : IsItem(Items(r)[n])
        /\ Items(b.fields) = Items(r)
        /\ Has(r, "include") => IsValue(r.include)
    BY <2>2, <2>3, <2>4, Adapted
  <2>6. o.request = q
    BY <2>5
  <2>7. PICK s, out : s = Items(r) /\ out = NormalizeInput(s)
    OBVIOUS
  <2>8. /\ q.stream = TRUE /\ q.store = FALSE
        /\ q.input = Arr(out) /\ q.include = NormalizeInclude(r)
    BY <2>4, <2>7, RequestIs
  <2>9. Contains(q.include.parts, Ciphertext)
    BY <2>5, <2>8, IncludeHas
  <2>10. q.input.parts = out
    BY <2>8 DEF Arr
  <2>11. /\ IsList(out)
         /\ \A k \in 1 .. Len(out) :
              \E n \in 1 .. Len(s) : Kept(s[n]) /\ out[k] = NormalizeItem(s[n])
    BY <2>5, <2>7, InputIs
  <2>12. DOMAIN out = 1 .. Len(out) /\ DOMAIN s = 1 .. Len(s)
    BY <2>5, <2>7, <2>11 DEF IsList
  <2>13. ASSUME NEW n \in DOMAIN out, NEW j, j = out[n]
         PROVE  /\ Role(j) \notin {"system", "developer"}
                /\ Role(j) \in {"user", "assistant"} /\ Has(j, "content") =>
                     /\ j.content.kind # "string"
                     /\ j.content.kind = "array" =>
                          \A k \in DOMAIN j.content.parts :
                            LET p == j.content.parts[k]
                            IN /\ p.kind # "string"
                               /\ p.kind = "object" =>
                                    \/ Type(p.fields) = ContentType(Role(j))
                                    \/ Type(p.fields) # "text" /\ p \in SentParts(b.fields)
                /\ Type(j) = "reasoning" => Replayable(j) /\ Has(j, "summary")
                /\ Type(j) = "function_call" => {"status", "arguments"} \subseteq DOMAIN j
                /\ Type(j) = "function_call_output" => Has(j, "output")
    <3>1. PICK h \in 1 .. Len(s) : Kept(s[h]) /\ j = NormalizeItem(s[h])
      BY <2>11, <2>12, <2>13
    <3>2. PICK i : i = s[h]
      OBVIOUS
    <3>3. IsItem(i) /\ Kept(i) /\ j = NormalizeItem(i)
      BY <2>5, <2>7, <3>1, <3>2
    <3>4. i \in Range(s)
      BY <2>12, <3>1, <3>2 DEF Range
    <3>5. Range(Parts(i, "content")) \subseteq SentParts(b.fields)
      BY <2>5, <2>7, <3>4 DEF SentParts
    <3> HIDE DEF SentParts
    <3> QED
      BY <3>3, <3>5, ItemForm
  <2> QED
    BY <2>1, <2>6, <2>8, <2>9, <2>10, <2>13 DEF CodexForm
<1> QED
  BY <1>1, AdaptInvariant, PTL

-----------------------------------------------------------------------------
(* Settled *)

\* What the system messages say.
SystemAt(s) == {i \in 1 .. Len(s) : IsSystem(s[i])}
SystemSays(s) == MapSeq(ExtractText, Pick(s, SystemAt(s)))

LEMMA SystemSaysIs ==
  ASSUME NEW s
  PROVE  SystemSays(s) =
           [k \in 1 .. Len(Pick(s, SystemAt(s))) |-> ExtractText(Pick(s, SystemAt(s))[k])]
  BY DEF SystemSays, MapSeq

\* The texts of a list that are not empty.
FullAt(ts) == {i \in 1 .. Len(ts) : NotEmpty(ts[i])}

LEMMA SystemTextsIs ==
  ASSUME NEW s
  PROVE  SystemTexts(s) = Pick(SystemSays(s), FullAt(SystemSays(s)))
  BY DEF SystemTexts, SystemSays, SystemAt, FullAt, MapSeq, Keep, Where

LEMMA NoSystemTexts ==
  ASSUME NEW s, \A n \in 1 .. Len(s) : ~IsSystem(s[n])
  PROVE  SystemTexts(s) = <<>>
<1>1. SystemAt(s) = {}
  BY DEF SystemAt
<1>2. Pick(s, SystemAt(s)) = <<>>
  BY <1>1, PickNone
<1>3. SystemSays(s) = <<>>
  <2>1. PICK e : e = <<>>
    OBVIOUS
  <2>2. 1 .. Len(e) = {}
    BY <2>1
  <2>3. SystemSays(s) = [k \in 1 .. Len(e) |-> ExtractText(e[k])]
    BY <1>2, <2>1, SystemSaysIs
  <2>4. [k \in 1 .. Len(e) |-> ExtractText(e[k])] = <<>>
    BY <2>2
  <2> QED
    BY <2>3, <2>4
<1>4. FullAt(<<>>) = {}
  BY DEF FullAt
<1> QED
  BY <1>3, <1>4, PickNone, SystemTextsIs

LEMMA InstructionsSettled ==
  ASSUME NEW q, NEW t, Has(q, "instructions"), q.instructions = Str(t), SystemTexts(Items(q)) = <<>>
  PROVE  Instructions(q) = Str(t)
<1>1. PICK s : s = <<t>>
  OBVIOUS
<1>2. IsList(s) /\ Len(s) = 1 /\ s # <<>>
  BY <1>1, OneIsList
<1>3. Own(q) = s
  BY <1>1 DEF Own, Str
<1>4. s \o <<>> = s
  BY <1>2, ConcatEmpty
<1>5. Own(q) \o SystemTexts(Items(q)) = s
  BY <1>3, <1>4
<1>6. Join(s, "\n\n") = t
  BY <1>1, JoinOne
<1>7. Instructions(q) = Str(IF s = <<>> THEN <<"default">> ELSE Join(s, "\n\n"))
  BY <1>5 DEF Instructions
<1> QED
  BY <1>2, <1>6, <1>7

LEMMA EffortSettled == ASSUME NEW e PROVE MapEffort(MapEffort(e)) = MapEffort(e)
<1>1. MapEffort(e) \in {"none", "low", "high", "xhigh", "max", "medium"}
  BY DEF MapEffort
<1>2. /\ MapEffort("none") = "none" /\ MapEffort("low") = "low" /\ MapEffort("high") = "high"
      /\ MapEffort("xhigh") = "xhigh" /\ MapEffort("max") = "max"
      /\ MapEffort("medium") = "medium"
  BY DEF MapEffort
<1> QED
  BY <1>1, <1>2

LEMMA ReasoningSettled ==
  ASSUME NEW r, NEW q, Has(q, "reasoning"), q.reasoning = NormalizeReasoning(r)
  PROVE  NormalizeReasoning(q) = NormalizeReasoning(r)
<1>1. PICK e : e = IF Has(r, "reasoning") /\ Has(r.reasoning, "effort")
                   THEN MapEffort(r.reasoning.effort) ELSE "medium"
  OBVIOUS
<1>2. MapEffort(e) = e
  <2>1. MapEffort("medium") = "medium"
    BY DEF MapEffort
  <2> QED
    BY <1>1, <2>1, EffortSettled
<1>3. PICK o : o = [effort |-> e, summary |-> "concise"]
  OBVIOUS
<1>4. NormalizeReasoning(r) = o
  BY <1>1, <1>3 DEF NormalizeReasoning
<1>5. Has(o, "effort") /\ o.effort = e
  BY <1>3 DEF Has
<1>6. NormalizeReasoning(q) = [effort |-> MapEffort(e), summary |-> "concise"]
  BY <1>4, <1>5 DEF NormalizeReasoning
<1> QED
  BY <1>2, <1>3, <1>4, <1>6

LEMMA IncludeSettled ==
  ASSUME NEW q, NEW n, Has(q, "include"), q.include = n, n.kind = "array",
         Contains(n.parts, Ciphertext), n = Arr(n.parts)
  PROVE  NormalizeInclude(q) = n
  BY DEF NormalizeInclude

LEMMA InputSettled ==
  ASSUME NEW s, IsList(s), \A n \in 1 .. Len(s) : IsItem(s[n]), NEW out, out = NormalizeInput(s)
  PROVE  NormalizeInput(out) = out /\ \A n \in 1 .. Len(out) : ~IsSystem(out[n])
<1>1. /\ IsList(out)
      /\ \A k \in 1 .. Len(out) :
           \E n \in 1 .. Len(s) : Kept(s[n]) /\ out[k] = NormalizeItem(s[n])
  BY InputIs
<1>2. \A k \in 1 .. Len(out) : Kept(out[k]) /\ NormalizeItem(out[k]) = out[k]
  <2> SUFFICES ASSUME NEW k \in 1 .. Len(out)
               PROVE  Kept(out[k]) /\ NormalizeItem(out[k]) = out[k]
    OBVIOUS
  <2>1. PICK n \in 1 .. Len(s) : Kept(s[n]) /\ out[k] = NormalizeItem(s[n])
    BY <1>1
  <2>2. PICK i, j : i = s[n] /\ j = out[k]
    OBVIOUS
  <2>3. IsItem(i) /\ Kept(i) /\ j = NormalizeItem(i)
    BY <2>1, <2>2
  <2>4. Kept(j) /\ NormalizeItem(j) = j
    BY ONLY <2>3, ItemKept, ItemSettled
  <2> QED
    BY <2>2, <2>4
<1>3. KeptAt(out) = 1 .. Len(out)
  BY <1>2 DEF KeptAt
<1>4. KeptOf(out) = out
  BY <1>1, <1>3, PickWhole DEF KeptOf
<1>5. NormalizeInput(out) = [k \in 1 .. Len(out) |-> NormalizeItem(out[k])]
  BY <1>4, NormalizeInputIs
<1>6. [k \in 1 .. Len(out) |-> NormalizeItem(out[k])] = [k \in 1 .. Len(out) |-> out[k]]
  BY <1>2
<1>7. [k \in 1 .. Len(out) |-> out[k]] = out
  BY <1>1 DEF IsList
<1> QED
  BY <1>2, <1>5, <1>6, <1>7 DEF Kept

LEMMA InstructionsAre ==
  ASSUME NEW r
  PROVE  Instructions(r) = Str(Instructions(r).text) /\ Instructions(r).kind = "string"
  BY DEF Instructions, Str

\* Adapting an adapted request changes nothing, for every body that may be posted.
THEOREM AdaptingSettles == Adapting => []Settled
<1>1. AdaptInv => Settled
  <2> SUFFICES ASSUME AdaptInv, outcome.ok PROVE AdaptRequest(Obj(outcome.request)) = outcome
    BY DEF Settled
  <2>1. PICK b, o : b = body /\ o = outcome
    OBVIOUS
  <2>2. b \in Bodies /\ o = AdaptRequest(b) /\ o.ok
    BY <2>1 DEF AdaptInv, Pending
  <2>3. PICK r : r = Without(b.fields, DroppedFields)
    OBVIOUS
  <2>4. PICK q : q = Merge(Forced(r), r)
    OBVIOUS
  <2>5. /\ Accepted(r) /\ o = [ok |-> TRUE, request |-> q]
        /\ IsList(Items(r)) /\ \A n \in 1 .. Len(Items(r)) : IsItem(Items(r)[n])
        /\ Has(r, "include") => IsValue(r.include)
    BY <2>2, <2>3, <2>4, Adapted
  <2>6. PICK s, out : s = Items(r) /\ out = NormalizeInput(s)
    OBVIOUS
  <2>7. /\ DOMAIN q = ForcedFields \cup DOMAIN r /\ IsObject(q)
        /\ q.stream = TRUE /\ q.store = FALSE
        /\ q.input = Arr(out) /\ q.instructions = Instructions(r)
        /\ q.reasoning = NormalizeReasoning(r) /\ q.include = NormalizeInclude(r)
        /\ \A f \in DOMAIN r : f \notin ForcedFields => q[f] = r[f]
    BY ZenonT(60), <2>4, <2>6, RequestIs
  <2>8. DOMAIN q \cap DroppedFields = {}
    <3>1. DOMAIN r \cap DroppedFields = {}
      BY <2>3 DEF Without
    <3>2. ForcedFields \cap DroppedFields = {}
      BY DEF ForcedFields, DroppedFields
    <3> QED
      BY ONLY <2>7, <3>1, <3>2
  <2>9. Without(q, DroppedFields) = q
    BY <2>7, <2>8, NothingDropped
  <2>10. Accepted(q)
    <3>1. ForcedFields \subseteq AllowedFields /\ "model" \notin ForcedFields
      BY DEF ForcedFields, AllowedFields
    <3>2. DOMAIN q \subseteq AllowedFields
      BY <2>5, <2>7, <3>1 DEF Accepted
    <3>3. Has(q, "model") /\ q.model = r.model
      BY ONLY <2>5, <2>7, <3>1 DEF Accepted, Has
    <3>4. q.instructions.kind = "string" /\ q.input.kind = "array"
      BY <2>7, InstructionsAre DEF Arr
    <3> QED
      BY <2>5, <3>2, <3>3, <3>4 DEF Accepted
  <2>11. /\ Has(q, "input") /\ Has(q, "instructions") /\ Has(q, "reasoning") /\ Has(q, "include")
    BY ONLY <2>7 DEF ForcedFields, Has
  <2>12. Items(q) = out
    BY <2>7, <2>11 DEF Items, Arr
  <2>13. NormalizeInput(out) = out /\ \A n \in 1 .. Len(out) : ~IsSystem(out[n])
    BY <2>5, <2>6, InputSettled
  <2>14. SystemTexts(out) = <<>>
    BY <2>13, NoSystemTexts
  <2>15. Instructions(q) = Instructions(r)
    <3>1. PICK t : t = Instructions(r).text
      OBVIOUS
    <3>2. q.instructions = Str(t)
      BY <2>7, <3>1, InstructionsAre
    <3>3. Instructions(q) = Str(t)
      BY <2>11, <2>12, <2>14, <3>2, InstructionsSettled
    <3> QED
      BY <2>7, <3>2, <3>3
  <2>16. NormalizeReasoning(q) = NormalizeReasoning(r)
    BY <2>7, <2>11, ReasoningSettled
  <2>17. NormalizeInclude(q) = NormalizeInclude(r)
    <3>1. PICK n : n = NormalizeInclude(r)
      OBVIOUS
    <3>2. n.kind = "array" /\ Contains(n.parts, Ciphertext)
      BY <2>5, <3>1, IncludeHas
    <3>3. n = Arr(n.parts)
      BY <3>1 DEF NormalizeInclude, Arr
    <3> QED
      BY <2>7, <2>11, <3>1, <3>2, <3>3, IncludeSettled
  <2>18. PICK p : p = Merge(Forced(q), q)
    OBVIOUS
  <2>19. /\ DOMAIN p = ForcedFields \cup DOMAIN q /\ IsObject(p)
         /\ p.stream = TRUE /\ p.store = FALSE
         /\ p.input = Arr(NormalizeInput(Items(q))) /\ p.instructions = Instructions(q)
         /\ p.reasoning = NormalizeReasoning(q) /\ p.include = NormalizeInclude(q)
         /\ \A f \in DOMAIN q : f \notin ForcedFields => p[f] = q[f]
    BY ZenonT(60), <2>18, RequestIs
  <2>20. DOMAIN p = DOMAIN q
    BY ONLY <2>7, <2>19
  <2>21. \A f \in ForcedFields : p[f] = q[f]
    BY ONLY <2>7, <2>12, <2>13, <2>15, <2>16, <2>17, <2>19 DEF ForcedFields
  <2>22. \A f \in DOMAIN q : p[f] = q[f]
    BY <2>19, <2>21
  <2>23. p = q
    BY ONLY <2>7, <2>19, <2>20, <2>22 DEF IsObject
  <2>24. AdaptRequest(Obj(q)) = [ok |-> TRUE, request |-> q]
    <3>1. PICK c : c = Obj(q)
      OBVIOUS
    <3>2. c.kind = "object" /\ c.fields = q
      BY <3>1 DEF Obj
    <3>3. q = Without(c.fields, DroppedFields)
      BY <2>9, <3>2
    <3>4. AdaptRequest(c) = [ok |-> TRUE, request |-> Merge(Forced(q), q)]
      BY ONLY <2>10, <3>2, <3>3, AcceptedIs
    <3> QED
      BY <2>18, <2>23, <3>1, <3>4
  <2> QED
    BY <2>1, <2>5, <2>24
<1> QED
  BY <1>1, AdaptInvariant, PTL

-----------------------------------------------------------------------------
(* SaysTheSame *)

\* The atoms of a text that are neither a separator nor the default instructions.
WordsAt(s) == {i \in 1 .. Len(s) : IsWord(s[i])}
Words(s) == Pick(s, WordsAt(s))

LEMMA WordsNone == Words(<<>>) = <<>>
<1>1. WordsAt(<<>>) = {}
  BY DEF WordsAt
<1> QED
  BY <1>1, PickNone DEF Words

LEMMA NoWord ==
  ASSUME NEW a, ~IsWord(a)
  PROVE  Words(<<a>>) = <<>>
<1>1. PICK s : s = <<a>>
  OBVIOUS
<1>2. \A i \in 1 .. Len(s) : s[i] = a
  BY <1>1
<1>3. WordsAt(s) = {}
  BY <1>2 DEF WordsAt
<1> QED
  BY <1>1, <1>3, PickNone DEF Words

LEMMA WordsIsList ==
  ASSUME NEW s, IsList(s)
  PROVE  IsList(Words(s))
<1>1. WordsAt(s) \in SUBSET (1 .. Len(s))
  BY DEF WordsAt
<1>2. WordsAt(s) \in SUBSET Nat /\ IsFiniteSet(WordsAt(s))
  BY <1>1, PositionsAre
<1> QED
  BY <1>2, PickIs DEF Words

LEMMA WordsConcat ==
  ASSUME NEW s, NEW t, IsList(s), IsList(t)
  PROVE  Words(s \o t) = Words(s) \o Words(t)
<1>1. PICK c, I, J : c = s \o t /\ I = WordsAt(s) /\ J = WordsAt(t)
  OBVIOUS
<1>2. I \in SUBSET (1 .. Len(s)) /\ J \in SUBSET (1 .. Len(t))
  BY <1>1 DEF WordsAt
<1>3. Len(s) \in Nat /\ Len(t) \in Nat
  BY DEF IsList
<1>4. /\ IsList(c) /\ Len(c) = Len(s) + Len(t)
      /\ \A i \in 1 .. Len(s) : c[i] = s[i]
      /\ \A i \in 1 .. Len(t) : c[Len(s) + i] = t[i]
  BY <1>1, ConcatIs
<1>5. \A i : i \in WordsAt(c) <=> i \in I \/ \E j \in J : i = Len(s) + j
  <2>1. ASSUME NEW i \in I PROVE i \in WordsAt(c)
    <3>1. i \in 1 .. Len(s) /\ IsWord(s[i])
      BY <1>1, <2>1 DEF WordsAt
    <3>2. i \in 1 .. Len(c) /\ c[i] = s[i]
      BY <1>3, <1>4, <3>1
    <3> QED
      BY <3>1, <3>2 DEF WordsAt
  <2>2. ASSUME NEW j \in J PROVE Len(s) + j \in WordsAt(c)
    <3>1. j \in 1 .. Len(t) /\ IsWord(t[j])
      BY <1>1, <2>2 DEF WordsAt
    <3>2. Len(s) + j \in 1 .. Len(c) /\ c[Len(s) + j] = t[j]
      BY <1>3, <1>4, <3>1
    <3> QED
      BY <3>1, <3>2 DEF WordsAt
  <2>3. ASSUME NEW i \in WordsAt(c), i \notin I PROVE \E j \in J : i = Len(s) + j
    <3>1. i \in 1 .. Len(c) /\ IsWord(c[i])
      BY <2>3 DEF WordsAt
    <3>2. i \notin 1 .. Len(s)
      BY <1>1, <1>4, <2>3, <3>1 DEF WordsAt
    <3>3. i - Len(s) \in 1 .. Len(t) /\ i = Len(s) + (i - Len(s))
      BY <1>3, <1>4, <3>1, <3>2
    <3>4. PICK j \in 1 .. Len(t) : i = Len(s) + j
      BY <3>3
    <3>5. j \in J
      BY <1>1, <1>4, <3>1, <3>4 DEF WordsAt
    <3> QED
      BY <3>4, <3>5
  <2> QED
    BY <2>1, <2>2, <2>3
<1>6. PICK K : K = WordsAt(c)
  OBVIOUS
<1>7. \A i : i \in K <=> i \in I \/ \E j \in J : i = Len(s) + j
  BY <1>5, <1>6
<1>8. Pick(s \o t, K) = Pick(s, I) \o Pick(t, J)
  BY ONLY IsList(s), IsList(t), <1>2, <1>7, PickConcat
<1> QED
  BY ONLY <1>1, <1>6, <1>8 DEF Words

\* Sequences that agree on the words of every element agree on those of the whole.
LEMMA WordsFlatten ==
  ASSUME NEW s, NEW t, IsList(s), IsList(t), Len(s) = Len(t),
         \A i \in 1 .. Len(s) : IsList(s[i]) /\ IsList(t[i]) /\ Words(s[i]) = Words(t[i])
  PROVE  Words(FlattenSeq(s)) = Words(FlattenSeq(t))
<1> DEFINE At(n) == /\ IsList(FlattenSeq(FirstOf(s, n))) /\ IsList(FlattenSeq(FirstOf(t, n)))
                    /\ Words(FlattenSeq(FirstOf(s, n))) = Words(FlattenSeq(FirstOf(t, n)))
           S == {n \in Nat : n <= Len(s) => At(n)}
<1>0. Len(s) \in Nat
  BY DEF IsList
<1>1. 0 \in S
  <2>1. FirstOf(s, 0) = <<>> /\ FirstOf(t, 0) = <<>>
    BY FirstOfIs
  <2>2. IsList(<<>>)
    BY DEF IsList
  <2>3. At(0)
    BY <2>1, <2>2, FlattenEmpty
  <2> HIDE DEF At
  <2> QED
    BY <2>3
<1>2. ASSUME NEW n \in Nat, n \in S PROVE n + 1 \in S
  <2> SUFFICES ASSUME n + 1 <= Len(s) PROVE At(n + 1)
    OBVIOUS
  <2>1. n + 1 \in 1 .. Len(s) /\ n <= Len(s)
    BY <1>0
  <2>2. PICK p, q, x, y : p = FirstOf(s, n) /\ q = FirstOf(t, n) /\ x = s[n + 1] /\ y = t[n + 1]
    OBVIOUS
  <2>3. At(n)
    BY <1>2, <2>1
  <2>4. PICK f, g : f = FlattenSeq(p) /\ g = FlattenSeq(q)
    OBVIOUS
  <2>5. IsList(f) /\ IsList(g) /\ Words(f) = Words(g)
    BY <2>2, <2>3, <2>4
  <2>6. IsList(x) /\ IsList(y) /\ Words(x) = Words(y)
    BY <2>1, <2>2
  <2>7. /\ IsList(p) /\ FirstOf(s, n + 1) = Append(p, x)
        /\ IsList(q) /\ FirstOf(t, n + 1) = Append(q, y)
    BY <2>2, FirstOfIs
  <2> HIDE DEF At, S
  <2>8. FlattenSeq(Append(p, x)) = f \o x /\ FlattenSeq(Append(q, y)) = g \o y
    BY ONLY <2>4, <2>6, <2>7, FlattenNext
  <2>9. IsList(f \o x) /\ IsList(g \o y)
    BY ONLY <2>5, <2>6, ConcatIs
  <2>10. Words(f \o x) = Words(f) \o Words(x) /\ Words(g \o y) = Words(g) \o Words(y)
    BY ONLY <2>5, <2>6, WordsConcat
  <2> QED
    BY ONLY <2>5, <2>6, <2>7, <2>8, <2>9, <2>10 DEF At
<1>3. Len(s) \in S
  <2> HIDE DEF S
  <2> QED
    BY ONLY <1>0, <1>1, <1>2, SetInduction
<1>4. FirstOf(s, Len(s)) = s /\ FirstOf(t, Len(t)) = t
  BY FirstOfIs
<1>5. PICK n : n = Len(s)
  OBVIOUS
<1>6. At(n)
  BY <1>0, <1>3, <1>5
<1> QED
  BY <1>4, <1>5, <1>6

LEMMA JoinWords ==
  ASSUME NEW s, IsList(s), NEW sep, ~IsWord(sep), \A i \in 1 .. Len(s) : IsList(s[i])
  PROVE  Words(Join(s, sep)) = Words(FlattenSeq(s))
<1>1. PICK j : j = Separated(s, sep)
  OBVIOUS
<1>2. /\ IsList(j) /\ Len(j) = Len(s)
      /\ \A i \in 1 .. Len(s) :
           IsList(j[i]) /\ j[i] = IF i = 1 THEN s[i] ELSE <<sep>> \o s[i]
  BY <1>1, SeparatedIs
<1>3. ASSUME NEW i \in 1 .. Len(s) PROVE Words(j[i]) = Words(s[i])
  <2>1. PICK e, x : e = <<sep>> /\ x = s[i]
    OBVIOUS
  <2>2. IsList(e) /\ IsList(x) /\ Words(e) = <<>>
    BY <2>1, OneIsList, NoWord
  <2>3. Words(e \o x) = Words(e) \o Words(x)
    BY <2>2, WordsConcat
  <2>4. PICK w : w = Words(x)
    OBVIOUS
  <2>5. <<>> \o w = w
    BY <2>2, <2>4, WordsIsList, ConcatEmpty
  <2> QED
    BY <1>2, <2>1, <2>2, <2>3, <2>4, <2>5
<1>4. Words(FlattenSeq(j)) = Words(FlattenSeq(s))
  BY ONLY <1>2, <1>3, IsList(s), \A i \in 1 .. Len(s) : IsList(s[i]), WordsFlatten
<1> QED
  BY <1>1, <1>4 DEF Join, Separated

\* What is empty adds nothing to the whole.
LEMMA FlattenFull ==
  ASSUME NEW s, IsList(s), \A i \in 1 .. Len(s) : IsList(s[i])
  PROVE  FlattenSeq(Pick(s, FullAt(s))) = FlattenSeq(s)
<1> DEFINE Full(n) == {i \in 1 .. n : NotEmpty(s[i])}
           At(n) == FlattenSeq(Pick(s, Full(n))) = FlattenSeq(FirstOf(s, n))
           S == {n \in Nat : n <= Len(s) => At(n)}
<1>0. Len(s) \in Nat
  BY DEF IsList
<1>1. 0 \in S
  <2>1. FirstOf(s, 0) = <<>>
    BY FirstOfIs
  <2>2. Full(0) = {}
    OBVIOUS
  <2>3. At(0)
    BY <2>1, <2>2, PickNone
  <2> HIDE DEF At
  <2> QED
    BY <2>3
<1>2. ASSUME NEW n \in Nat, n \in S PROVE n + 1 \in S
  <2> SUFFICES ASSUME n + 1 <= Len(s) PROVE At(n + 1)
    OBVIOUS
  <2>1. n + 1 \in 1 .. Len(s) /\ n <= Len(s) /\ n + 1 \in Nat
    BY <1>0
  <2>2. PICK p, x, I : p = FirstOf(s, n) /\ x = s[n + 1] /\ I = Full(n)
    OBVIOUS
  <2>3. PICK k : k = Pick(s, I)
    OBVIOUS
  <2>4. FlattenSeq(k) = FlattenSeq(p)
    BY <1>2, <2>1, <2>2, <2>3
  <2>5. IsList(p) /\ Len(p) = n /\ FirstOf(s, n + 1) = Append(p, x) /\ IsList(x)
    BY <2>1, <2>2, FirstOfIs
  <2>6. I \in SUBSET (1 .. n) /\ \A i \in I : i < n + 1
    BY <2>2
  <2>7. I \in SUBSET Nat /\ IsFiniteSet(I)
    BY <2>5, <2>6, PositionsAre
  <2>8. IsList(k)
    BY <2>3, <2>7, PickIs
  <2>9. FlattenSeq(Append(p, x)) = FlattenSeq(p) \o x
    BY <2>5, FlattenNext
  <2>10. CASE NotEmpty(x)
    <3>1. Full(n + 1) = I \cup {n + 1}
      BY <2>2, <2>10
    <3>2. Pick(s, I \cup {n + 1}) = Append(k, x)
      BY <2>1, <2>2, <2>3, <2>6, <2>7, PickNext
    <3>3. FlattenSeq(Append(k, x)) = FlattenSeq(k) \o x
      BY <2>5, <2>8, FlattenNext
    <3> QED
      BY <2>4, <2>5, <2>9, <3>1, <3>2, <3>3
  <2>11. CASE ~NotEmpty(x)
    <3>1. Full(n + 1) = I
      BY <2>2, <2>11
    <3>2. x = <<>>
      BY <2>11 DEF NotEmpty
    <3>3. IsList(FlattenSeq(p))
      <4>1. \A i \in 1 .. n : p[i] = s[i] /\ i \in 1 .. Len(s)
        BY <1>0, <2>1, <2>2 DEF FirstOf
      <4>2. \A i \in 1 .. Len(p) : IsList(p[i])
        BY <2>5, <4>1
      <4> QED
        BY <2>5, <4>2, FlattenIsList
    <3>4. PICK f : f = FlattenSeq(p)
      OBVIOUS
    <3>5. f \o <<>> = f
      BY <3>3, <3>4, ConcatEmpty
    <3> QED
      BY <2>3, <2>4, <2>5, <2>9, <3>1, <3>2, <3>4, <3>5
  <2> QED
    BY <2>10, <2>11
<1>3. Len(s) \in S
  <2> HIDE DEF S
  <2> QED
    BY ONLY <1>0, <1>1, <1>2, SetInduction
<1>4. FirstOf(s, Len(s)) = s
  BY FirstOfIs
<1>5. Full(Len(s)) = FullAt(s)
  BY DEF FullAt
<1>6. At(Len(s))
  BY <1>0, <1>3
<1> QED
  BY <1>4, <1>5, <1>6

LEMMA SystemSaysLists ==
  ASSUME NEW s, IsList(s), \A n \in 1 .. Len(s) : IsItem(s[n]), NEW m, m = SystemSays(s)
  PROVE  IsList(m) /\ \A k \in 1 .. Len(m) : IsList(m[k])
<1>1. SystemAt(s) \in SUBSET (1 .. Len(s))
  BY DEF SystemAt
<1>2. SystemAt(s) \in SUBSET Nat /\ IsFiniteSet(SystemAt(s))
  BY <1>1, PositionsAre
<1>3. PICK p : p = Pick(s, SystemAt(s))
  OBVIOUS
<1>4. IsList(p) /\ \A k \in 1 .. Len(p) : \E n \in SystemAt(s) : p[k] = s[n]
  BY <1>2, <1>3, PickIs, PickFrom
<1>5. \A k \in 1 .. Len(p) : IsItem(p[k])
  BY <1>1, <1>4
<1>6. \A k \in 1 .. Len(p) : IsList(ExtractText(p[k]))
  BY <1>5, ItemTextList
<1>7. m = [k \in 1 .. Len(p) |-> ExtractText(p[k])]
  BY <1>3, SystemSaysIs
<1> QED
  BY <1>4, <1>6, <1>7 DEF IsList

\* The instructions are the words of the request's own and of the system messages.
LEMMA InstructionWords ==
  ASSUME NEW r, Has(r, "instructions") => IsList(r.instructions.text),
         NEW s, s = Items(r), IsList(s), \A n \in 1 .. Len(s) : IsItem(s[n])
  PROVE  Words(Instructions(r).text) = Words(FlattenSeq(Own(r) \o SystemSays(s)))
<1>1. PICK m, I, k, o : m = SystemSays(s) /\ I = FullAt(m) /\ k = Pick(m, I) /\ o = Own(r)
  OBVIOUS
<1>2. IsList(m) /\ \A i \in 1 .. Len(m) : IsList(m[i])
  BY <1>1, SystemSaysLists
<1>3. IsList(o) /\ \A i \in 1 .. Len(o) : IsList(o[i])
  <2>1. CASE Has(r, "instructions")
    <3>1. PICK x : x = r.instructions.text
      OBVIOUS
    <3>2. o = <<x>> /\ IsList(x)
      BY <1>1, <2>1, <3>1 DEF Own
    <3> QED
      BY <3>2, OneIsList
  <2>2. CASE ~Has(r, "instructions")
    <3>1. o = <<>>
      BY <1>1, <2>2 DEF Own
    <3> QED
      BY <3>1 DEF IsList
  <2> QED
    BY <2>1, <2>2
<1>4. I \in SUBSET (1 .. Len(m))
  BY <1>1 DEF FullAt
<1>5. I \in SUBSET Nat /\ IsFiniteSet(I)
  BY <1>2, <1>4, PositionsAre
<1>6. IsList(k) /\ \A h \in 1 .. Len(k) : IsList(k[h])
  <2>1. k = Pick(m, I)
    BY <1>1
  <2>2. IsList(k) /\ \A h \in 1 .. Len(k) : \E i \in I : k[h] = m[i]
    BY ONLY <1>5, <2>1, PickIs, PickFrom
  <2> QED
    BY ONLY <1>2, <1>4, <2>2
<1>7. FlattenSeq(k) = FlattenSeq(m)
  BY <1>1, <1>2, FlattenFull
<1>8. FlattenSeq(o \o k) = FlattenSeq(o) \o FlattenSeq(k)
  BY <1>3, <1>6, FlattenConcat
<1>9. FlattenSeq(o \o m) = FlattenSeq(o) \o FlattenSeq(m)
  BY <1>2, <1>3, FlattenConcat
<1>10. PICK t : t = o \o k
  OBVIOUS
<1>11. FlattenSeq(t) = FlattenSeq(o \o m)
  BY <1>7, <1>8, <1>9, <1>10
<1>12. IsList(t) /\ \A i \in 1 .. Len(t) : IsList(t[i])
  <2>1. /\ IsList(t) /\ Len(t) = Len(o) + Len(k)
        /\ \A i \in 1 .. Len(o) : t[i] = o[i]
        /\ \A i \in 1 .. Len(k) : t[Len(o) + i] = k[i]
    BY <1>3, <1>6, <1>10, ConcatIs
  <2>2. Len(o) \in Nat /\ Len(k) \in Nat
    BY <1>3, <1>6 DEF IsList
  <2>3. ASSUME NEW i \in 1 .. Len(t) PROVE IsList(t[i])
    <3>1. CASE i \in 1 .. Len(o)
      BY <1>3, <2>1, <3>1
    <3>2. CASE i \notin 1 .. Len(o)
      <4>1. i - Len(o) \in 1 .. Len(k) /\ i = Len(o) + (i - Len(o))
        BY <2>1, <2>2, <3>2
      <4> QED
        BY <1>6, <2>1, <4>1
    <3> QED
      BY <3>1, <3>2
  <2> QED
    BY <2>1, <2>3
<1>13. PICK w : w = IF t = <<>> THEN <<"default">> ELSE Join(t, "\n\n")
  OBVIOUS
<1>14. Instructions(r).text = w
  <2>1. t = Own(r) \o SystemTexts(Items(r))
    BY <1>1, <1>10, SystemTextsIs
  <2>2. Instructions(r) = Str(w)
    BY <1>13, <2>1 DEF Instructions
  <2> QED
    BY <2>2 DEF Str
<1>15. Words(w) = Words(FlattenSeq(t))
  <2>1. CASE t = <<>>
    <3>1. ~IsWord("default")
      BY DEF IsWord
    <3>2. Words(w) = <<>>
      BY <1>13, <2>1, <3>1, NoWord
    <3> QED
      BY <2>1, <3>2, FlattenEmpty, WordsNone
  <2>2. CASE t # <<>>
    <3>1. ~IsWord("\n\n")
      BY DEF IsWord
    <3>2. w = Join(t, "\n\n")
      BY <1>13, <2>2
    <3> QED
      BY <1>12, <3>1, <3>2, JoinWords
  <2> QED
    BY <2>1, <2>2
<1> QED
  BY <1>1, <1>11, <1>14, <1>15

\* The items that are no thoughts, and those of them that are sent on.
ThoughtlessAt(s) == {i \in 1 .. Len(s) : NoThought(s[i])}
SaidAt(s) == {i \in 1 .. Len(s) : IsSaid(s[i])}

LEMMA SaidAlike ==
  ASSUME NEW x, NEW y, Len(x) = Len(y),
         \A n \in 1 .. Len(x) :
           /\ Role(x[n]) = Role(y[n]) /\ Type(x[n]) = Type(y[n])
           /\ Has(x[n], "call_id") <=> Has(y[n], "call_id")
           /\ Has(x[n], "call_id") => x[n].call_id = y[n].call_id
           /\ ExtractText(x[n]) = ExtractText(y[n])
  PROVE  Said(x) = Said(y)
<1> DEFINE Says(i) == <<Role(i), Type(i), IF Has(i, "call_id") THEN i.call_id ELSE "",
                        ExtractText(i)>>
<1>1. Said(x) = [n \in 1 .. Len(x) |-> Says(x[n])]
  BY DEF Said, MapSeq
<1>2. Said(y) = [n \in 1 .. Len(y) |-> Says(y[n])]
  BY DEF Said, MapSeq
<1>3. \A n \in 1 .. Len(x) : Says(x[n]) = Says(y[n])
  OBVIOUS
<1> HIDE DEF Says
<1> QED
  BY <1>1, <1>2, <1>3

\* One item and what NormalizeItem makes of it say the same.
LEMMA ItemAlike ==
  ASSUME NEW i, IsItem(i), NEW j, j = NormalizeItem(i)
  PROVE  /\ Role(j) = Role(i) /\ Type(j) = Type(i)
         /\ Has(j, "call_id") <=> Has(i, "call_id")
         /\ Has(j, "call_id") => j.call_id = i.call_id
         /\ ExtractText(j) = ExtractText(i)
<1>1. /\ DOMAIN i \subseteq DOMAIN j /\ DOMAIN j \subseteq DOMAIN i \cup HistoryFields
      /\ \A f \in DOMAIN i : f # "content" => j[f] = i[f]
      /\ Role(j) = Role(i) /\ Type(j) = Type(i)
  BY ItemIs
<1>2. "call_id" \notin HistoryFields
  BY DEF HistoryFields
<1>3. /\ Has(j, "call_id") <=> Has(i, "call_id")
      /\ Has(j, "call_id") => j.call_id = i.call_id
  BY ONLY <1>1, <1>2 DEF Has
<1> QED
  BY <1>1, <1>3, ItemSays

LEMMA InputSays ==
  ASSUME NEW s, IsList(s), \A n \in 1 .. Len(s) : IsItem(s[n]), NEW out, out = NormalizeInput(s)
  PROVE  Said(Pick(out, ThoughtlessAt(out))) = Said(Pick(s, SaidAt(s)))
<1>1. PICK I, k, J, K : I = KeptAt(s) /\ k = Pick(s, I) /\ J = ThoughtlessAt(out) /\ K = SaidAt(s)
  OBVIOUS
<1>2. I \in SUBSET (1 .. Len(s)) /\ I \in SUBSET Nat /\ IsFiniteSet(I)
  <2>1. I \in SUBSET (1 .. Len(s))
    BY <1>1 DEF KeptAt
  <2> QED
    BY <2>1, PositionsAre
<1>3. PICK n, a : n = Cardinality(I) /\ a = Ascending(I)
  OBVIOUS
<1>4. n \in Nat /\ \A h \in 1 .. n : a[h] \in I
  BY <1>2, <1>3, AscendingIs
<1>5. IsList(k) /\ Len(k) = n /\ \A h \in 1 .. n : k[h] = s[a[h]]
  BY <1>1, <1>2, <1>3, PickIs
<1>6. \A h \in 1 .. n : Kept(k[h]) /\ IsItem(k[h])
  <2>1. \A i \in I : Kept(s[i]) /\ IsItem(s[i])
    BY <1>1 DEF KeptAt
  <2> QED
    BY ONLY <1>4, <1>5, <2>1
<1>7. k = KeptOf(s)
  BY <1>1 DEF KeptOf
<1>8. IsList(out) /\ Len(out) = n /\ \A h \in 1 .. n : out[h] = NormalizeItem(k[h])
  <2>1. out = [h \in 1 .. Len(k) |-> NormalizeItem(k[h])]
    BY <1>7, NormalizeInputIs
  <2> QED
    BY <1>4, <1>5, <2>1 DEF IsList
<1>9. \A h \in 1 .. n :
        LET i == k[h]
            j == out[h]
        IN /\ Role(j) = Role(i) /\ Type(j) = Type(i)
           /\ Has(j, "call_id") <=> Has(i, "call_id")
           /\ Has(j, "call_id") => j.call_id = i.call_id
           /\ ExtractText(j) = ExtractText(i)
  BY ONLY <1>6, <1>8, ItemAlike
<1>10. J \in SUBSET (1 .. n) /\ \A h \in 1 .. n : h \in J <=> NoThought(k[h])
  BY <1>1, <1>8, <1>9 DEF ThoughtlessAt, NoThought
<1>11. K \in SUBSET I /\ \A h \in 1 .. n : h \in J <=> a[h] \in K
  <2>1. \A i \in 1 .. Len(s) : i \in K <=> i \in I /\ NoThought(s[i])
    BY <1>1 DEF SaidAt, KeptAt, IsSaid, Kept, NoThought
  <2>2. K \subseteq 1 .. Len(s)
    BY <1>1 DEF SaidAt
  <2> QED
    BY ONLY <1>2, <1>4, <1>5, <1>10, <2>1, <2>2
<1>12. Pick(k, J) = Pick(s, K)
  <2>1. Pick(Pick(s, I), J) = Pick(s, K)
    BY ONLY <1>2, <1>3, <1>10, <1>11, PickPick
  <2> QED
    BY ONLY <1>1, <2>1
<1>13. PICK x, y : x = Pick(out, J) /\ y = Pick(k, J)
  OBVIOUS
<1>14. J \in SUBSET Nat /\ IsFiniteSet(J)
  BY <1>5, <1>10, PositionsAre
<1>15. /\ Len(x) = Len(y)
       /\ \A m \in 1 .. Len(x) : \E h \in J : x[m] = out[h] /\ y[m] = k[h]
  BY ONLY <1>13, <1>14, PickBoth
<1>16. Said(x) = Said(y)
  <2>1. \A m \in 1 .. Len(x) :
          /\ Role(x[m]) = Role(y[m]) /\ Type(x[m]) = Type(y[m])
          /\ Has(x[m], "call_id") <=> Has(y[m], "call_id")
          /\ Has(x[m], "call_id") => x[m].call_id = y[m].call_id
          /\ ExtractText(x[m]) = ExtractText(y[m])
    BY ONLY <1>9, <1>10, <1>15
  <2> QED
    BY ONLY <1>15, <2>1, SaidAlike
<1> QED
  BY ONLY <1>1, <1>12, <1>13, <1>16

\* Nothing that was said is lost, doubled or moved, for every body that may be posted.
THEOREM AdaptingSaysTheSame == Adapting => []SaysTheSame
<1>1. AdaptInv => SaysTheSame
  <2> SUFFICES ASSUME AdaptInv, outcome.ok PROVE SaysTheSame
    BY DEF SaysTheSame
  <2>1. PICK b, o : b = body /\ o = outcome
    OBVIOUS
  <2>2. b \in Bodies /\ o = AdaptRequest(b) /\ o.ok
    BY <2>1 DEF AdaptInv, Pending
  <2>3. PICK r : r = Without(b.fields, DroppedFields)
    OBVIOUS
  <2>4. PICK q : q = Merge(Forced(r), r)
    OBVIOUS
  <2>5. PICK s : s = Items(r)
    OBVIOUS
  <2>6. /\ o = [ok |-> TRUE, request |-> q] /\ Items(b.fields) = s /\ Own(b.fields) = Own(r)
        /\ IsList(s) /\ \A n \in 1 .. Len(s) : IsItem(s[n])
        /\ Has(r, "instructions") => IsList(r.instructions.text)
    BY <2>2, <2>3, <2>4, <2>5, Adapted
  <2>7. PICK out : out = NormalizeInput(s)
    OBVIOUS
  <2>8. q.input = Arr(out) /\ q.instructions = Instructions(r)
    BY <2>4, <2>5, <2>7, RequestIs
  <2>9. o.request = q /\ q.input.parts = out
    BY <2>6, <2>8 DEF Arr
  <2>10. Said(Pick(out, ThoughtlessAt(out))) = Said(Pick(s, SaidAt(s)))
    BY <2>6, <2>7, InputSays
  <2>11. Words(q.instructions.text) = Words(FlattenSeq(Own(r) \o SystemSays(s)))
    BY <2>5, <2>6, <2>8, InstructionWords
  <2>12. PICK sent, mine, texts : sent = Items(b.fields) /\ mine = Own(b.fields) /\ texts = SystemSays(sent)
    OBVIOUS
  <2>13. Said(Keep(o.request.input.parts, NoThought)) = Said(Keep(sent, IsSaid))
    BY <2>6, <2>9, <2>10, <2>12 DEF Keep, Where, ThoughtlessAt, SaidAt
  <2>14. Keep(o.request.instructions.text, IsWord) =
           Keep(FlattenSeq(mine \o texts), IsWord)
    BY <2>6, <2>9, <2>11, <2>12 DEF Keep, Where, Words, WordsAt
  <2>15. texts = MapSeq(ExtractText, Keep(sent, IsSystem))
    BY <2>12 DEF Keep, Where, SystemSays, SystemAt, MapSeq
  <2> QED
    BY <2>1, <2>12, <2>13, <2>14, <2>15 DEF SaysTheSame, Keep, Where, MapSeq
<1> QED
  BY <1>1, AdaptInvariant, PTL

-----------------------------------------------------------------------------
(* The transformer: where an item is found *)

\* Objects, as functions from their fields.
LEMMA MergeIs ==
  ASSUME NEW o, NEW d
  PROVE  /\ DOMAIN Merge(o, d) = DOMAIN o \cup DOMAIN d
         /\ \A x \in DOMAIN o : Merge(o, d)[x] = o[x]
         /\ \A x \in DOMAIN d \ DOMAIN o : Merge(o, d)[x] = d[x]
  BY DEF Merge

\* d has the fields of o as they are.
Keeps(d, o) == DOMAIN o \subseteq DOMAIN d /\ \A x \in DOMAIN o : d[x] = o[x]

LEMMA DefaultKeeps == ASSUME NEW o, NEW f, NEW v PROVE Keeps(Default(o, f, v), o)
  BY DEF Keeps, Default, With, Has

LEMMA MergeKeeps == ASSUME NEW o, NEW d PROVE Keeps(Merge(o, d), o)
  BY DEF Keeps, Merge

LEMMA KeepsTwice == ASSUME NEW o, NEW d, NEW e, Keeps(e, d), Keeps(d, o) PROVE Keeps(e, o)
  BY DEF Keeps

\* The item as OutputItem forwards and remembers it.
ItemOf(p) ==
  IF Type(p.item) = "function_call"
  THEN Default(Default(p.item, "status",
         IF p.type = "response.output_item.done" THEN "completed" ELSE "in_progress"),
         "arguments", "")
  ELSE NormalizeReasoningValue(p.item)

IndexOf(p) == IF Has(p, "output_index") THEN p.output_index ELSE 0

MetadataOf(item) == [f \in {"name", "call_id"} \cap DOMAIN item |-> item[f]]

LEMMA OutputItemIs ==
  ASSUME NEW p, OutputItem(p)
  PROVE  /\ id_to_index' = IF Has(ItemOf(p), "id") THEN With(id_to_index, ItemOf(p).id, IndexOf(p))
                                                   ELSE id_to_index
         /\ call_metadata' = IF Type(ItemOf(p)) = "function_call"
                             THEN Merge([k \in MetadataKeys(ItemOf(p)) |-> MetadataOf(ItemOf(p))],
                                        call_metadata)
                             ELSE call_metadata
         /\ forwarded' = With(p, "item", ItemOf(p))
  BY DEF OutputItem, ItemOf, IndexOf, MetadataOf

\* What the transformer adds to an item leaves its own fields alone.
LEMMA ItemOfKeeps ==
  ASSUME NEW p, {"id", "type"} \subseteq DOMAIN p.item
  PROVE  /\ {"id", "type"} \subseteq DOMAIN ItemOf(p)
         /\ ItemOf(p).id = p.item.id /\ ItemOf(p).type = p.item.type
         /\ p.item.type = "function_call" =>
              \A f \in {"name", "call_id"} \cap DOMAIN p.item :
                f \in DOMAIN ItemOf(p) /\ ItemOf(p)[f] = p.item[f]
<1> DEFINE item == p.item
<1>1. Type(item) = item.type
  BY DEF Type, Has
<1>2. CASE item.type = "function_call"
  <2> DEFINE named == Default(item, "status",
         IF p.type = "response.output_item.done" THEN "completed" ELSE "in_progress")
  <2>1. ItemOf(p) = Default(named, "arguments", "")
    BY <1>1, <1>2 DEF ItemOf
  <2>2. Keeps(named, item)
    BY DefaultKeeps
  <2> HIDE DEF named
  <2>3. Keeps(Default(named, "arguments", ""), named)
    BY DefaultKeeps
  <2>4. Keeps(ItemOf(p), item)
    BY <2>1, <2>2, <2>3, KeepsTwice
  <2> QED
    BY <2>4 DEF Keeps
<1>3. CASE item.type = "reasoning"
  <2>1. ItemOf(p) = NormalizeReasoningItem(item)
    BY <1>1, <1>3 DEF ItemOf, NormalizeReasoningValue
  <2>2. PICK c, s : NormalizeReasoningItem(item) = Merge([content |-> c, summary |-> s], item)
    BY DEF NormalizeReasoningItem
  <2> DEFINE front == [content |-> c, summary |-> s]
  <2>3. DOMAIN front = {"content", "summary"}
    OBVIOUS
  <2> HIDE DEF front
  <2>4. ItemOf(p) = Merge(front, item)
    BY <2>1, <2>2 DEF front
  <2>5. /\ DOMAIN ItemOf(p) = {"content", "summary"} \cup DOMAIN item
        /\ \A x \in DOMAIN item \ {"content", "summary"} : ItemOf(p)[x] = item[x]
    <3>1. /\ DOMAIN Merge(front, item) = DOMAIN front \cup DOMAIN item
          /\ \A x \in DOMAIN item \ DOMAIN front : Merge(front, item)[x] = item[x]
      BY MergeIs, Zenon
    <3> QED
      BY <2>3, <2>4, <3>1
  <2> QED
    BY <1>3, <2>5
<1>4. CASE item.type \notin {"function_call", "reasoning"}
  BY <1>1, <1>4 DEF ItemOf, NormalizeReasoningValue
<1> QED
  BY <1>2, <1>3, <1>4
-----------------------------------------------------------------------------
\* What Codex keeps to of the items of a response.
LEMMA PlanIs ==
  ASSUME plan \in Outputs, NEW i \in DOMAIN plan, NEW stage \in {"added", "done"}
  PROVE  /\ {"id", "type"} \subseteq DOMAIN plan[i][stage]
         /\ plan[i][stage].id = plan[i].added.id /\ plan[i][stage].type = plan[i].added.type
         /\ plan[i].added.type = "function_call" =>
              /\ {"name", "call_id"} \subseteq DOMAIN plan[i][stage]
              /\ plan[i][stage].name = plan[i].added.name
              /\ plan[i][stage].call_id = plan[i].added.call_id
         /\ \A j \in DOMAIN plan \ {i} :
              /\ plan[j].added.id # plan[i].added.id
              /\ plan[j].added.type = "function_call" => plan[j].added.call_id # plan[i].added.id
<1>1. plan[i][stage] \in {plan[i].added, plan[i].done}
  OBVIOUS
<1> QED
  BY <1>1, TransformerAssumption

\* What is known of an item that was announced.
Known(i) ==
  LET item == plan[i].added
  IN /\ item.id \in DOMAIN id_to_index /\ id_to_index[item.id] = i - 1
     /\ item.type = "function_call" =>
          /\ item.id \in DOMAIN call_metadata
          /\ {"name", "call_id"} = DOMAIN call_metadata[item.id]
          /\ call_metadata[item.id].name = item.name
          /\ call_metadata[item.id].call_id = item.call_id

DeltaInv ==
  /\ plan \in Outputs
  /\ given \in [DOMAIN plan -> {"none", "added", "done"}]
  /\ \A i \in DOMAIN plan : given[i] # "none" => Known(i)
  /\ DeltaAddressed

\* An item event makes its own item known, and no other item unknown.
LEMMA ItemKnown ==
  ASSUME DeltaInv, NEW i \in DOMAIN plan, NEW stage \in {"added", "done"}, Item(i, stage)
  PROVE  DeltaInv'
<1> DEFINE p == [type |-> ItemEvent[stage], output_index |-> i - 1, item |-> plan[i][stage]]
<1>1. /\ p.type \in ItemEvents /\ p.item = plan[i][stage] /\ IndexOf(p) = i - 1
      /\ DOMAIN p = {"type", "output_index", "item"}
  BY DEF ItemEvent, ItemEvents, IndexOf, Has
<1>2. /\ Live /\ Transform(p) /\ given' = [given EXCEPT ![i] = stage] /\ plan' = plan
  BY DEF Item
<1> HIDE DEF p
<1>3. OutputItem(p)
  BY <1>1, <1>2 DEF Transform
<1> DEFINE item == ItemOf(p)
           id == plan[i].added.id
<1>4. /\ {"id", "type"} \subseteq DOMAIN item /\ item.id = id /\ item.type = plan[i].added.type
      /\ plan[i].added.type = "function_call" =>
           /\ {"name", "call_id"} \subseteq DOMAIN item
           /\ item.name = plan[i].added.name /\ item.call_id = plan[i].added.call_id
  BY <1>1, PlanIs, ItemOfKeeps DEF DeltaInv
<1>5. /\ id_to_index' = With(id_to_index, id, i - 1)
      /\ call_metadata' = IF item.type = "function_call"
                          THEN Merge([k \in MetadataKeys(item) |-> MetadataOf(item)], call_metadata)
                          ELSE call_metadata
      /\ forwarded' = With(p, "item", item)
  BY <1>1, <1>3, <1>4, OutputItemIs DEF Has, Type
<1> HIDE DEF item
<1>6. Known(i)'
  <2>1. id \in DOMAIN id_to_index' /\ id_to_index'[id] = i - 1
    BY <1>5 DEF With
  <2>2. ASSUME plan[i].added.type = "function_call"
        PROVE  /\ id \in DOMAIN call_metadata'
               /\ call_metadata'[id] = MetadataOf(item)
    <3> DEFINE new == [k \in MetadataKeys(item) |-> MetadataOf(item)]
    <3>1. id \in DOMAIN new /\ new[id] = MetadataOf(item)
      BY <1>4 DEF MetadataKeys
    <3>2. call_metadata' = Merge(new, call_metadata)
      BY <1>4, <1>5, <2>2
    <3> HIDE DEF new
    <3>3. Keeps(call_metadata', new)
      BY <3>2, MergeKeeps
    <3> QED
      BY <3>1, <3>3 DEF Keeps
  <2>3. ASSUME plan[i].added.type = "function_call"
        PROVE  /\ {"name", "call_id"} = DOMAIN MetadataOf(item)
               /\ MetadataOf(item).name = plan[i].added.name
               /\ MetadataOf(item).call_id = plan[i].added.call_id
    BY <1>4, <2>3 DEF MetadataOf
  <2> QED
    BY <1>2, <2>1, <2>2, <2>3 DEF Known
<1>7. ASSUME NEW j \in DOMAIN plan \ {i}, Known(j) PROVE Known(j)'
  <2> DEFINE jd == plan[j].added.id
  <2>1. jd # id /\ (plan[i].added.type = "function_call" => plan[i].added.call_id # jd)
    BY PlanIs DEF DeltaInv
  <2>2. jd \in DOMAIN id_to_index' /\ id_to_index'[jd] = j - 1
    BY <1>5, <1>7, <2>1 DEF Known, With
  <2>3. ASSUME jd \in DOMAIN call_metadata
        PROVE  jd \in DOMAIN call_metadata' /\ call_metadata'[jd] = call_metadata[jd]
    <3>1. CASE item.type = "function_call"
      <4> DEFINE new == [k \in MetadataKeys(item) |-> MetadataOf(item)]
      <4>1. jd \notin DOMAIN new
        BY <1>4, <2>1, <3>1 DEF MetadataKeys
      <4>2. call_metadata' = Merge(new, call_metadata)
        BY <1>5, <3>1
      <4> HIDE DEF new
      <4> QED
        BY <2>3, <4>1, <4>2 DEF Merge
    <3>2. CASE item.type # "function_call"
      BY <1>5, <2>3, <3>2
    <3> QED
      BY <3>1, <3>2
  <2> QED
    BY <1>2, <1>7, <2>2, <2>3 DEF Known
<1>8. DeltaAddressed'
  <2>1. forwarded'.type = p.type
    BY <1>1, <1>5 DEF With
  <2> QED
    BY <1>1, <2>1 DEF DeltaAddressed, ItemEvents, SummaryEvents, CallEvents
<1> QED
  BY <1>2, <1>6, <1>7, <1>8 DEF DeltaInv
\* A delta of an announced item leaves with what is known of it.
LEMMA DeltaKnown ==
  ASSUME DeltaInv, NEW i \in DOMAIN plan, Delta(i)
  PROVE  DeltaInv'
<1> DEFINE id == plan[i].added.id
           Types == SummaryEvents \cup CallEvents
<1>1. PICK t \in DeltaTypes(plan[i].added), x \in {<<>>, [output_index |-> i - 1]} :
        Transform(Merge([type |-> t, item_id |-> id], x))
  BY DEF Delta
<1> DEFINE p == Merge([type |-> t, item_id |-> id], x)
<1>2. /\ {"type", "item_id"} \subseteq DOMAIN p /\ DOMAIN p \subseteq {"type", "item_id", "output_index"}
      /\ p.type = t /\ p.item_id = id
      /\ "output_index" \in DOMAIN p => p.output_index = i - 1
  <2>1. CASE x = <<>>
    BY <2>1 DEF Merge
  <2>2. CASE x = [output_index |-> i - 1]
    BY <2>2 DEF Merge
  <2> QED
    BY <1>1, <2>1, <2>2
<1>3. Transform(p) /\ given[i] = "added" /\ plan' = plan /\ given' = given
  BY <1>1 DEF Delta
<1> HIDE DEF p
<1>4. Known(i) /\ plan \in Outputs
  BY <1>3 DEF DeltaInv
<1>5. /\ t \in Types \cup {"response.reasoning_text.delta", "response.output_text.delta"}
      /\ t \in CallEvents => plan[i].added.type = "function_call"
  BY <1>1, <1>4, PlanIs DEF DeltaTypes, SummaryEvents, CallEvents, Type, Has
<1>6. UNCHANGED transformer
  BY <1>2, <1>3, <1>5 DEF Transform, ItemEvents, SummaryEvents, CallEvents
<1>7. ASSUME NEW j \in DOMAIN plan, Known(j) PROVE Known(j)'
  BY <1>3, <1>6, <1>7 DEF Known, transformer
<1> DEFINE q == AttachIndex(p)
<1>8. /\ Keeps(q, p) /\ "output_index" \in DOMAIN q /\ q.output_index = i - 1
      /\ DOMAIN q = {"type", "item_id", "output_index"}
  <2>1. q = Default(p, "output_index", i - 1)
    BY <1>2, <1>4 DEF AttachIndex, Known, Has
  <2> QED
    BY <1>2, <2>1 DEF Default, With, Has, Keeps
<1> HIDE DEF q
<1>9. CASE t \in SummaryEvents
  <2>1. forwarded' = q
    BY <1>2, <1>3, <1>9 DEF Transform, ItemEvents, SummaryEvents, CallEvents, Hidden, q
  <2>2. /\ q.type = t /\ q.item_id = id /\ t \notin CallEvents
    BY <1>2, <1>8, <1>9 DEF Keeps, SummaryEvents, CallEvents
  <2>3. DeltaAddressed'
    BY <1>3, <1>8, <2>1, <2>2 DEF DeltaAddressed, Has
  <2> QED
    BY <1>3, <1>7, <2>3 DEF DeltaInv
<1>10. CASE t \in CallEvents
  <2>1. /\ id \in DOMAIN call_metadata
        /\ {"name", "call_id"} = DOMAIN call_metadata[id]
        /\ call_metadata[id].name = plan[i].added.name
        /\ call_metadata[id].call_id = plan[i].added.call_id
    BY <1>4, <1>5, <1>10 DEF Known
  <2>2. forwarded' = AttachFunctionMetadata(p)
    BY <1>2, <1>3, <1>10 DEF Transform, ItemEvents, SummaryEvents, CallEvents, Hidden
  <2>3. forwarded' = Merge(q, call_metadata[id])
    BY <1>2, <2>1, <2>2 DEF AttachFunctionMetadata, Has, q
  <2> DEFINE m == call_metadata[id]
  <2> HIDE DEF m
  <2>4. /\ forwarded'.type = t /\ forwarded'.item_id = id
        /\ "output_index" \in DOMAIN forwarded' /\ forwarded'.output_index = i - 1
        /\ {"name", "call_id"} \subseteq DOMAIN forwarded'
        /\ forwarded'.name = plan[i].added.name /\ forwarded'.call_id = plan[i].added.call_id
    BY <1>2, <1>8, <2>1, <2>3 DEF Keeps, Merge
  <2>5. DeltaAddressed'
    BY <1>3, <2>4 DEF DeltaAddressed, Has
  <2> QED
    BY <1>3, <1>7, <2>5 DEF DeltaInv
<1>11. CASE t \notin Types
  <2>1. forwarded' \in {Nothing, p}
    BY <1>2, <1>3, <1>5, <1>11
       DEF Transform, ItemEvents, SummaryEvents, CallEvents, Hidden
  <2>2. DeltaAddressed'
    BY <1>2, <1>11, <2>1 DEF DeltaAddressed, Nothing, SummaryEvents, CallEvents
  <2> QED
    BY <1>3, <1>7, <2>2 DEF DeltaInv
<1> QED
  BY <1>9, <1>10, <1>11

\* Any other event is no delta when it leaves, and the transformer learns nothing from it.
LEMMA OtherKnown ==
  ASSUME DeltaInv, Unrelated \/ Completed
  PROVE  DeltaInv'
<1>1. PICK p : /\ p.type \in {"keepalive", "response.metadata", "response.in_progress",
                              "response.completed"}
               /\ "type" \in DOMAIN p /\ Transform(p)
  <2>1. CASE Unrelated
    BY <2>1 DEF Unrelated
  <2>2. CASE Completed
    BY <2>2 DEF Completed
  <2> QED
    BY <2>1, <2>2
<1>2. plan' = plan /\ given' = given
  BY DEF Unrelated, Completed
<1>3. UNCHANGED transformer
  BY <1>1 DEF Transform, ItemEvents
<1>4. forwarded' \in {Nothing, p, PatchCompleted(p)}
  BY <1>1 DEF Transform, ItemEvents, SummaryEvents, CallEvents
<1>5. PatchCompleted(p).type = p.type
  BY <1>1 DEF PatchCompleted, With
<1>6. DeltaAddressed'
  BY <1>1, <1>4, <1>5 DEF DeltaAddressed, Nothing, SummaryEvents, CallEvents
<1>7. ASSUME NEW j \in DOMAIN plan, Known(j) PROVE Known(j)'
  BY <1>2, <1>3, <1>7 DEF Known, transformer
<1> QED
  BY <1>2, <1>6, <1>7 DEF DeltaInv

LEMMA InitDelta == Init => DeltaInv
  BY DEF Init, DeltaInv, DeltaAddressed, Nothing, SummaryEvents, CallEvents

LEMMA DeltaStep == DeltaInv /\ [Next]_vars => DeltaInv'
<1> SUFFICES ASSUME DeltaInv, [Next]_vars PROVE DeltaInv'
  OBVIOUS
<1>1. ASSUME NEW i \in DOMAIN plan, NEW stage \in {"added", "done"}, Item(i, stage)
      PROVE  DeltaInv'
  BY <1>1, ItemKnown
<1>2. ASSUME NEW i \in DOMAIN plan, Delta(i) PROVE DeltaInv'
  BY <1>2, DeltaKnown
<1>3. ASSUME Unrelated \/ Completed PROVE DeltaInv'
  BY <1>3, OtherKnown
<1>4. CASE UNCHANGED vars
  BY <1>4 DEF vars, transformer, DeltaInv, Known, DeltaAddressed
<1> QED
  BY <1>1, <1>2, <1>3, <1>4 DEF Next

\* For every response, a delta reaches Grok with the index of its item, and an
\* argument delta with the name and the call id, in every order of the events.
THEOREM DeltasAreAddressed == Spec => []DeltaAddressed
<1>1. DeltaInv => DeltaAddressed
  BY DEF DeltaInv
<1> QED
  BY <1>1, InitDelta, DeltaStep, PTL DEF Spec

-----------------------------------------------------------------------------
(* What is shown.                                                          *)
(*                                                                         *)
(* The invariant is that items_by_index holds what Grok was shown, which   *)
(* is each announced item in the version of its last event (Sent); so a    *)
(* completed response without a list gets these versions, in the order of  *)
(* their indices, and a list of Codex is normalised to them.               *)

\* An item as it is forwarded at that stage.
Sent(planned, stage) ==
  ItemOf([type |-> ItemEvent[stage], item |-> planned[stage]])

Given == {i \in DOMAIN plan : given[i] # "none"}

\* The two forms of a finished item that a completed response may hold.
Finished(planned) == {Sent(planned, "done"), NormalizeReasoningValue(planned.done)}

\* An event that may be forwarded.
Proper(event) ==
  /\ event.type \notin Hidden
  /\ \/ /\ event.type \in ItemEvents /\ "item" \in DOMAIN event
        /\ \E i \in DOMAIN plan, stage \in {"added", "done"} : event.item = Sent(plan[i], stage)
     \/ /\ event.type = "response.completed" /\ "item" \notin DOMAIN event
        /\ Given = DOMAIN plan
        /\ LET output == event.response.output
           IN /\ IsList(output) /\ Len(output) = Len(plan)
              /\ \A i \in DOMAIN plan :
                   given[i] = "done" /\ output[i] \in Finished(plan[i])
     \/ /\ event.type \notin ItemEvents \cup {"response.completed"}
        /\ "item" \notin DOMAIN event

MetadataSmall ==
  \A k \in DOMAIN call_metadata : DOMAIN call_metadata[k] \subseteq {"name", "call_id"}

ShownInv ==
  /\ plan \in Outputs
  /\ given \in [DOMAIN plan -> {"none", "added", "done"}]
  /\ items_by_index = shown
  /\ DOMAIN shown = {i - 1 : i \in Given}
  /\ \A i \in Given : shown[i - 1] = Sent(plan[i], given[i])
  /\ MetadataSmall
  /\ Proper(forwarded)

LEMMA PlanTyped ==
  ASSUME plan \in Outputs
  PROVE  /\ IsList(plan) /\ Len(plan) \in Nat /\ DOMAIN plan = 1 .. Len(plan)
         /\ DOMAIN plan \subseteq Nat
         /\ \A i \in DOMAIN plan : \A stage \in {"added", "done"} :
              /\ {"id", "type"} \subseteq DOMAIN plan[i][stage]
              /\ plan[i][stage].type = plan[i].added.type
              /\ IsList(Parts(plan[i][stage], "summary"))
<1>1. IsList(plan)
  BY TransformerAssumption
<1>2. Len(plan) \in Nat /\ plan = [i \in 1 .. Len(plan) |-> plan[i]]
  BY <1>1 DEF IsList
<1>3. DOMAIN plan = 1 .. Len(plan)
  BY <1>2
<1>4. ASSUME NEW i \in DOMAIN plan, NEW stage \in {"added", "done"}
      PROVE  /\ {"id", "type"} \subseteq DOMAIN plan[i][stage]
             /\ plan[i][stage].type = plan[i].added.type
             /\ IsList(Parts(plan[i][stage], "summary"))
  <2>1. plan[i][stage] \in {plan[i].added, plan[i].done}
    OBVIOUS
  <2> QED
    BY <2>1, TransformerAssumption
<1> QED
  BY <1>1, <1>2, <1>3, <1>4

LEMMA ItemShown ==
  ASSUME ShownInv, NEW i \in DOMAIN plan, NEW stage \in {"added", "done"}, Item(i, stage)
  PROVE  ShownInv'
<1> DEFINE p == [type |-> ItemEvent[stage], output_index |-> i - 1, item |-> plan[i][stage]]
<1>1. /\ p.type \in ItemEvents /\ IndexOf(p) = i - 1 /\ ItemOf(p) = Sent(plan[i], stage)
      /\ DOMAIN p = {"type", "output_index", "item"}
      /\ p.type = "response.output_item.done" <=> stage = "done"
  BY DEF ItemEvent, ItemEvents, IndexOf, Has, Sent, ItemOf
<1>2. /\ Transform(p) /\ given' = [given EXCEPT ![i] = stage] /\ plan' = plan
      /\ given[i] \notin {stage, "done"} /\ shown' = With(shown, i - 1, forwarded'.item)
  BY DEF Item
<1> HIDE DEF p
<1>3. OutputItem(p)
  BY <1>1, <1>2 DEF Transform
<1> DEFINE item == Sent(plan[i], stage)
<1>4. forwarded' = With(p, "item", item)
  BY <1>1, <1>3, OutputItemIs
<1>5. items_by_index' = Remember(i - 1, item, stage = "done")
  BY <1>1, <1>3 DEF OutputItem, ItemOf, IndexOf
<1> HIDE DEF item
<1>6. /\ forwarded'.type = p.type /\ "item" \in DOMAIN forwarded' /\ forwarded'.item = item
  BY <1>1, <1>4 DEF With
<1>7. DOMAIN plan \subseteq Nat /\ i \in Nat
  BY PlanTyped DEF ShownInv
<1>8. ASSUME stage = "added" PROVE i - 1 \notin DOMAIN shown
  <2>1. i \notin Given
    BY <1>2, <1>8 DEF ShownInv, Given
  <2>2. \A j \in Given : j \in Nat
    BY <1>7 DEF Given
  <2>3. \A j \in Given : j - 1 # i - 1
    BY <1>7, <2>1, <2>2
  <2> QED
    BY <2>3 DEF ShownInv
<1>9. items_by_index' = With(items_by_index, i - 1, item)
  BY <1>5, <1>8 DEF Remember, ShownInv
<1>10. items_by_index' = shown' /\ shown' = With(shown, i - 1, item)
  BY <1>2, <1>6, <1>9 DEF ShownInv
<1>11. Given' = Given \cup {i} /\ given' \in [DOMAIN plan -> {"none", "added", "done"}]
  BY <1>2 DEF Given, ShownInv
<1>12. DOMAIN shown' = {j - 1 : j \in Given'}
  BY <1>10, <1>11 DEF With, ShownInv
<1>14. ASSUME NEW j \in Given' PROVE shown'[j - 1] = Sent(plan[j], given'[j])
  <2>1. j \in Nat /\ j \in DOMAIN plan
    BY <1>7, <1>11, <1>14 DEF Given
  <2>2. CASE j = i
    <3>1. given'[j] = stage /\ shown'[j - 1] = item
      BY <1>2, <1>10, <2>2 DEF With, ShownInv
    <3> QED
      BY <2>2, <3>1 DEF item
  <2>3. CASE j # i
    <3>1. j \in Given /\ given'[j] = given[j] /\ given[j] \in {"added", "done"}
      BY <1>2, <1>11, <2>1, <2>3 DEF Given, ShownInv
    <3>2. j - 1 # i - 1 /\ j - 1 \in DOMAIN shown
      BY <1>7, <2>1, <2>3, <3>1 DEF ShownInv
    <3>3. shown'[j - 1] = shown[j - 1]
      BY <1>10, <3>2 DEF With
    <3>4. shown[j - 1] = Sent(plan[j], given[j])
      BY <3>1 DEF ShownInv
    <3> QED
      BY <3>1, <3>3, <3>4
  <2> QED
    BY <2>2, <2>3
<1>15. Proper(forwarded)'
  <2>1. forwarded'.type \notin Hidden /\ forwarded'.type \in ItemEvents
    BY <1>1, <1>6 DEF Hidden, ItemEvents
  <2>2. forwarded'.item = Sent(plan[i], stage)
    BY <1>6 DEF item
  <2> QED
    BY <1>2, <1>6, <2>1, <2>2 DEF Proper
<1>16. MetadataSmall'
  <2> DEFINE new == [k \in MetadataKeys(ItemOf(p)) |-> MetadataOf(ItemOf(p))]
  <2>1. \A k \in DOMAIN new : DOMAIN new[k] \subseteq {"name", "call_id"}
    BY DEF MetadataOf
  <2>2. call_metadata' \in {call_metadata, Merge(new, call_metadata)}
    BY <1>3, OutputItemIs
  <2> HIDE DEF new
  <2>3. \A k \in DOMAIN Merge(new, call_metadata) :
          DOMAIN Merge(new, call_metadata)[k] \subseteq {"name", "call_id"}
    BY <2>1 DEF Merge, ShownInv, MetadataSmall
  <2> QED
    BY <2>2, <2>3 DEF ShownInv, MetadataSmall
<1> QED
  BY <1>2, <1>10, <1>11, <1>12, <1>14, <1>15, <1>16 DEF ShownInv

\* An event that is neither of an item nor the last one holds no item when it leaves.
LEMMA OtherShown ==
  ASSUME ShownInv, Unrelated \/ \E i \in DOMAIN plan : Delta(i)
  PROVE  ShownInv'
<1>1. PICK p : /\ {"type"} \subseteq DOMAIN p
               /\ DOMAIN p \subseteq {"type", "item_id", "output_index"}
               /\ p.type \notin ItemEvents \cup {"response.completed"}
               /\ Transform(p)
  <2>1. CASE Unrelated
    <3>1. PICK t \in {"keepalive", "response.metadata", "response.in_progress"} :
            Transform([type |-> t])
      BY <2>1 DEF Unrelated
    <3>2. [type |-> t].type = t /\ DOMAIN [type |-> t] = {"type"}
      OBVIOUS
    <3> QED
      BY <3>1, <3>2 DEF ItemEvents
  <2>2. ASSUME NEW i \in DOMAIN plan, Delta(i)
        PROVE  \E p : /\ {"type"} \subseteq DOMAIN p
                      /\ DOMAIN p \subseteq {"type", "item_id", "output_index"}
                      /\ p.type \notin ItemEvents \cup {"response.completed"}
                      /\ Transform(p)
    <3>1. PICK t \in DeltaTypes(plan[i].added), x \in {<<>>, [output_index |-> i - 1]} :
            Transform(Merge([type |-> t, item_id |-> plan[i].added.id], x))
      BY <2>2 DEF Delta
    <3>2. t \notin ItemEvents \cup {"response.completed"}
      BY <3>1 DEF DeltaTypes, ItemEvents, SummaryEvents, CallEvents
    <3> DEFINE o == [type |-> t, item_id |-> plan[i].added.id]
               p == Merge(o, x)
    <3>3. DOMAIN o = {"type", "item_id"} /\ o.type = t /\ DOMAIN x \subseteq {"output_index"}
      BY <3>1
    <3> HIDE DEF o
    <3>4. p.type = t /\ DOMAIN p = DOMAIN o \cup DOMAIN x
      BY <3>3 DEF Merge
    <3> HIDE DEF p
    <3>5. Transform(p)
      BY <3>1 DEF p, o
    <3>6. /\ {"type"} \subseteq DOMAIN p
          /\ DOMAIN p \subseteq {"type", "item_id", "output_index"}
      BY <3>3, <3>4
    <3> QED
      BY <3>2, <3>4, <3>5, <3>6
  <2> QED
    BY <2>1, <2>2
<1>2. UNCHANGED <<items_by_index, call_metadata, plan, given, shown>>
  BY <1>1 DEF Transform, transformer, Unrelated, Delta
<1>3. /\ p.type \in Hidden => forwarded' = Nothing
      /\ p.type \notin Hidden =>
           forwarded' \in {p, AttachIndex(p), AttachFunctionMetadata(p)}
  BY <1>1 DEF Transform, Hidden, SummaryEvents, CallEvents
<1>4. AttachIndex(p).type = p.type /\ {"item"} \cap DOMAIN AttachIndex(p) = {}
      /\ "type" \in DOMAIN AttachIndex(p)
  BY <1>1 DEF AttachIndex, Default, With, Has
<1>5. /\ AttachFunctionMetadata(p).type = p.type
      /\ "item" \notin DOMAIN AttachFunctionMetadata(p)
  <2>1. CASE AttachFunctionMetadata(p) = AttachIndex(p)
    BY <1>4, <2>1
  <2>2. CASE AttachFunctionMetadata(p) # AttachIndex(p)
    <3>1. /\ p.item_id \in DOMAIN call_metadata
          /\ AttachFunctionMetadata(p) = Merge(AttachIndex(p), call_metadata[p.item_id])
      BY <2>2 DEF AttachFunctionMetadata
    <3>2. DOMAIN call_metadata[p.item_id] \subseteq {"name", "call_id"}
      BY <3>1 DEF ShownInv, MetadataSmall
    <3> QED
      BY <1>4, <3>1, <3>2 DEF Merge
  <2> QED
    BY <2>1, <2>2
<1>6. Proper(forwarded)'
  <2>1. CASE p.type \in Hidden
    BY <1>3, <2>1 DEF Proper, Nothing, Hidden, ItemEvents
  <2>2. CASE p.type \notin Hidden
    <3>1. forwarded'.type = p.type /\ "item" \notin DOMAIN forwarded'
      BY <1>1, <1>3, <1>4, <1>5, <2>2
    <3> QED
      BY <1>1, <2>2, <3>1 DEF Proper
  <2> QED
    BY <2>1, <2>2
<1> QED
  BY <1>2, <1>6 DEF ShownInv, Given, MetadataSmall

\* The completed event leaves with every item in one of its finished forms.
LEMMA CompletedShown ==
  ASSUME ShownInv, Completed
  PROVE  ShownInv'
<1> DEFINE n == Len(plan)
           theirs == [i \in DOMAIN plan |-> plan[i].done]
<1>1. PICK output \in {<<>>, theirs} :
        Transform([type |-> "response.completed", response |-> [output |-> output]])
  BY DEF Completed
<1> DEFINE p == [type |-> "response.completed", response |-> [output |-> output]]
           mine == IF output = <<>> THEN Pick(items_by_index, DOMAIN items_by_index)
                                    ELSE MapSeq(NormalizeReasoningValue, output)
<1>2. UNCHANGED <<items_by_index, call_metadata, plan, given, shown>>
  BY <1>1 DEF Completed, Transform, transformer, ItemEvents
<1>3. forwarded' = PatchCompleted(p)
  BY <1>1 DEF Transform, ItemEvents, Hidden, SummaryEvents, CallEvents
<1>4. /\ forwarded'.type = "response.completed" /\ "item" \notin DOMAIN forwarded'
      /\ forwarded'.response.output = mine
  BY <1>3 DEF PatchCompleted, With
<1>5. n \in Nat /\ DOMAIN plan = 1 .. n /\ DOMAIN theirs = 1 .. n
  BY PlanTyped DEF ShownInv
<1>6. Given = DOMAIN plan /\ \A i \in DOMAIN plan : given[i] = "done"
  BY DEF Completed, Given, ShownInv
<1> DEFINE I == DOMAIN items_by_index
           f == [k \in 1 .. n |-> k - 1]
<1>7. /\ IsList(Pick(items_by_index, I)) /\ Len(Pick(items_by_index, I)) = n
      /\ \A k \in 1 .. n : Pick(items_by_index, I)[k] = Sent(plan[k], "done")
  <2>1. I = {k - 1 : k \in 1 .. n}
    BY <1>5, <1>6 DEF ShownInv
  <2>2. \A k \in 1 .. n : f[k] = k - 1 /\ k - 1 \in I
    BY <2>1
  <2>3. /\ f \in [1 .. n -> I]
        /\ \A k, l \in 1 .. n : k < l => f[k] < f[l]
        /\ \A i \in I : \E k \in 1 .. n : f[k] = i
    BY <1>5, <2>1
  <2>4. I \in SUBSET Nat
    BY <1>5, <2>1
  <2> HIDE DEF I, f, n
  <2>5. /\ IsList(Pick(items_by_index, I)) /\ Len(Pick(items_by_index, I)) = n
        /\ \A k \in 1 .. n : Pick(items_by_index, I)[k] = items_by_index[f[k]]
    BY <1>5, <2>3, <2>4, PickBy
  <2>6. \A k \in 1 .. n : items_by_index[k - 1] = Sent(plan[k], "done")
    BY <1>5, <1>6 DEF ShownInv
  <2> QED
    BY <2>2, <2>5, <2>6
<1> HIDE DEF I, n
<1>8. /\ IsList(mine) /\ Len(mine) = n
      /\ \A k \in 1 .. n : mine[k] \in Finished(plan[k])
  <2>1. CASE output = <<>>
    BY <1>7, <2>1 DEF Finished, I
  <2>2. CASE output # <<>>
    <3>1. output = theirs /\ Len(output) = n
      BY <1>5, <2>2
    <3>2. mine = [k \in 1 .. n |-> NormalizeReasoningValue(output[k])]
      BY <2>2, <3>1 DEF MapSeq
    <3>3. IsList(mine) /\ Len(mine) = n
      BY <1>5, <3>2 DEF IsList
    <3>4. \A k \in 1 .. n : mine[k] = NormalizeReasoningValue(plan[k].done)
      BY <1>5, <3>1, <3>2
    <3> QED
      BY <3>3, <3>4 DEF Finished
  <2> QED
    BY <2>1, <2>2
<1> HIDE DEF mine
<1>9. Proper(forwarded)'
  <2>1. "response.completed" \notin Hidden
    BY DEF Hidden
  <2>2. Given' = DOMAIN plan'
    BY <1>2, <1>6 DEF Given
  <2> QED
    BY <1>2, <1>4, <1>5, <1>6, <1>8, <2>1, <2>2 DEF Proper, n
<1> QED
  BY <1>2, <1>9 DEF ShownInv, Given, MetadataSmall

LEMMA InitShown == Init => ShownInv
<1> SUFFICES ASSUME Init PROVE ShownInv
  OBVIOUS
<1>1. /\ plan \in Outputs /\ given = [i \in DOMAIN plan |-> "none"]
      /\ items_by_index = <<>> /\ shown = <<>> /\ call_metadata = <<>> /\ forwarded = Nothing
  BY DEF Init
<1>2. Given = {}
  BY <1>1 DEF Given
<1>3. MetadataSmall
  BY <1>1 DEF MetadataSmall
<1>4. Proper(forwarded)
  BY <1>1 DEF Proper, Nothing, Hidden, ItemEvents
<1> QED
  BY <1>1, <1>2, <1>3, <1>4 DEF ShownInv

LEMMA ShownStep == ShownInv /\ [Next]_vars => ShownInv'
<1> SUFFICES ASSUME ShownInv, [Next]_vars PROVE ShownInv'
  OBVIOUS
<1>1. ASSUME NEW i \in DOMAIN plan, NEW stage \in {"added", "done"}, Item(i, stage)
      PROVE  ShownInv'
  BY <1>1, ItemShown
<1>2. ASSUME NEW i \in DOMAIN plan, Delta(i) PROVE ShownInv'
  BY <1>2, OtherShown
<1>3. CASE Unrelated
  BY <1>3, OtherShown
<1>4. CASE Completed
  BY <1>4, CompletedShown
<1>5. CASE UNCHANGED vars
  BY <1>5 DEF vars, transformer, ShownInv, Given, MetadataSmall, Proper
<1> QED
  BY <1>1, <1>2, <1>3, <1>4, <1>5 DEF Next

-----------------------------------------------------------------------------
(* What a finished item says *)

LEMMA CoreSame ==
  ASSUME plan \in Outputs, NEW i \in DOMAIN plan, NEW item \in Finished(plan[i])
  PROVE  Without(item, {"status", "arguments"}) =
           Without(Sent(plan[i], "done"), {"status", "arguments"})
<1> DEFINE done == plan[i].done
           sent == Sent(plan[i], "done")
           Core(o) == Without(o, {"status", "arguments"})
<1>1. CASE item = sent
  BY <1>1
<1>2. CASE item = NormalizeReasoningValue(done) /\ Type(done) = "function_call"
  <2>1. item = done
    BY <1>2 DEF NormalizeReasoningValue
  <2>2. sent = Default(Default(done, "status", "completed"), "arguments", "")
    BY <1>2 DEF Sent, ItemOf, ItemEvent
  <2>3. ASSUME NEW o, NEW f \in {"status", "arguments"}, NEW v
        PROVE  Core(Default(o, f, v)) = Core(o)
    <3>1. CASE f \in DOMAIN o
      BY <3>1 DEF Default, Has
    <3>2. CASE f \notin DOMAIN o
      <4>1. Default(o, f, v) = With(o, f, v)
        BY <3>2 DEF Default, Has
      <4> DEFINE w == With(o, f, v)
      <4>2. DOMAIN w = DOMAIN o \cup {f} /\ \A g \in DOMAIN o : w[g] = o[g]
        BY <3>2 DEF With
      <4> HIDE DEF w
      <4>3. DOMAIN w \ {"status", "arguments"} = DOMAIN o \ {"status", "arguments"}
        BY <4>2
      <4> QED
        BY <4>1, <4>2, <4>3 DEF Without, w
    <3> QED
      BY <3>1, <3>2
  <2>4. Core(sent) = Core(done)
    <3> DEFINE d == Default(done, "status", "completed")
    <3>1. Core(d) = Core(done)
      BY <2>3
    <3> HIDE DEF d
    <3>2. Core(Default(d, "arguments", "")) = Core(d)
      BY <2>3
    <3> QED
      BY <2>2, <3>1, <3>2 DEF d
  <2> QED
    BY <2>1, <2>4 DEF Core
<1>3. CASE item = NormalizeReasoningValue(done) /\ Type(done) # "function_call"
  BY <1>3 DEF Sent, ItemOf
<1> QED
  BY <1>1, <1>2, <1>3 DEF Finished

\* For every response, the completed event that reaches Grok holds each item once,
\* in order, as Grok was shown it last.
THEOREM CompletedEventIsWhole == Spec => []CompletedIsWhole
<1>1. ShownInv => CompletedIsWhole
  <2> SUFFICES ASSUME ShownInv, forwarded.type = "response.completed"
               PROVE  LET output == forwarded.response.output
                          Core(item) == Without(item, {"status", "arguments"})
                      IN /\ Len(output) = Len(plan)
                         /\ \A i \in DOMAIN plan : Core(output[i]) = Core(shown[i - 1])
    BY DEF CompletedIsWhole
  <2>1. /\ Given = DOMAIN plan /\ Len(forwarded.response.output) = Len(plan)
        /\ \A i \in DOMAIN plan :
             given[i] = "done" /\ forwarded.response.output[i] \in Finished(plan[i])
    BY DEF ShownInv, Proper, ItemEvents
  <2>2. \A i \in DOMAIN plan : shown[i - 1] = Sent(plan[i], "done")
    BY <2>1 DEF ShownInv
  <2>3. plan \in Outputs
    BY DEF ShownInv
  <2> QED
    BY <2>1, <2>2, <2>3, CoreSame
<1> QED
  BY <1>1, InitShown, ShownStep, PTL DEF Spec

\* A normalised reasoning item has lost its thought and nothing else.
LEMMA Normalised ==
  ASSUME NEW o, IsList(Parts(o, "summary"))
  PROVE  LET item == NormalizeReasoningItem(o)
         IN /\ item.content = Arr(<<>>)
            /\ \A k \in DOMAIN item.summary.parts :
                 item.summary.parts[k].fields.type = "summary_text"
            /\ Without(item, {"content", "summary"}) = Without(o, {"content", "summary"})
            /\ MapSeq(SummaryText, Keep(Parts(item, "summary"), IsSummary)) =
                 MapSeq(SummaryText, Keep(Parts(o, "summary"), IsSummary))
<1> DEFINE item == NormalizeReasoningItem(o)
           kept == Keep(Parts(o, "summary"), IsSummary)
           parts == MapSeq(SummaryPart, kept)
           front == [content |-> Arr(<<>>), summary |-> Arr(parts)]
<1>1. item = Merge(front, o)
  BY DEF NormalizeReasoningItem
<1>2. /\ DOMAIN front = {"content", "summary"}
      /\ front.content = Arr(<<>>) /\ front.summary = Arr(parts)
  OBVIOUS
<1> HIDE DEF front, item, kept
<1>3. /\ DOMAIN item = {"content", "summary"} \cup DOMAIN o
      /\ item.content = Arr(<<>>) /\ item.summary = Arr(parts)
      /\ \A x \in DOMAIN o \ {"content", "summary"} : item[x] = o[x]
  <2>1. /\ DOMAIN Merge(front, o) = DOMAIN front \cup DOMAIN o
        /\ \A x \in DOMAIN front : Merge(front, o)[x] = front[x]
        /\ \A x \in DOMAIN o \ DOMAIN front : Merge(front, o)[x] = o[x]
    BY MergeIs, Zenon
  <2> QED
    BY <1>1, <1>2, <2>1
<1>4. Without(item, {"content", "summary"}) = Without(o, {"content", "summary"})
  <2>1. DOMAIN item \ {"content", "summary"} = DOMAIN o \ {"content", "summary"}
    BY <1>3
  <2> QED
    BY <1>3, <2>1 DEF Without
<1>5. IsList(kept)
  <2> DEFINE I == Where(Parts(o, "summary"), IsSummary)
             n == Len(Parts(o, "summary"))
  <2>1. n \in Nat /\ I \subseteq 1 .. n
    BY DEF IsList, Where
  <2>2. IsFiniteSet(1 .. n) /\ 1 .. n \subseteq Nat
    BY <2>1, FS_Interval
  <2>3. IsFiniteSet(I) /\ I \in SUBSET Nat
    BY <2>1, <2>2, FS_Subset
  <2> HIDE DEF I
  <2>4. IsList(Pick(Parts(o, "summary"), I))
    BY <2>3, PickIs
  <2> QED
    BY <2>4 DEF kept, Keep, I
<1> DEFINE n == Len(kept)
<1>6. n \in Nat
  BY <1>5 DEF IsList
<1> HIDE DEF n
<1>7. /\ parts = [k \in 1 .. n |-> SummaryPart(kept[k])]
      /\ IsList(parts) /\ Len(parts) = n /\ DOMAIN parts = 1 .. n
  BY <1>6 DEF MapSeq, IsList, n
<1> HIDE DEF parts
<1>8. \A k \in 1 .. n : parts[k] = SummaryPart(kept[k])
  BY <1>7
<1>9. ASSUME NEW p
      PROVE  /\ SummaryPart(p).fields.type = "summary_text" /\ IsSummary(SummaryPart(p))
             /\ SummaryText(SummaryPart(p)) = SummaryText(p)
  <2> DEFINE t == SummaryText(p)
             q == Obj([type |-> "summary_text", text |-> t])
  <2>1. SummaryPart(p) = q
    BY DEF SummaryPart
  <2> HIDE DEF t
  <2>2. /\ q.kind = "object" /\ q.fields.type = "summary_text" /\ q.fields.text = t
        /\ DOMAIN q.fields = {"type", "text"}
    BY DEF Obj
  <2> HIDE DEF q
  <2>3. IsSummary(q) /\ SummaryText(q) = t
    BY <2>2 DEF IsSummary, SummaryText, Type, Has
  <2> QED
    BY <2>1, <2>2, <2>3 DEF t
<1>10. item.summary.parts = parts /\ Parts(item, "summary") = parts
  BY <1>3 DEF Parts, Has, Arr
<1>11. \A k \in DOMAIN item.summary.parts : item.summary.parts[k].fields.type = "summary_text"
  BY <1>7, <1>8, <1>9, <1>10
<1>12. Keep(parts, IsSummary) = parts
  <2>1. Where(parts, IsSummary) = 1 .. n
    BY <1>7, <1>8, <1>9 DEF Where
  <2>2. Pick(parts, 1 .. n) = [k \in 1 .. n |-> parts[k]]
    BY <1>6, PickAll
  <2> QED
    BY <1>7, <2>1, <2>2 DEF Keep, IsList
<1>13. MapSeq(SummaryText, parts) = MapSeq(SummaryText, kept)
  BY <1>7, <1>8, <1>9 DEF MapSeq, n
<1>14. MapSeq(SummaryText, Keep(Parts(item, "summary"), IsSummary)) =
         MapSeq(SummaryText, Keep(Parts(o, "summary"), IsSummary))
  BY <1>10, <1>12, <1>13 DEF kept
<1> QED
  BY <1>3, <1>4, <1>11, <1>14 DEF item

\* For every response, what Grok is sent of a reasoning item is the item of Codex
\* without its thought.
THEOREM ThoughtsAreDropped == Spec => []ThoughtsStayBehind
<1> DEFINE Dropped(item) ==
      Type(item) = "reasoning" =>
        /\ item.content = Arr(<<>>)
        /\ \A k \in DOMAIN item.summary.parts :
             item.summary.parts[k].fields.type = "summary_text"
        /\ \E i \in DOMAIN plan, stage \in {"added", "done"} :
             /\ Without(item, {"content", "summary"}) =
                  Without(plan[i][stage], {"content", "summary"})
             /\ MapSeq(SummaryText, Keep(Parts(item, "summary"), IsSummary)) =
                  MapSeq(SummaryText, Keep(Parts(plan[i][stage], "summary"), IsSummary))
<1>1. ASSUME ShownInv, NEW i \in DOMAIN plan, NEW stage \in {"added", "done"}, NEW item,
             item \in {Sent(plan[i], stage), NormalizeReasoningValue(plan[i][stage])}
      PROVE  Dropped(item)
  <2> DEFINE o == plan[i][stage]
  <2> SUFFICES ASSUME Type(item) = "reasoning" PROVE Dropped(item)
    OBVIOUS
  <2>1. /\ {"id", "type"} \subseteq DOMAIN o /\ Type(o) = o.type
        /\ IsList(Parts(o, "summary"))
    BY <1>1, PlanTyped DEF ShownInv, Type, Has
  <2>2. o.type = "reasoning"
    <3>1. CASE item = Sent(plan[i], stage)
      <4> DEFINE p == [type |-> ItemEvent[stage], item |-> o]
      <4>1. p.item = o
        OBVIOUS
      <4>2. item = ItemOf(p)
        BY <3>1 DEF Sent
      <4> HIDE DEF p, o
      <4>3. "type" \in DOMAIN item /\ item.type = o.type
        BY <2>1, <4>1, <4>2, ItemOfKeeps
      <4> QED
        BY <4>3 DEF Type, Has
    <3>2. CASE item = NormalizeReasoningValue(o) /\ item # Sent(plan[i], stage)
      <4>1. Type(o) # "reasoning" => item = o
        BY <3>2 DEF NormalizeReasoningValue
      <4> QED
        BY <2>1, <4>1
    <3> QED
      BY <1>1, <3>1, <3>2
  <2>3. item = NormalizeReasoningItem(o)
    BY <1>1, <2>1, <2>2 DEF Sent, ItemOf, NormalizeReasoningValue
  <2> HIDE DEF o
  <2>4. /\ item.content = Arr(<<>>)
        /\ \A k \in DOMAIN item.summary.parts :
             item.summary.parts[k].fields.type = "summary_text"
        /\ Without(item, {"content", "summary"}) = Without(o, {"content", "summary"})
        /\ MapSeq(SummaryText, Keep(Parts(item, "summary"), IsSummary)) =
             MapSeq(SummaryText, Keep(Parts(o, "summary"), IsSummary))
    BY <2>1, <2>3, Normalised
  <2> QED
    BY <2>4 DEF o
<1>2. ShownInv => ThoughtsStayBehind
  <2> SUFFICES ASSUME ShownInv
               PROVE  /\ forwarded.type \notin Hidden
                      /\ \A n \in DOMAIN ItemsOf(forwarded) : Dropped(ItemsOf(forwarded)[n])
    BY DEF ThoughtsStayBehind
  <2> HIDE DEF Dropped
  <2>1. forwarded.type \notin Hidden
    BY DEF ShownInv, Proper
  <2>2. CASE forwarded.type \in ItemEvents
    <3>1. PICK i \in DOMAIN plan, stage \in {"added", "done"} :
            "item" \in DOMAIN forwarded /\ forwarded.item = Sent(plan[i], stage)
      BY <2>2 DEF ShownInv, Proper, ItemEvents
    <3>2. Dropped(forwarded.item)
      BY <1>1, <3>1
    <3>3. ItemsOf(forwarded) = <<forwarded.item>>
      BY <2>2, <3>1 DEF ItemsOf, Has, ItemEvents
    <3> QED
      BY <2>1, <3>2, <3>3
  <2>3. CASE forwarded.type = "response.completed"
    <3> DEFINE output == forwarded.response.output
    <3>1. /\ "item" \notin DOMAIN forwarded /\ IsList(output) /\ Len(output) = Len(plan)
          /\ \A i \in DOMAIN plan : output[i] \in Finished(plan[i])
      BY <2>3 DEF ShownInv, Proper, ItemEvents
    <3>2. ItemsOf(forwarded) = output /\ DOMAIN output = DOMAIN plan
      BY <2>3, <3>1, PlanTyped DEF ItemsOf, Has, IsList, ShownInv
    <3>3. \A i \in DOMAIN plan : Dropped(output[i])
      BY <1>1, <3>1 DEF Finished
    <3> QED
      BY <2>1, <3>2, <3>3
  <2>4. CASE forwarded.type \notin ItemEvents \cup {"response.completed"}
    <3>1. ItemsOf(forwarded) = <<>>
      BY <2>4 DEF ItemsOf, Has, ShownInv, Proper
    <3> QED
      BY <2>1, <3>1
  <2> QED
    BY <2>2, <2>3, <2>4
<1> QED
  BY <1>2, InitShown, ShownStep, PTL DEF Spec

-----------------------------------------------------------------------------
(* The items of a conversation *)

\* What the transformer may add to a finished item, and what it leaves as it is.
Follows(done, item) ==
  /\ DOMAIN done \subseteq DOMAIN item
  /\ DOMAIN item \subseteq DOMAIN done \cup {"content", "summary", "status", "arguments"}
  /\ \A f \in DOMAIN done \ {"content", "summary"} : item[f] = done[f]
  /\ Type(done) \notin {"reasoning", "function_call"} => item = done

LEMMA FollowsType ==
  ASSUME NEW done, NEW item, Follows(done, item)
  PROVE  Type(item) = Type(done) /\ Role(item) = Role(done)
  BY DEF Follows, Type, Role, Has

LEMMA ReasoningFollows ==
  ASSUME NEW done, Type(done) = "reasoning"
  PROVE  Follows(done, NormalizeReasoningItem(done))
<1>1. PICK front :
        /\ NormalizeReasoningItem(done) = Merge(front, done)
        /\ DOMAIN front = {"content", "summary"}
  <2> DEFINE s == Arr(MapSeq(SummaryPart, Keep(Parts(done, "summary"), IsSummary)))
             f == [content |-> Arr(<<>>), summary |-> s]
  <2>1. NormalizeReasoningItem(done) = Merge(f, done)
    BY DEF NormalizeReasoningItem
  <2> HIDE DEF s
  <2>2. DOMAIN f = {"content", "summary"}
    OBVIOUS
  <2> HIDE DEF f
  <2> QED
    BY <2>1, <2>2
<1>4. PICK item : item = Merge(front, done)
  OBVIOUS
<1>5. DOMAIN item = DOMAIN front \cup DOMAIN done /\ \A x \in DOMAIN done \ DOMAIN front : item[x] = done[x]
  <2>1. /\ DOMAIN Merge(front, done) = DOMAIN front \cup DOMAIN done
        /\ \A x \in DOMAIN done \ DOMAIN front : Merge(front, done)[x] = done[x]
    BY MergeIs, Zenon
  <2> QED
    BY ONLY <1>4, <2>1
<1>6. Follows(done, item)
  BY ONLY <1>1, <1>5, Type(done) = "reasoning" DEF Follows
<1> QED
  BY <1>1, <1>4, <1>6

LEMMA FinishedFollows ==
  ASSUME NEW planned, NEW item \in Finished(planned)
  PROVE  Follows(planned.done, item)
<1>1. PICK done : done = planned.done
  OBVIOUS
<1>2. CASE Type(done) = "reasoning"
  <2>1. item = NormalizeReasoningItem(done)
    BY <1>1, <1>2 DEF Finished, Sent, ItemOf, NormalizeReasoningValue
  <2> QED
    BY <1>1, <1>2, <2>1, ReasoningFollows
<1>3. CASE Type(done) = "function_call"
  <2>1. PICK named : named = Default(done, "status", "completed")
    OBVIOUS
  <2>2. item = done \/ item = Default(named, "arguments", "")
    BY <1>1, <1>3, <2>1 DEF Finished, Sent, ItemOf, NormalizeReasoningValue, ItemEvent
  <2>3. Grows(done, named, {"status"}) /\ Grows(named, Default(named, "arguments", ""), {"arguments"})
    BY <2>1, DefaultGrows
  <2>4. PICK whole : whole = Default(named, "arguments", "")
    OBVIOUS
  <2>5. Follows(done, whole)
    BY ONLY <1>3, <2>3, <2>4 DEF Grows, Follows
  <2>6. Follows(done, done)
    BY DEF Follows
  <2> QED
    BY <1>1, <2>2, <2>4, <2>5, <2>6
<1>4. CASE Type(done) \notin {"reasoning", "function_call"}
  <2>1. item = done
    BY <1>1, <1>4 DEF Finished, Sent, ItemOf, NormalizeReasoningValue
  <2> QED
    BY <1>1, <2>1 DEF Follows
<1> QED
  BY <1>2, <1>3, <1>4

\* The items of the history after the system message, with what was issued.
Remembered(h, known) ==
  \/ /\ Type(h) = "reasoning" /\ Role(h) = ""
     /\ Replayable(h) /\ <<h.id, h.encrypted_content>> \in known
  \/ IsCall(h) /\ Role(h) = "" /\ Has(h, "call_id") /\ h.call_id # NULL
  \/ Type(h) = "function_call_output" /\ Role(h) = "" /\ Has(h, "call_id")
  \/ /\ Type(h) \notin {"reasoning", "function_call", "function_call_output"}
     /\ Role(h) \in {"user", "assistant"} /\ Has(h, "content") /\ IsContent(h.content)
     /\ Role(h) = "user" => h.content.kind = "string"

LEMMA LabelsIs ==
  ASSUME NEW s
  PROVE  Labels(s) = [n \in 1 .. Len(s) |-> Label(s[n])]
  BY DEF Labels, MapSeq

LEMMA LabelSame ==
  ASSUME NEW i, NEW j, Type(i) = Type(j),
         Type(i) = "reasoning" => i.id = j.id,
         Type(i) \in {"function_call", "function_call_output"} => i.call_id = j.call_id,
         Type(i) \notin {"reasoning", "function_call", "function_call_output"} =>
           Role(i) = Role(j) /\ ExtractText(i) = ExtractText(j)
  PROVE  Label(i) = Label(j)
<1>1. CASE Type(i) = "reasoning"
  BY <1>1 DEF Label
<1>2. CASE Type(i) \in {"function_call", "function_call_output"}
  BY <1>2 DEF Label
<1>3. CASE Type(i) \notin {"reasoning", "function_call", "function_call_output"}
  BY <1>3 DEF Label
<1> QED
  BY <1>1, <1>2, <1>3

\* A finished item that Grok takes into the history.
LEMMA TakenIs ==
  ASSUME ConversationAssumption, turn \in 0 .. Turns, plan \in Possible(TRUE), NEW i \in DOMAIN plan,
         plan[i].done.type = "reasoning" =>
           <<plan[i].done.id, plan[i].done.encrypted_content>> \in issued,
         NEW item \in Finished(plan[i])
  PROVE  /\ Remembered(item, issued) /\ Label(item) = Label(plan[i].done)
         /\ Type(item) = Type(plan[i].done) /\ Type(item) # "function_call_output"
         /\ Type(item) = "reasoning" => item.id = plan[i].done.id
         /\ Type(item) = "function_call" => item.call_id = plan[i].done.call_id
<1>1. PICK done : done = plan[i].done
  OBVIOUS
<1>2. Follows(done, item)
  BY <1>1, FinishedFollows
<1>3. Type(item) = Type(done) /\ Role(item) = Role(done)
  BY <1>2, FollowsType
<1>4. plan \in Answers[turn] /\ (Type(done) = "reasoning" => Has(done, "encrypted_content"))
  BY <1>1 DEF Possible
<1>5. /\ plan \in Outputs
      /\ \/ done.type = "reasoning" /\ Role(done) = "" /\ done.id \in UpstreamIds
         \/ done.type = "function_call" /\ Role(done) = "" /\ done.call_id # NULL
         \/ /\ done.type = "message" /\ Role(done) = "assistant"
            /\ Has(done, "content") /\ IsContent(done.content)
      /\ Has(done, "encrypted_content") => done.encrypted_content \notin {NULL, ""}
  BY <1>1, <1>4 DEF ConversationAssumption
<1>6. /\ {"id", "type"} \subseteq DOMAIN done
      /\ done.type = "function_call" => "call_id" \in DOMAIN done
  <2>1. /\ {"id", "type"} \subseteq DOMAIN plan[i]["done"]
        /\ plan[i]["done"].type = plan[i].added.type
        /\ plan[i].added.type = "function_call" => {"name", "call_id"} \subseteq DOMAIN plan[i]["done"]
    BY <1>5, PlanIs
  <2> QED
    BY <1>1, <2>1
<1>7. Type(done) = done.type
  BY <1>6 DEF Type, Has
<1>8. CASE done.type = "reasoning"
  <2>1. /\ {"id", "encrypted_content"} \subseteq DOMAIN item
        /\ item.id = done.id /\ item.encrypted_content = done.encrypted_content
    BY ONLY <1>2, <1>4, <1>6, <1>7, <1>8 DEF Follows, Has
  <2>2. Replayable(item)
    BY ONLY <1>4, <1>5, <1>7, <1>8, <2>1 DEF Replayable, Has
  <2>3. <<item.id, item.encrypted_content>> \in issued
    BY <1>1, <1>8, <2>1
  <2>4. Label(item) = Label(done)
    BY ONLY <1>3, <1>7, <1>8, <2>1, LabelSame
  <2> QED
    BY ONLY <1>1, <1>3, <1>5, <1>7, <1>8, <2>1, <2>2, <2>3, <2>4 DEF Remembered
<1>9. CASE done.type = "function_call"
  <2>1. "call_id" \in DOMAIN item /\ item.call_id = done.call_id
    BY ONLY <1>2, <1>6, <1>9 DEF Follows
  <2>2. Label(item) = Label(done)
    BY ONLY <1>3, <1>7, <1>9, <2>1, LabelSame
  <2> QED
    BY ONLY <1>1, <1>3, <1>5, <1>7, <1>9, <2>1, <2>2 DEF Remembered, IsCall, Has
<1>10. CASE done.type = "message"
  <2>1. item = done
    BY ONLY <1>2, <1>7, <1>10 DEF Follows
  <2> QED
    BY ONLY <1>1, <1>5, <1>7, <1>10, <2>1 DEF Remembered
<1> QED
  BY ONLY <1>5, <1>8, <1>9, <1>10

-----------------------------------------------------------------------------
(* One turn *)

\* Where the calls of an answer stand, and the calls.
CallsAt(s) == {i \in 1 .. Len(s) : IsCall(s[i])}
CallsOf(s) == Pick(s, CallsAt(s))

LEMMA CallsOfIs ==
  ASSUME NEW s, IsList(s)
  PROVE  /\ CallsAt(s) \in SUBSET Nat /\ IsFiniteSet(CallsAt(s))
         /\ IsList(CallsOf(s)) /\ Len(CallsOf(s)) \in Nat
         /\ \A k \in 1 .. Len(CallsOf(s)) :
              \E i \in 1 .. Len(s) : IsCall(s[i]) /\ CallsOf(s)[k] = s[i]
<1>1. CallsAt(s) \in SUBSET (1 .. Len(s))
  BY DEF CallsAt
<1>2. CallsAt(s) \in SUBSET Nat /\ IsFiniteSet(CallsAt(s))
  BY <1>1, PositionsAre
<1>3. IsList(CallsOf(s))
  BY <1>2, PickIs DEF CallsOf
<1>4. \A k \in 1 .. Len(CallsOf(s)) : \E i \in CallsAt(s) : CallsOf(s)[k] = s[i]
  BY <1>2, PickFrom DEF CallsOf
<1> QED
  BY <1>2, <1>3, <1>4 DEF CallsAt, IsList

OutputsOf(s) == [k \in 1 .. Len(CallsOf(s)) |-> OutputOf(CallsOf(s)[k])]

LEMMA ToldIs ==
  ASSUME NEW s, IsList(s), NEW b, b = Told(s)
  PROVE  /\ IsList(b) /\ Len(b) = 1 + Len(s) + Len(CallsOf(s)) /\ b[1] = User(turn)
         /\ \A i \in 1 .. Len(s) : b[1 + i] = s[i]
         /\ \A k \in 1 .. Len(CallsOf(s)) : b[1 + Len(s) + k] = OutputOf(CallsOf(s)[k])
<1>1. PICK u, c, r : u = <<User(turn)>> /\ c = CallsOf(s) /\ r = OutputsOf(s)
  OBVIOUS
<1>2. IsList(u) /\ Len(u) = 1 /\ u[1] = User(turn)
  BY <1>1, OneIsList
<1>3. IsList(c) /\ Len(c) \in Nat
  BY <1>1, CallsOfIs
<1>4. IsList(r) /\ Len(r) = Len(c) /\ \A k \in 1 .. Len(c) : r[k] = OutputOf(c[k])
  <2>1. r = [k \in 1 .. Len(c) |-> OutputOf(c[k])]
    BY <1>1 DEF OutputsOf
  <2> QED
    BY <1>3, <2>1 DEF IsList
<1>5. b = u \o s \o r
  BY <1>1 DEF Told, OutputsOf, CallsOf, CallsAt, MapSeq, Keep, Where
<1>6. PICK v : v = u \o s
  OBVIOUS
<1>7. /\ IsList(v) /\ Len(v) = 1 + Len(s)
      /\ \A i \in 1 .. 1 : v[i] = u[i]
      /\ \A i \in 1 .. Len(s) : v[1 + i] = s[i]
  <2>1. /\ IsList(v) /\ Len(v) = Len(u) + Len(s)
        /\ \A i \in 1 .. Len(u) : v[i] = u[i]
        /\ \A i \in 1 .. Len(s) : v[Len(u) + i] = s[i]
    <3>1. IsConcat(v, u, s)
      BY <1>6 DEF IsConcat
    <3>2. IsList(u)
      BY <1>2
    <3>3. IsList(s)
      OBVIOUS
    <3> QED
      BY ONLY <3>1, <3>2, <3>3, ConcatOf
  <2> QED
    BY ONLY <1>2, <2>1
<1>8. /\ IsList(b) /\ Len(b) = Len(v) + Len(r)
      /\ \A i \in 1 .. Len(v) : b[i] = v[i]
      /\ \A i \in 1 .. Len(r) : b[Len(v) + i] = r[i]
  <2>1. IsConcat(b, v, r)
    BY ONLY <1>5, <1>6 DEF IsConcat
  <2>2. IsList(v)
    BY <1>7
  <2>3. IsList(r)
    BY <1>4
  <2> QED
    BY ONLY <2>1, <2>2, <2>3, ConcatOf
<1>9. Len(s) \in Nat
  BY DEF IsList
<1>10. b[1] = User(turn)
  BY ONLY <1>2, <1>7, <1>8, <1>9
<1>11. \A i \in 1 .. Len(s) : b[1 + i] = s[i]
  BY ONLY <1>7, <1>8, <1>9
<1>12. \A k \in 1 .. Len(c) : b[1 + Len(s) + k] = OutputOf(c[k])
  BY ONLY <1>4, <1>7, <1>8
<1> QED
  BY ONLY <1>1, <1>4, <1>7, <1>8, <1>10, <1>11, <1>12

\* Answers that say the same are told the same.
LEMMA ToldAlike ==
  ASSUME NEW x, IsList(x), NEW y, IsList(y), Len(x) = Len(y),
         \A i \in 1 .. Len(x) :
           /\ Label(x[i]) = Label(y[i]) /\ (IsCall(x[i]) <=> IsCall(y[i]))
           /\ IsCall(x[i]) => x[i].call_id = y[i].call_id
  PROVE  Labels(Told(x)) = Labels(Told(y))
<1>1. PICK c, d, a, b : c = CallsOf(x) /\ d = CallsOf(y) /\ a = Told(x) /\ b = Told(y)
  OBVIOUS
<1>2. CallsAt(x) = CallsAt(y)
  BY DEF CallsAt
<1>3. CallsAt(x) \in SUBSET Nat /\ IsFiniteSet(CallsAt(x)) /\ Len(c) \in Nat
  BY <1>1, CallsOfIs
<1>4. /\ Len(c) = Len(d)
      /\ \A k \in 1 .. Len(c) : \E i \in CallsAt(x) : c[k] = x[i] /\ d[k] = y[i]
  BY <1>1, <1>2, <1>3, PickBoth DEF CallsOf
<1>5. \A k \in 1 .. Len(c) : OutputOf(c[k]) = OutputOf(d[k])
  <2>1. \A i \in CallsAt(x) : x[i].call_id = y[i].call_id
    BY DEF CallsAt
  <2> QED
    BY ONLY <1>4, <2>1 DEF OutputOf
<1>6. /\ IsList(a) /\ Len(a) = 1 + Len(x) + Len(c) /\ a[1] = User(turn)
      /\ \A i \in 1 .. Len(x) : a[1 + i] = x[i]
      /\ \A k \in 1 .. Len(c) : a[1 + Len(x) + k] = OutputOf(c[k])
  BY <1>1, ToldIs
<1>7. /\ IsList(b) /\ Len(b) = 1 + Len(y) + Len(d) /\ b[1] = User(turn)
      /\ \A i \in 1 .. Len(y) : b[1 + i] = y[i]
      /\ \A k \in 1 .. Len(d) : b[1 + Len(y) + k] = OutputOf(d[k])
  BY <1>1, ToldIs
<1>8. Len(a) = Len(b) /\ Len(x) \in Nat
  BY <1>4, <1>6, <1>7 DEF IsList
<1>9. \A j \in 1 .. Len(a) : Label(a[j]) = Label(b[j])
  <2> SUFFICES ASSUME NEW j \in 1 .. Len(a) PROVE Label(a[j]) = Label(b[j])
    OBVIOUS
  <2>1. CASE j = 1
    BY <1>6, <1>7, <2>1
  <2>2. CASE j \in 2 .. 1 + Len(x)
    <3>1. PICK i \in 1 .. Len(x) : j = 1 + i
      <4>1. j - 1 \in 1 .. Len(x) /\ j = 1 + (j - 1)
        BY <1>8, <2>2
      <4> QED
        BY <4>1
    <3> QED
      BY <1>6, <1>7, <3>1
  <2>3. CASE j > 1 + Len(x)
    <3>1. PICK k \in 1 .. Len(c) : j = 1 + Len(x) + k
      <4>1. j - (1 + Len(x)) \in 1 .. Len(c) /\ j = 1 + Len(x) + (j - (1 + Len(x)))
        BY <1>3, <1>6, <1>8, <2>3
      <4> QED
        BY <4>1
    <3>2. a[j] = OutputOf(c[k]) /\ b[j] = OutputOf(d[k])
      BY <1>4, <1>6, <1>7, <3>1
    <3> QED
      BY <1>5, <3>2
  <2> QED
    BY <1>3, <1>6, <1>8, <2>1, <2>2, <2>3
<1>10. Labels(a) = Labels(b)
  BY ONLY <1>8, <1>9, LabelsIs
<1> QED
  BY <1>1, <1>10

-----------------------------------------------------------------------------
(* The history *)

FromAnswer(id, t) ==
  \E u \in 0 .. t - 1 : \E o \in Answers[u] : \E i \in DOMAIN o : o[i].done.id = id

HistoryInv ==
  /\ IsList(history) /\ IsList(transcript) /\ Len(history) = Len(transcript) + 1
  /\ IsSystem(history[1]) /\ Type(history[1]) = ""
  /\ \A n \in 1 .. Len(transcript) :
       Remembered(history[n + 1], issued) /\ transcript[n] = Label(history[n + 1])
  /\ \A n \in Thoughts : FromAnswer(history[n].id, turn)
  /\ \A n, m \in Thoughts : history[n].id = history[m].id => n = m
  /\ Paired(history)

\* What of the transcript comes back with this request.
Recalled(ids) == {n \in 1 .. Len(transcript) :
                    transcript[n][1] = "reasoning" => transcript[n][2] \notin ids}

Replays ==
  Labels(outcome.request.input.parts) =
    Append(Pick(transcript, Recalled(garbled)), Label(User(turn)))

\* The places of the history behind the system message.
LEMMA HistoryTyped ==
  ASSUME HistoryInv
  PROVE  /\ Len(history) \in Nat /\ Len(transcript) \in Nat /\ DOMAIN history = 1 .. Len(history)
         /\ \A n \in 2 .. Len(history) :
              Remembered(history[n], issued) /\ transcript[n - 1] = Label(history[n])
         /\ 1 \notin Thoughts /\ Thoughts = {n \in 2 .. Len(history) : Type(history[n]) = "reasoning"}
<1>1. /\ Len(history) \in Nat /\ Len(transcript) \in Nat /\ Len(history) = Len(transcript) + 1
      /\ DOMAIN history = 1 .. Len(history)
  BY DEF HistoryInv, IsList
<1>2. \A n \in 2 .. Len(history) :
        Remembered(history[n], issued) /\ transcript[n - 1] = Label(history[n])
  <2> SUFFICES ASSUME NEW n \in 2 .. Len(history)
               PROVE  Remembered(history[n], issued) /\ transcript[n - 1] = Label(history[n])
    OBVIOUS
  <2>1. n - 1 \in 1 .. Len(transcript) /\ (n - 1) + 1 = n
    BY <1>1
  <2>2. /\ Remembered(history[(n - 1) + 1], issued)
        /\ transcript[n - 1] = Label(history[(n - 1) + 1])
    BY <2>1 DEF HistoryInv
  <2> QED
    BY <2>1, <2>2
<1>3. 1 \notin Thoughts
  BY DEF Thoughts, HistoryInv
<1>4. Thoughts = {n \in 2 .. Len(history) : Type(history[n]) = "reasoning"}
  BY <1>1, <1>3 DEF Thoughts
<1> QED
  BY <1>1, <1>2, <1>3, <1>4

LEMMA RememberedStays ==
  ASSUME NEW h, NEW known, NEW more, known \subseteq more, Remembered(h, known)
  PROVE  Remembered(h, more)
  BY DEF Remembered

LEMMA OpeningHistory ==
  ASSUME Opening
  PROVE  HistoryInv
<1>1. PICK m : m = [role |-> "system", content |-> Str(<<"rules">>)]
  OBVIOUS
<1>2. history = <<m>> /\ transcript = <<>>
  BY <1>1 DEF Opening
<1>3. IsSystem(m) /\ Type(m) = ""
  BY <1>1 DEF IsSystem, Role, Type, Has
<1>4. IsList(history) /\ Len(history) = 1 /\ history[1] = m
  BY <1>2, OneIsList
<1>5. IsList(transcript) /\ Len(transcript) = 0
  BY <1>2 DEF IsList
<1>6. DOMAIN history = {1}
  BY <1>2
<1>7. Thoughts = {}
  BY <1>3, <1>4, <1>6 DEF Thoughts
<1>8. Paired(history)
  BY <1>3, <1>4, <1>6 DEF Paired
<1>9. 1 .. Len(transcript) = {} /\ Len(history) = Len(transcript) + 1
  BY <1>4, <1>5
<1> QED
  BY ONLY <1>3, <1>4, <1>5, <1>7, <1>8, <1>9, Zenon DEF HistoryInv

\* What is not touched keeps the history.
LEMMA HistoryStays ==
  ASSUME HistoryInv, UNCHANGED <<history, turn, transcript>>, issued \subseteq issued'
  PROVE  HistoryInv'
<1>1. history' = history /\ turn' = turn /\ transcript' = transcript
  OBVIOUS
<1>2. /\ IsList(history) /\ IsList(transcript) /\ Len(history) = Len(transcript) + 1
      /\ IsSystem(history[1]) /\ Type(history[1]) = "" /\ Paired(history)
  BY DEF HistoryInv
<1>3. \A n \in 1 .. Len(transcript) :
        Remembered(history[n + 1], issued') /\ transcript[n] = Label(history[n + 1])
  BY RememberedStays DEF HistoryInv
<1>4. Thoughts' = Thoughts
  BY <1>1 DEF Thoughts
<1>5. /\ \A n \in Thoughts : FromAnswer(history[n].id, turn)
      /\ \A n, m \in Thoughts : history[n].id = history[m].id => n = m
  BY DEF HistoryInv
<1> QED
  BY ONLY <1>1, <1>2, <1>3, <1>4, <1>5, Zenon DEF HistoryInv

\* What stands where in a turn.
ToldAt(s, b, j) ==
  \/ j = 1 /\ b[j] = User(turn)
  \/ \E i \in 1 .. Len(s) : j = 1 + i /\ b[j] = s[i]
  \/ \E i \in 1 .. Len(s) : 1 + i < j /\ IsCall(s[i]) /\ b[j] = OutputOf(s[i])

LEMMA ToldEach ==
  ASSUME NEW s, IsList(s), NEW b, b = Told(s), NEW j \in 1 .. Len(b)
  PROVE  ToldAt(s, b, j)
<1>1. PICK c : c = CallsOf(s)
  OBVIOUS
<1>2. /\ IsList(b) /\ Len(b) = 1 + Len(s) + Len(c) /\ b[1] = User(turn)
      /\ \A i \in 1 .. Len(s) : b[1 + i] = s[i]
      /\ \A k \in 1 .. Len(c) : b[1 + Len(s) + k] = OutputOf(c[k])
  BY <1>1, ToldIs
<1>3. Len(s) \in Nat /\ Len(c) \in Nat
  BY <1>1, CallsOfIs DEF IsList
<1>4. CASE j = 1
  BY <1>2, <1>4 DEF ToldAt
<1>5. CASE j \in 2 .. 1 + Len(s)
  <2>1. j - 1 \in 1 .. Len(s) /\ j = 1 + (j - 1)
    BY <1>3, <1>5
  <2>2. b[1 + (j - 1)] = s[j - 1]
    BY ONLY <1>2, <2>1
  <2>3. b[j] = s[j - 1]
    BY ONLY <2>1, <2>2
  <2> QED
    BY ONLY <2>1, <2>3 DEF ToldAt
<1>6. CASE j > 1 + Len(s)
  <2>1. PICK k \in 1 .. Len(c) : j = 1 + Len(s) + k
    <3>1. j - (1 + Len(s)) \in 1 .. Len(c) /\ j = 1 + Len(s) + (j - (1 + Len(s)))
      BY <1>2, <1>3, <1>6
    <3> QED
      BY ONLY <3>1
  <2>2. PICK i \in 1 .. Len(s) : IsCall(s[i]) /\ c[k] = s[i]
    BY <1>1, CallsOfIs
  <2>3. b[j] = OutputOf(s[i])
    BY <1>2, <2>1, <2>2
  <2>4. 1 + i < j
    BY ONLY <1>3, <2>1, <2>2
  <2> QED
    BY ONLY <2>2, <2>3, <2>4 DEF ToldAt
<1> QED
  BY <1>2, <1>3, <1>4, <1>5, <1>6

LEMMA QuestionIs ==
  ASSUME NEW n, NEW known
  PROVE  /\ Type(User(n)) = "" /\ Role(User(n)) = "user" /\ Remembered(User(n), known)
         /\ Kept(User(n)) /\ IsItem(User(n)) /\ User(n).content.kind = "string"
<1>1. PICK t : t = <<"question", n>>
  OBVIOUS
<1>2. PICK u : u = User(n)
  OBVIOUS
<1>3. DOMAIN u = {"role", "content"} /\ u.role = "user" /\ u.content = Str(t)
  BY <1>1, <1>2 DEF User
<1>4. IsList(t)
  BY <1>1 DEF IsList
<1>5. u.content.kind = "string" /\ u.content.text = t
  BY <1>3 DEF Str
<1>6. IsContent(u.content)
  BY <1>4, <1>5 DEF IsContent, IsValue
<1>7. Type(u) = "" /\ Role(u) = "user" /\ Has(u, "content")
  BY <1>3 DEF Type, Role, Has
<1>8. Kept(u) /\ IsItem(u)
  BY <1>6, <1>7 DEF Kept, IsSystem, IsItem
<1>9. Remembered(u, known)
  BY <1>5, <1>6, <1>7 DEF Remembered
<1> QED
  BY <1>2, <1>5, <1>7, <1>8, <1>9

LEMMA OutputOfIs ==
  ASSUME NEW call, NEW known
  PROVE  /\ Type(OutputOf(call)) = "function_call_output" /\ OutputOf(call).call_id = call.call_id
         /\ Remembered(OutputOf(call), known)
<1>1. PICK o : o = OutputOf(call)
  OBVIOUS
<1>2. /\ DOMAIN o = {"type", "call_id", "output"}
      /\ o.type = "function_call_output" /\ o.call_id = call.call_id
  BY <1>1 DEF OutputOf
<1>3. Type(o) = "function_call_output" /\ Role(o) = "" /\ Has(o, "call_id")
  BY <1>2 DEF Type, Role, Has
<1> QED
  BY <1>1, <1>2, <1>3 DEF Remembered

LEMMA AnswersDiffer ==
  ASSUME NEW t \in 0 .. Turns, NEW u \in (0 .. Turns) \ {t}, NEW o \in Answers[t], NEW i \in DOMAIN o,
         NEW q \in Answers[u], NEW k \in DOMAIN q
  PROVE  q[k].done.id # o[i].done.id
<1>1. \A v \in 0 .. Turns \ {t} : \A x \in Answers[v] : \A y \in DOMAIN x :
        x[y].done.id # o[i].done.id
  BY ConversationAssumption, Zenon
<1> QED
  BY ONLY <1>1, u \in (0 .. Turns) \ {t}, q \in Answers[u], k \in DOMAIN q, Zenon

\* No two items of the conversation share an id.
LEMMA IdsDiffer ==
  ASSUME turn \in 0 .. Turns, plan \in Answers[turn], NEW i \in DOMAIN plan
  PROVE  /\ \A k \in DOMAIN plan : plan[i].done.id = plan[k].done.id => i = k
         /\ \A id : FromAnswer(id, turn) => id # plan[i].done.id
         /\ FromAnswer(plan[i].done.id, turn + 1)
<1>1. plan \in Outputs
  BY ConversationAssumption
<1>2. \A k \in DOMAIN plan : plan[k].done.id = plan[k].added.id
  BY <1>1, TransformerAssumption
<1>3. \A k \in DOMAIN plan \ {i} : plan[k].added.id # plan[i].added.id
  BY <1>1, TransformerAssumption
<1>4. \A k \in DOMAIN plan : plan[i].done.id = plan[k].done.id => i = k
  BY <1>2, <1>3
<1>5. ASSUME NEW id, FromAnswer(id, turn) PROVE id # plan[i].done.id
  <2>1. PICK u \in 0 .. turn - 1 : \E o \in Answers[u] : \E k \in DOMAIN o : o[k].done.id = id
    BY <1>5 DEF FromAnswer
  <2>2. u \in (0 .. Turns) \ {turn}
    <3>1. Turns \in Nat
      BY ConversationAssumption
    <3>2. turn \in 0 .. Turns
      OBVIOUS
    <3> QED
      BY ONLY <2>1, <3>1, <3>2
  <2>3. \A q \in Answers[u] : \A j \in DOMAIN q : q[j].done.id # plan[i].done.id
    BY <2>2, AnswersDiffer
  <2> QED
    BY <2>1, <2>3
<1>6. FromAnswer(plan[i].done.id, turn + 1)
  <2>1. turn \in 0 .. (turn + 1) - 1
    <3>1. Turns \in Nat
      BY ConversationAssumption
    <3>2. turn \in 0 .. Turns
      OBVIOUS
    <3> QED
      BY ONLY <3>1, <3>2
  <2> QED
    BY <2>1 DEF FromAnswer
<1> QED
  BY <1>4, <1>5, <1>6

\* The history after an answer.
LEMMA AnswerHistory ==
  ASSUME turn \in 0 .. Turns, HistoryInv, plan \in Possible(TRUE), issued' = issued, turn' = turn + 1,
         \A i \in DOMAIN plan : plan[i].done.type = "reasoning" =>
           <<plan[i].done.id, plan[i].done.encrypted_content>> \in issued,
         NEW s, IsList(s), Len(s) = Len(plan), \A i \in DOMAIN plan : s[i] \in Finished(plan[i]),
         NEW d, d = [n \in DOMAIN plan |-> plan[n].done],
         history' = history \o Told(s), transcript' = transcript \o Labels(Told(d))
  PROVE  HistoryInv'
<1>1. plan \in Answers[turn] /\ plan \in Outputs /\ turn \in Nat
  <2>1. Turns \in Nat /\ plan \in Answers[turn]
    BY ConversationAssumption DEF Possible
  <2>2. plan \in Outputs
    BY <2>1, ConversationAssumption
  <2>3. turn \in 0 .. Turns
    OBVIOUS
  <2> QED
    BY ONLY <2>1, <2>2, <2>3
<1>2. DOMAIN plan = 1 .. Len(plan) /\ DOMAIN plan = 1 .. Len(s) /\ Len(plan) \in Nat
  BY <1>1, PlanTyped
<1>3. \A i \in 1 .. Len(s) :
        /\ Remembered(s[i], issued) /\ Label(s[i]) = Label(plan[i].done)
        /\ Type(s[i]) = Type(plan[i].done) /\ Type(s[i]) # "function_call_output"
        /\ Type(s[i]) = "reasoning" => s[i].id = plan[i].done.id
        /\ Type(s[i]) = "function_call" => s[i].call_id = plan[i].done.call_id
  BY <1>2, TakenIs, ConversationAssumption
<1>4. IsList(d) /\ Len(d) = Len(s) /\ \A i \in 1 .. Len(s) : d[i] = plan[i].done
  BY <1>2 DEF IsList
<1>5. Labels(Told(d)) = Labels(Told(s))
  <2>1. \A i \in 1 .. Len(s) :
          /\ Label(s[i]) = Label(d[i]) /\ (IsCall(s[i]) <=> IsCall(d[i]))
          /\ IsCall(s[i]) => s[i].call_id = d[i].call_id
    BY ONLY <1>3, <1>4, Zenon DEF IsCall
  <2>2. IsList(s)
    OBVIOUS
  <2> QED
    BY ONLY <1>4, <2>1, <2>2, ToldAlike
<1>6. PICK b : b = Told(s)
  OBVIOUS
<1>7. IsList(b) /\ Len(b) \in Nat
  BY <1>6, ToldIs DEF IsList
<1>8. \A j \in 1 .. Len(b) :
        \/ j = 1 /\ b[j] = User(turn)
        \/ \E i \in 1 .. Len(s) : j = 1 + i /\ b[j] = s[i]
        \/ \E i \in 1 .. Len(s) : 1 + i < j /\ IsCall(s[i]) /\ b[j] = OutputOf(s[i])
  <2>1. \A j \in 1 .. Len(b) : ToldAt(s, b, j)
    BY <1>6, ToldEach
  <2> QED
    BY <2>1 DEF ToldAt
<1>9. \A j \in 1 .. Len(b) : Remembered(b[j], issued)
  BY ONLY <1>3, <1>8, QuestionIs, OutputOfIs, Zenon
<1>10. PICK l : l = Labels(b)
  OBVIOUS
<1>11. IsList(l) /\ Len(l) = Len(b) /\ \A j \in 1 .. Len(b) : l[j] = Label(b[j])
  <2>1. l = [j \in 1 .. Len(b) |-> Label(b[j])]
    BY <1>10, LabelsIs
  <2> QED
    BY ONLY <1>7, <2>1 DEF IsList
<1>12. PICK h, t, m, w, N, T, B :
         /\ h = history' /\ t = transcript' /\ m = history /\ w = transcript
         /\ N = Len(history) /\ T = Len(transcript) /\ B = Len(b)
  OBVIOUS
<1>13. IsList(m) /\ IsList(w) /\ IsSystem(m[1]) /\ Type(m[1]) = ""
  BY <1>12 DEF HistoryInv
<1>0. N \in Nat /\ T \in Nat /\ N = T + 1 /\ B \in Nat
  BY <1>7, <1>12, HistoryTyped DEF HistoryInv
<1>14. /\ IsList(h) /\ Len(h) = N + B /\ \A n \in 1 .. N : h[n] = m[n]
       /\ \A j \in 1 .. B : h[N + j] = b[j]
       /\ \A n \in 1 .. Len(h) : \/ n \in 1 .. N /\ h[n] = m[n]
                                \/ \E j \in 1 .. B : n = N + j /\ h[n] = b[j]
  <2>1. IsConcat(h, m, b)
    BY <1>6, <1>12 DEF IsConcat
  <2>2. IsList(m) /\ IsList(b)
    BY <1>7, <1>13
  <2>3. /\ IsList(h) /\ Len(h) = Len(m) + Len(b) /\ \A n \in 1 .. Len(m) : h[n] = m[n]
        /\ \A j \in 1 .. Len(b) : h[Len(m) + j] = b[j]
    BY ONLY <2>1, <2>2, ConcatOf
  <2>4. \A n \in 1 .. Len(h) : \/ n \in 1 .. Len(m) /\ h[n] = m[n]
                              \/ \E j \in 1 .. Len(b) : n = Len(m) + j /\ h[n] = b[j]
    BY ONLY <2>1, <2>2, ConcatAt
  <2>5. N = Len(m) /\ B = Len(b)
    BY <1>12
  <2> QED
    BY ONLY <2>3, <2>4, <2>5, Zenon
<1>15. /\ IsList(t) /\ Len(t) = T + B
       /\ \A n \in 1 .. Len(t) : \/ n \in 1 .. T /\ t[n] = w[n]
                                \/ \E j \in 1 .. B : n = T + j /\ t[n] = Label(b[j])
  <2>1. IsConcat(t, w, l)
    BY <1>5, <1>6, <1>10, <1>12 DEF IsConcat
  <2>2. IsList(w) /\ IsList(l)
    BY <1>11, <1>13
  <2>3. IsList(t) /\ Len(t) = Len(w) + Len(l)
    BY ONLY <2>1, <2>2, ConcatOf
  <2>4. \A n \in 1 .. Len(t) : \/ n \in 1 .. Len(w) /\ t[n] = w[n]
                              \/ \E j \in 1 .. Len(l) : n = Len(w) + j /\ t[n] = l[j]
    BY ONLY <2>1, <2>2, ConcatAt
  <2>5. T = Len(w) /\ B = Len(l) /\ \A j \in 1 .. B : l[j] = Label(b[j])
    BY <1>11, <1>12
  <2> QED
    BY ONLY <2>3, <2>4, <2>5, Zenon
<1>16. PICK H, L : H = Len(h) /\ L = Len(t) /\ H = N + B /\ L = T + B /\ H = L + 1
  <2>1. N + B = (T + B) + 1
    BY ONLY <1>0
  <2> QED
    BY ONLY <1>14, <1>15, <2>1
<1>17. ASSUME NEW n \in 1 .. Len(t) PROVE Remembered(h[n + 1], issued) /\ t[n] = Label(h[n + 1])
  <2>1. CASE n \in 1 .. T /\ t[n] = w[n]
    <3>1. n + 1 \in 1 .. N
      BY ONLY <1>0, <2>1
    <3>2. h[n + 1] = m[n + 1]
      BY ONLY <1>14, <3>1
    <3>3. Remembered(m[n + 1], issued) /\ w[n] = Label(m[n + 1])
      BY <1>12, <2>1 DEF HistoryInv
    <3> QED
      BY ONLY <2>1, <3>2, <3>3
  <2>2. ASSUME NEW j \in 1 .. B, n = T + j, t[n] = Label(b[j])
        PROVE  Remembered(h[n + 1], issued) /\ t[n] = Label(h[n + 1])
    <3>1. n + 1 = N + j
      BY ONLY <1>0, <2>2
    <3>2. h[N + j] = b[j]
      BY ONLY <1>14, <2>2
    <3>3. Remembered(b[j], issued)
      BY <1>9, <1>12, <2>2
    <3> QED
      BY ONLY <2>2, <3>1, <3>2, <3>3
  <2> QED
    BY ONLY <1>15, <1>17, <2>1, <2>2
<1>18. Thoughts' = {n \in 1 .. Len(h) : Type(h[n]) = "reasoning"}
  <2>1. DOMAIN h = 1 .. Len(h)
    BY <1>14 DEF IsList
  <2> QED
    BY <1>12, <2>1 DEF Thoughts
<1>19. ASSUME NEW n \in Thoughts'
       PROVE  \/ n \in Thoughts /\ h[n] = history[n]
              \/ \E i \in DOMAIN plan : n = N + 1 + i /\ h[n].id = plan[i].done.id
  <2>1. n \in 1 .. Len(h) /\ Type(h[n]) = "reasoning"
    BY <1>18
  <2>2. CASE n \in 1 .. N /\ h[n] = m[n]
    <3>1. n \in DOMAIN history
      BY <1>12, <1>13, <2>2 DEF IsList
    <3> QED
      BY <1>12, <2>1, <2>2, <3>1 DEF Thoughts
  <2>3. ASSUME NEW j \in 1 .. B, n = N + j, h[n] = b[j]
        PROVE  \E i \in DOMAIN plan : n = N + 1 + i /\ h[n].id = plan[i].done.id
    <3>1. j \in 1 .. Len(b) /\ Type(b[j]) = "reasoning"
      BY <1>12, <2>1, <2>3
    <3>2. PICK i \in 1 .. Len(s) : j = 1 + i /\ b[j] = s[i]
      BY ONLY <1>8, <3>1, QuestionIs, OutputOfIs, Zenon
    <3>3. i \in DOMAIN plan /\ i \in Nat
      BY <1>2
    <3>4. h[n].id = plan[i].done.id
      BY <1>3, <2>3, <3>1, <3>2
    <3>5. n = N + 1 + i
      BY ONLY <1>0, <2>3, <3>2, <3>3
    <3> QED
      BY <3>3, <3>4, <3>5
  <2> QED
    BY ONLY <1>14, <2>1, <2>2, <2>3
<1>20. ASSUME NEW n \in Thoughts' PROVE FromAnswer(h[n].id, turn + 1)
  <2>1. CASE n \in Thoughts /\ h[n] = history[n]
    <3>1. FromAnswer(history[n].id, turn)
      BY <2>1 DEF HistoryInv
    <3>2. 0 .. turn - 1 \subseteq 0 .. (turn + 1) - 1
      BY ONLY <1>1
    <3> QED
      BY <2>1, <3>1, <3>2 DEF FromAnswer
  <2>2. CASE \E i \in DOMAIN plan : n = N + 1 + i /\ h[n].id = plan[i].done.id
    BY <1>1, <2>2, IdsDiffer
  <2> QED
    BY <1>19, <2>1, <2>2
<1>21. ASSUME NEW n \in Thoughts', NEW k \in Thoughts', h[n].id = h[k].id PROVE n = k
  <2>1. \A i \in DOMAIN plan : \A x \in Thoughts : history[x].id # plan[i].done.id
    BY <1>1, IdsDiffer DEF HistoryInv
  <2>2. \A x, y \in Thoughts : history[x].id = history[y].id => x = y
    BY DEF HistoryInv
  <2>3. \A i, j \in DOMAIN plan : plan[i].done.id = plan[j].done.id => i = j
    BY <1>1, IdsDiffer
  <2>4. /\ \/ n \in Thoughts /\ h[n] = history[n]
           \/ \E i \in DOMAIN plan : n = N + 1 + i /\ h[n].id = plan[i].done.id
        /\ \/ k \in Thoughts /\ h[k] = history[k]
           \/ \E i \in DOMAIN plan : k = N + 1 + i /\ h[k].id = plan[i].done.id
    BY <1>19
  <2> QED
    BY ONLY <1>21, <2>1, <2>2, <2>3, <2>4
<1>22. Paired(h)
  <2> SUFFICES ASSUME NEW n \in DOMAIN h, Type(h[n]) = "function_call_output"
               PROVE  \E k \in 1 .. n - 1 : Type(h[k]) = "function_call" /\ h[k].call_id = h[n].call_id
    BY DEF Paired
  <2>1. n \in 1 .. Len(h)
    BY <1>14 DEF IsList
  <2>2. CASE n \in 1 .. N /\ h[n] = m[n]
    <3>1. n \in DOMAIN history
      BY <1>12, <1>13, <2>2 DEF IsList
    <3>2. PICK k \in 1 .. n - 1 : Type(m[k]) = "function_call" /\ m[k].call_id = m[n].call_id
      BY <1>12, <2>2, <3>1 DEF HistoryInv, Paired
    <3>3. k \in 1 .. N
      BY ONLY <1>0, <2>2, <3>2
    <3>4. h[k] = m[k]
      BY ONLY <1>14, <3>3
    <3> QED
      BY ONLY <2>2, <3>2, <3>4
  <2>3. ASSUME NEW j \in 1 .. B, n = N + j, h[n] = b[j]
        PROVE  \E k \in 1 .. n - 1 : Type(h[k]) = "function_call" /\ h[k].call_id = h[n].call_id
    <3>1. j \in 1 .. Len(b) /\ Type(b[j]) = "function_call_output"
      BY <1>12, <2>3
    <3>2. PICK i \in 1 .. Len(s) : 1 + i < j /\ IsCall(s[i]) /\ b[j] = OutputOf(s[i])
      BY ONLY <1>3, <1>8, <3>1, QuestionIs, Zenon
    <3>3. b[j].call_id = s[i].call_id
      BY ONLY <3>2, OutputOfIs
    <3>4. i \in Nat
      BY <1>2
    <3>5. N + (1 + i) \in 1 .. n - 1 /\ 1 + i \in 1 .. B
      BY ONLY <1>0, <2>3, <3>2, <3>4
    <3>6. h[N + (1 + i)] = b[1 + i]
      BY ONLY <1>14, <3>5
    <3>7. b[1 + i] = s[i]
      BY <1>6, <3>2, ToldIs
    <3>8. Type(h[N + (1 + i)]) = "function_call" /\ h[N + (1 + i)].call_id = h[n].call_id
      BY ONLY <2>3, <3>2, <3>3, <3>6, <3>7 DEF IsCall
    <3> QED
      BY ONLY <3>5, <3>8
  <2> QED
    BY ONLY <1>14, <2>1, <2>2, <2>3
<1>23. IsSystem(h[1]) /\ Type(h[1]) = ""
  <2>1. 1 \in 1 .. N
    BY ONLY <1>0
  <2>2. h[1] = m[1]
    BY ONLY <1>14, <2>1
  <2> QED
    BY ONLY <1>13, <2>2
<1>24. issued' = issued /\ turn' = turn + 1 /\ h = history' /\ t = transcript'
  BY <1>12
<1> QED
  BY ONLY <1>14, <1>15, <1>16, <1>17, <1>20, <1>21, <1>22, <1>23, <1>24, Zenon DEF HistoryInv

-----------------------------------------------------------------------------
(* A request *)

\* An item x that is sent for the item h of the history.
Carried(h, x) ==
  /\ Type(x) = Type(h) /\ Role(x) = Role(h)
  /\ \/ x = h
     \/ /\ IsCall(h)
        /\ \A f \in DOMAIN h \ {"id", "status", "arguments"} : f \in DOMAIN x /\ x[f] = h[f]

\* The item j of the request that comes of it.
Arrives(h, j, known) ==
  /\ Type(j) = Type(h) /\ Role(j) = Role(h) /\ Label(j) = Label(h)
  /\ Type(j) = "reasoning" => <<j.id, j.encrypted_content>> \in known
  /\ Type(j) \in {"function_call", "function_call_output"} => j.call_id = h.call_id
  /\ Type(j) = "function_call" => {"id", "status", "arguments"} \subseteq DOMAIN j
  /\ Role(j) = "user" => j.content.kind = "array"

LEMMA CarriedArrives ==
  ASSUME NEW known, NEW h, Remembered(h, known), NEW x, Carried(h, x),
         NEW j, j = NormalizeItem(x)
  PROVE  Arrives(h, j, known)
<1>1. /\ DOMAIN x \subseteq DOMAIN j /\ \A f \in DOMAIN x : f # "content" => j[f] = x[f]
      /\ Role(j) = Role(x) /\ Type(j) = Type(x) /\ Complete(j)
      /\ Speaks(x) => j.content = NewContent(Role(x), x.content)
  BY ItemIs
<1>2. Type(x) = Type(h) /\ Role(x) = Role(h)
  BY DEF Carried
<1>3. CASE Type(h) = "reasoning" /\ Role(h) = "" /\ Replayable(h)
           /\ <<h.id, h.encrypted_content>> \in known
  <2>1. x = h
    BY <1>3 DEF Carried, IsCall
  <2>2. {"id", "encrypted_content"} \subseteq DOMAIN h
    BY <1>3 DEF Replayable, Has
  <2>3. j.id = h.id /\ j.encrypted_content = h.encrypted_content
    BY ONLY <1>1, <2>1, <2>2
  <2>4. Label(j) = Label(h)
    BY ONLY <1>1, <1>2, <1>3, <2>3, LabelSame
  <2> QED
    BY ONLY <1>1, <1>2, <1>3, <2>3, <2>4 DEF Arrives
<1>4. CASE IsCall(h) /\ Role(h) = "" /\ Has(h, "call_id") /\ h.call_id # NULL
  <2>1. "call_id" \in DOMAIN x /\ x.call_id = h.call_id
    BY <1>4 DEF Carried, Has
  <2>2. "call_id" \in DOMAIN j /\ j.call_id = h.call_id
    BY ONLY <1>1, <2>1
  <2>3. {"id", "status", "arguments"} \subseteq DOMAIN j
    BY ONLY <1>1, <1>2, <1>4, <2>2 DEF Complete, Has, IsCall
  <2>4. Label(j) = Label(h)
    BY ONLY <1>1, <1>2, <1>4, <2>2, LabelSame DEF IsCall
  <2> QED
    BY ONLY <1>1, <1>2, <1>4, <2>2, <2>3, <2>4 DEF Arrives, IsCall
<1>5. CASE Type(h) = "function_call_output" /\ Role(h) = "" /\ Has(h, "call_id")
  <2>1. x = h
    BY <1>5 DEF Carried, IsCall
  <2>2. j.call_id = h.call_id
    BY ONLY <1>1, <1>5, <2>1 DEF Has
  <2>3. Label(j) = Label(h)
    BY ONLY <1>1, <1>2, <1>5, <2>2, LabelSame
  <2> QED
    BY ONLY <1>1, <1>2, <1>5, <2>2, <2>3 DEF Arrives
<1>6. CASE /\ Type(h) \notin {"reasoning", "function_call", "function_call_output"}
           /\ Role(h) \in {"user", "assistant"} /\ Has(h, "content") /\ IsContent(h.content)
           /\ Role(h) = "user" => h.content.kind = "string"
  <2>1. x = h
    BY <1>6 DEF Carried, IsCall
  <2>2. IsItem(x) /\ Speaks(x)
    BY ONLY <1>6, <2>1 DEF IsItem, Speaks
  <2>3. ExtractText(j) = ExtractText(x)
    BY <2>2, ItemSays
  <2>4. Label(j) = Label(h)
    BY ONLY <1>1, <1>2, <1>6, <2>1, <2>3, LabelSame
  <2>5. Role(h) = "user" => j.content.kind = "array"
    <3>1. PICK n, role, c : n = j.content /\ role = Role(x) /\ c = x.content
      OBVIOUS
    <3>2. n = NewContent(role, c)
      BY <1>1, <2>2, <3>1
    <3>3. c.kind = "string" => n = Arr(<<TypedPart(role, c)>>)
      BY ONLY <3>2 DEF NewContent
    <3> QED
      BY ONLY <1>6, <2>1, <3>1, <3>3 DEF Arr
  <2> QED
    BY ONLY <1>1, <1>2, <1>6, <2>4, <2>5 DEF Arrives
<1> QED
  BY <1>3, <1>4, <1>5, <1>6 DEF Remembered

Forms(thoughts) == [thoughts -> {"as it came", "made up", "without ciphertext"}]

\* What of the history is kept, and as what it is sent.
LEMMA ReplayedIs ==
  ASSUME HistoryInv, NEW bare, NEW form \in Forms(Thoughts),
         NEW n \in 2 .. Len(history), NEW x, x = Replayed(form, bare)[n]
  PROVE  /\ Kept(x) <=> (n \in Thoughts => form[n] = "as it came")
         /\ Kept(x) => Carried(history[n], x)
<1>1. PICK h : h = history[n]
  OBVIOUS
<1>2. Remembered(h, issued) /\ n \in DOMAIN history /\ (n \in Thoughts <=> Type(h) = "reasoning")
  BY <1>1, HistoryTyped DEF Thoughts
<1>3. x = CASE n \in Thoughts -> Replay(h, form[n])
            [] IsCall(h) /\ bare -> Without(h, {"id", "status", "arguments"})
            [] OTHER -> h
  BY <1>1, <1>2 DEF Replayed
<1>4. CASE n \in Thoughts
  <2>1. ~IsCall(h) /\ Type(h) = "reasoning" /\ Role(h) = "" /\ Replayable(h)
    BY <1>2, <1>4 DEF IsCall, Remembered
  <2>2. x = Replay(h, form[n])
    BY <1>3, <1>4, <2>1
  <2>3. form[n] \in {"as it came", "made up", "without ciphertext"}
    BY <1>4 DEF Forms
  <2>4. CASE form[n] = "as it came"
    <3>1. x = h
      BY <2>2, <2>4 DEF Replay
    <3>2. Kept(x)
      BY ONLY <2>1, <3>1 DEF Kept, IsSystem
    <3> QED
      BY <1>1, <2>4, <3>1, <3>2 DEF Carried
  <2>5. CASE form[n] = "made up"
    <3>1. PICK y : y = With(h, "id", "rs-made-up")
      OBVIOUS
    <3>2. x = With(y, "encrypted_content", "stale")
      BY <2>2, <2>5, <3>1 DEF Replay
    <3>3. DOMAIN y = DOMAIN h \cup {"id"} /\ y.id = "rs-made-up" /\ \A f \in DOMAIN h \ {"id"} : y[f] = h[f]
      BY <3>1 DEF With
    <3>4. DOMAIN x = DOMAIN y \cup {"encrypted_content"} /\ \A f \in DOMAIN y \ {"encrypted_content"} : x[f] = y[f]
      BY <3>2 DEF With
    <3>5. x.id = "rs-made-up" /\ Type(x) = "reasoning"
      BY ONLY <2>1, <3>3, <3>4 DEF Type, Has
    <3>6. ~Replayable(x)
      BY <3>5, ConversationAssumption DEF Replayable
    <3> QED
      BY <1>4, <2>5, <3>5, <3>6 DEF Kept
  <2>6. CASE form[n] = "without ciphertext"
    <3>1. x = Without(h, {"encrypted_content"})
      BY <2>2, <2>6 DEF Replay
    <3>2. DOMAIN x = DOMAIN h \ {"encrypted_content"} /\ \A f \in DOMAIN x : x[f] = h[f]
      BY <3>1 DEF Without
    <3>3. Type(x) = "reasoning" /\ ~Replayable(x)
      BY ONLY <2>1, <3>2 DEF Type, Has, Replayable
    <3> QED
      BY <1>4, <2>6, <3>3 DEF Kept
  <2> QED
    BY <2>3, <2>4, <2>5, <2>6
<1>5. CASE n \notin Thoughts /\ IsCall(h) /\ bare
  <2>1. x = Without(h, {"id", "status", "arguments"})
    BY <1>3, <1>5
  <2>2. DOMAIN x = DOMAIN h \ {"id", "status", "arguments"} /\ \A f \in DOMAIN x : x[f] = h[f]
    BY <2>1 DEF Without
  <2>3. Type(x) = Type(h) /\ Role(x) = Role(h) /\ Role(h) = ""
    <3>1. Role(h) = ""
      BY <1>2, <1>5 DEF Remembered, IsCall
    <3> QED
      BY ONLY <2>2, <3>1 DEF Type, Role, Has
  <2>4. Kept(x)
    BY ONLY <1>5, <2>3 DEF Kept, IsSystem, IsCall
  <2> QED
    BY <1>1, <1>5, <2>2, <2>3, <2>4 DEF Carried
<1>6. CASE n \notin Thoughts /\ ~(IsCall(h) /\ bare)
  <2>1. x = h
    BY <1>3, <1>6
  <2>2. Kept(h)
    BY <1>2, <1>6 DEF Kept, IsSystem, Remembered
  <2> QED
    BY <1>1, <1>6, <2>1, <2>2 DEF Carried
<1> QED
  BY <1>4, <1>5, <1>6

Garbled(form) == {history[n].id : n \in {m \in Thoughts : form[m] # "as it came"}}

\* What the transcript keeps of an item.
LEMMA LabelIs ==
  ASSUME NEW h, Remembered(h, issued)
  PROVE  /\ Type(h) = "reasoning" => Label(h) = <<"reasoning", h.id>>
         /\ Type(h) # "reasoning" => Label(h)[1] # "reasoning"
<1>1. CASE Type(h) = "reasoning"
  BY <1>1 DEF Label
<1>2. CASE Type(h) \in {"function_call", "function_call_output"}
  <2>1. Label(h) = <<Type(h), h.call_id>>
    BY <1>2 DEF Label
  <2>2. Label(h)[1] = Type(h)
    BY <2>1
  <2> QED
    BY <1>2, <2>2
<1>3. CASE Type(h) \notin {"reasoning", "function_call", "function_call_output"}
  <2>1. PICK e : e = ExtractText(h)
    OBVIOUS
  <2>2. Label(h) = <<Role(h), e>>
    BY <1>3, <2>1 DEF Label
  <2>3. Label(h)[1] = Role(h)
    BY <2>2
  <2>4. Role(h) \in {"user", "assistant"}
    BY <1>3 DEF Remembered, IsCall
  <2> QED
    BY <1>3, <2>3, <2>4
<1> QED
  BY <1>1, <1>2, <1>3

\* The items that the bridge keeps are those that the transcript recalls.
LEMMA RecalledKept ==
  ASSUME HistoryInv, NEW bare, NEW form \in Forms(Thoughts),
         NEW n \in 2 .. Len(history)
  PROVE  Kept(Replayed(form, bare)[n]) <=> n - 1 \in Recalled(Garbled(form))
<1>1. PICK h : h = history[n]
  OBVIOUS
<1>2. /\ Remembered(h, issued) /\ transcript[n - 1] = Label(h)
      /\ n \in Thoughts <=> Type(h) = "reasoning"
  BY <1>1, HistoryTyped
<1>3. n - 1 \in 1 .. Len(transcript)
  <2>1. PICK k, m : k = Len(history) /\ m = Len(transcript)
    OBVIOUS
  <2>2. k \in Nat /\ m \in Nat /\ k = m + 1
    BY <2>1, HistoryTyped DEF HistoryInv
  <2>3. n \in 2 .. k
    BY <2>1
  <2>4. n - 1 \in 1 .. m
    BY ONLY <2>2, <2>3
  <2> QED
    BY <2>1, <2>4
<1>4. n \in Thoughts =>
        (transcript[n - 1][1] = "reasoning" /\ transcript[n - 1][2] = h.id)
  BY <1>2, LabelIs
<1>5. n \notin Thoughts => transcript[n - 1][1] # "reasoning"
  BY <1>2, LabelIs
<1>6. n \in Thoughts => (h.id \notin Garbled(form) <=> form[n] = "as it came")
  <2>1. \A k, m \in Thoughts : history[k].id = history[m].id => k = m
    BY DEF HistoryInv
  <2> QED
    BY <1>1, <2>1 DEF Garbled
<1>7. n - 1 \in Recalled(Garbled(form)) <=> (n \in Thoughts => form[n] = "as it came")
  BY ONLY <1>3, <1>4, <1>5, <1>6 DEF Recalled
<1> QED
  BY <1>7, ReplayedIs

\* The items of a request, and the places of those that are kept.
SentAs(s, N, q, R) ==
  /\ IsList(s) /\ Len(s) = N + 1 /\ s[N + 1] = User(turn)
  /\ \A n \in 2 .. N : s[n] = q[n]
  /\ KeptAt(s) = Shifted(R, N) /\ R \in SUBSET (1 .. N - 1)

LEMMA SentIs ==
  ASSUME HistoryInv, NEW bare, NEW form \in Forms(Thoughts),
         NEW s, s = Append(Replayed(form, bare), User(turn)), NEW N, N = Len(history)
  PROVE  SentAs(s, N, Replayed(form, bare), Recalled(Garbled(form)))
<1>1. PICK q : q = Replayed(form, bare)
  OBVIOUS
<1>2. /\ N \in Nat /\ N = Len(transcript) + 1 /\ Len(transcript) \in Nat
      /\ DOMAIN history = 1 .. N /\ 1 \notin Thoughts
  BY HistoryTyped DEF HistoryInv
<1>3. IsList(q) /\ Len(q) = N
  <2>1. q = [n \in 1 .. N |-> q[n]]
    BY <1>1, <1>2 DEF Replayed
  <2> QED
    BY <1>2, <2>1, ListIs
<1>4. /\ IsList(s) /\ Len(s) = N + 1 /\ s[N + 1] = User(turn)
      /\ \A n \in 1 .. N : s[n] = q[n]
  <2>1. s = Append(q, User(turn))
    BY <1>1
  <2> QED
    BY <1>3, <2>1, AppendIs
<1>5. ~Kept(s[1])
  <2>1. 1 \in 1 .. N
    BY <1>2
  <2>2. IsSystem(history[1]) /\ ~IsCall(history[1])
    BY DEF HistoryInv, IsCall
  <2>3. q[1] = history[1]
    BY <1>1, <1>2, <2>1, <2>2 DEF Replayed
  <2> QED
    BY <1>4, <2>1, <2>2, <2>3 DEF Kept
<1>6. Kept(s[N + 1])
  BY <1>4, QuestionIs
<1>7. PICK R : R = Recalled(Garbled(form))
  OBVIOUS
<1>8. R \in SUBSET (1 .. N - 1)
  <2>1. R \subseteq 1 .. Len(transcript)
    BY <1>7 DEF Recalled
  <2>2. Len(transcript) = N - 1
    BY <1>2
  <2> QED
    BY <2>1, <2>2
<1>9. \A n \in 2 .. N : Kept(s[n]) <=> n - 1 \in R
  <2>1. \A n \in 2 .. N : n \in 1 .. N
    BY <1>2
  <2> QED
    BY <1>1, <1>4, <1>7, <2>1, RecalledKept
<1>10. KeptAt(s) = {i \in 1 .. N + 1 : Kept(s[i])}
  BY <1>4 DEF KeptAt
<1>11. KeptAt(s) = Shifted(R, N)
  <2>1. ASSUME NEW i \in KeptAt(s) PROVE i = N + 1 \/ \E n \in R : i = n + 1
    <3>1. i \in 1 .. N + 1 /\ Kept(s[i])
      BY <1>10
    <3>2. i # 1
      BY <1>5, <3>1
    <3>3. i = N + 1 \/ i \in 2 .. N
      BY ONLY <1>2, <3>1, <3>2
    <3>4. CASE i \in 2 .. N
      <4>1. i - 1 \in R
        BY ONLY <1>9, <3>1, <3>4
      <4>2. i = (i - 1) + 1
        BY ONLY <1>2, <3>4
      <4> QED
        BY <4>1, <4>2
    <3> QED
      BY <3>3, <3>4
  <2>2. ASSUME NEW n \in R PROVE n + 1 \in KeptAt(s)
    <3>1. n + 1 \in 2 .. N /\ n + 1 \in 1 .. N + 1 /\ (n + 1) - 1 = n
      BY <1>2, <1>8
    <3>2. Kept(s[n + 1])
      BY <1>9, <3>1
    <3> QED
      BY <1>10, <3>1, <3>2
  <2>3. N + 1 \in KeptAt(s)
    <3>1. N + 1 \in 1 .. N + 1
      BY <1>2
    <3> QED
      BY <1>6, <1>10, <3>1
  <2> QED
    BY <2>1, <2>2, <2>3 DEF Shifted
<1> QED
  <2>1. \A n \in 2 .. N : n \in 1 .. N
    BY <1>2
  <2>2. SentAs(s, N, q, R)
    BY ONLY <1>4, <1>8, <1>11, <2>1 DEF SentAs
  <2> QED
    BY <1>1, <1>7, <2>2

\* The input of the request: an item for everything that is recalled, then the
\* question.
InputFrom(out, R, c, a) ==
  /\ c \in Nat /\ a \in [1 .. c -> R]
  /\ \A k, l \in 1 .. c : k < l => a[k] < a[l]
  /\ \A n \in R : \E k \in 1 .. c : a[k] = n
  /\ IsList(out) /\ Len(out) = c + 1
  /\ \A k \in 1 .. c : Arrives(history[a[k] + 1], out[k], issued)
  /\ Arrives(User(turn), out[c + 1], issued)

LEMMA InputArrives ==
  ASSUME HistoryInv, NEW bare, NEW form \in Forms(Thoughts),
         NEW s, s = Append(Replayed(form, bare), User(turn)),
         NEW out, out = NormalizeInput(s), NEW R, R = Recalled(Garbled(form)),
         NEW c, c = Cardinality(R), NEW a, a = Ascending(R)
  PROVE  InputFrom(out, R, c, a)
<1>1. PICK N, q, p : N = Len(history) /\ q = Replayed(form, bare) /\ p = KeptOf(s)
  OBVIOUS
<1>2. /\ IsList(s) /\ Len(s) = N + 1 /\ s[N + 1] = User(turn)
      /\ \A n \in 2 .. N : s[n] = q[n]
      /\ KeptAt(s) = Shifted(R, N)
      /\ R \in SUBSET (1 .. N - 1)
  <2>1. SentAs(s, N, q, R)
    BY <1>1, SentIs
  <2> QED
    BY <2>1 DEF SentAs
<1>3. N \in Nat /\ \A n \in 2 .. N : Remembered(history[n], issued)
  BY <1>1, HistoryTyped
<1>4. R \in SUBSET Nat /\ IsFiniteSet(R)
  <2>1. IsFiniteSet(1 .. N - 1) /\ 1 .. N - 1 \subseteq Nat
    BY <1>3, FS_Interval
  <2> QED
    BY <1>2, <2>1, FS_Subset
<1>5. /\ c \in Nat /\ a \in [1 .. c -> R]
      /\ \A k, l \in 1 .. c : k < l => a[k] < a[l]
      /\ \A n \in R : \E k \in 1 .. c : a[k] = n
  BY <1>4, AscendingIs
<1>7. /\ IsList(p) /\ Len(p) = c + 1
      /\ \A k \in 1 .. c : p[k] = s[a[k] + 1]
      /\ p[c + 1] = s[N + 1]
  <2>1. p = Pick(s, Shifted(R, N))
    BY <1>1, <1>2 DEF KeptOf
  <2>2. Counted(R, c, a)
    BY DEF Counted
  <2>3. N \in Nat /\ R \in SUBSET (1 .. N - 1)
    BY <1>2, <1>3
  <2>4. IsShifted(p, s, c, a, N)
    BY ONLY <2>1, <2>2, <2>3, PickShifted
  <2> QED
    BY ONLY <2>4 DEF IsShifted
<1>8. IsList(out) /\ Len(out) = c + 1 /\ \A k \in 1 .. c + 1 : out[k] = NormalizeItem(p[k])
  <2>1. out = [k \in 1 .. Len(p) |-> NormalizeItem(p[k])]
    BY <1>1, NormalizeInputIs
  <2> QED
    BY ONLY <1>5, <1>7, <2>1 DEF IsList
<1>9. ASSUME NEW k \in 1 .. c PROVE Arrives(history[a[k] + 1], out[k], issued)
  <2>1. PICK n : n = a[k] + 1
    OBVIOUS
  <2>2. a[k] \in R
    BY <1>5
  <2>3. n \in 2 .. N
    <3>1. PICK x : x = a[k]
      OBVIOUS
    <3>2. x \in 1 .. N - 1
      BY <1>2, <2>2, <3>1
    <3>3. n = x + 1
      BY <2>1, <3>1
    <3> QED
      BY ONLY <1>3, <3>2, <3>3
  <2>4. k \in 1 .. c + 1
    BY <1>5
  <2>5. n \in KeptAt(s)
    BY <1>2, <2>1, <2>2 DEF Shifted
  <2>6. Kept(s[n])
    BY <2>5 DEF KeptAt
  <2>7. out[k] = NormalizeItem(s[n]) /\ s[n] = q[n]
    BY <1>2, <1>7, <1>8, <2>1, <2>3, <2>4
  <2>8. Carried(history[n], q[n])
    BY <1>1, <2>3, <2>6, <2>7, ReplayedIs
  <2>9. Remembered(history[n], issued)
    BY <1>3, <2>3
  <2> QED
    BY <2>1, <2>7, <2>8, <2>9, CarriedArrives
<1>10. Arrives(User(turn), out[c + 1], issued)
  <2>1. c + 1 \in 1 .. c + 1
    BY <1>5
  <2>2. out[c + 1] = NormalizeItem(User(turn))
    BY <1>2, <1>7, <1>8, <2>1
  <2>3. Remembered(User(turn), issued)
    BY QuestionIs
  <2>4. Carried(User(turn), User(turn))
    BY DEF Carried
  <2> QED
    BY <2>2, <2>3, <2>4, CarriedArrives
<1> QED
  BY ONLY <1>5, <1>8, <1>9, <1>10 DEF InputFrom

\* Codex is told again what the transcript recalls.
LEMMA InputRemembers ==
  ASSUME HistoryInv, NEW g, NEW R, R = Recalled(g), NEW c, c = Cardinality(R),
         NEW a, a = Ascending(R), NEW out, InputFrom(out, R, c, a)
  PROVE  Labels(out) = Append(Pick(transcript, R), Label(User(turn)))
<1>1. PICK l, p, e, u : /\ l = Labels(out) /\ p = Pick(transcript, R) /\ u = Label(User(turn))
                        /\ e = Append(p, u)
  OBVIOUS
<1>2. /\ c \in Nat /\ a \in [1 .. c -> R]
      /\ IsList(out) /\ Len(out) = c + 1
      /\ \A k \in 1 .. c : Arrives(history[a[k] + 1], out[k], issued)
      /\ Arrives(User(turn), out[c + 1], issued)
  BY DEF InputFrom
<1>3. \A n \in R : n \in 1 .. Len(transcript) /\ transcript[n] = Label(history[n + 1])
  BY DEF Recalled, HistoryInv
<1>4. R \in SUBSET Nat /\ IsFiniteSet(R)
  <2>1. R \in SUBSET (1 .. Len(transcript)) /\ IsList(transcript)
    BY <1>3 DEF HistoryInv
  <2> QED
    BY <2>1, PositionsAre
<1>5. IsList(p) /\ Len(p) = c /\ \A k \in 1 .. c : p[k] = transcript[a[k]]
  BY <1>1, <1>4, PickIs
<1>6. IsList(e) /\ Len(e) = c + 1 /\ e[c + 1] = u /\ \A k \in 1 .. c : e[k] = p[k]
  BY <1>1, <1>5, AppendIs
<1>7. IsList(l) /\ Len(l) = c + 1 /\ \A k \in 1 .. c + 1 : l[k] = Label(out[k])
  <2>1. l = [k \in 1 .. Len(out) |-> Label(out[k])]
    BY <1>1, LabelsIs
  <2> QED
    BY ONLY <1>2, <2>1 DEF IsList
<1>8. ASSUME NEW k \in 1 .. c + 1 PROVE l[k] = e[k]
  <2>1. CASE k \in 1 .. c
    <3>1. a[k] \in R
      BY <1>2, <2>1
    <3>2. e[k] = Label(history[a[k] + 1])
      BY <1>3, <1>5, <1>6, <2>1, <3>1
    <3>3. Label(out[k]) = Label(history[a[k] + 1])
      BY <1>2, <2>1 DEF Arrives
    <3> QED
      BY <1>7, <3>2, <3>3
  <2>2. CASE k = c + 1
    <3>1. Label(out[c + 1]) = u
      BY <1>1, <1>2 DEF Arrives
    <3> QED
      BY <1>6, <1>7, <2>2, <3>1
  <2> QED
    BY <1>2, <2>1, <2>2
<1>9. l = e
  BY ONLY <1>6, <1>7, <1>8, ListEqual
<1> QED
  BY <1>1, <1>9

\* Codex can resolve it, finds every call before its output and every item whole.
LEMMA InputAccepted ==
  ASSUME HistoryInv, NEW g, NEW R, R = Recalled(g), NEW c, NEW a,
         NEW out, InputFrom(out, R, c, a)
  PROVE  Resolvable(out) /\ Paired(out) /\ Formed(out)
<1>1. /\ c \in Nat /\ a \in [1 .. c -> R]
      /\ \A k, l \in 1 .. c : k < l => a[k] < a[l]
      /\ \A n \in R : \E k \in 1 .. c : a[k] = n
      /\ IsList(out) /\ Len(out) = c + 1
      /\ \A k \in 1 .. c : Arrives(history[a[k] + 1], out[k], issued)
      /\ Arrives(User(turn), out[c + 1], issued)
  BY DEF InputFrom
<1>2. DOMAIN out = 1 .. c + 1
  BY <1>1 DEF IsList
<1>3. \A k \in DOMAIN out : \E h : Arrives(h, out[k], issued)
  <2> SUFFICES ASSUME NEW k \in DOMAIN out PROVE \E h : Arrives(h, out[k], issued)
    OBVIOUS
  <2>1. k \in 1 .. c \/ k = c + 1
    BY <1>1, <1>2
  <2> QED
    BY <1>1, <2>1
<1>4. Resolvable(out)
  BY <1>3 DEF Resolvable, Arrives
<1>5. Formed(out)
  BY <1>3 DEF Formed, Arrives
<1>6. Paired(out)
  <2> SUFFICES ASSUME NEW k \in DOMAIN out, Type(out[k]) = "function_call_output"
               PROVE  \E l \in 1 .. k - 1 : Type(out[l]) = "function_call" /\ out[l].call_id = out[k].call_id
    BY DEF Paired
  <2>1. k \in 1 .. c
    <3>1. k # c + 1
      BY <1>1, QuestionIs DEF Arrives
    <3> QED
      BY <1>1, <1>2, <3>1
  <2>2. PICK n : n = a[k]
    OBVIOUS
  <2>3. n \in R /\ n \in 1 .. Len(transcript)
    BY <1>1, <2>1, <2>2 DEF Recalled
  <2>4. Type(history[n + 1]) = "function_call_output" /\ out[k].call_id = history[n + 1].call_id
    BY <1>1, <2>1, <2>2 DEF Arrives
  <2>5. PICK m, T : m = n + 1 /\ T = Len(transcript)
    OBVIOUS
  <2>6. T \in Nat /\ Len(history) = T + 1 /\ DOMAIN history = 1 .. T + 1
    BY <2>5, HistoryTyped DEF HistoryInv
  <2>7. n \in Nat /\ m \in 1 .. T + 1
    BY ONLY <2>3, <2>5, <2>6
  <2>8. PICK i \in 1 .. m - 1 : Type(history[i]) = "function_call" /\ history[i].call_id = history[m].call_id
    BY <2>4, <2>5, <2>6, <2>7 DEF HistoryInv, Paired
  <2>9. i # 1
    BY <2>8 DEF HistoryInv
  <2>10. i - 1 \in 1 .. T /\ i - 1 < n /\ i \in 2 .. T + 1 /\ (i - 1) + 1 = i
    BY ONLY <2>5, <2>7, <2>8, <2>9
  <2>11. transcript[i - 1] = Label(history[i]) /\ Remembered(history[i], issued)
    BY <2>6, <2>10, HistoryTyped
  <2>12. i - 1 \in R
    <3>1. transcript[i - 1][1] # "reasoning"
      BY <2>8, <2>11, LabelIs
    <3> QED
      BY <2>5, <2>10, <3>1 DEF Recalled
  <2>13. PICK l \in 1 .. c : a[l] = i - 1
    BY <1>1, <2>12
  <2>14. l \in 1 .. k - 1
    <3>1. ~(k < l)
      <4>1. k < l => n < i - 1
        BY <1>1, <2>1, <2>2, <2>13
      <4> QED
        BY ONLY <2>7, <2>10, <4>1
    <3>2. k # l
      BY ONLY <2>2, <2>7, <2>10, <2>13
    <3> QED
      BY ONLY <1>1, <2>1, <2>13, <3>1, <3>2
  <2>15. Arrives(history[i], out[l], issued)
    BY <1>1, <2>10, <2>13
  <2>16. Type(out[l]) = "function_call" /\ out[l].call_id = history[i].call_id
    BY <2>8, <2>15 DEF Arrives
  <2> QED
    BY <2>4, <2>5, <2>8, <2>14, <2>16
<1> QED
  BY <1>4, <1>5, <1>6

\* What Codex makes of the request.
Heard(out, ids) ==
  /\ out.ok /\ Accepts(out.request)
  /\ Contains(out.request.include.parts, Ciphertext)
  /\ Labels(out.request.input.parts) =
       Append(Pick(transcript, Recalled(ids)), Label(User(turn)))

LEMMA AskIs ==
  ASSUME HistoryInv, NEW bare, NEW form \in Forms(Thoughts),
         NEW s, s = Append(Replayed(form, bare), User(turn)),
         NEW b, b = Obj([model |-> "gpt-5.6-sol", input |-> Arr(s)]),
         NEW out, out = AdaptRequest(b)
  PROVE  Heard(out, Garbled(form))
<1>1. PICK v, o, r : v = Arr(s) /\ o = [model |-> "gpt-5.6-sol", input |-> v] /\ r = Without(o, DroppedFields)
  OBVIOUS
<1>2. b.kind = "object" /\ b.fields = o
  BY <1>1 DEF Obj
<1>3. DOMAIN o = {"model", "input"} /\ o.model = "gpt-5.6-sol" /\ o.input = v
  BY <1>1
<1>4. DOMAIN r = {"model", "input"} /\ r.model = "gpt-5.6-sol" /\ r.input = v
  BY <1>1, <1>3 DEF Without, DroppedFields
<1>5. v.kind = "array" /\ v.parts = s
  BY <1>1 DEF Arr
<1>6. Accepted(r) /\ ~Has(r, "include") /\ Has(r, "input")
  BY <1>4, <1>5 DEF Accepted, AllowedFields, Has
<1>7. Items(r) = s
  BY <1>4, <1>5, <1>6 DEF Items
<1>8. PICK q : q = Merge(Forced(r), r)
  OBVIOUS
<1>9. out = [ok |-> TRUE, request |-> q]
  BY <1>1, <1>2, <1>6, <1>8, AcceptedIs
<1>10. out.ok /\ out.request = q
  BY <1>9
<1>11. PICK i : i = NormalizeInput(s)
  OBVIOUS
<1>12. q.input = Arr(i) /\ q.include = NormalizeInclude(r)
  BY <1>7, <1>8, <1>11, RequestIs
<1>13. q.input.parts = i
  BY <1>12 DEF Arr
<1>14. Contains(q.include.parts, Ciphertext)
  BY <1>6, <1>12, IncludeHas
<1>15. PICK g, R, c, a : /\ g = Garbled(form) /\ R = Recalled(g)
                         /\ c = Cardinality(R) /\ a = Ascending(R)
  OBVIOUS
<1>16. InputFrom(i, R, c, a)
  BY <1>11, <1>15, InputArrives
<1>17. Labels(i) = Append(Pick(transcript, R), Label(User(turn)))
  BY <1>15, <1>16, InputRemembers
<1>18. Resolvable(i) /\ Paired(i) /\ Formed(i)
  BY <1>15, <1>16, InputAccepted
<1>19. Accepts(q)
  BY <1>13, <1>18 DEF Accepts
<1> QED
  BY <1>10, <1>13, <1>14, <1>15, <1>17, <1>19 DEF Heard

-----------------------------------------------------------------------------
(* The steps *)

LEMMA BeginShown == Init' => ShownInv'
  BY InitShown, PTL

\* The state between two answers.
Composing ==
  /\ phase = "compose" /\ shown = <<>> /\ forwarded = Nothing
  /\ items_by_index = <<>> /\ id_to_index = <<>> /\ call_metadata = <<>>

IssuedAll ==
  \A i \in DOMAIN plan : given[i] = "done" /\ plan[i].done.type = "reasoning" =>
    <<plan[i].done.id, plan[i].done.encrypted_content>> \in issued

Answering ==
  /\ phase = "answer" /\ ShownInv /\ plan \in Possible(TRUE) /\ Replays /\ IssuedAll
  /\ turn = Turns => Live

\* The last request is not answered in the model (turn = Turns => Live), since the
\* answers are given up to that turn.
TalkInv == turn \in 0 .. Turns /\ HistoryInv /\ (Composing \/ Answering)

LEMMA OpeningTalks ==
  ASSUME Opening
  PROVE  TalkInv
<1>1. HistoryInv
  BY OpeningHistory
<1>2. Composing
  BY DEF Opening, Composing
<1>3. turn \in 0 .. Turns
  <2>1. Turns \in Nat
    BY ConversationAssumption
  <2> QED
    BY <2>1 DEF Opening
<1> QED
  BY <1>1, <1>2, <1>3 DEF TalkInv

LEMMA AskTalks ==
  ASSUME TalkInv, Ask
  PROVE  TalkInv'
<1>1. turn \in 0 .. Turns /\ HistoryInv /\ Composing
  BY DEF TalkInv, Ask, Answering
<1>2. UNCHANGED <<history, turn, issued, transcript>>
  BY DEF Ask
<1>3. HistoryInv'
  BY <1>1, <1>2, HistoryStays
<1>4. PICK bare \in BOOLEAN, form \in Forms(Thoughts) :
        /\ body' = Obj([model |-> "gpt-5.6-sol",
                        input |-> Arr(Append(Replayed(form, bare), User(turn)))])
        /\ garbled' = Garbled(form)
  BY DEF Ask, Forms, Garbled
<1>5. PICK s, out : s = Append(Replayed(form, bare), User(turn)) /\ out = outcome'
  OBVIOUS
<1>6. /\ out.ok /\ Accepts(out.request)
      /\ Contains(out.request.include.parts, Ciphertext)
      /\ Labels(out.request.input.parts) =
           Append(Pick(transcript, Recalled(Garbled(form))), Label(User(turn)))
  <2>1. PICK b : b = body'
    OBVIOUS
  <2>2. out = AdaptRequest(b) /\ b = Obj([model |-> "gpt-5.6-sol", input |-> Arr(s)])
    BY <1>4, <1>5, <2>1 DEF Ask
  <2>3. Heard(out, Garbled(form))
    BY <1>1, <1>5, <2>2, AskIs
  <2> QED
    BY <2>3 DEF Heard
<1>7. phase' = "answer" /\ plan' \in Possible(TRUE)
  <2>1. phase' = "answer" /\ plan' \in Possible(Contains(out.request.include.parts, Ciphertext))
    BY <1>5, <1>6 DEF Ask
  <2>2. Contains(out.request.include.parts, Ciphertext) = TRUE
    BY <1>6 DEF Contains
  <2> QED
    BY <2>1, <2>2
<1>8. plan' \in Possible(TRUE)'
  BY <1>2, <1>7 DEF Possible
<1>9. plan' \in Outputs
  BY <1>1, <1>7, ConversationAssumption DEF Possible
<1>10. ShownInv'
  <2>1. given' = [n \in DOMAIN plan' |-> "none"] /\ UNCHANGED <<shown, forwarded, transformer>>
    BY DEF Ask
  <2>2. Init'
    BY <1>1, <1>9, <2>1 DEF Init, Composing, transformer
  <2> QED
    BY <2>2, BeginShown
<1>11. Replays'
  <2>1. outcome' = out /\ garbled' = Garbled(form) /\ transcript' = transcript /\ turn' = turn
    BY <1>2, <1>4, <1>5
  <2>2. Recalled(garbled') = Recalled(Garbled(form))
    BY <2>1
  <2>3. Recalled(garbled)' = Recalled(garbled')
    BY <2>1 DEF Recalled
  <2>4. Labels(out.request.input.parts) =
          Append(Pick(transcript, Recalled(garbled)'), Label(User(turn)))
    BY <1>6, <2>2, <2>3
  <2> QED
    BY <2>1, <2>4 DEF Replays
<1>12. IssuedAll'
  BY DEF Ask, IssuedAll
<1>13. Live'
  BY <1>1 DEF Ask, Composing, Live, Nothing
<1> QED
  BY <1>1, <1>2, <1>3, <1>7, <1>8, <1>10, <1>11, <1>12, <1>13 DEF TalkInv, Answering

LEMMA StreamTalks ==
  ASSUME TalkInv, Stream
  PROVE  TalkInv'
<1>1. turn \in 0 .. Turns /\ HistoryInv /\ Answering
  BY DEF TalkInv, Stream, Composing
<1>2. UNCHANGED <<history, turn, transcript, garbled, outcome, phase>> /\ turn < Turns
  BY DEF Stream
<1>3. issued \subseteq issued'
  BY DEF Stream
<1>4. HistoryInv'
  BY <1>1, <1>2, <1>3, HistoryStays
<1>5. plan' = plan
  BY DEF Stream, Item, Completed
<1>6. ShownInv'
  <2>1. ShownInv
    BY <1>1 DEF Answering
  <2>2. \/ \E i \in DOMAIN plan : Item(i, "added") \/ Item(i, "done")
        \/ Completed
    BY DEF Stream
  <2> QED
    BY <2>1, <2>2, ItemShown, CompletedShown
<1>7. plan' \in Possible(TRUE)'
  BY <1>1, <1>2, <1>5 DEF Answering, Possible
<1>8. Replays'
  BY <1>1, <1>2 DEF Answering, Replays, Recalled
<1>9. IssuedAll'
  <2> SUFFICES ASSUME NEW i \in DOMAIN plan, given'[i] = "done", plan[i].done.type = "reasoning"
               PROVE  <<plan[i].done.id, plan[i].done.encrypted_content>> \in issued'
    BY <1>5 DEF IssuedAll
  <2>1. "type" \in DOMAIN plan[i].done
    <3>1. plan \in Outputs
      BY <1>1 DEF Answering, ShownInv
    <3>2. \A stage \in {"added", "done"} : {"id", "type"} \subseteq DOMAIN plan[i][stage]
      BY <3>1, PlanTyped
    <3>3. {"id", "type"} \subseteq DOMAIN plan[i]["done"]
      BY <3>2
    <3> QED
      BY <3>3
  <2>2. Has(plan[i].done, "encrypted_content")
    BY <1>1, <2>1 DEF Answering, Possible, Type, Has
  <2> QED
    BY <2>2 DEF Stream
<1>10. turn # Turns
  <2>1. Turns \in Nat
    BY ConversationAssumption
  <2> QED
    BY ONLY <1>1, <1>2, <2>1
<1>11. Answering'
  BY <1>1, <1>2, <1>6, <1>7, <1>8, <1>9, <1>10 DEF Answering
<1> QED
  BY <1>1, <1>2, <1>4, <1>11 DEF TalkInv

LEMMA EndsComposing ==
  ASSUME EndStream
  PROVE  Composing'
  BY DEF EndStream, Composing

LEMMA CutTalks ==
  ASSUME TalkInv, Cut
  PROVE  TalkInv'
<1>1. turn \in 0 .. Turns /\ HistoryInv
  BY DEF TalkInv
<1>2. UNCHANGED <<history, turn, issued, transcript>> /\ EndStream
  BY DEF Cut
<1>3. HistoryInv'
  BY <1>1, <1>2, HistoryStays
<1> QED
  BY <1>1, <1>2, <1>3, EndsComposing DEF TalkInv

LEMMA AnswerTalks ==
  ASSUME TalkInv, Answer
  PROVE  TalkInv'
<1>1. turn \in 0 .. Turns /\ HistoryInv /\ Answering
  BY DEF TalkInv, Answer, Composing
<1>2. ShownInv /\ plan \in Possible(TRUE) /\ IssuedAll /\ plan \in Outputs /\ turn # Turns
  BY <1>1 DEF Answering, Answer, ShownInv
<1>3. forwarded.type = "response.completed"
  BY DEF Answer, Live
<1>4. PICK items \in {forwarded.response.output, [n \in DOMAIN plan |-> shown[n - 1]]} :
        history' = history \o Told(items)
  BY DEF Answer
<1>5. /\ issued' = issued /\ turn' = turn + 1 /\ EndStream
      /\ transcript' = transcript \o Labels(Told([n \in DOMAIN plan |-> plan[n].done]))
  BY DEF Answer
<1>6. PICK out : out = forwarded.response.output
  OBVIOUS
<1>7. /\ Given = DOMAIN plan /\ IsList(out) /\ Len(out) = Len(plan)
      /\ \A i \in DOMAIN plan : given[i] = "done" /\ out[i] \in Finished(plan[i])
  <2>1. "response.completed" \notin ItemEvents
    BY DEF ItemEvents
  <2> QED
    BY <1>2, <1>3, <1>6, <2>1 DEF ShownInv, Proper
<1>8. PICK sh : sh = [n \in DOMAIN plan |-> shown[n - 1]]
  OBVIOUS
<1>9. /\ IsList(sh) /\ Len(sh) = Len(plan)
      /\ \A i \in DOMAIN plan : sh[i] \in Finished(plan[i])
  <2>1. DOMAIN plan = 1 .. Len(plan) /\ Len(plan) \in Nat
    BY <1>2, PlanTyped
  <2>2. IsList(sh) /\ Len(sh) = Len(plan)
    BY <1>8, <2>1 DEF IsList
  <2>3. ASSUME NEW i \in DOMAIN plan PROVE sh[i] \in Finished(plan[i])
    <3>1. shown[i - 1] = Sent(plan[i], "done")
      BY <1>2, <1>7 DEF ShownInv
    <3> QED
      BY <1>8, <3>1 DEF Finished
  <2> QED
    BY <2>2, <2>3
<1>10. /\ IsList(items) /\ Len(items) = Len(plan)
       /\ \A i \in DOMAIN plan : items[i] \in Finished(plan[i])
  <2>1. items = out \/ items = sh
    BY <1>4, <1>6, <1>8
  <2> QED
    BY ONLY <1>7, <1>9, <2>1
<1>11. \A i \in DOMAIN plan : plan[i].done.type = "reasoning" =>
         <<plan[i].done.id, plan[i].done.encrypted_content>> \in issued
  BY <1>2, <1>7 DEF IssuedAll
<1>12. HistoryInv'
  <2>1. PICK d : d = [n \in DOMAIN plan |-> plan[n].done]
    OBVIOUS
  <2> QED
    BY <1>1, <1>2, <1>4, <1>5, <1>10, <1>11, <2>1, AnswerHistory
<1>13. turn + 1 \in 0 .. Turns
  <2>1. Turns \in Nat
    BY ConversationAssumption
  <2>2. turn \in 0 .. Turns /\ turn # Turns
    BY <1>1, <1>2
  <2> QED
    BY ONLY <2>1, <2>2
<1> QED
  BY <1>5, <1>12, <1>13, EndsComposing DEF TalkInv

LEMMA Talks == Talking => []TalkInv
<1>1. Opening => TalkInv
  BY OpeningTalks
<1>2. TalkInv /\ [Exchange]_conversation => TalkInv'
  <2> SUFFICES ASSUME TalkInv, [Exchange]_conversation PROVE TalkInv'
    OBVIOUS
  <2>1. CASE Ask
    BY <2>1, AskTalks
  <2>2. CASE Stream
    BY <2>2, StreamTalks
  <2>3. CASE Answer
    BY <2>3, AnswerTalks
  <2>4. CASE Cut
    BY <2>4, CutTalks
  <2>5. CASE UNCHANGED conversation
    <3>1. UNCHANGED <<history, phase, turn, issued, transcript, garbled, outcome,
                      items_by_index, id_to_index, call_metadata, plan, given, forwarded, shown>>
      BY <2>5 DEF conversation, request, vars, transformer
    <3>2. turn \in 0 .. Turns /\ HistoryInv /\ (Composing \/ Answering)
      BY DEF TalkInv
    <3>3. HistoryInv'
      BY <3>1, <3>2, HistoryStays
    <3>4. Composing => Composing'
      BY <3>1 DEF Composing
    <3>5. ShownInv => ShownInv'
      <4>1. UNCHANGED vars
        BY <3>1 DEF vars, transformer
      <4> QED
        BY <4>1, ShownStep
    <3>6. Answering => Answering'
      <4> SUFFICES ASSUME Answering PROVE Answering'
        OBVIOUS
      <4>1. plan' \in Possible(TRUE)' /\ Replays' /\ IssuedAll' /\ (turn = Turns => Live)'
        BY <3>1 DEF Answering, Possible, Replays, Recalled, IssuedAll, Live
      <4> QED
        BY <3>1, <3>5, <4>1 DEF Answering
    <3> QED
      BY <3>1, <3>2, <3>3, <3>4, <3>6 DEF TalkInv
  <2> QED
    BY <2>1, <2>2, <2>3, <2>4, <2>5 DEF Exchange
<1> QED
  BY <1>1, <1>2, PTL DEF Talking

\* For every conversation of any length, Codex refuses no request for what Grok
\* replays: adapt_request (protocol.rs) drops every thought that Codex could not
\* resolve and makes every call whole, and what the transformer handed to Grok keeps
\* the ids and the ciphertexts that a later request needs.
THEOREM ConversationIsAccepted == Talking => []NeverRefused
<1>1. TalkInv => NeverRefused
  BY DEF TalkInv, Composing, Answering, NeverRefused
<1> QED
  BY <1>1, Talks, PTL

\* For every conversation of any length, Codex is told with every request each
\* question, message, call, output and thought of the finished turns, once and in
\* order, but for the thoughts that Grok garbled: adapt_request drops nothing else and
\* the transformer loses nothing (protocol.rs).
THEOREM ConversationIsRemembered == Talking => []Remembers
<1>1. TalkInv => Remembers
  <2> SUFFICES ASSUME TalkInv, phase = "answer"
               PROVE  Labels(outcome.request.input.parts) =
                        Append(Keep(transcript, LAMBDA l : l[1] = "reasoning" => l[2] \notin garbled),
                               Label(User(turn)))
    BY DEF Remembers
  <2>1. Replays
    BY DEF TalkInv, Composing, Answering
  <2>2. Keep(transcript, LAMBDA l : l[1] = "reasoning" => l[2] \notin garbled) =
          Pick(transcript, Recalled(garbled))
    BY DEF Keep, Where, Recalled
  <2> QED
    BY <2>1, <2>2 DEF Replays
<1> QED
  BY <1>1, Talks, PTL
=============================================================================

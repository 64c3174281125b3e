---------------------------- MODULE AuthoringProofs ----------------------------
(***************************************************************************)
(* What holds of authored writes for any sessions, requests and keys: the  *)
(* features collected from the typed request are those its body needs, the *)
(* body tells what the request means, and a key on the wire is valid, has  *)
(* the prefix once and names one operation.                                *)
(***************************************************************************)
EXTENDS Authoring, SequenceLemmas

(***************************************************************************)
(* The features of a request are the needs of its body                     *)
(***************************************************************************)

\* What the wire form of an entry says of its list and selectors.
LEMMA WireFields ==
  ASSUME NEW e
  PROVE  /\ encodeItem(e).list = ListOf(e.kind)
         /\ encodeItem(e).selector = CASE e.kind = "retractFact" -> "fact"
                                       [] e.kind = "retractExact" -> "where"
                                       [] e.kind = "retractSlot" -> "slot" [] OTHER -> ""
         /\ encodeItem(e).mode = IF e.kind \in {"ensure", "replace"} THEN e.kind ELSE ""
         /\ encodeItem(e).object = IF OwnsTriple(e) \/ Places(e) \/ e.kind = "replace"
                                     THEN wireObject(e.object) ELSE NoObject
         /\ encodeItem(e).deadline = encodeDeadline(e.deadline)
BY DEF encodeItem

\* An object on the wire needs what visitObject collects.
LEMMA ObjectNeeds ==
  ASSUME NEW o
  PROVE  visitObject(o) = CASE wireObject(o).kind = "string" -> {<<"object", "entity_label">>}
                            [] wireObject(o).kind = "number" -> {<<"object", "u64">>}
                            [] OTHER -> {}
<1>1. CASE o.tag = "entity"
  <2>1. wireObject(o).kind = "string"
    BY <1>1 DEF wireObject
  <2>. QED BY <1>1, <2>1 DEF visitObject
<1>2. CASE o.tag = "number"
  <2>1. wireObject(o).kind = "number"
    BY <1>2 DEF wireObject
  <2>. QED BY <1>2, <2>1 DEF visitObject
<1>3. CASE o.tag \notin {"entity", "number"}
  <2>1. wireObject(o).kind = "none"
    BY <1>3 DEF wireObject
  <2>. QED BY <1>3, <2>1 DEF visitObject
<1>. QED BY <1>1, <1>2, <1>3

\* A deadline on the wire needs what visitDeadline collects.
LEMMA DeadlineNeeds ==
  ASSUME NEW d
  PROVE  visitDeadline(d) = IF encodeDeadline(d).field = "none" THEN {}
                              ELSE {<<"expiration", encodeDeadline(d).field>>}
<1>1. CASE d.tag = "after"
  <2>1. encodeDeadline(d).field = "ttl_ms"
    BY <1>1 DEF encodeDeadline
  <2>. QED BY <1>1, <2>1 DEF visitDeadline
<1>2. CASE d.tag = "at"
  <2>1. encodeDeadline(d).field = "expires_at_ns"
    BY <1>2 DEF encodeDeadline
  <2>. QED BY <1>2, <2>1 DEF visitDeadline
<1>3. CASE d.tag \notin {"after", "at"}
  <2>1. encodeDeadline(d).field = "none"
    BY <1>3 DEF encodeDeadline
  <2>. QED BY <1>3, <2>1 DEF visitDeadline
<1>. QED BY <1>1, <1>2, <1>3

\* What a valid entry needs is what the loop over its list collects.
LEMMA ItemNeeds ==
  ASSUME NEW e \in Item, validateItem(e)
  PROVE  visit(e) = NeedsOf(encodeItem(e))
<1>. DEFINE w == encodeItem(e)
<1>. HIDE DEF w
<1>1. /\ w.list = ListOf(e.kind)
      /\ w.mode = IF e.kind \in {"ensure", "replace"} THEN e.kind ELSE ""
      /\ w.selector = CASE e.kind = "retractFact" -> "fact"
                        [] e.kind = "retractExact" -> "where"
                        [] e.kind = "retractSlot" -> "slot" [] OTHER -> ""
  BY WireFields DEF w
<1>2. ASSUME e.kind \in {"append", "ensure", "replace", "retractExact", "correct"}
      PROVE  (CASE w.object.kind = "string" -> {<<"object", "entity_label">>}
                [] w.object.kind = "number" -> {<<"object", "u64">>}
                [] OTHER -> {}) = visitObject(e.object)
  <2>1. w.object = wireObject(e.object)
    BY <1>2, WireFields DEF w, OwnsTriple, Places
  <2>. QED BY <2>1, ObjectNeeds
<1>3. ASSUME e.kind \notin {"append", "ensure", "replace", "retractExact", "correct"}
      PROVE  (CASE w.object.kind = "string" -> {<<"object", "entity_label">>}
                [] w.object.kind = "number" -> {<<"object", "u64">>}
                [] OTHER -> {}) = {}
  <2>1. w.object = NoObject
    BY <1>3, WireFields DEF w, OwnsTriple, Places
  <2>2. NoObject.kind = "none"
    BY DEF NoObject
  <2>. QED BY <2>1, <2>2
<1>4. (IF w.deadline.field = "none" THEN {} ELSE {<<"expiration", w.deadline.field>>})
        = visitDeadline(e.deadline)
  BY WireFields, DeadlineNeeds DEF w
<1>5. ASSUME e.kind \notin {"append", "ensure", "replace", "correct", "expire"}
      PROVE  visitDeadline(e.deadline) = {}
  <2>1. e.deadline.tag = "unset"
    BY <1>5 DEF validateItem, Item, Creating
  <2>. QED BY <2>1 DEF visitDeadline
<1>6. CASE e.kind \in {"append", "ensure", "replace"}
  <2>1. w.list = "record" /\ (IF w.mode = "" THEN "append" ELSE w.mode) = e.kind
    BY <1>1, <1>6 DEF ListOf
  <2>. QED BY <1>2, <1>4, <1>6, <2>1 DEF visit, NeedsOf, w
<1>7. CASE e.kind = "retractFact"
  BY <1>1, <1>3, <1>4, <1>5, <1>7 DEF visit, NeedsOf, w, ListOf
<1>8. CASE e.kind = "retractExact"
  BY <1>1, <1>2, <1>4, <1>5, <1>8 DEF visit, NeedsOf, w, ListOf
<1>9. CASE e.kind = "retractSlot"
  BY <1>1, <1>3, <1>4, <1>5, <1>9 DEF visit, NeedsOf, w, ListOf
<1>10. CASE e.kind = "correct"
  BY <1>1, <1>2, <1>4, <1>10 DEF visit, NeedsOf, w, ListOf
<1>11. CASE e.kind = "expire"
  BY <1>1, <1>3, <1>4, <1>11 DEF visit, NeedsOf, w, ListOf
<1>12. CASE e.kind = "persist"
  BY <1>1, <1>3, <1>4, <1>5, <1>12 DEF visit, NeedsOf, w, ListOf
<1>. QED BY <1>6, <1>7, <1>8, <1>9, <1>10, <1>11, <1>12 DEF validateItem

\* Features finds exactly what the body will need: nothing is missing and
\* nothing is asked for in vain.
LEMMA RequestNeeds ==
  ASSUME NEW r \in Request, Validate(r)
  PROVE  Needs(Encode(r)) = Features(r)
<1>1. Len(r.items) \in Nat
  BY DEF Request
<1>2. Encode(r).items = [n \in 1..Len(r.items) |-> encodeItem(r.items[n])]
      /\ Encode(r).vocabulary = r.vocabulary
  BY DEF Encode
<1>3. Len(Encode(r).items) = Len(r.items)
  BY <1>1, <1>2
<1>4. ASSUME NEW n \in 1..Len(r.items)
      PROVE  visit(r.items[n]) = NeedsOf(Encode(r).items[n])
  <2>1. r.items[n] \in Item
    <3>1. r.items \in Seq(Item)
      BY DEF Request
    <3>. QED BY <3>1
  <2>2. validateItem(r.items[n])
    BY DEF Validate
  <2>3. Encode(r).items[n] = encodeItem(r.items[n])
    BY <1>2
  <2>. QED BY <2>1, <2>2, <2>3, ItemNeeds
<1>5. {visit(r.items[n]) : n \in 1..Len(r.items)}
        = {NeedsOf(Encode(r).items[n]) : n \in 1..Len(Encode(r).items)}
  BY <1>3, <1>4
<1>. QED BY <1>2, <1>5 DEF Needs, Features

\* Every feature that is collected can be advertised.
LEMMA FeaturesNamed ==
  ASSUME NEW r \in Request, Validate(r)
  PROVE  Features(r) \subseteq Feature
<1>1. ASSUME NEW o PROVE visitObject(o) \subseteq Feature
  BY DEF visitObject, Feature
<1>2. ASSUME NEW d PROVE visitDeadline(d) \subseteq Feature
  BY DEF visitDeadline, Feature
<1>3. ASSUME NEW e, validateItem(e) PROVE visit(e) \subseteq Feature
  <2>1. CASE e.kind \in {"append", "ensure", "replace"}
    BY <1>1, <1>2, <2>1 DEF visit, Feature
  <2>2. CASE e.kind \in {"retractFact", "retractSlot", "persist"}
    BY <2>2 DEF visit, Feature
  <2>3. CASE e.kind \in {"retractExact", "correct", "expire"}
    BY <1>1, <1>2, <2>3 DEF visit, Feature
  <2>. QED BY <1>3, <2>1, <2>2, <2>3 DEF validateItem
<1>4. \A n \in 1..Len(r.items) : visit(r.items[n]) \subseteq Feature
  BY <1>3 DEF Validate
<1>5. r.vocabulary # "" => {<<"vocabulary", r.vocabulary>>} \subseteq Feature
  <2>. SUFFICES ASSUME r.vocabulary # ""
                PROVE  <<"vocabulary", r.vocabulary>> \in Feature
    OBVIOUS
  <2>1. r.vocabulary \in {"create", "reject"}
    BY DEF Validate
  <2>. QED BY <2>1 DEF Feature
<1>. QED BY <1>4, <1>5 DEF Features

-----------------------------------------------------------------------------
(***************************************************************************)
(* The inductive invariant: every check of WriteRequest was passed by what *)
(* was sent, and by what was refused up to the refusal.                    *)
(***************************************************************************)
KeyOf(c) == IF c.operation = NoOperation
              THEN c.key ELSE SemanticKey(c.operation.namespace, c.operation.parts)

Passed(s) ==
  /\ s.call \in Calls[session]
  /\ Validate(s.call.request)
  /\ validateWriteFeatures(s.call.request) = {}
  /\ s.body = Encode(s.call.request)
  /\ ~keyError(s.key, session.prefix, session.maxBytes)
  /\ s.key = KeyOf(s.call)
  /\ s.wire = resolved(s.key, session.prefix)

RefusedInv ==
  /\ refused.error \in Error
  /\ refused.error = "feature" =>
       /\ refused.call \in Calls[session]
       /\ Validate(refused.call.request)
       /\ refused.about \in validateWriteFeatures(refused.call.request)

Inv == session \in Sessions /\ (\A s \in sent : Passed(s)) /\ RefusedInv

LEMMA InitInv == Init => Inv
BY DEF Init, Inv, RefusedInv, Accepted, Error

LEMMA RequestInv ==
  ASSUME Inv, NEW c \in Calls[session], NEW key, WriteRequest(c, key), key = KeyOf(c)
  PROVE  Inv'
<1>1. CASE \E f \in {""} \cup validateWriteFeatures(c.request), e \in Error :
             /\ Refuse(c, e, f)
             /\ e = "feature" => Validate(c.request) /\ f \in validateWriteFeatures(c.request)
  <2>1. PICK f \in {""} \cup validateWriteFeatures(c.request), e \in Error :
               /\ Refuse(c, e, f)
               /\ e = "feature" => Validate(c.request) /\ f \in validateWriteFeatures(c.request)
    BY <1>1
  <2>2. refused'.error = e /\ refused'.about = f /\ refused'.call = c
        /\ UNCHANGED <<session, sent>>
    BY <2>1 DEF Refuse
  <2>3. RefusedInv'
    BY <2>1, <2>2 DEF RefusedInv, validateWriteFeatures
  <2>. QED BY <2>2, <2>3 DEF Inv, Passed, validateWriteFeatures
<1>2. CASE /\ Validate(c.request) /\ validateWriteFeatures(c.request) = {}
           /\ ~keyError(key, session.prefix, session.maxBytes)
           /\ sent' = sent \cup {[call |-> c, key |-> key, body |-> Encode(c.request),
                                  wire |-> resolved(key, session.prefix)]}
           /\ refused' = Accepted
           /\ UNCHANGED session
  <2>. DEFINE new == [call |-> c, key |-> key, body |-> Encode(c.request),
                      wire |-> resolved(key, session.prefix)]
  <2>1. /\ new.call = c /\ new.key = key /\ new.body = Encode(c.request)
        /\ new.wire = resolved(key, session.prefix)
    OBVIOUS
  <2>. HIDE DEF new
  <2>2. Passed(new)
    BY <1>2, <2>1 DEF Passed
  <2>3. sent' = sent \cup {new}
    BY <1>2 DEF new
  <2>4. \A s \in sent' : Passed(s)'
    BY <1>2, <2>2, <2>3 DEF Inv, Passed, validateWriteFeatures
  <2>5. RefusedInv'
    BY <1>2 DEF RefusedInv, Accepted, Error
  <2>. QED BY <1>2, <2>4, <2>5 DEF Inv
<1>. QED BY <1>1, <1>2 DEF WriteRequest, Error

LEMMA NextInv == Inv /\ [Next]_vars => Inv'
<1>. SUFFICES ASSUME Inv, [Next]_vars PROVE Inv'
  OBVIOUS
<1>1. ASSUME NEW c \in Calls[session], Author(c)
      PROVE  Inv'
  <2>1. CASE WriteRequest(c, KeyOf(c))
    BY <2>1, RequestInv
  <2>2. CASE Refuse(c, "key", "")
    <3>1. refused'.error = "key" /\ UNCHANGED <<session, sent>>
      BY <2>2 DEF Refuse
    <3>2. RefusedInv'
      BY <3>1 DEF RefusedInv, Error
    <3>. QED BY <3>1, <3>2 DEF Inv, Passed, validateWriteFeatures
  <2>. QED BY <1>1, <2>1, <2>2 DEF Author, KeyOf
<1>2. CASE UNCHANGED vars
  BY <1>2 DEF vars, Inv, Passed, RefusedInv, validateWriteFeatures
<1>. QED BY <1>1, <1>2 DEF Next

LEMMA Always == Spec => []Inv
BY InitInv, NextInv, PTL DEF Spec

\* What was sent or refused is a request of the declared type.
LEMMA Requested ==
  ASSUME Inv, NEW c \in Calls[session]
  PROVE  c.request \in Request
BY AuthoringAssumption DEF Inv

\* A key that passes resolveWriteKey is a wire key of the session.
LEMMA ResolvedKeys ==
  ASSUME Inv, NEW s \in sent
  PROVE  validateKeySyntax(s.wire, session.maxBytes, session.prefix)
<1>1. ~keyError(s.key, session.prefix, session.maxBytes) /\ s.wire = resolved(s.key, session.prefix)
  BY DEF Inv, Passed
<1>2. CASE s.key.tag = "suffix"
  BY <1>1, <1>2 DEF keyError, resolved
<1>3. CASE s.key.tag # "suffix"
  BY <1>1, <1>3 DEF keyError, resolved
<1>. QED BY <1>2, <1>3

-----------------------------------------------------------------------------
\* Sessions, refusals and wire keys are well formed; no key on the wire is
\* longer than the daemon advertised.
THEOREM AuthoringTypeCorrect == Spec => []TypeOK
<1>1. Inv => TypeOK
  <2>. SUFFICES ASSUME Inv PROVE TypeOK
    OBVIOUS
  <2>1. refused.error = "feature" => refused.about \in Feature
    BY Requested, FeaturesNamed DEF Inv, RefusedInv, validateWriteFeatures
  <2>2. ASSUME NEW s \in sent
        PROVE  /\ s.call \in Calls[session]
               /\ validWireToken(s.wire) /\ Len(s.wire) <= session.maxBytes
    BY ResolvedKeys DEF Inv, Passed, validateKeySyntax
  <2>. QED BY <2>1, <2>2 DEF Inv, RefusedInv, TypeOK
<1>. QED BY <1>1, Always, PTL

\* Every body that is sent can be executed with the advertised features.
THEOREM SentIsAdvertisedHolds == Spec => []SentIsAdvertised
<1>1. Inv => SentIsAdvertised
  <2>. SUFFICES ASSUME Inv, NEW s \in sent
                PROVE  Needs(s.body) \subseteq session.features
    BY DEF SentIsAdvertised
  <2>1. /\ s.call \in Calls[session] /\ Validate(s.call.request)
        /\ validateWriteFeatures(s.call.request) = {} /\ s.body = Encode(s.call.request)
    BY DEF Inv, Passed
  <2>2. Needs(s.body) = Features(s.call.request)
    BY <2>1, Requested, RequestNeeds
  <2>. QED BY <2>1, <2>2 DEF validateWriteFeatures
<1>. QED BY <1>1, Always, PTL

\* No write is refused for a feature that its body does not need.
THEOREM RefusalIsMinimalHolds == Spec => []RefusalIsMinimal
<1>1. Inv => RefusalIsMinimal
  <2>. SUFFICES ASSUME Inv, refused.error = "feature"
                PROVE  refused.about \in Needs(Encode(refused.call.request)) \ session.features
    BY DEF RefusalIsMinimal
  <2>1. /\ refused.call \in Calls[session] /\ Validate(refused.call.request)
        /\ refused.about \in validateWriteFeatures(refused.call.request)
    BY DEF Inv, RefusedInv
  <2>2. Needs(Encode(refused.call.request)) = Features(refused.call.request)
    BY <2>1, Requested, RequestNeeds
  <2>. QED BY <2>1, <2>2 DEF validateWriteFeatures
<1>. QED BY <1>1, Always, PTL

\* A suffix that is a wire key of the session already is never sent: every wire
\* key begins with the prefix, and no accepted suffix does.
THEOREM PrefixAppliedOnceHolds == Spec => []PrefixAppliedOnce
<1>1. Inv => PrefixAppliedOnce
  <2>. SUFFICES ASSUME Inv, session.prefix # <<>>, NEW s \in sent, NEW t \in sent,
                       s.key.tag = "suffix"
                PROVE  s.key.value # t.wire
    BY DEF PrefixAppliedOnce
  <2>1. ~IsPrefix(session.prefix, s.key.value)
    BY DEF Inv, Passed, keyError
  <2>2. IsPrefix(session.prefix, t.wire)
    BY ResolvedKeys DEF validateKeySyntax
  <2>. QED BY <2>1, <2>2
<1>. QED BY <1>1, Always, PTL

-----------------------------------------------------------------------------
(***************************************************************************)
(* Encoding loses nothing of a valid request                               *)
(***************************************************************************)

\* UnixNano is the identity on what an int64 can hold.
LEMMA UnixNanoExact ==
  ASSUME NEW t \in Int64
  PROVE  unixNano(t) = t
<1>1. Half \in Nat \ {0}
  BY AuthoringAssumption
<1>2. t + Half \in 0..(2 * Half) - 1
  BY <1>1 DEF Int64
<1>3. (t + Half) % (2 * Half) = t + Half
  BY <1>1, <1>2
<1>. QED BY <1>1, <1>3 DEF unixNano, Int64

\* Valid text is written as it is.
LEMMA TextKept ==
  ASSUME NEW t, t \notin NotUTF8
  PROVE  json(t) = t
BY DEF json

\* Valid objects that look the same on the wire are the same.
LEMMA ObjectsDistinguish ==
  ASSUME NEW o \in ObjectValue, NEW u \in ObjectValue, validateObject(o), validateObject(u),
         wireObject(o) = wireObject(u)
  PROVE  o = u
<1>1. /\ o = [tag |-> o.tag, label |-> o.label, number |-> o.number]
      /\ u = [tag |-> u.tag, label |-> u.label, number |-> u.number]
  BY DEF ObjectValue
<1>2. o.tag \in {"entity", "number"} /\ u.tag \in {"entity", "number"}
  BY DEF validateObject
<1>3. ASSUME NEW x, x.tag = "entity", validateObject(x)
      PROVE  wireObject(x).kind = "string" /\ wireObject(x).text = x.label
  <2>1. x.label \notin NotUTF8
    BY <1>3 DEF validateObject, validateLabel
  <2>2. wireObject(x) = [kind |-> "string", text |-> x.label, number |-> 0]
    BY <1>3, <2>1, TextKept DEF wireObject
  <2>. QED BY <2>2
<1>4. ASSUME NEW x, x.tag = "number"
      PROVE  wireObject(x) = [kind |-> "number", text |-> "", number |-> x.number]
  BY <1>4 DEF wireObject
<1>5. CASE o.tag = "entity" /\ u.tag = "entity"
  <2>1. o.label = u.label
    BY <1>3, <1>5
  <2>2. o.number = 0 /\ u.number = 0
    BY <1>5 DEF ObjectValue
  <2>. QED BY <1>1, <1>5, <2>1, <2>2
<1>6. CASE o.tag = "number" /\ u.tag = "number"
  <2>1. [kind |-> "number", text |-> "", number |-> o.number]
          = [kind |-> "number", text |-> "", number |-> u.number]
    BY <1>4, <1>6
  <2>4. o.number = u.number
    BY <2>1, Zenon
  <2>2. o.label = "" /\ u.label = ""
    BY <1>6 DEF ObjectValue
  <2>. QED BY <1>1, <1>6, <2>4, <2>2
<1>7. ASSUME NEW x, NEW y, x.tag = "entity", y.tag = "number", validateObject(x)
      PROVE  wireObject(x) # wireObject(y)
  <2>1. PICK v : wireObject(x) = [kind |-> "string", text |-> v, number |-> 0]
    BY <1>7 DEF wireObject
  <2>2. wireObject(y) = [kind |-> "number", text |-> "", number |-> y.number]
    BY <1>4, <1>7
  <2>3. [kind |-> "string", text |-> v, number |-> 0]
          # [kind |-> "number", text |-> "", number |-> y.number]
    BY Zenon
  <2>. QED BY <2>1, <2>2, <2>3
<1>. QED BY <1>2, <1>5, <1>6, <1>7

\* Multiples are told apart by their quotients.
LEMMA QuotientsDistinguish ==
  ASSUME NEW m \in Nat, m > 0, NEW x \in Int, NEW y \in Int,
         x % m = 0, y % m = 0, x \div m = y \div m
  PROVE  x = y
OBVIOUS

\* Valid deadlines are neither rounded nor wrapped onto one another.
LEMMA DeadlinesDistinguish ==
  ASSUME NEW d \in Deadline, NEW c \in Deadline, validateDeadline(d), validateDeadline(c),
         encodeDeadline(d) = encodeDeadline(c)
  PROVE  d = c
<1>1. /\ d = [tag |-> d.tag, ns |-> d.ns] /\ c = [tag |-> c.tag, ns |-> c.ns]
      /\ d.ns \in Int /\ c.ns \in Int
      /\ d.tag \in {"unset", "after", "at"} /\ c.tag \in {"unset", "after", "at"}
  BY DEF Deadline
<1>2. \A x : /\ x.tag = "after" =>
                  encodeDeadline(x) = [field |-> "ttl_ms", value |-> x.ns \div Millisecond]
             /\ x.tag = "at" =>
                  encodeDeadline(x) = [field |-> "expires_at_ns", value |-> unixNano(x.ns)]
             /\ x.tag = "unset" => encodeDeadline(x) = [field |-> "none", value |-> 0]
  BY DEF encodeDeadline
<1>3. CASE d.tag = "after" /\ c.tag = "after"
  <2>1. d.ns \div Millisecond = c.ns \div Millisecond
    BY <1>2, <1>3
  <2>2. d.ns % Millisecond = 0 /\ c.ns % Millisecond = 0
    BY <1>3 DEF validateDeadline
  <2>3. Millisecond \in Nat \ {0}
    BY AuthoringAssumption
  <2>4. d.ns = c.ns
    BY <1>1, <2>1, <2>2, <2>3, QuotientsDistinguish
  <2>. QED BY <1>1, <1>3, <2>4
<1>4. CASE d.tag = "at" /\ c.tag = "at"
  <2>1. unixNano(d.ns) = unixNano(c.ns)
    BY <1>2, <1>4
  <2>2. unixNano(d.ns) = d.ns /\ unixNano(c.ns) = c.ns
    BY <1>4 DEF validateDeadline, exactUnixNano
  <2>. QED BY <1>1, <1>4, <2>1, <2>2
<1>5. CASE d.tag = "unset" /\ c.tag = "unset"
  BY <1>1, <1>5 DEF Deadline
<1>6. CASE d.tag # c.tag
  <2>1. encodeDeadline(d).field # encodeDeadline(c).field
    BY <1>1, <1>2, <1>6
  <2>. QED BY <2>1
<1>. QED BY <1>1, <1>3, <1>4, <1>5, <1>6

\* What the checks of its list leave of an item's fields.
LEMMA WholeItem ==
  ASSUME NEW e \in Item
  PROVE  e = [kind |-> e.kind, slot |-> e.slot, object |-> e.object, fact |-> e.fact,
              tense |-> e.tense, raw |-> e.raw, deadline |-> e.deadline]
BY DEF Item

\* Valid entries that look the same on the wire are the same.
LEMMA ItemsDistinguish ==
  ASSUME NEW e \in Item, NEW f \in Item, validateItem(e), validateItem(f),
         encodeItem(e) = encodeItem(f)
  PROVE  e = f
<1>. DEFINE Recording == {"append", "ensure", "replace"}
            Retracting == {"retractFact", "retractExact", "retractSlot"}
<1>1. ASSUME NEW x \in Item, validateItem(x)
      PROVE  x.kind \in Recording \cup Retracting \cup {"correct", "expire", "persist"}
  BY <1>1 DEF validateItem
<1>2. e.kind = f.kind
  <2>. DEFINE selector(k) == CASE k = "retractFact" -> "fact" [] k = "retractExact" -> "where"
                               [] k = "retractSlot" -> "slot" [] OTHER -> ""
              mode(k) == IF k \in {"ensure", "replace"} THEN k ELSE ""
  <2>1. ASSUME NEW k \in Recording \cup Retracting \cup {"correct", "expire", "persist"},
               NEW l \in Recording \cup Retracting \cup {"correct", "expire", "persist"},
               ListOf(k) = ListOf(l), selector(k) = selector(l), mode(k) = mode(l)
        PROVE  k = l
    <3>1. CASE k \in Recording
      <4>1. mode("append") = "" /\ mode("ensure") = "ensure" /\ mode("replace") = "replace"
        OBVIOUS
      <4>2. l \in Recording
        BY <2>1, <3>1 DEF ListOf
      <4>3. mode(k) = mode(l)
        BY <2>1
      <4>. HIDE DEF mode
      <4>. QED BY <3>1, <4>1, <4>2, <4>3
    <3>2. CASE k \in Retracting
      <4>1. selector("retractFact") = "fact" /\ selector("retractExact") = "where"
            /\ selector("retractSlot") = "slot"
        OBVIOUS
      <4>2. l \in Retracting
        BY <2>1, <3>2 DEF ListOf
      <4>3. selector(k) = selector(l)
        BY <2>1
      <4>. HIDE DEF selector
      <4>. QED BY <3>2, <4>1, <4>2, <4>3
    <3>3. CASE k \in {"correct", "expire", "persist"}
      BY <2>1, <3>3 DEF ListOf
    <3>. QED BY <3>1, <3>2, <3>3
  <2>2. e.kind \in Recording \cup Retracting \cup {"correct", "expire", "persist"}
        /\ f.kind \in Recording \cup Retracting \cup {"correct", "expire", "persist"}
    BY <1>1
  <2>3. ListOf(e.kind) = ListOf(f.kind) /\ selector(e.kind) = selector(f.kind)
        /\ mode(e.kind) = mode(f.kind)
    BY WireFields
  <2>. HIDE DEF selector, mode, Recording, Retracting
  <2>. QED BY <2>1, <2>2, <2>3
<1>3. /\ (IF Targets(e) THEN e.fact ELSE NoFact) = (IF Targets(f) THEN f.fact ELSE NoFact)
      /\ (IF Owns(e) \/ Places(e) THEN json(e.slot) ELSE "")
           = (IF Owns(f) \/ Places(f) THEN json(f.slot) ELSE "")
      /\ (IF e.kind \in {"append", "correct"} THEN json(e.tense) ELSE "")
           = (IF f.kind \in {"append", "correct"} THEN json(f.tense) ELSE "")
      /\ (IF e.kind \in {"append", "correct"} THEN json(e.raw) ELSE "")
           = (IF f.kind \in {"append", "correct"} THEN json(f.raw) ELSE "")
      /\ (IF OwnsTriple(e) \/ Places(e) \/ e.kind = "replace"
             THEN wireObject(e.object) ELSE NoObject)
           = (IF OwnsTriple(f) \/ Places(f) \/ f.kind = "replace"
                THEN wireObject(f.object) ELSE NoObject)
      /\ encodeDeadline(e.deadline) = encodeDeadline(f.deadline)
  BY Zenon DEF encodeItem
<1>4. e.fact = f.fact
  <2>1. \A x \in Item : validateItem(x) /\ ~Targets(x) => x.fact = NoFact
    BY DEF validateItem, Item, Targets
  <2>2. Targets(e) <=> Targets(f)
    BY <1>2 DEF Targets
  <2>. QED BY <1>3, <2>1, <2>2
<1>5. e.slot = f.slot
  <2>1. ASSUME NEW x \in Item, validateItem(x)
        PROVE  IF Owns(x) \/ Places(x) THEN json(x.slot) = x.slot ELSE x.slot = ""
    <3>1. CASE Owns(x) \/ Places(x)
      <4>1. x.slot \notin NotUTF8
        BY <2>1, <3>1 DEF validateItem, validateRecord, validateLabel, Owns, OwnsTriple,
                          OwnsSlot, Places
      <4>. QED BY <3>1, <4>1, TextKept
    <3>2. CASE ~(Owns(x) \/ Places(x))
      BY <1>1, <2>1, <3>2 DEF Item, Creating, Owns, OwnsTriple, OwnsSlot, Places
    <3>. QED BY <3>1, <3>2
  <2>2. Owns(e) \/ Places(e) <=> Owns(f) \/ Places(f)
    BY <1>2 DEF Owns, OwnsTriple, OwnsSlot, Places
  <2>. QED BY <1>3, <2>1, <2>2
<1>6. e.tense = f.tense /\ e.raw = f.raw
  <2>1. ASSUME NEW x \in Item, validateItem(x)
        PROVE  IF x.kind \in {"append", "correct"}
                 THEN json(x.tense) = x.tense /\ json(x.raw) = x.raw
                 ELSE x.tense = "" /\ x.raw = ""
    <3>1. CASE x.kind \in {"append", "correct"}
      <4>1. x.tense \notin NotUTF8 /\ x.raw \notin NotUTF8
        BY <2>1, <3>1, AuthoringAssumption DEF validateItem, validateRecord, validateLabel
      <4>. QED BY <3>1, <4>1, TextKept
    <3>2. CASE x.kind \in {"ensure", "replace"}
      BY <2>1, <3>2 DEF validateItem, validateRecord
    <3>3. CASE x.kind \notin {"append", "correct", "ensure", "replace"}
      BY <1>1, <2>1, <3>3 DEF Item, Creating
    <3>. QED BY <3>1, <3>2, <3>3
  <2>. QED BY <1>2, <1>3, <2>1
<1>7. e.object = f.object
  <2>. DEFINE Wired(x) == OwnsTriple(x) \/ Places(x) \/ x.kind = "replace"
  <2>1. \A x \in Item : x.object \in ObjectValue
    BY DEF Item
  <2>2. \A x \in Item : validateItem(x) /\ Wired(x) => validateObject(x.object)
    BY DEF validateItem, validateRecord, OwnsTriple, Places
  <2>3. ASSUME NEW x \in Item, validateItem(x), ~Wired(x)
        PROVE  x.object = [tag |-> "unset", label |-> "", number |-> 0]
    <3>1. x.object.tag = "unset"
      BY <1>1, <2>3 DEF Item, Creating, OwnsTriple, Places
    <3>. QED BY <2>1, <3>1 DEF ObjectValue
  <2>4. Wired(e) <=> Wired(f)
    BY <1>2 DEF OwnsTriple, Places
  <2>5. CASE Wired(e)
    <3>1. wireObject(e.object) = wireObject(f.object)
      BY <1>3, <2>4, <2>5
    <3>. QED BY <2>1, <2>2, <2>4, <2>5, <3>1, ObjectsDistinguish
  <2>. QED BY <2>3, <2>4, <2>5
<1>8. e.deadline = f.deadline
  <2>1. \A x \in Item : x.deadline \in Deadline
    BY DEF Item
  <2>2. ASSUME NEW x \in Item, validateItem(x)
        PROVE  validateDeadline(x.deadline)
    <3>1. CASE x.kind \in Recording \cup {"correct", "expire"}
      BY <2>2, <3>1 DEF validateItem, validateRecord
    <3>2. CASE x.kind \in Retracting \cup {"persist"}
      <4>1. x.deadline.tag = "unset"
        BY <3>2 DEF Item, Creating
      <4>. QED BY <4>1 DEF validateDeadline
    <3>. QED BY <1>1, <2>2, <3>1, <3>2
  <2>. QED BY <1>3, <2>1, <2>2, DeadlinesDistinguish
<1>. QED BY <1>2, <1>4, <1>5, <1>6, <1>7, <1>8, WholeItem

\* Valid transaction times that look the same on the wire are the same instant.
LEMMA TimesDistinguish ==
  ASSUME NEW t \in TransactionTime, NEW u \in TransactionTime,
         t.tag = "at" => exactUnixNano(t.ns), u.tag = "at" => exactUnixNano(u.ns),
         encodeTime(t) = encodeTime(u)
  PROVE  (IF t.tag = "unset" THEN <<>> ELSE <<t.ns>>) = (IF u.tag = "unset" THEN <<>> ELSE <<u.ns>>)
<1>1. t.tag = "unset" <=> u.tag = "unset"
  BY DEF encodeTime
<1>2. ASSUME NEW x \in TransactionTime, x.tag # "unset", x.tag = "at" => exactUnixNano(x.ns)
      PROVE  unixNano(x.ns) = x.ns
  <2>1. CASE x.tag = "at"
    BY <1>2, <2>1 DEF exactUnixNano
  <2>2. CASE x.tag = "nanoseconds"
    BY <2>2, UnixNanoExact DEF TransactionTime
  <2>. QED BY <1>2, <2>1, <2>2 DEF TransactionTime
<1>3. CASE t.tag # "unset"
  <2>1. [present |-> TRUE, value |-> unixNano(t.ns)] = [present |-> TRUE, value |-> unixNano(u.ns)]
    BY <1>1, <1>3 DEF encodeTime
  <2>2. unixNano(t.ns) = unixNano(u.ns)
    BY <2>1, Zenon
  <2>. QED BY <1>1, <1>2, <1>3, <2>2
<1>. QED BY <1>1, <1>3

\* Valid requests with one body mean the same.
LEMMA RequestsDistinguish ==
  ASSUME NEW r \in Request, NEW q \in Request, Validate(r), Validate(q), Encode(r) = Encode(q)
  PROVE  Meaning(r) = Meaning(q)
<1>1. /\ r.items \in Seq(Item) /\ q.items \in Seq(Item)
      /\ r.time \in TransactionTime /\ q.time \in TransactionTime
  BY DEF Request
<1>2. /\ [n \in 1..Len(r.items) |-> encodeItem(r.items[n])]
           = [n \in 1..Len(q.items) |-> encodeItem(q.items[n])]
      /\ r.vocabulary = q.vocabulary
      /\ encodeTime(r.time) = encodeTime(q.time)
  BY Zenon DEF Encode
<1>3. Len(r.items) = Len(q.items)
  <2>. DEFINE m == Len(r.items)
              k == Len(q.items)
              f == [n \in 1..m |-> encodeItem(r.items[n])]
              g == [n \in 1..k |-> encodeItem(q.items[n])]
  <2>1. DOMAIN f = 1..m /\ DOMAIN g = 1..k
    OBVIOUS
  <2>2. 1..m = 1..k
    BY <1>2, <2>1
  <2>3. m \in Nat /\ k \in Nat
    BY <1>1
  <2>. HIDE DEF m, k
  <2>4. m = k
    BY <2>2, <2>3
  <2>. QED BY <2>4 DEF m, k
<1>4. ASSUME NEW n \in 1..Len(r.items)
      PROVE  r.items[n] = q.items[n]
  <2>1. r.items[n] \in Item /\ q.items[n] \in Item
    BY <1>1, <1>3
  <2>2. validateItem(r.items[n]) /\ validateItem(q.items[n])
    BY <1>3 DEF Validate
  <2>3. encodeItem(r.items[n]) = encodeItem(q.items[n])
    BY <1>2, <1>3
  <2>. QED BY <2>1, <2>2, <2>3, ItemsDistinguish
<1>5. r.items = q.items
  <2>. HIDE DEF Item
  <2>. QED BY <1>1, <1>3, <1>4
<1>6. (IF r.time.tag = "unset" THEN <<>> ELSE <<r.time.ns>>)
        = (IF q.time.tag = "unset" THEN <<>> ELSE <<q.time.ns>>)
  BY <1>1, <1>2, TimesDistinguish DEF Validate
<1>. QED BY <1>2, <1>5, <1>6 DEF Meaning

\* Requests that mean different things have different bodies.
THEOREM BodiesDistinguishHolds == Spec => []BodiesDistinguish
<1>1. Inv => BodiesDistinguish
  <2>. SUFFICES ASSUME Inv, NEW s \in sent, NEW t \in sent, s.body = t.body
                PROVE  Meaning(s.call.request) = Meaning(t.call.request)
    BY DEF BodiesDistinguish
  <2>1. /\ s.call \in Calls[session] /\ Validate(s.call.request)
        /\ s.body = Encode(s.call.request)
        /\ t.call \in Calls[session] /\ Validate(t.call.request)
        /\ t.body = Encode(t.call.request)
    BY DEF Inv, Passed
  <2>. QED BY <2>1, Requested, RequestsDistinguish
<1>. QED BY <1>1, Always, PTL

-----------------------------------------------------------------------------
(***************************************************************************)
(* A derived key tells its operation                                       *)
(***************************************************************************)

\* What single bytes are made of.
LEMMA ByteSequences ==
  ASSUME NEW t \in Seq(Byte)
  PROVE  /\ t \in Seq(Seq(Nat)) /\ Len(t) \in Nat
         /\ \A i \in 1..Len(t) : t[i] \in Seq(Nat) /\ Len(t[i]) = 1
<1>1. Byte \subseteq Seq(Nat)
  BY DEF Byte
<1>2. t \in Seq(Seq(Nat))
  BY <1>1, SeqMonotonic
<1>3. \A i \in 1..Len(t) : t[i] \in Byte
  BY ElementOfSeq
<1>. QED BY <1>2, <1>3 DEF Byte

\* Bytes are a prefix-free code.
LEMMA BytesFree == PrefixFree(Byte, Nat)
<1>1. Byte \subseteq Seq(Nat)
  BY DEF Byte
<1>2. ASSUME NEW x \in Byte, NEW y \in Byte, NEW u \in Seq(Nat), NEW v \in Seq(Nat), x \o u = y \o v
      PROVE  x = y
  <2>1. x \in Seq(Nat) /\ y \in Seq(Nat) /\ Len(x) = 1 /\ Len(y) = 1
    BY DEF Byte
  <2>. QED BY <1>2, <2>1, Cut
<1>. QED BY <1>1, <1>2, Zenon DEF PrefixFree

\* A text is as long as its bytes are many.
LEMMA BytesOf ==
  ASSUME NEW t \in Seq(Byte)
  PROVE  FlattenSeq(t) \in Seq(Nat) /\ Len(FlattenSeq(t)) = Len(t)
<1>1. /\ t \in Seq(Seq(Nat)) /\ Len(t) \in Nat
      /\ \A i \in 1..Len(t) : t[i] \in Seq(Nat) /\ Len(t[i]) = 1
  BY ByteSequences
<1>2. CASE Len(t) = 0
  <2>1. t = <<>>
    BY <1>2
  <2>. QED BY <1>2, <2>1 DEF FlattenSeq
<1>3. CASE Len(t) > 0
  <2>1. PICK f : /\ \A i \in 1..Len(t) : f[i] \in Seq(Nat)
                 /\ f[1] = t[1]
                 /\ \A i \in 2..Len(t) : f[i] = f[i - 1] \o t[i]
                 /\ FlattenSeq(t) = f[Len(t)]
    BY <1>1, <1>3, Flattened
  <2>. DEFINE Counted == {m \in Nat : m + 1 \in 1..Len(t) => Len(f[m + 1]) = m + 1}
  <2>2. 0 \in Counted
    BY <1>1, <1>3, <2>1
  <2>3. ASSUME NEW m \in Nat, m \in Counted
        PROVE  m + 1 \in Counted
    <3>. SUFFICES ASSUME m + 2 \in 1..Len(t) PROVE Len(f[m + 2]) = m + 2
      OBVIOUS
    <3>1. m + 1 \in 1..Len(t) /\ m + 2 \in 2..Len(t) /\ (m + 2) - 1 = m + 1
      BY <1>1
    <3>2. f[m + 2] = f[m + 1] \o t[m + 2]
      BY <2>1, <3>1
    <3>3. /\ f[m + 1] \in Seq(Nat) /\ Len(f[m + 1]) = m + 1
          /\ t[m + 2] \in Seq(Nat) /\ Len(t[m + 2]) = 1
      BY <1>1, <2>1, <2>3, <3>1
    <3>4. Len(f[m + 1] \o t[m + 2]) = Len(f[m + 1]) + Len(t[m + 2])
      BY <3>3, ConcatProperties
    <3>. QED BY <3>2, <3>3, <3>4
  <2>4. Nat \subseteq Counted
    <3>. HIDE DEF Counted
    <3>. QED BY <2>2, <2>3, Induction
  <2>5. Len(t) - 1 \in Counted
    <3>. HIDE DEF Counted
    <3>1. Len(t) - 1 \in Nat
      BY <1>1, <1>3
    <3>. QED BY <2>4, <3>1
  <2>6. Len(t) - 1 + 1 = Len(t) /\ Len(t) \in 1..Len(t)
    BY <1>1, <1>3
  <2>. QED BY <2>1, <2>5, <2>6
<1>. QED BY <1>1, <1>2, <1>3

\* Texts with the same bytes are the same.
LEMMA TextsDistinguish ==
  ASSUME NEW s \in Seq(Byte), NEW t \in Seq(Byte), FlattenSeq(s) = FlattenSeq(t)
  PROVE  s = t
<1>1. Len(s) = Len(t)
  BY BytesOf
<1>. QED BY <1>1, BytesFree, CodesDistinguish

\* The bytes of a sequence of byte strings.
LEMMA FlatBytes ==
  ASSUME NEW s \in Seq(Seq(Nat))
  PROVE  FlattenSeq(s) \in Seq(Nat)
<1>1. CASE Len(s) = 0
  <2>1. s = <<>>
    BY <1>1
  <2>. QED BY <1>1, <2>1 DEF FlattenSeq
<1>2. CASE Len(s) > 0
  <2>1. PICK f : /\ \A i \in 1..Len(s) : f[i] \in Seq(Nat)
                 /\ FlattenSeq(s) = f[Len(s)]
    BY <1>2, Flattened
  <2>2. Len(s) \in 1..Len(s)
    BY <1>2
  <2>. QED BY <2>1, <2>2
<1>3. Len(s) \in Nat
  OBVIOUS
<1>. QED BY <1>1, <1>2, <1>3

\* What writeSemanticFrame can write.
Framed == {<<Len(b)>> \o b : b \in Seq(Nat)}

\* Counted byte strings cannot run into what follows them.
LEMMA FramesFree == PrefixFree(Framed, Nat)
<1>1. ASSUME NEW b \in Seq(Nat)
      PROVE  /\ <<Len(b)>> \in Seq(Nat) /\ Len(<<Len(b)>>) = 1
             /\ <<Len(b)>> \o b \in Seq(Nat) /\ Len(<<Len(b)>> \o b) = 1 + Len(b)
             /\ (<<Len(b)>> \o b)[1] = Len(b)
  OBVIOUS
<1>2. Framed \subseteq Seq(Nat)
  BY <1>1 DEF Framed
<1>3. ASSUME NEW x \in Framed, NEW y \in Framed, NEW u \in Seq(Nat), NEW v \in Seq(Nat), x \o u = y \o v
      PROVE  x = y
  <2>1. PICK b \in Seq(Nat) : x = <<Len(b)>> \o b
    BY DEF Framed
  <2>2. PICK c \in Seq(Nat) : y = <<Len(c)>> \o c
    BY DEF Framed
  <2>3. /\ x \in Seq(Nat) /\ Len(x) = 1 + Len(b) /\ x[1] = Len(b)
        /\ y \in Seq(Nat) /\ Len(y) = 1 + Len(c) /\ y[1] = Len(c)
        /\ Len(b) \in Nat /\ Len(c) \in Nat
    BY <1>1, <2>1, <2>2
  <2>4. (x \o u)[1] = x[1]
    BY <2>3
  <2>5. (y \o v)[1] = y[1]
    BY <2>3
  <2>6. Len(x) = Len(y)
    BY <1>3, <2>3, <2>4, <2>5
  <2>. QED BY <1>3, <2>3, <2>6, Cut
<1>. QED BY <1>2, <1>3, Zenon DEF PrefixFree

\* A frame tells its text.
LEMMA FramesDistinguish ==
  ASSUME NEW s \in Seq(Byte), NEW t \in Seq(Byte)
  PROVE  /\ writeSemanticFrame(s) \in Framed
         /\ writeSemanticFrame(s) = writeSemanticFrame(t) => s = t
<1>1. FlattenSeq(s) \in Seq(Nat) /\ FlattenSeq(t) \in Seq(Nat)
  BY BytesOf
<1>2. writeSemanticFrame(s) \in Framed
  BY <1>1 DEF writeSemanticFrame, Framed
<1>3. ASSUME writeSemanticFrame(s) = writeSemanticFrame(t)
      PROVE  s = t
  <2>1. <<Len(FlattenSeq(s))>> \o FlattenSeq(s) = <<Len(FlattenSeq(t))>> \o FlattenSeq(t)
    BY <1>3 DEF writeSemanticFrame
  <2>2. FlattenSeq(s) = FlattenSeq(t)
    <3>. DEFINE b == FlattenSeq(s)
                c == FlattenSeq(t)
    <3>1. <<Len(b)>> \in Seq(Nat) /\ <<Len(c)>> \in Seq(Nat) /\ Len(<<Len(b)>>) = Len(<<Len(c)>>)
      BY <1>1
    <3>. HIDE DEF b, c
    <3>. QED BY <1>1, <2>1, <3>1, Cut DEF b, c
  <2>. QED BY <2>2, TextsDistinguish
<1>. QED BY <1>2, <1>3

\* What is digested is a sequence of bytes.
LEMMA MessageBytes ==
  ASSUME Domain \in Seq(Seq(Nat)), NEW ns \in Seq(Byte), NEW parts \in Seq(Seq(Byte))
  PROVE  message(ns, parts) \in Seq(Nat)
<1>. DEFINE frames == [n \in 1..Len(parts) |-> writeSemanticFrame(parts[n])]
            head == writeSemanticFrame(Domain) \o writeSemanticFrame(ns)
            rest == FlattenSeq(frames)
<1>1. \A t \in Seq(Seq(Nat)) : writeSemanticFrame(t) \in Seq(Nat)
  BY FlatBytes DEF writeSemanticFrame
<1>2. head \in Seq(Nat)
  <2>1. ns \in Seq(Seq(Nat))
    BY ByteSequences
  <2>. QED BY <1>1, <2>1
<1>3. Len(parts) \in Nat /\ \A n \in 1..Len(parts) : parts[n] \in Seq(Byte)
  BY LenProperties, ElementOfSeq
<1>4. \A n \in 1..Len(parts) : writeSemanticFrame(parts[n]) \in Seq(Nat)
  BY <1>1, <1>3, ByteSequences
<1>5. frames \in Seq(Seq(Nat))
  BY <1>3, <1>4
<1>6. rest \in Seq(Nat)
  BY <1>5, FlatBytes
<1>7. message(ns, parts) = (head \o <<Len(parts)>>) \o rest
  BY DEF message
<1>. HIDE DEF head, rest
<1>. QED BY <1>2, <1>3, <1>6, <1>7

\* One namespace and equal messages: equal parts, one by one.
LEMMA MessagesDistinguish ==
  ASSUME Domain \in Seq(Seq(Nat)), NEW ns \in Seq(Byte),
         NEW p \in Seq(Seq(Byte)), NEW q \in Seq(Seq(Byte)), message(ns, p) = message(ns, q)
  PROVE  p = q
<1>. DEFINE head == writeSemanticFrame(Domain) \o writeSemanticFrame(ns)
            frames(x) == [n \in 1..Len(x) |-> writeSemanticFrame(x[n])]
            rest(x) == FlattenSeq(frames(x))
<1>1. \A t \in Seq(Seq(Nat)) : writeSemanticFrame(t) \in Seq(Nat)
  BY FlatBytes DEF writeSemanticFrame
<1>2. head \in Seq(Nat)
  <2>1. ns \in Seq(Seq(Nat))
    BY ByteSequences
  <2>. QED BY <1>1, <2>1
<1>3. ASSUME NEW x \in Seq(Seq(Byte))
      PROVE  /\ frames(x) \in Seq(Framed) /\ Len(frames(x)) = Len(x) /\ Len(x) \in Nat
             /\ rest(x) \in Seq(Nat) /\ message(ns, x) = (head \o <<Len(x)>>) \o rest(x)
  <2>1. Len(x) \in Nat /\ \A n \in 1..Len(x) : x[n] \in Seq(Byte)
    BY LenProperties, ElementOfSeq
  <2>2. \A n \in 1..Len(x) : writeSemanticFrame(x[n]) \in Framed
    BY <2>1, FramesDistinguish
  <2>3. frames(x) \in Seq(Framed) /\ Len(frames(x)) = Len(x)
    BY <2>1, <2>2
  <2>4. frames(x) \in Seq(Seq(Nat))
    <3>1. Framed \subseteq Seq(Nat)
      BY FramesFree DEF PrefixFree
    <3>. QED BY <2>3, <3>1, SeqMonotonic
  <2>5. rest(x) \in Seq(Nat)
    BY <2>4, FlatBytes
  <2>. QED BY <2>1, <2>3, <2>5 DEF message
<1>. HIDE DEF head, frames
<1>. DEFINE front(x) == head \o <<Len(x)>>
<1>4. front(p) = front(q) /\ rest(p) = rest(q)
  <2>1. /\ front(p) \in Seq(Nat) /\ Len(front(p)) = Len(head) + 1
        /\ front(q) \in Seq(Nat) /\ Len(front(q)) = Len(head) + 1
    BY <1>2, <1>3
  <2>2. rest(p) \in Seq(Nat) /\ rest(q) \in Seq(Nat)
    BY <1>3
  <2>3. front(p) \o rest(p) = front(q) \o rest(q)
    BY <1>3
  <2>4. Len(front(p)) = Len(front(q))
    BY <2>1
  <2>. DEFINE a == front(p)
              b == front(q)
              u == rest(p)
              v == rest(q)
  <2>5. a \in Seq(Nat) /\ b \in Seq(Nat) /\ u \in Seq(Nat) /\ v \in Seq(Nat)
    BY <2>1, <2>2
  <2>6. Len(a) = Len(b) /\ a \o u = b \o v
    BY <2>3, <2>4
  <2>. HIDE DEF a, b, u, v
  <2>7. a = b
    BY <2>5, <2>6, Cut
  <2>8. u = v
    BY <2>5, <2>6, Cut
  <2>. QED BY <2>7, <2>8 DEF a, b, u, v
<1>5. Len(p) = Len(q)
  <2>1. Len(p) \in Nat /\ Len(q) \in Nat
    OBVIOUS
  <2>2. (head \o <<Len(p)>>)[Len(head) + 1] = Len(p) /\ (head \o <<Len(q)>>)[Len(head) + 1] = Len(q)
    BY <1>2, <2>1
  <2>. QED BY <1>4, <2>2
<1>6. frames(p) = frames(q)
  <2>1. FlattenSeq(frames(p)) = FlattenSeq(frames(q))
    BY <1>4
  <2>. QED BY <1>3, <1>5, <2>1, FramesFree, CodesDistinguish
<1>7. ASSUME NEW n \in 1..Len(p)
      PROVE  p[n] = q[n]
  <2>1. frames(p)[n] = writeSemanticFrame(p[n]) /\ frames(q)[n] = writeSemanticFrame(q[n])
    BY <1>5 DEF frames
  <2>2. p[n] \in Seq(Byte) /\ q[n] \in Seq(Byte)
    BY <1>5, ElementOfSeq
  <2>. QED BY <1>6, <2>1, <2>2, FramesDistinguish
<1>. QED BY <1>5, <1>7, SeqEqual

\* What a derived key's value is made of.
LEMMA DerivedKeys ==
  ASSUME NEW ns \in Seq(Byte), NEW parts \in Seq(Seq(Byte)), validSemanticKeyNamespace(ns)
  PROVE  /\ SemanticKey(ns, parts).tag = "suffix"
         /\ SemanticKey(ns, parts).value = ns \o <<Colon, message(ns, parts)>>
         /\ ns \in Seq(Seq(Nat)) /\ <<Colon, message(ns, parts)>> \in Seq(Seq(Nat))
<1>1. SemanticKey(ns, parts) = [tag |-> "suffix", value |-> ns \o <<Colon, message(ns, parts)>>]
  BY DEF SemanticKey, WriteKey
<1>2. ns \in Seq(Seq(Nat))
  BY ByteSequences
<1>3. Colon \in Seq(Nat)
  BY KeysAssumption
<1>4. message(ns, parts) \in Seq(Nat)
  BY KeysAssumption, MessageBytes
<1>. QED BY <1>1, <1>2, <1>3, <1>4

\* The namespace and the message can be read off the value.
LEMMA OperationsDistinguish ==
  ASSUME NEW o \in [namespace : Seq(Byte), parts : Seq(Seq(Byte))],
         NEW p \in [namespace : Seq(Byte), parts : Seq(Seq(Byte))],
         validSemanticKeyNamespace(o.namespace), validSemanticKeyNamespace(p.namespace),
         SemanticKey(o.namespace, o.parts).value = SemanticKey(p.namespace, p.parts).value
  PROVE  o = p
<1>. DEFINE m == message(o.namespace, o.parts)
            k == message(p.namespace, p.parts)
            ns == o.namespace
            ms == p.namespace
<1>1. /\ ns \in Seq(Seq(Nat)) /\ ms \in Seq(Seq(Nat))
      /\ <<Colon, m>> \in Seq(Seq(Nat)) /\ <<Colon, k>> \in Seq(Seq(Nat))
      /\ ns \o <<Colon, m>> = ms \o <<Colon, k>>
  <2>1. /\ ns \in Seq(Byte) /\ o.parts \in Seq(Seq(Byte))
        /\ ms \in Seq(Byte) /\ p.parts \in Seq(Seq(Byte))
    OBVIOUS
  <2>2. /\ SemanticKey(o.namespace, o.parts).value = ns \o <<Colon, m>>
        /\ ns \in Seq(Seq(Nat)) /\ <<Colon, m>> \in Seq(Seq(Nat))
    BY <2>1, DerivedKeys
  <2>3. /\ SemanticKey(p.namespace, p.parts).value = ms \o <<Colon, k>>
        /\ ms \in Seq(Seq(Nat)) /\ <<Colon, k>> \in Seq(Seq(Nat))
    BY <2>1, DerivedKeys
  <2>. QED BY <2>2, <2>3
<1>. HIDE DEF m, k, ns, ms
<1>2. Len(ns) = Len(ms)
  <2>1. Len(ns \o <<Colon, m>>) = Len(ns) + 2 /\ Len(ms \o <<Colon, k>>) = Len(ms) + 2
    BY <1>1, ConcatProperties
  <2>2. Len(ns) \in Nat /\ Len(ms) \in Nat
    BY <1>1
  <2>. QED BY <1>1, <2>1, <2>2
<1>3. ns = ms /\ <<Colon, m>> = <<Colon, k>>
  <2>. DEFINE T == Seq(Nat)
              x == <<Colon, m>>
              y == <<Colon, k>>
  <2>1. ns \in Seq(T)
    BY <1>1
  <2>2. ms \in Seq(T)
    BY <1>1
  <2>3. x \in Seq(T)
    BY <1>1
  <2>4. y \in Seq(T)
    BY <1>1
  <2>5. ns \o x = ms \o y
    BY <1>1
  <2>. HIDE DEF T, x, y
  <2>6. ns = ms
    BY <1>2, <2>1, <2>2, <2>3, <2>4, <2>5, Cut
  <2>7. x = y
    BY <1>2, <2>1, <2>2, <2>3, <2>4, <2>5, Cut
  <2>. QED BY <2>6, <2>7 DEF x, y
<1>4. m = k
  BY <1>3
<1>5. o.parts = p.parts
  BY <1>3, <1>4, KeysAssumption, MessagesDistinguish DEF m, k, ns, ms
<1>. QED BY <1>3, <1>5 DEF ns, ms

\* A key that was sent is the prefix followed by the suffix it stands for.
LEMMA KeysSplit ==
  ASSUME Inv, NEW s \in sent
  PROVE  /\ s.key.value \in Seq(Seq(Nat))
         /\ Logical(s.key) \in Seq(Seq(Nat))
         /\ session.prefix \in Seq(Seq(Nat))
         /\ s.wire = session.prefix \o Logical(s.key)
<1>. DEFINE p == session.prefix
            v == s.key.value
<1>1. /\ ~keyError(s.key, p, session.maxBytes) /\ s.key = KeyOf(s.call)
      /\ s.wire = resolved(s.key, p) /\ s.call \in Calls[session] /\ session \in Sessions
  BY DEF Inv, Passed
<1>2. p \in Seq(Seq(Nat))
  BY <1>1, AuthoringAssumption
<1>3. v \in Seq(Seq(Nat))
  <2>1. CASE s.call.operation = NoOperation
    BY <1>1, <2>1, AuthoringAssumption DEF KeyOf
  <2>2. CASE s.call.operation # NoOperation
    <3>. DEFINE o == s.call.operation
    <3>1. o \in [namespace : Seq(Byte), parts : Seq(Seq(Byte))]
      BY <1>1, AuthoringAssumption
    <3>2. s.key = SemanticKey(o.namespace, o.parts)
      BY <1>1, <2>2 DEF KeyOf
    <3>3. validSemanticKeyNamespace(o.namespace)
      BY <1>1, <3>2 DEF SemanticKey, NoKey, WriteKey, keyError
    <3>4. o.namespace \in Seq(Byte) /\ o.parts \in Seq(Seq(Byte))
      BY <3>1
    <3>. DEFINE ns == o.namespace
                x == <<Colon, message(o.namespace, o.parts)>>
    <3>5. v = ns \o x /\ ns \in Seq(Seq(Nat)) /\ x \in Seq(Seq(Nat))
      BY <3>2, <3>3, <3>4, DerivedKeys
    <3>. HIDE DEF x, ns, v
    <3>. QED BY <3>5
  <2>. QED BY <2>1, <2>2
<1>4. CASE s.key.tag = "suffix"
  BY <1>1, <1>2, <1>3, <1>4 DEF resolved, Logical
<1>5. CASE s.key.tag = "full" /\ p = <<>>
  <2>1. s.wire = v /\ Logical(s.key) = v
    BY <1>1, <1>5 DEF resolved, Logical
  <2>. QED BY <1>2, <1>3, <1>5, <2>1, ConcatEmptySeq
<1>6. CASE s.key.tag = "full" /\ p # <<>>
  <2>1. s.wire = v /\ Logical(s.key) = SubSeq(v, Len(p) + 1, Len(v))
    BY <1>1, <1>6 DEF resolved, Logical
  <2>2. Len(p) <= Len(v) /\ SubSeq(p, 1, Len(p)) = SubSeq(v, 1, Len(p))
    BY <1>1, <1>6 DEF keyError, validateKeySyntax, IsPrefix
  <2>3. Len(p) \in Nat /\ Len(v) \in Nat
    BY <1>2, <1>3, LenProperties
  <2>4. SubSeq(p, 1, Len(p)) = p /\ SubSeq(v, 1, Len(v)) = v
    BY <1>2, <1>3, SubSeqFull
  <2>5. SubSeq(v, 1, Len(p)) \o SubSeq(v, Len(p) + 1, Len(v)) = SubSeq(v, 1, Len(v))
    <3>1. 1 \in 1..Len(v) + 1 /\ Len(p) \in 1 - 1..Len(v) /\ Len(v) \in Len(p)..Len(v)
      BY <2>2, <2>3
    <3>. HIDE DEF p, v
    <3>. QED BY <1>3, <3>1, ConcatAdjacentSubSeq
  <2>6. SubSeq(v, Len(p) + 1, Len(v)) \in Seq(Seq(Nat))
    BY <1>3, <2>3
  <2>. QED BY <1>2, <1>3, <2>1, <2>2, <2>4, <2>5, <2>6
<1>7. s.key.tag \in {"suffix", "full"}
  BY <1>1 DEF keyError
<1>. QED BY <1>4, <1>5, <1>6, <1>7

\* Two calls use one wire key exactly if they name one operation.
THEOREM WireKeyNamesOperationHolds == Spec => []WireKeyNamesOperation
<1>1. Inv => WireKeyNamesOperation
  <2>. SUFFICES ASSUME Inv, NEW s \in sent, NEW t \in sent
                PROVE  s.wire = t.wire <=> SameOperation(s, t)
    BY DEF WireKeyNamesOperation
  <2>1. s.wire = t.wire <=> Logical(s.key) = Logical(t.key)
    <3>. DEFINE p == session.prefix
                x == Logical(s.key)
                y == Logical(t.key)
    <3>1. /\ p \in Seq(Seq(Nat)) /\ x \in Seq(Seq(Nat)) /\ y \in Seq(Seq(Nat))
          /\ s.wire = p \o x /\ t.wire = p \o y
      BY KeysSplit
    <3>. HIDE DEF p, x, y
    <3>2. p \o x = p \o y => x = y
      BY <3>1, Cut
    <3>. QED BY <3>1, <3>2 DEF x, y
  <2>2. CASE s.call.operation = NoOperation \/ t.call.operation = NoOperation
    BY <2>1, <2>2 DEF SameOperation
  <2>3. CASE s.call.operation # NoOperation /\ t.call.operation # NoOperation
    <3>1. ASSUME NEW r \in sent, r.call.operation # NoOperation
          PROVE  /\ r.call.operation \in [namespace : Seq(Byte), parts : Seq(Seq(Byte))]
                 /\ r.key = SemanticKey(r.call.operation.namespace, r.call.operation.parts)
                 /\ validSemanticKeyNamespace(r.call.operation.namespace)
                 /\ r.key.tag = "suffix"
                 /\ Logical(r.key) = r.key.value
      <4>. DEFINE o == r.call.operation
      <4>1. /\ ~keyError(r.key, session.prefix, session.maxBytes) /\ r.key = KeyOf(r.call)
            /\ r.call \in Calls[session] /\ session \in Sessions
        BY DEF Inv, Passed
      <4>2. o \in [namespace : Seq(Byte), parts : Seq(Seq(Byte))]
        BY <4>1, AuthoringAssumption
      <4>3. r.key = SemanticKey(o.namespace, o.parts)
        BY <3>1, <4>1 DEF KeyOf
      <4>4. validSemanticKeyNamespace(o.namespace)
        BY <4>1, <4>3 DEF SemanticKey, NoKey, WriteKey, keyError
      <4>5. r.key.tag = "suffix"
        <5>. DEFINE ns == o.namespace
                    parts == o.parts
        <5>1. ns \in Seq(Byte) /\ parts \in Seq(Seq(Byte)) /\ validSemanticKeyNamespace(ns)
          BY <4>2, <4>4
        <5>2. r.key = SemanticKey(ns, parts)
          BY <4>3
        <5>. HIDE DEF ns, parts
        <5>3. SemanticKey(ns, parts).tag = "suffix"
          BY <5>1, DerivedKeys
        <5>. QED BY <5>2, <5>3
      <4>6. Logical(r.key) = r.key.value
        BY <4>5 DEF Logical
      <4>. QED BY <4>2, <4>3, <4>4, <4>5, <4>6, Zenon
    <3>2. ASSUME Logical(s.key) = Logical(t.key)
          PROVE  s.call.operation = t.call.operation
      BY <2>3, <3>1, <3>2, OperationsDistinguish
    <3>3. ASSUME s.call.operation = t.call.operation
          PROVE  s.key = t.key
      BY <2>3, <3>1, <3>3
    <3>. QED BY <2>1, <2>3, <3>2, <3>3 DEF SameOperation
  <2>. QED BY <2>2, <2>3
<1>. QED BY <1>1, Always, PTL
=============================================================================

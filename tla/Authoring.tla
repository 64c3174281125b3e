------------------------------ MODULE Authoring ------------------------------
(***************************************************************************)
(* Session.WriteRequest: a typed facts-write is validated and encoded, the *)
(* features it needs are compared with what the daemon advertised, its key *)
(* is resolved, and body and key go to writeExact (module KeyedWrite).     *)
(* Here one application authors writes through one pinned session.         *)
(*                                                                         *)
(* Conflicts between the entries of a request are WriteRules', whose       *)
(* Conflicting is what the passes of module WriteValidate refuse.          *)
(***************************************************************************)
EXTENDS Keys, FiniteSets

CONSTANTS Text,        \* labels, tenses and raw texts; "" among them
          NotUTF8,     \* those that are not valid UTF-8
          Replacement, \* U+FFFD, which encoding/json writes for them
          Fact, NoFact,
          Canonical,   \* fact IDs in canonical decimal form
          MaxJSSafeInteger,
          Half,        \* int64 is -Half .. Half - 1
          Millisecond, \* its nanoseconds
          Sessions,    \* what Require may have pinned
          Calls,       \* what the application may pass to WriteRequest on each of them
          MaxSent      \* bound: calls of one session that reach writeExact

\* What the constructors of the package make: a Duration is an int64, and a field
\* that goes with another tag has its zero value.
Int64 == -Half..(Half - 1)
Deadline == {d \in [tag : {"unset", "after", "at"}, ns : Int] :
               /\ d.tag = "unset" => d.ns = 0
               /\ d.tag = "after" => d.ns \in Int64}
ObjectValue == {o \in [tag : {"unset", "entity", "number"}, label : Text, number : Nat] :
                  /\ o.tag # "entity" => o.label = ""
                  /\ o.tag # "number" => o.number = 0}

\* Subject and predicate of an entry are one text.
INSTANCE WriteRules WITH Slot <- Text, Object <- ObjectValue

\* What an entry may hold besides the kinds of WriteRules: zero values, an
\* unknown record mode, a correction with a record mode.
ItemKind == Kind \cup {"retractZero", "otherMode", "correctWithMode"}
Creating == {"append", "ensure", "replace", "otherMode", "correct", "correctWithMode"}
Item == {e \in [kind : ItemKind, slot : Text, object : ObjectValue, fact : Fact \cup {NoFact},
                tense : Text, raw : Text, deadline : Deadline] :
           /\ e.kind \notin Creating =>
                /\ e.tense = "" /\ e.raw = ""
                /\ e.slot # "" => e.kind \in {"retractExact", "retractSlot"}
                /\ e.object.tag # "unset" => e.kind = "retractExact"
                /\ e.deadline.tag # "unset" => e.kind = "expire"
           /\ e.fact # NoFact =>
                e.kind \in {"retractFact", "correct", "correctWithMode", "expire", "persist"}}

Mode == {"", "create", "reject", "otherVocabulary"}
TransactionTime == {t \in [tag : {"unset", "at", "nanoseconds"}, ns : Int] :
                      t.tag = "nanoseconds" => t.ns \in Int64}
Request == [items : Seq(Item), vocabulary : Mode, time : TransactionTime]

\* A feature of a manifest: its category and its name.
Feature ==
  ({"operation"} \X {"record", "retract", "correct", "expire", "persist"})
    \cup ({"object"} \X {"entity_label", "u64"})
    \cup ({"expiration"} \X {"ttl_ms", "expires_at_ns"})
    \cup ({"vocabulary"} \X {"create", "reject"})
    \cup ({"mode"} \X {"append", "ensure", "replace"})
    \cup ({"selector"} \X {"fact", "slot", "where"})

ASSUME AuthoringAssumption ==
  /\ "" \in Text /\ NotUTF8 \subseteq Text \ {""}
  /\ Replacement \in Text \ (NotUTF8 \cup {""})
  /\ Canonical \subseteq Fact
  /\ MaxJSSafeInteger \in Nat /\ Half \in Nat \ {0} /\ Millisecond \in Nat \ {0}
  /\ MaxSent \in Nat
  /\ \A s \in Sessions :
       /\ s.writable \in BOOLEAN
       /\ s.maxBytes \in 1..MaxToken
       /\ s.prefix \in Seq(Seq(Nat)) /\ validPrefix(s.prefix, s.maxBytes)
       /\ s.features \subseteq Feature
  /\ DOMAIN Calls = Sessions
  /\ \A s \in Sessions : \A c \in Calls[s] :
       /\ c.request \in Request
       /\ c.key.tag \in {"unset", "suffix", "full"} /\ c.key.value \in Seq(Seq(Nat))
       /\ c.operation \in [namespace : Seq(Byte), parts : Seq(Seq(Byte))]

\* No business operation: the caller passes a key of its own.
NoOperation == [namespace |-> <<>>, parts |-> <<>>]

VARIABLES session,  \* the pinned session
          sent,     \* what went to writeExact: call, key, body and wire key
          refused   \* the last call if it was refused, and why
vars == <<session, sent, refused>>

Accepted == [error |-> "none"]

Init ==
  /\ session \in Sessions
  /\ sent = {}
  /\ refused = Accepted

-----------------------------------------------------------------------------
(* Validate: the entries one by one *)

validateLabel(v) == v # "" /\ v \notin NotUTF8

\* validateFactID: a positive decimal u64 in canonical form.
validateFactID(f) == f \in Canonical

validateObject(o) ==
  CASE o.tag = "entity" -> validateLabel(o.label)
    [] o.tag = "number" -> o.number <= MaxJSSafeInteger
    [] OTHER            -> FALSE

\* Time.UnixNano keeps the low bits of the nanoseconds since 1970.
unixNano(t) == ((t + Half) % (2 * Half)) - Half

\* exactUnixNano: the time and its int64 nanoseconds are the same instant.
exactUnixNano(t) == unixNano(t) = t

\* Mutant: a fraction of a millisecond is cut off instead of refused.
validateDeadline_Truncating(d) ==
  CASE d.tag = "after" -> d.ns > 0 /\ d.ns \div Millisecond <= (Half - 1) \div Millisecond
    [] d.tag = "at"    -> exactUnixNano(d.ns) /\ unixNano(d.ns) > 0
    [] OTHER           -> TRUE

\* A Duration is an int64, so the last comparison of "after" never refuses.
validateDeadline(d) ==
  CASE d.tag = "after" -> /\ d.ns > 0
                          /\ d.ns % Millisecond = 0
                          /\ d.ns \div Millisecond <= (Half - 1) \div Millisecond
    [] d.tag = "at"    -> exactUnixNano(d.ns) /\ unixNano(d.ns) > 0
    [] OTHER           -> TRUE

validateRecord(e) ==
  /\ validateLabel(e.slot)
  /\ validateObject(e.object)
  /\ e.tense # "" => validateLabel(e.tense)
  /\ e.raw \notin NotUTF8
  /\ e.kind \in {"ensure", "replace"} =>
       e.tense = "" /\ e.raw = "" /\ e.deadline.tag = "unset"
  /\ validateDeadline(e.deadline)

\* The checks of the loop that an entry's list belongs to.
validateItem(e) ==
  CASE e.kind \in {"append", "ensure", "replace"} -> validateRecord(e)
    [] e.kind = "retractFact"  -> validateFactID(e.fact)
    [] e.kind = "retractExact" -> validateLabel(e.slot) /\ validateObject(e.object)
    [] e.kind = "retractSlot"  -> validateLabel(e.slot)
    [] e.kind = "correct"      -> validateFactID(e.fact) /\ validateRecord(e)
    [] e.kind = "expire"       -> /\ validateFactID(e.fact)
                                  /\ e.deadline.tag # "unset"
                                  /\ validateDeadline(e.deadline)
    [] e.kind = "persist"      -> validateFactID(e.fact)
    [] OTHER                   -> FALSE

\* createsEntities.
Creates(e) == e.kind \in Creating

\* Request.Validate: no error.
Validate(r) ==
  /\ r.items # <<>>
  /\ r.vocabulary \in {"", "create", "reject"}
  /\ r.vocabulary # "" <=> \E n \in 1..Len(r.items) : Creates(r.items[n])
  /\ \A n \in 1..Len(r.items) : validateItem(r.items[n])
  /\ r.time.tag = "at" => exactUnixNano(r.time.ns)
  /\ ~Conflicting(r.items)

-----------------------------------------------------------------------------
(* Encode: the wire form.  An omitted field has its empty value. *)

\* encoding/json replaces what is not UTF-8.
json(text) == IF text \in NotUTF8 THEN Replacement ELSE text

wireObject(o) ==
  CASE o.tag = "entity" -> [kind |-> "string", text |-> json(o.label), number |-> 0]
    [] o.tag = "number" -> [kind |-> "number", text |-> "", number |-> o.number]
    [] OTHER            -> [kind |-> "none", text |-> "", number |-> 0]

NoObject == [kind |-> "none", text |-> "", number |-> 0]

\* encodeDeadline.
encodeDeadline(d) ==
  CASE d.tag = "after" -> [field |-> "ttl_ms", value |-> d.ns \div Millisecond]
    [] d.tag = "at"    -> [field |-> "expires_at_ns", value |-> unixNano(d.ns)]
    [] OTHER           -> [field |-> "none", value |-> 0]

ListOf(kind) ==
  CASE kind \in {"append", "ensure", "replace"} -> "record"
    [] kind \in {"retractFact", "retractExact", "retractSlot"} -> "retract"
    [] OTHER -> kind

\* The JSON object of one entry: encodeRecord and the loops of Encode.
encodeItem(e) ==
  [list     |-> ListOf(e.kind),
   selector |-> CASE e.kind = "retractFact" -> "fact" [] e.kind = "retractExact" -> "where"
                  [] e.kind = "retractSlot" -> "slot" [] OTHER -> "",
   mode     |-> IF e.kind \in {"ensure", "replace"} THEN e.kind ELSE "",
   fact     |-> IF Targets(e) THEN e.fact ELSE NoFact,
   slot     |-> IF Owns(e) \/ Places(e) THEN json(e.slot) ELSE "",
   object   |-> IF OwnsTriple(e) \/ Places(e) \/ e.kind = "replace"
                  THEN wireObject(e.object) ELSE NoObject,
   tense    |-> IF e.kind \in {"append", "correct"} THEN json(e.tense) ELSE "",
   raw      |-> IF e.kind \in {"append", "correct"} THEN json(e.raw) ELSE "",
   deadline |-> encodeDeadline(e.deadline)]

\* tx_time_ns, absent or present.
encodeTime(t) ==
  IF t.tag = "unset" THEN [present |-> FALSE, value |-> 0]
                     ELSE [present |-> TRUE, value |-> unixNano(t.ns)]

\* Encode.
Encode(r) ==
  [items |-> [n \in 1..Len(r.items) |-> encodeItem(r.items[n])],
   vocabulary |-> r.vocabulary, time |-> encodeTime(r.time)]

-----------------------------------------------------------------------------
(* Features: what a request needs, collected from the typed value *)

visitObject(o) ==
  CASE o.tag = "entity" -> {<<"object", "entity_label">>}
    [] o.tag = "number" -> {<<"object", "u64">>}
    [] OTHER            -> {}

visitDeadline(d) ==
  CASE d.tag = "after" -> {<<"expiration", "ttl_ms">>}
    [] d.tag = "at"    -> {<<"expiration", "expires_at_ns">>}
    [] OTHER           -> {}

\* Mutant: a correction counts as a record in append mode.
visit_CorrectionAppends(e) ==
  CASE e.kind \in {"append", "ensure", "replace"} ->
         {<<"operation", "record">>, <<"mode", e.kind>>}
           \cup visitObject(e.object) \cup visitDeadline(e.deadline)
    [] e.kind = "retractFact"  -> {<<"operation", "retract">>, <<"selector", "fact">>}
    [] e.kind = "retractExact" -> {<<"operation", "retract">>, <<"selector", "where">>}
                                    \cup visitObject(e.object)
    [] e.kind = "retractSlot"  -> {<<"operation", "retract">>, <<"selector", "slot">>}
    [] e.kind = "correct"      -> {<<"operation", "correct">>, <<"mode", "append">>}
                                    \cup visitObject(e.object) \cup visitDeadline(e.deadline)
    [] e.kind = "expire"       -> {<<"operation", "expire">>} \cup visitDeadline(e.deadline)
    [] OTHER                   -> {<<"operation", "persist">>}

\* Mutant: the replacement of a correction is not looked at.
visit_CorrectionUnvisited(e) ==
  IF e.kind = "correct" THEN {<<"operation", "correct">>} ELSE visit_CorrectionAppends(e)

\* What the loop over an entry's list collects.
visit(e) ==
  CASE e.kind \in {"append", "ensure", "replace"} ->
         {<<"operation", "record">>, <<"mode", e.kind>>}
           \cup visitObject(e.object) \cup visitDeadline(e.deadline)
    [] e.kind = "retractFact"  -> {<<"operation", "retract">>, <<"selector", "fact">>}
    [] e.kind = "retractExact" -> {<<"operation", "retract">>, <<"selector", "where">>}
                                    \cup visitObject(e.object)
    [] e.kind = "retractSlot"  -> {<<"operation", "retract">>, <<"selector", "slot">>}
    [] e.kind = "correct"      -> {<<"operation", "correct">>}
                                    \cup visitObject(e.object) \cup visitDeadline(e.deadline)
    [] e.kind = "expire"       -> {<<"operation", "expire">>} \cup visitDeadline(e.deadline)
    [] OTHER                   -> {<<"operation", "persist">>}

Features(r) ==
  (UNION {visit(r.items[n]) : n \in 1..Len(r.items)})
    \cup (IF r.vocabulary = "" THEN {} ELSE {<<"vocabulary", r.vocabulary>>})

-----------------------------------------------------------------------------
(* WriteRequest *)

Refuse(c, error, about) ==
  /\ refused' = [error |-> error, about |-> about, call |-> c]
  /\ UNCHANGED <<session, sent>>

\* validateWriteFeatures: the features it would refuse; it names one of them.
validateWriteFeatures(r) == Features(r) \ session.features

\* Session.WriteRequest, in the order of its checks.
WriteRequest(c, key) ==
  \/ ~Validate(c.request) /\ Refuse(c, "validation", "")
  \/ /\ Validate(c.request)
     /\ \/ ~session.writable /\ Refuse(c, "capability", "")
        \/ /\ session.writable
           /\ \/ \E f \in validateWriteFeatures(c.request) : Refuse(c, "feature", f)
              \/ /\ validateWriteFeatures(c.request) = {}
                 /\ IF keyError(key, session.prefix, session.maxBytes)
                      THEN Refuse(c, "key", "")
                      ELSE /\ sent' = sent \cup {[call |-> c, key |-> key,
                                                  body |-> Encode(c.request),
                                                  wire |-> resolved(key, session.prefix)]}
                           /\ refused' = Accepted
                           /\ UNCHANGED session

\* The application derives the key of a business operation and stops on an
\* error, or writes under a key it chose itself.  It gives up at the first refusal.
Author(c) ==
  /\ refused = Accepted
  /\ Cardinality(sent) < MaxSent
  /\ IF c.operation = NoOperation
       THEN WriteRequest(c, c.key)
       ELSE LET key == SemanticKey(c.operation.namespace, c.operation.parts) IN
            IF key = NoKey THEN Refuse(c, "key", "") ELSE WriteRequest(c, key)

Next == \E c \in Calls[session] : Author(c)

Spec == Init /\ [][Next]_vars

-----------------------------------------------------------------------------
Error == {"none", "validation", "capability", "feature", "key"}

TypeOK ==
  /\ session \in Sessions
  /\ refused.error \in Error
  /\ refused.error = "feature" => refused.about \in Feature
  /\ \A s \in sent :
       /\ s.call \in Calls[session]
       /\ validWireToken(s.wire) /\ Len(s.wire) <= session.maxBytes

\* What a request means, however its transaction time was given.
Meaning(r) == [items |-> r.items, vocabulary |-> r.vocabulary,
               time |-> IF r.time.tag = "unset" THEN <<>> ELSE <<r.time.ns>>]

\* Receipts identify an operation by the digest of its body, so requests that
\* mean different things have different bodies: no deadline is rounded or wrapped
\* onto another, no text is replaced.  write/encode.go:104-106,
\* write/validate.go:131-229.
BodiesDistinguish ==
  \A s, t \in sent : s.body = t.body => Meaning(s.call.request) = Meaning(t.call.request)

\* What executing an entry of a body needs, and the body, read from it alone.
NeedsOf(item) ==
  {<<"operation", item.list>>}
    \cup (CASE item.object.kind = "string" -> {<<"object", "entity_label">>}
            [] item.object.kind = "number" -> {<<"object", "u64">>}
            [] OTHER -> {})
    \cup (IF item.deadline.field = "none" THEN {} ELSE {<<"expiration", item.deadline.field>>})
    \cup (IF item.list # "record" THEN {}
            ELSE {<<"mode", IF item.mode = "" THEN "append" ELSE item.mode>>})
    \cup (IF item.list # "retract" THEN {} ELSE {<<"selector", item.selector>>})

Needs(body) ==
  (UNION {NeedsOf(body.items[n]) : n \in 1..Len(body.items)})
    \cup (IF body.vocabulary = "" THEN {} ELSE {<<"vocabulary", body.vocabulary>>})

\* Every body that is sent can be executed with what the daemon advertised, also
\* for the records inside corrections.  authoring.go:117-155, write/validate.go:391-499.
SentIsAdvertised ==
  \A s \in sent : Needs(s.body) \subseteq session.features

\* A write is never refused for a feature its body does not need: Features is
\* minimal.  write/validate.go:390-391.
RefusalIsMinimal ==
  refused.error = "feature" =>
    refused.about \in Needs(Encode(refused.call.request)) \ session.features

\* The suffix a key stands for, whichever form the caller chose.
Logical(key) ==
  IF key.tag = "full" /\ session.prefix # <<>>
    THEN SubSeq(key.value, Len(session.prefix) + 1, Len(key.value))
    ELSE key.value

SameOperation(s, t) ==
  IF s.call.operation # NoOperation /\ t.call.operation # NoOperation
    THEN s.call.operation = t.call.operation
    ELSE Logical(s.key) = Logical(t.key)

\* Two calls of a session use one wire key exactly if they name one operation:
\* the daemon replays the first and refuses a second body.  authoring.go:80-115,
\* semantic_key.go:31-51.
WireKeyNamesOperation ==
  \A s, t \in sent : s.wire = t.wire <=> SameOperation(s, t)

\* A suffix that is a wire key of the session already is never sent under the
\* prefix once more, which would repeat its operation under a fresh key.
\* authoring.go:27-32, 90-97.
PrefixAppliedOnce ==
  session.prefix # <<>> =>
    \A s, t \in sent : s.key.tag = "suffix" => s.key.value # t.wire
=============================================================================

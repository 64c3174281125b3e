------------------------------ MODULE IngestJSON ------------------------------
(***************************************************************************)
(* Session.IngestJSON beside Session.Ingest: a batch may arrive as a typed *)
(* value or as a JSON document, which is decoded strictly and from then on *)
(* takes the same way, but is not held to the limit on canonical JSON.     *)
(***************************************************************************)
EXTENDS IngestCompile, StrictDecode

CONSTANT Documents   \* what callers pass to IngestJSON

Batch(d) == decode(d, Missing)
Canonical(b) == Marshal(b, b \notin LargeJSON)

\* A name spelled as a field, or like another one, matches the same field; the
\* texts of a batch fit in its document.  Objects and lists are spelled exactly,
\* for encoding/json merges two of them.
ASSUME IngestJSONAssumption ==
  \A d \in Documents :
    /\ d.members \in Seq({d.members[n] : n \in DOMAIN d.members})
    /\ decodeStrict(d) => Nests(d) /\ Batch(d) \in Batches \ LargeTexts
    /\ \A m, n \in {d.members[k] : k \in DOMAIN d.members} :
         /\ m.spelled \in {n.spelled, n.name} => m.name = n.name
         /\ m.value = Nested \/ m.name = "claims" => m.spelled = m.name

VARIABLES document,  \* the document of the last call, if it came with one
          verdict    \* how decodeStrict ended on it

jvars == <<phase, batch, enforce, i, seen, records, calls, outcome, facts, receipts,
           document, verdict>>

NoDocument == [intact |-> FALSE, members |-> <<>>]

JInit == Init /\ document = NoDocument /\ verdict = "none"

\* A typed batch: Compile enforces the canonical limit.
IngestTyped ==
  \E b \in Batches : Call(b, TRUE) /\ document' = NoDocument /\ verdict' = "none"

\* ParseAndCompile: what decodeStrict refuses reaches nothing else, and what it
\* accepts is compiled without the canonical limit.
ParseJSON(d) ==
  /\ phase = "idle"
  /\ calls < MaxCalls
  /\ document' = d
  /\ \/ decodeStrict(d) /\ Call(Batch(d), FALSE) /\ verdict' = "accepted"
     \/ ~decodeStrict(d) /\ verdict' = "refused" /\ UNCHANGED vars

\* The rest of ParseAndCompile or Compile, and the submission: of where the batch
\* is from they know only whether the canonical limit is enforced.
Proceed ==
  /\ CheckHeader \/ CheckClaim \/ CheckUnique \/ Canonicalize \/ CompileClaim \/ NextLoop
     \/ Submit \/ Execute \/ Lost
  /\ UNCHANGED <<document, verdict>>

JNext == IngestTyped \/ (\E d \in Documents : ParseJSON(d)) \/ Proceed

JSpec == JInit /\ [][JNext]_jvars

-----------------------------------------------------------------------------
\* What batch b says in the place of a member.
Place(b, of, name) ==
  CASE of = Root /\ name = "profile" -> b.profile
    [] of = Root /\ name = "claims" -> Len(b.claims)
    [] of = <<"producer">> /\ name = "name" -> b.producer.name
    [] of = <<"producer">> /\ name = "schema_identity" -> b.producer.schema
    [] of = <<"producer">> /\ name = "run_id" -> b.run
    [] of = <<"source">> /\ name = "digest" -> b.source[1].digest
    [] of = <<"source">> /\ name = "media_type" -> b.source[1].media
    [] of = <<"artifact">> /\ name = "mode" -> b.source[1].mode
    [] of = <<"artifact">> /\ name = "uri" -> b.source[1].uri
    [] name = "external_id" -> b.claims[of[2]].external
    [] name = "subject" -> b.claims[of[2]].subject
    [] name = "predicate" -> b.claims[of[2]].predicate
    [] name = "object" -> b.claims[of[2]].object
    [] name = "confidence_ppm" -> b.claims[of[2]].confidence[1]
    [] name = "evidence" -> b.claims[of[2]].evidence

SameField(m, n) == m.of = n.of /\ m.name = n.name

\* Some object spells a field in two ways.
SpelledTwice(d) ==
  \E m, n \in DOMAIN d.members :
    SameField(d.members[m], d.members[n]) /\ d.members[m].spelled # d.members[n].spelled

\* Unless a document spells a field in two ways, nothing that it says is dropped,
\* replaced by a later member or moved to another object on the way to the store.
\* ingest/strict.go:28-58, 62-113; ingest/ingest.go:163-192.
NothingGuessed ==
  phase # "idle" /\ verdict = "accepted" /\ ~SpelledTwice(document) =>
    \A n \in {k \in DOMAIN document.members : document.members[k].value # Nested} :
      LET m == document.members[n] IN m.value = Given(Place(batch, m.of, m.name))

\* The canonical JSON of what is submitted, which names the batch and is kept as
\* its manifest, is a document of that very batch; and if the batch came as a
\* typed value the document is accepted, so that it can be ingested again.
\* ingest/ingest.go:194-230; ingest/strict.go:62-113.
CanonicalRoundTrip ==
  phase = "sent" =>
    /\ Batch(Canonical(batch)) = batch
    /\ enforce => decodeStrict(Canonical(batch))

\* "Unknown or duplicate keys ... are rejected" (ingest/ingest.go:160-162).
DuplicatesAreRefused ==
  verdict = "accepted" =>
    \A m, n \in DOMAIN document.members :
      m # n => ~SameField(document.members[m], document.members[n])
=============================================================================

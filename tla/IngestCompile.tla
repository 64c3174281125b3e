---------------------------- MODULE IngestCompile ----------------------------
(***************************************************************************)
(* Session.Ingest: a batch of claims is validated, compiled to one keyed   *)
(* facts-write and submitted, one batch after the other into one database. *)
(* The compiler writes user labels and entities of its own into the same   *)
(* store, so what a batch says is read back from facts that any later      *)
(* batch may add to.  A label is a pair of a namespace and the rest of the *)
(* text; the texts behind "batch", "claim", "producer" and "source" are    *)
(* digests, modelled by what they are digests of.                          *)
(***************************************************************************)
EXTENDS Integers, Sequences, FiniteSets

CONSTANTS UserLabel,   \* texts that callers use as labels, well formed or not
          Batches,     \* the batches callers submit
          LargeTexts,  \* those whose texts alone exceed MaxInputBytes
          LargeJSON,   \* those whose canonical JSON exceeds MaxInputBytes
          MaxClaims,
          MaxRecords,  \* what fits in the advertised request limit
          MaxCalls     \* bound: calls of Ingest

Missing == <<"missing", "">>   \* the empty label
Reserved == {"ingest", "batch", "claim", "producer", "source", "media-type"}

\* An optional field is a sequence of at most one value.
Source == [digest : STRING, media : STRING, mode : STRING, uri : BOOLEAN]
Claim == [external : STRING, subject : UserLabel, predicate : UserLabel,
          object : UserLabel \cup ({"u64"} \X Nat), confidence : Seq(Nat), evidence : Seq(STRING)]
AnyBatch == [profile : STRING, producer : [name : STRING, schema : STRING], run : STRING,
             source : Seq(Source), claims : Seq(Claim)]

ASSUME IngestAssumption ==
  /\ MaxClaims \in Nat \ {0}
  /\ MaxRecords \in Nat
  /\ MaxCalls \in Nat
  /\ \A l \in UserLabel : l = Missing \/ l[1] \in Reserved \cup {"user"}
  /\ Batches \subseteq AnyBatch
  /\ LargeTexts \subseteq LargeJSON
  /\ \A b \in Batches : /\ Len(b.source) <= 1
                        /\ \A n \in 1..Len(b.claims) : Len(b.claims[n].confidence) <= 1

VARIABLES phase,     \* which loop of the call is running
          batch,
          enforce,   \* enforceCanonicalLimit: the batch came as a typed value
          i,         \* the loop's index
          seen,      \* its map: external IDs, then claim entities
          records,   \* request.Record
          calls,     \* how many calls have begun
          outcome,   \* how the last call ended
          facts,     \* external: the facts the database holds
          receipts   \* external: the keyed writes it committed

vars == <<phase, batch, enforce, i, seen, records, calls, outcome, facts, receipts>>
store == <<facts, receipts>>

-----------------------------------------------------------------------------
Ingest(x) == <<"ingest", x>>   \* "ingest:" followed by x
U64(n) == <<"u64", n>>         \* a number as the object of a fact

\* Mutant: only the length of a label is checked.
validateUserLabel_AnyNamespace(l) == l # Missing

\* validateUserLabel: the compiler's namespaces are reserved.
validateUserLabel(l) == l # Missing /\ l[1] \notin Reserved

MaxJSSafeInteger == 2^20 - 1   \* scaled down from 2^53 - 1
validateObject(o) ==
  IF o[1] = "u64" THEN o[2] \in 0..MaxJSSafeInteger ELSE validateUserLabel(o)

\* Validate on everything but the claims: profile, producer, source, count.  The
\* batch's schema and the producer's version, texts checked like the others, are
\* left out, and so is the form of digests and media types.
validHeader(b) ==
  /\ b.profile \in {"knowledge-proposals", "trusted-facts"}
  /\ b.producer.name # "" /\ b.run # ""
  /\ b.source # <<>> => CASE b.source[1].mode \in {"copy", "link"} -> b.source[1].uri
                          [] b.source[1].mode \in {"purge", "none"} -> ~b.source[1].uri
                          [] OTHER -> FALSE
  /\ Len(b.claims) \in 1..MaxClaims

MaxConfidencePPM == 1000000

\* Validate on one claim.
validClaim(b, c) ==
  /\ c.external # ""
  /\ validateUserLabel(c.subject) /\ validateUserLabel(c.predicate)
  /\ validateObject(c.object)
  /\ \A n \in 1..Len(c.confidence) : c.confidence[n] \in 0..MaxConfidencePPM
  /\ c.evidence # <<>> => b.source # <<>>

producerEntity(b) == <<"producer", b.producer>>
sourceDigest(b) == IF b.source = <<>> THEN <<>> ELSE <<b.source[1].digest>>

\* Mutant: the profile is not part of a claim's identity.
claimEntity_AnyProfile(b, c) ==
  <<"claim", [producer |-> producerEntity(b), source |-> sourceDigest(b),
              subject |-> c.subject, predicate |-> c.predicate, object |-> c.object,
              confidence |-> c.confidence, evidence |-> c.evidence]>>

\* compile's digest of claimIdentity, which names the claim in the store: not the
\* external ID, not the run.
claimEntity(b, c) ==
  <<"claim", [profile |-> b.profile, producer |-> producerEntity(b),
              source |-> sourceDigest(b),
              subject |-> c.subject, predicate |-> c.predicate, object |-> c.object,
              confidence |-> c.confidence, evidence |-> c.evidence]>>

\* Mutant: the uniqueness check forgets the confidence.
semanticClaim_AnyConfidence(b, c) ==
  <<"claim", [profile |-> b.profile, producer |-> <<"producer", b.producer>>,
              source |-> IF b.source = <<>> THEN <<>> ELSE <<b.source[1].digest>>,
              subject |-> c.subject, predicate |-> c.predicate, object |-> c.object,
              evidence |-> c.evidence]>>

\* The digest by which validateSemanticClaimUniqueness tells claims apart: its own
\* copy of the code of compile, from the producer's digest on.
semanticClaim(b, c) ==
  <<"claim", [profile |-> b.profile, producer |-> <<"producer", b.producer>>,
              source |-> IF b.source = <<>> THEN <<>> ELSE <<b.source[1].digest>>,
              subject |-> c.subject, predicate |-> c.predicate, object |-> c.object,
              confidence |-> c.confidence, evidence |-> c.evidence]>>

\* The digest of the canonical batch, which names the batch and keys its write.
batchEntity(b) == <<"batch", b>>

\* Mutant: a fresh key for every call.
ingestionKey_PerCall(b) == <<calls, b>>

\* Mutant: the key names the run, not the batch.
ingestionKey_ByRun(b) == <<"key", b.run>>

\* submitIngestion's key, without the epoch prefix.
ingestionKey(b) == <<"key", b>>

-----------------------------------------------------------------------------
\* An entry of WriteRules: a record of the compiled write.
add(s, p, o) == [kind |-> "ensure", slot |-> <<s, p>>, object |-> o, fact |-> "none"]
addRaw(s, p, o) == [kind |-> "append", slot |-> <<s, p>>, object |-> o, fact |-> "none"]
when(cond, r) == IF cond THEN <<r>> ELSE <<>>

\* compile, up to the loop over the claims.
headerRecords(b) ==
  LET e == batchEntity(b)  p == producerEntity(b) IN
  <<add(e, Ingest("is_a"), Ingest("batch")),
    add(e, Ingest("profile"), Ingest(b.profile)),
    addRaw(e, Ingest("manifest"), e),
    add(e, Ingest("producer"), p),
    add(p, Ingest("is_a"), Ingest("producer")),
    add(p, Ingest("schema_identity"), <<"user", b.producer.schema>>)>>
  \o (IF b.source = <<>> THEN <<>> ELSE
        LET s == <<"source", b.source[1].digest>> IN
        <<add(e, Ingest("source"), s),
          add(e, Ingest("artifact_mode"), Ingest(b.source[1].mode)),
          add(s, Ingest("is_a"), Ingest("source")),
          add(s, Ingest("media_type"), <<"media-type", b.source[1].media>>)>>)

status(b) == Ingest(IF b.profile = "trusted-facts" THEN "accepted" ELSE "proposed")

\* Mutant: the source is described again with every claim that it supports.
claimRecords_SourceEachTime(b, c) ==
  LET e == claimEntity(b, c) IN
  <<add(batchEntity(b), Ingest("produced"), e),
    add(e, Ingest("is_a"), Ingest("claim")),
    add(e, Ingest("initial_status"), status(b)),
    add(e, Ingest("candidate_subject"), c.subject),
    add(e, Ingest("candidate_predicate"), c.predicate),
    add(e, Ingest("candidate_object"), c.object)>>
  \o when(b.source # <<>>, add(<<"source", sourceDigest(b)[1]>>, Ingest("is_a"), Ingest("source")))
  \o when(b.profile = "trusted-facts", add(c.subject, c.predicate, c.object))

\* compile, one turn of that loop; only trusted facts assert the candidate.
claimRecords(b, c) ==
  LET e == claimEntity(b, c) IN
  <<add(batchEntity(b), Ingest("produced"), e),
    add(e, Ingest("is_a"), Ingest("claim")),
    add(e, Ingest("initial_status"), status(b)),
    add(e, Ingest("candidate_subject"), c.subject),
    add(e, Ingest("candidate_predicate"), c.predicate),
    add(e, Ingest("candidate_object"), c.object)>>
  \o when(c.confidence # <<>>, add(e, Ingest("confidence_ppm"), U64(c.confidence[1])))
  \o when(b.source # <<>>, add(e, Ingest("supports"), <<"source", sourceDigest(b)[1]>>))
  \o when(b.profile = "trusted-facts", add(c.subject, c.predicate, c.object))

\* Every label a store can hold, and what a fact can say of one.
Label ==
  UserLabel \cup {Ingest(x) : x \in {"is_a", "profile", "manifest", "producer",
    "schema_identity", "source", "artifact_mode", "media_type", "produced",
    "initial_status", "candidate_subject", "candidate_predicate", "candidate_object",
    "confidence_ppm", "supports"}}
  \cup UNION {{batchEntity(b), producerEntity(b)}
              \cup {<<"source", s>> : s \in {b.source[n].digest : n \in 1..Len(b.source)}}
              \cup {claimEntity(b, b.claims[n]) : n \in 1..Len(b.claims)} : b \in Batches}

Rules == INSTANCE WriteRules
           WITH Slot <- Label \X Label, Object <- {}, Fact <- {}, NoFact <- "none"

-----------------------------------------------------------------------------
Outcome == {"none", "invalid", "duplicate", "canonical_too_large", "compile_error", "too_large",
            "receipt", "uncertain", "conflict", "refused"}
Phase == {"idle", "header", "claims", "unique", "compile", "submit", "sent"}

TypeOK ==
  /\ phase \in Phase
  /\ batch \in Batches
  /\ enforce \in BOOLEAN
  /\ i \in 1..Len(batch.claims) + 1
  /\ calls \in 0..MaxCalls
  /\ outcome \in Outcome
  /\ \A n \in 1..Len(records) : records[n].slot \in Label \X Label
  /\ \A f \in facts : f.slot \in Label \X Label /\ f.copy \in Nat \ {0}
  /\ Cardinality(receipts) <= calls
  /\ phase # "idle" => outcome = "none"

Init ==
  /\ phase = "idle"
  /\ batch \in Batches
  /\ enforce = TRUE
  /\ i = 1
  /\ seen = {}
  /\ records = <<>>
  /\ calls = 0
  /\ outcome = "none"
  /\ facts = {}
  /\ receipts = {}

\* Mutant: the refusal is not returned.
Finish_Continues(o) == outcome' = o /\ UNCHANGED phase

Finish(o) == phase' = "idle" /\ outcome' = o

\* Ingest is called with a typed batch (enforced), or IngestJSON with a document
\* of it: again with the same batch or with another one.
Call(b, enforced) ==
  /\ phase = "idle"
  /\ calls < MaxCalls
  /\ calls' = calls + 1
  /\ batch' = b
  /\ enforce' = enforced
  /\ phase' = "header"
  /\ outcome' = "none"
  /\ i' = 1
  /\ seen' = {}
  /\ records' = <<>>
  /\ UNCHANGED store

\* typedBatchExceedsInputLimit, which Compile asks first of a typed batch, and
\* Validate up to its loop.
CheckHeader ==
  /\ phase = "header"
  /\ IF enforce /\ batch \in LargeTexts THEN Finish("canonical_too_large")
     ELSE IF ~validHeader(batch) THEN Finish("invalid")
     ELSE phase' = "claims" /\ UNCHANGED outcome
  /\ UNCHANGED <<batch, enforce, i, seen, records, calls, store>>

\* Validate, one turn of its loop.
CheckClaim ==
  /\ phase = "claims"
  /\ i <= Len(batch.claims)
  /\ LET c == batch.claims[i] IN
     IF validClaim(batch, c) /\ c.external \notin seen
       THEN /\ i' = i + 1
            /\ seen' = seen \cup {c.external}
            /\ UNCHANGED <<phase, outcome>>
       ELSE Finish("invalid") /\ UNCHANGED <<i, seen>>
  /\ UNCHANGED <<batch, enforce, records, calls, store>>

\* validateSemanticClaimUniqueness, one turn of its loop.
CheckUnique ==
  /\ phase = "unique"
  /\ i <= Len(batch.claims)
  /\ LET e == semanticClaim(batch, batch.claims[i]) IN
     IF e \notin seen
       THEN /\ i' = i + 1
            /\ seen' = seen \cup {e}
            /\ UNCHANGED <<phase, outcome>>
       ELSE Finish("duplicate") /\ UNCHANGED <<i, seen>>
  /\ UNCHANGED <<batch, enforce, records, calls, store>>

\* compile, one turn of its loop.
CompileClaim ==
  /\ phase = "compile"
  /\ i <= Len(batch.claims)
  /\ LET e == claimEntity(batch, batch.claims[i]) IN
     IF e \notin seen
       THEN /\ i' = i + 1
            /\ seen' = seen \cup {e}
            /\ records' = records \o claimRecords(batch, batch.claims[i])
            /\ UNCHANGED <<phase, outcome>>
       ELSE Finish("compile_error") /\ UNCHANGED <<i, seen, records>>
  /\ UNCHANGED <<batch, enforce, calls, store>>

\* The end of a loop.
NextLoop ==
  /\ phase \in {"claims", "compile"}
  /\ i > Len(batch.claims)
  /\ phase' = IF phase = "claims" THEN "unique" ELSE "submit"
  /\ i' = 1
  /\ seen' = {}
  /\ UNCHANGED <<batch, enforce, records, calls, outcome, store>>

\* Mutant: the canonical JSON is not measured.
Canonicalize_NoLimit ==
  /\ phase = "unique"
  /\ i > Len(batch.claims)
  /\ phase' = "compile"
  /\ i' = 1
  /\ seen' = {}
  /\ records' = headerRecords(batch)
  /\ UNCHANGED <<batch, enforce, calls, outcome, store>>

\* compileValidated, up to the loop of compile: only a typed batch is held to the
\* limit on its canonical JSON.
Canonicalize ==
  /\ phase = "unique"
  /\ i > Len(batch.claims)
  /\ IF enforce /\ batch \in LargeJSON
       THEN Finish("canonical_too_large") /\ UNCHANGED <<i, seen, records>>
       ELSE /\ phase' = "compile"
            /\ i' = 1
            /\ seen' = {}
            /\ records' = headerRecords(batch)
            /\ UNCHANGED outcome
  /\ UNCHANGED <<batch, enforce, calls, store>>

\* submitIngestion, up to writeExact.
Submit ==
  /\ phase = "submit"
  /\ IF Len(records) <= MaxRecords
       THEN phase' = "sent" /\ UNCHANGED outcome
       ELSE Finish("too_large")
  /\ UNCHANGED <<batch, enforce, i, seen, records, calls, store>>

-----------------------------------------------------------------------------
\* External: ensure adds a triple that is not there, append always adds one.
copies(r) == Cardinality({f \in facts : f.slot = r.slot /\ f.object = r.object})
applied == {[slot |-> records[n].slot, object |-> records[n].object,
             copy |-> IF records[n].kind = "append" THEN copies(records[n]) + 1 ELSE 1] :
              n \in 1..Len(records)}

\* External: the daemon replays a key with the same body, refuses it with
\* another, and refuses a write whose entries conflict.  writeExact may return
\* an uncertain error all the same: its answer was lost.
Execute ==
  /\ phase = "sent"
  /\ LET earlier == {r \in receipts : r.key = ingestionKey(batch)} IN
     \/ /\ earlier # {}
        /\ Finish(IF \E r \in earlier : r.body = records THEN "receipt" ELSE "conflict")
        /\ UNCHANGED store
     \/ /\ earlier = {} /\ Rules!Conflicting(records)
        /\ Finish("refused")
        /\ UNCHANGED store
     \/ /\ earlier = {} /\ ~Rules!Conflicting(records)
        /\ \E o \in {"receipt", "uncertain"} : Finish(o)
        /\ facts' = facts \cup applied
        /\ receipts' = receipts \cup {[key |-> ingestionKey(batch), body |-> records]}
  /\ UNCHANGED <<batch, enforce, i, seen, records, calls>>

\* The write never reached the daemon.
Lost ==
  /\ phase = "sent"
  /\ Finish("uncertain")
  /\ UNCHANGED <<batch, enforce, i, seen, records, calls, store>>

Next ==
  \/ \E b \in Batches : Call(b, TRUE)
  \/ \E b \in Batches \ LargeTexts : Call(b, FALSE)
  \/ CheckHeader \/ CheckClaim \/ CheckUnique \/ Canonicalize \/ CompileClaim \/ NextLoop
  \/ Submit \/ Execute \/ Lost

Spec == Init /\ [][Next]_vars

-----------------------------------------------------------------------------
Holds(s, p, o) == \E f \in facts : f.slot = <<s, p>> /\ f.object = o

\* The candidate of claim entity e, as the store tells it, is <<s, p, o>>.
Candidate(e, s, p, o) ==
  /\ Holds(e, Ingest("candidate_subject"), s)
  /\ Holds(e, Ingest("candidate_predicate"), p)
  /\ Holds(e, Ingest("candidate_object"), o)

\* Provenance is complete and honest across all batches: every fact about a
\* user's entity is the candidate of an accepted claim that some batch produced,
\* and the candidate of every claim the store calls accepted is a fact.  In
\* particular a proposal asserts nothing.  ingest/ingest.go:24-29, 665-683.
AssertedIsAccepted ==
  /\ \A f \in {g \in facts : g.slot[1][1] = "user"} :
       \E d \in facts :
         /\ d.slot[1][1] = "batch" /\ d.slot[2] = Ingest("produced")
         /\ Holds(d.object, Ingest("initial_status"), Ingest("accepted"))
         /\ Candidate(d.object, f.slot[1], f.slot[2], f.object)
  /\ \A d \in {g \in facts : g.slot[2] = Ingest("initial_status")
                             /\ g.object = Ingest("accepted")} :
       \E f \in facts : Candidate(d.slot[1], f.slot[1], f.slot[2], f.object)

\* Batches never disagree about an entity of the compiler: whatever is ingested
\* later, under whatever profile, a claim keeps one status, candidate and
\* confidence, a producer one schema.  ingest/ingest.go:504-540, 601-690.
ProvenanceIsFunctional ==
  \A f, g \in facts :
    /\ f.slot = g.slot
    /\ f.slot[1][1] \in {"batch", "claim", "producer"}
    /\ f.slot[2] # Ingest("produced")
    => f.object = g.object

\* Ingesting a batch again after an uncertain answer changes nothing: no fact is
\* stored twice, not even the manifest, which is appended.  ingestion.go:55-88.
NothingStoredTwice == \A f \in facts : f.copy = 1

\* The batch digest determines the body, so the derived key is never refused as
\* a conflict.  ingestion.go:61-63, ingest/ingest.go:205-230.
KeyDeterminesBody == outcome # "conflict"

\* The two copies of the identity code agree: a batch is refused as a duplicate
\* only for two claims that the store could not tell apart, and what is let
\* through compiles, every claim to an entity of its own.
\* ingest/ingest.go:504-540 (Validate's copy), 642-661 (compile's).
OneEntityPerClaim ==
  LET distinct == \A m, n \in 1..Len(batch.claims) :
        m # n => claimEntity(batch, batch.claims[m]) # claimEntity(batch, batch.claims[n])
  IN /\ outcome # "compile_error"
     /\ outcome = "duplicate" => ~distinct
     /\ phase = "sent" => distinct

\* The facts of the compiler itself never break the write rules; only candidate
\* triples of one trusted batch can collide.  ingest/ingest.go:601-690.
ConflictsOnlyInAssertions ==
  phase = "sent" =>
    \A m, n \in 1..Len(records) :
      m # n /\ Rules!Conflicts(records[m], records[n]) =>
        /\ batch.profile = "trusted-facts"
        /\ records[m].slot[1][1] = "user" /\ records[n].slot[1][1] = "user"
=============================================================================

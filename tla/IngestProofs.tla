----------------------------- MODULE IngestProofs -----------------------------
(***************************************************************************)
(* What holds of ingestion for any batches, labels and number of calls:    *)
(* the store tells one consistent and honest provenance, a batch ingested  *)
(* again changes nothing and is never refused as a conflict, and the two   *)
(* copies of the code that tells claims apart agree.                       *)
(***************************************************************************)
EXTENDS IngestCompile, FiniteSetTheorems, TLAPS

(***************************************************************************)
(* Sequences of records as the sets of their elements                      *)
(***************************************************************************)
Elements(s) == {s[n] : n \in 1..Len(s)}
Sequence(s) == s \in Seq(Elements(s))

LEMMA SequenceFacts ==
  ASSUME NEW s, Sequence(s)
  PROVE  Len(s) \in Nat /\ s = [n \in 1..Len(s) |-> s[n]]
BY DEF Sequence

LEMMA InSequence ==
  ASSUME NEW R, NEW s \in Seq(R)
  PROVE  Sequence(s) /\ Elements(s) \subseteq R
<1>1. Len(s) \in Nat /\ s \in [1..Len(s) -> R]
  OBVIOUS
<1>2. \A n \in 1..Len(s) : s[n] \in Elements(s)
  BY DEF Elements
<1>3. s \in Seq(Elements(s))
  BY <1>1, <1>2
<1>. QED BY <1>1, <1>3 DEF Sequence, Elements

LEMMA Concatenation ==
  ASSUME NEW s, NEW t, Sequence(s), Sequence(t)
  PROVE  Sequence(s \o t) /\ Elements(s \o t) = Elements(s) \cup Elements(t)
<1>. DEFINE R == Elements(s) \cup Elements(t)
<1>1. s \in Seq(R) /\ t \in Seq(R)
  <2>1. Len(s) \in Nat /\ Len(t) \in Nat /\ \A n \in 1..Len(s) : s[n] \in R
    BY SequenceFacts DEF Elements
  <2>2. \A n \in 1..Len(t) : t[n] \in R
    BY DEF Elements
  <2>. HIDE DEF R
  <2>. QED BY <2>1, <2>2, SequenceFacts
<1>. HIDE DEF R
<1>2. s \o t \in Seq(R)
  BY <1>1
<1>3. Sequence(s \o t) /\ Elements(s \o t) \subseteq R
  BY <1>2, InSequence
<1>4. Len(s \o t) = Len(s) + Len(t) /\ Len(s) \in Nat /\ Len(t) \in Nat
  BY <1>1
<1>5. ASSUME NEW n \in 1..Len(s)
      PROVE  s[n] \in Elements(s \o t)
  <2>1. n \in 1..Len(s \o t) /\ (s \o t)[n] = s[n]
    BY <1>1, <1>4
  <2>. QED BY <2>1 DEF Elements
<1>6. ASSUME NEW n \in 1..Len(t)
      PROVE  t[n] \in Elements(s \o t)
  <2>1. Len(s) + n \in 1..Len(s \o t) /\ (s \o t)[Len(s) + n] = t[n]
    BY <1>1, <1>4
  <2>. QED BY <2>1 DEF Elements
<1>7. R \subseteq Elements(s \o t)
  BY <1>5, <1>6 DEF R, Elements
<1>. QED BY <1>3, <1>7 DEF R

LEMMA NoElements == Sequence(<<>>) /\ Elements(<<>>) = {}
BY DEF Sequence, Elements

LEMMA OneElement ==
  ASSUME NEW r
  PROVE  Sequence(<<r>>) /\ Elements(<<r>>) = {r}
BY DEF Sequence, Elements

LEMMA WhenElements ==
  ASSUME NEW cond \in BOOLEAN, NEW r
  PROVE  /\ Sequence(when(cond, r))
         /\ Elements(when(cond, r)) = IF cond THEN {r} ELSE {}
BY NoElements, OneElement DEF when

LEMMA FourElements ==
  ASSUME NEW r1, NEW r2, NEW r3, NEW r4
  PROVE  /\ Sequence(<<r1, r2, r3, r4>>)
         /\ Elements(<<r1, r2, r3, r4>>) = {r1, r2, r3, r4}
<1>. DEFINE s == <<r1, r2, r3, r4>>
<1>1. Len(s) = 4 /\ s[1] = r1 /\ s[2] = r2 /\ s[3] = r3 /\ s[4] = r4 /\ s \in Seq({r1, r2, r3, r4})
  OBVIOUS
<1>2. 1..4 = {1, 2, 3, 4}
  OBVIOUS
<1>. HIDE DEF s
<1>3. Elements(s) = {r1, r2, r3, r4}
  BY <1>1, <1>2 DEF Elements
<1>. QED BY <1>1, <1>3 DEF Sequence, s

LEMMA SixElements ==
  ASSUME NEW r1, NEW r2, NEW r3, NEW r4, NEW r5, NEW r6
  PROVE  /\ Sequence(<<r1, r2, r3, r4, r5, r6>>)
         /\ Elements(<<r1, r2, r3, r4, r5, r6>>) = {r1, r2, r3, r4, r5, r6}
<1>. DEFINE s == <<r1, r2, r3, r4, r5, r6>>
<1>1. /\ Len(s) = 6 /\ s[1] = r1 /\ s[2] = r2 /\ s[3] = r3 /\ s[4] = r4 /\ s[5] = r5 /\ s[6] = r6
      /\ s \in Seq({r1, r2, r3, r4, r5, r6})
  OBVIOUS
<1>2. 1..6 = {1, 2, 3, 4, 5, 6}
  OBVIOUS
<1>. HIDE DEF s
<1>3. Elements(s) = {r1, r2, r3, r4, r5, r6}
  BY <1>1, <1>2 DEF Elements
<1>. QED BY <1>1, <1>3 DEF Sequence, s

-----------------------------------------------------------------------------
(***************************************************************************)
(* What compile writes for one batch                                       *)
(***************************************************************************)

\* The object of each slot of a batch, producer or claim entity, but for the
\* claims that a batch produced: <<k, x>> is the entity and p the predicate.
Says(k, x, p) ==
  CASE k = "batch" /\ p = Ingest("is_a")                -> Ingest("batch")
    [] k = "batch" /\ p = Ingest("profile")             -> Ingest(x.profile)
    [] k = "batch" /\ p = Ingest("manifest")            -> <<"batch", x>>
    [] k = "batch" /\ p = Ingest("producer")            -> <<"producer", x.producer>>
    [] k = "batch" /\ p = Ingest("source")              -> <<"source", x.source[1].digest>>
    [] k = "batch" /\ p = Ingest("artifact_mode")       -> Ingest(x.source[1].mode)
    [] k = "producer" /\ p = Ingest("is_a")             -> Ingest("producer")
    [] k = "producer" /\ p = Ingest("schema_identity")  -> <<"user", x.schema>>
    [] k = "claim" /\ p = Ingest("is_a")                -> Ingest("claim")
    [] k = "claim" /\ p = Ingest("initial_status")      ->
         Ingest(IF x.profile = "trusted-facts" THEN "accepted" ELSE "proposed")
    [] k = "claim" /\ p = Ingest("candidate_subject")   -> x.subject
    [] k = "claim" /\ p = Ingest("candidate_predicate") -> x.predicate
    [] k = "claim" /\ p = Ingest("candidate_object")    -> x.object
    [] k = "claim" /\ p = Ingest("confidence_ppm")      -> U64(x.confidence[1])
    [] OTHER                                            -> <<"source", x.source[1]>>

\* Slots hold labels; only the manifest of the batch itself is appended, and
\* nobody else writes one; every slot of an entity of the compiler has its object.
Sound(b, r) ==
  /\ r.slot \in Label \X Label
  /\ r.kind = "append" \/ r.slot[2] = Ingest("manifest") =>
       r.slot = <<batchEntity(b), Ingest("manifest")>> /\ r.object = batchEntity(b)
  /\ r.slot[1][1] \in {"batch", "producer", "claim"} /\ r.slot[2] # Ingest("produced") =>
       r.object = Says(r.slot[1][1], r.slot[1][2], r.slot[2])

\* Subjects and predicates are labels of callers.
LEMMA ClaimLabels ==
  ASSUME NEW b \in Batches, NEW n \in 1..Len(b.claims)
  PROVE  b.claims[n].subject \in UserLabel /\ b.claims[n].predicate \in UserLabel
<1>1. b.claims \in Seq(Claim)
  BY IngestAssumption DEF AnyBatch
<1>2. b.claims[n] \in Claim
  BY <1>1
<1>. QED BY <1>2 DEF Claim

LEMMA CompilerLabels ==
  /\ \A x \in {"is_a", "profile", "manifest", "producer", "schema_identity", "source",
               "artifact_mode", "media_type", "produced", "initial_status",
               "candidate_subject", "candidate_predicate", "candidate_object",
               "confidence_ppm", "supports"} : Ingest(x) \in Label
  /\ \A b \in Batches :
       /\ batchEntity(b) \in Label /\ producerEntity(b) \in Label
       /\ b.source # <<>> => <<"source", b.source[1].digest>> \in Label
       /\ \A n \in 1..Len(b.claims) :
            /\ claimEntity(b, b.claims[n]) \in Label
            /\ b.claims[n].subject \in Label /\ b.claims[n].predicate \in Label
<1>1. \A x \in {"is_a", "profile", "manifest", "producer", "schema_identity", "source",
                "artifact_mode", "media_type", "produced", "initial_status",
                "candidate_subject", "candidate_predicate", "candidate_object",
                "confidence_ppm", "supports"} : Ingest(x) \in Label
  BY DEF Label
<1>2. ASSUME NEW b \in Batches
      PROVE  batchEntity(b) \in Label /\ producerEntity(b) \in Label
  BY DEF Label
<1>3. ASSUME NEW b \in Batches, b.source # <<>>
      PROVE  <<"source", b.source[1].digest>> \in Label
  <2>1. 1 \in 1..Len(b.source)
    BY <1>3, IngestAssumption
  <2>2. b.source[1].digest \in {b.source[n].digest : n \in 1..Len(b.source)}
    BY <2>1
  <2>. QED BY <2>2 DEF Label
<1>4. ASSUME NEW b \in Batches, NEW n \in 1..Len(b.claims)
      PROVE  /\ claimEntity(b, b.claims[n]) \in Label
             /\ b.claims[n].subject \in Label /\ b.claims[n].predicate \in Label
  <2>1. {b.claims[n].subject, b.claims[n].predicate} \subseteq UserLabel
    BY ClaimLabels
  <2>2. claimEntity(b, b.claims[n]) \in Label
    BY DEF Label
  <2>3. UserLabel \subseteq Label
    BY DEF Label
  <2>. QED BY <2>1, <2>2, <2>3
<1>. QED BY <1>1, <1>2, <1>3, <1>4

\* A record in a slot of the compiler that has the object it should have.
LEMMA OwnRecord ==
  ASSUME NEW b, NEW k \in {"batch", "producer", "claim"}, NEW x, NEW p,
         <<k, x>> \in Label, Ingest(p) \in Label, Ingest(p) # Ingest("manifest")
  PROVE  Sound(b, add(<<k, x>>, Ingest(p), Says(k, x, Ingest(p))))
BY DEF Sound, add, Ingest

\* A record about something else, under any predicate but the manifest's.
LEMMA OtherRecord ==
  ASSUME NEW b, NEW s \in Label, NEW p \in Label, NEW o, p # Ingest("manifest"),
         s[1] \notin {"batch", "producer", "claim"} \/ p = Ingest("produced")
  PROVE  Sound(b, add(s, p, o))
BY DEF Sound, add

\* The records of the batch itself.
BatchRecords(b) ==
  {add(batchEntity(b), Ingest("is_a"), Ingest("batch")),
   add(batchEntity(b), Ingest("profile"), Ingest(b.profile)),
   addRaw(batchEntity(b), Ingest("manifest"), batchEntity(b)),
   add(batchEntity(b), Ingest("producer"), producerEntity(b)),
   add(producerEntity(b), Ingest("is_a"), Ingest("producer")),
   add(producerEntity(b), Ingest("schema_identity"), <<"user", b.producer.schema>>)}

\* The records of its source.
SourceRecords(b) ==
  {add(batchEntity(b), Ingest("source"), <<"source", b.source[1].digest>>),
   add(batchEntity(b), Ingest("artifact_mode"), Ingest(b.source[1].mode)),
   add(<<"source", b.source[1].digest>>, Ingest("is_a"), Ingest("source")),
   add(<<"source", b.source[1].digest>>, Ingest("media_type"), <<"media-type", b.source[1].media>>)}

LEMMA HeaderElements ==
  ASSUME NEW b
  PROVE  /\ Sequence(headerRecords(b))
         /\ Elements(headerRecords(b)) =
              BatchRecords(b) \cup (IF b.source = <<>> THEN {} ELSE SourceRecords(b))
<1>. DEFINE e == batchEntity(b)
            p == producerEntity(b)
            s == <<"source", b.source[1].digest>>
            own == <<add(e, Ingest("is_a"), Ingest("batch")),
                     add(e, Ingest("profile"), Ingest(b.profile)),
                     addRaw(e, Ingest("manifest"), e),
                     add(e, Ingest("producer"), p),
                     add(p, Ingest("is_a"), Ingest("producer")),
                     add(p, Ingest("schema_identity"), <<"user", b.producer.schema>>)>>
            sourced == <<add(e, Ingest("source"), s),
                         add(e, Ingest("artifact_mode"), Ingest(b.source[1].mode)),
                         add(s, Ingest("is_a"), Ingest("source")),
                         add(s, Ingest("media_type"), <<"media-type", b.source[1].media>>)>>
<1>1. Sequence(own) /\ Elements(own) = BatchRecords(b)
  BY SixElements DEF BatchRecords
<1>2. Sequence(sourced) /\ Elements(sourced) = SourceRecords(b)
  BY FourElements DEF SourceRecords
<1>3. headerRecords(b) = own \o (IF b.source = <<>> THEN <<>> ELSE sourced)
  BY DEF headerRecords
<1>. HIDE DEF own, sourced
<1>. QED BY <1>1, <1>2, <1>3, NoElements, Concatenation

\* The records of one claim.
ClaimRecords(b, c) ==
  {add(batchEntity(b), Ingest("produced"), claimEntity(b, c)),
   add(claimEntity(b, c), Ingest("is_a"), Ingest("claim")),
   add(claimEntity(b, c), Ingest("initial_status"), status(b)),
   add(claimEntity(b, c), Ingest("candidate_subject"), c.subject),
   add(claimEntity(b, c), Ingest("candidate_predicate"), c.predicate),
   add(claimEntity(b, c), Ingest("candidate_object"), c.object)}

Confidence(b, c) == add(claimEntity(b, c), Ingest("confidence_ppm"), U64(c.confidence[1]))
Supports(b, c) == add(claimEntity(b, c), Ingest("supports"), <<"source", sourceDigest(b)[1]>>)
Assertion(c) == add(c.subject, c.predicate, c.object)

LEMMA ClaimElements ==
  ASSUME NEW b, NEW c
  PROVE  /\ Sequence(claimRecords(b, c))
         /\ Elements(claimRecords(b, c)) =
              ClaimRecords(b, c)
                \cup (IF c.confidence # <<>> THEN {Confidence(b, c)} ELSE {})
                \cup (IF b.source # <<>> THEN {Supports(b, c)} ELSE {})
                \cup (IF b.profile = "trusted-facts" THEN {Assertion(c)} ELSE {})
<1>. DEFINE e == claimEntity(b, c)
            own == <<add(batchEntity(b), Ingest("produced"), e),
                     add(e, Ingest("is_a"), Ingest("claim")),
                     add(e, Ingest("initial_status"), status(b)),
                     add(e, Ingest("candidate_subject"), c.subject),
                     add(e, Ingest("candidate_predicate"), c.predicate),
                     add(e, Ingest("candidate_object"), c.object)>>
            conf == when(c.confidence # <<>>, Confidence(b, c))
            supp == when(b.source # <<>>, Supports(b, c))
            fact == when(b.profile = "trusted-facts", Assertion(c))
<1>1. Sequence(own) /\ Elements(own) = ClaimRecords(b, c)
  BY SixElements DEF ClaimRecords
<1>2. Sequence(conf) /\ Elements(conf) = IF c.confidence # <<>> THEN {Confidence(b, c)} ELSE {}
  BY WhenElements
<1>3. Sequence(supp) /\ Elements(supp) = IF b.source # <<>> THEN {Supports(b, c)} ELSE {}
  BY WhenElements
<1>4. Sequence(fact) /\ Elements(fact) =
        IF b.profile = "trusted-facts" THEN {Assertion(c)} ELSE {}
  BY WhenElements
<1>5. claimRecords(b, c) = ((own \o conf) \o supp) \o fact
  BY DEF claimRecords, Confidence, Supports, Assertion
<1>. HIDE DEF own, conf, supp, fact
<1>6. Sequence(own \o conf) /\ Elements(own \o conf) = Elements(own) \cup Elements(conf)
  BY <1>1, <1>2, Concatenation
<1>7. /\ Sequence((own \o conf) \o supp)
      /\ Elements((own \o conf) \o supp) = Elements(own) \cup Elements(conf) \cup Elements(supp)
  BY <1>3, <1>6, Concatenation
<1>8. /\ Sequence(claimRecords(b, c))
      /\ Elements(claimRecords(b, c)) =
           Elements(own) \cup Elements(conf) \cup Elements(supp) \cup Elements(fact)
  BY <1>4, <1>5, <1>7, Concatenation
<1>. QED BY <1>1, <1>2, <1>3, <1>4, <1>8

LEMMA HeaderSound ==
  ASSUME NEW b \in Batches, NEW r \in Elements(headerRecords(b))
  PROVE  Sound(b, r)
<1>. DEFINE e == batchEntity(b)
            p == producerEntity(b)
<1>1. e = <<"batch", b>> /\ p = <<"producer", b.producer>> /\ e \in Label /\ p \in Label
  BY CompilerLabels DEF batchEntity, producerEntity
<1>. HIDE DEF e, p
<1>2. \A x \in {"is_a", "profile", "producer", "schema_identity", "source", "artifact_mode",
                "media_type"} : Ingest(x) \in Label /\ Ingest(x) # Ingest("manifest")
  BY CompilerLabels DEF Ingest
<1>3. CASE r \in BatchRecords(b)
  <2>1. CASE r = add(e, Ingest("is_a"), Ingest("batch"))
    <3>1. Ingest("batch") = Says("batch", b, Ingest("is_a"))
      BY DEF Says, Ingest
    <3>. QED BY <1>1, <1>2, <2>1, <3>1, OwnRecord
  <2>2. CASE r = add(e, Ingest("profile"), Ingest(b.profile))
    <3>1. Ingest(b.profile) = Says("batch", b, Ingest("profile"))
      BY DEF Says, Ingest
    <3>. QED BY <1>1, <1>2, <2>2, <3>1, OwnRecord
  <2>3. CASE r = addRaw(e, Ingest("manifest"), e)
    <3>1. r.slot = <<e, Ingest("manifest")>> /\ r.object = e
      BY <2>3 DEF addRaw
    <3>2. r.slot[1][1] = "batch" /\ r.slot[1][2] = b /\ r.slot[2] = Ingest("manifest")
      BY <1>1, <3>1
    <3>3. r.object = Says("batch", b, Ingest("manifest"))
      BY <1>1, <3>1 DEF Says, Ingest
    <3>4. r.slot \in Label \X Label
      BY <1>1, <3>1, CompilerLabels
    <3>. QED BY <3>1, <3>2, <3>3, <3>4 DEF Sound, e
  <2>4. CASE r = add(e, Ingest("producer"), p)
    <3>1. p = Says("batch", b, Ingest("producer"))
      BY <1>1 DEF Says, Ingest
    <3>. QED BY <1>1, <1>2, <2>4, <3>1, OwnRecord
  <2>5. CASE r = add(p, Ingest("is_a"), Ingest("producer"))
    <3>1. Ingest("producer") = Says("producer", b.producer, Ingest("is_a"))
      BY DEF Says, Ingest
    <3>. QED BY <1>1, <1>2, <2>5, <3>1, OwnRecord
  <2>6. CASE r = add(p, Ingest("schema_identity"), <<"user", b.producer.schema>>)
    <3>1. <<"user", b.producer.schema>> = Says("producer", b.producer, Ingest("schema_identity"))
      BY DEF Says, Ingest
    <3>. QED BY <1>1, <1>2, <2>6, <3>1, OwnRecord
  <2>. QED BY <1>3, <2>1, <2>2, <2>3, <2>4, <2>5, <2>6 DEF BatchRecords, e, p
<1>4. CASE b.source # <<>> /\ r \in SourceRecords(b)
  <2>. DEFINE s == <<"source", b.source[1].digest>>
  <2>0. s \in Label /\ s[1] = "source"
    BY <1>4, CompilerLabels
  <2>1. CASE r = add(e, Ingest("source"), s)
    <3>1. s = Says("batch", b, Ingest("source"))
      BY DEF Says, Ingest
    <3>. QED BY <1>1, <1>2, <2>1, <3>1, OwnRecord
  <2>2. CASE r = add(e, Ingest("artifact_mode"), Ingest(b.source[1].mode))
    <3>1. Ingest(b.source[1].mode) = Says("batch", b, Ingest("artifact_mode"))
      BY DEF Says, Ingest
    <3>. QED BY <1>1, <1>2, <2>2, <3>1, OwnRecord
  <2>. HIDE DEF s
  <2>3. CASE r = add(s, Ingest("is_a"), Ingest("source"))
    BY <1>2, <2>0, <2>3, OtherRecord
  <2>4. CASE r = add(s, Ingest("media_type"), <<"media-type", b.source[1].media>>)
    BY <1>2, <2>0, <2>4, OtherRecord
  <2>. QED BY <1>4, <2>1, <2>2, <2>3, <2>4 DEF SourceRecords, e, s
<1>. QED BY <1>3, <1>4, HeaderElements

\* A valid claim: its labels are not the compiler's.
LEMMA UserLabels ==
  ASSUME NEW b, NEW c, validClaim(b, c)
  PROVE  /\ c.subject[1] \notin {"batch", "producer", "claim", "ingest"}
         /\ c.predicate[1] # "ingest" /\ c.predicate # Ingest("manifest")
<1>1. validateUserLabel(c.subject) /\ validateUserLabel(c.predicate)
  BY DEF validClaim
<1>2. Ingest("manifest")[1] = "ingest"
  BY DEF Ingest
<1>3. /\ c.subject[1] \notin {"ingest", "batch", "claim", "producer", "source", "media-type"}
      /\ c.predicate[1] \notin {"ingest", "batch", "claim", "producer", "source", "media-type"}
  BY <1>1 DEF validateUserLabel, Reserved
<1>. QED BY <1>2, <1>3

LEMMA ClaimSound ==
  ASSUME NEW b \in Batches, NEW n \in 1..Len(b.claims), validClaim(b, b.claims[n]),
         NEW r \in Elements(claimRecords(b, b.claims[n]))
  PROVE  Sound(b, r)
<1>. DEFINE c == b.claims[n]
            x == [profile |-> b.profile, producer |-> producerEntity(b),
                  source |-> sourceDigest(b), subject |-> c.subject, predicate |-> c.predicate,
                  object |-> c.object, confidence |-> c.confidence, evidence |-> c.evidence]
            e == claimEntity(b, c)
<1>1. e = <<"claim", x>> /\ e \in Label
  BY CompilerLabels DEF claimEntity
<1>2. /\ x.profile = b.profile /\ x.source = sourceDigest(b) /\ x.subject = c.subject
      /\ x.predicate = c.predicate /\ x.object = c.object /\ x.confidence = c.confidence
  OBVIOUS
<1>. HIDE DEF e, x
<1>3. \A w \in {"is_a", "initial_status", "candidate_subject", "candidate_predicate",
                "candidate_object", "confidence_ppm", "supports"} :
         Ingest(w) \in Label /\ Ingest(w) # Ingest("manifest")
  BY CompilerLabels DEF Ingest
<1>4. ASSUME NEW w \in {"is_a", "initial_status", "candidate_subject", "candidate_predicate",
                        "candidate_object", "confidence_ppm", "supports"},
             NEW o, o = Says("claim", x, Ingest(w))
      PROVE  Sound(b, add(e, Ingest(w), o))
  BY <1>1, <1>3, <1>4, OwnRecord
<1>5. CASE r = add(batchEntity(b), Ingest("produced"), e)
  <2>1. batchEntity(b) \in Label /\ Ingest("produced") \in Label
        /\ Ingest("produced") # Ingest("manifest")
    BY CompilerLabels DEF Ingest
  <2>. QED BY <1>5, <2>1, OtherRecord
<1>6. CASE r = add(e, Ingest("is_a"), Ingest("claim"))
  <2>1. Ingest("claim") = Says("claim", x, Ingest("is_a"))
    BY DEF Says, Ingest
  <2>. QED BY <1>4, <1>6, <2>1
<1>7. CASE r = add(e, Ingest("initial_status"), status(b))
  <2>1. status(b) = Says("claim", x, Ingest("initial_status"))
    BY <1>2 DEF Says, Ingest, status
  <2>. QED BY <1>4, <1>7, <2>1
<1>8. CASE r = add(e, Ingest("candidate_subject"), c.subject)
  <2>1. c.subject = Says("claim", x, Ingest("candidate_subject"))
    BY <1>2 DEF Says, Ingest
  <2>. QED BY <1>4, <1>8, <2>1
<1>9. CASE r = add(e, Ingest("candidate_predicate"), c.predicate)
  <2>1. c.predicate = Says("claim", x, Ingest("candidate_predicate"))
    BY <1>2 DEF Says, Ingest
  <2>. QED BY <1>4, <1>9, <2>1
<1>10. CASE r = add(e, Ingest("candidate_object"), c.object)
  <2>1. c.object = Says("claim", x, Ingest("candidate_object"))
    BY <1>2 DEF Says, Ingest
  <2>. QED BY <1>4, <1>10, <2>1
<1>11. CASE r = Confidence(b, c)
  <2>1. U64(c.confidence[1]) = Says("claim", x, Ingest("confidence_ppm"))
    BY <1>2 DEF Says, Ingest
  <2>2. r = add(e, Ingest("confidence_ppm"), U64(c.confidence[1]))
    BY <1>11 DEF Confidence, e
  <2>. QED BY <1>4, <2>1, <2>2
<1>12. CASE r = Supports(b, c)
  <2>1. <<"source", sourceDigest(b)[1]>> = Says("claim", x, Ingest("supports"))
    BY <1>2 DEF Says, Ingest
  <2>2. r = add(e, Ingest("supports"), <<"source", sourceDigest(b)[1]>>)
    BY <1>12 DEF Supports, e
  <2>. QED BY <1>4, <2>1, <2>2
<1>13. CASE r = Assertion(c)
  <2>1. c.subject \in Label /\ c.predicate \in Label
    BY CompilerLabels
  <2>. QED BY <1>13, <2>1, UserLabels, OtherRecord DEF Assertion
<1>. QED
  BY <1>5, <1>6, <1>7, <1>8, <1>9, <1>10, <1>11, <1>12, <1>13, ClaimElements DEF ClaimRecords, e

-----------------------------------------------------------------------------
(***************************************************************************)
(* Provenance as a property of sets of triples: it is closed under union,  *)
(* so what each batch writes has it if the store is to have it.            *)
(***************************************************************************)
Triples(S) == {<<r.slot, r.object>> : r \in S}

Told(W, e, s, p, o) ==
  /\ <<<<e, Ingest("candidate_subject")>>, s>> \in W
  /\ <<<<e, Ingest("candidate_predicate")>>, p>> \in W
  /\ <<<<e, Ingest("candidate_object")>>, o>> \in W

Explained(W, w) ==
  \E d \in W : /\ d[1][1][1] = "batch" /\ d[1][2] = Ingest("produced")
               /\ <<<<d[2], Ingest("initial_status")>>, Ingest("accepted")>> \in W
               /\ Told(W, d[2], w[1][1], w[1][2], w[2])

Asserted(W, d) == \E w \in W : Told(W, d[1][1], w[1][1], w[1][2], w[2])

Closed(W) ==
  /\ \A w \in W : w[1][1][1] = "user" => Explained(W, w)
  /\ \A d \in W : d[1][2] = Ingest("initial_status") /\ d[2] = Ingest("accepted") => Asserted(W, d)

LEMMA ClosedUnion ==
  ASSUME NEW V, NEW W, Closed(V), Closed(W)
  PROVE  Closed(V \cup W)
BY DEF Closed, Explained, Asserted, Told

LEMMA HeaderClosed ==
  ASSUME NEW b
  PROVE  Closed(Triples(Elements(headerRecords(b))))
<1>1. ASSUME NEW r \in Elements(headerRecords(b))
      PROVE  r.slot[1][1] # "user" /\ r.slot[2] # Ingest("initial_status")
  <2>1. CASE r \in BatchRecords(b)
    BY <2>1 DEF BatchRecords, add, addRaw, batchEntity, producerEntity, Ingest
  <2>2. CASE r \in SourceRecords(b)
    BY <2>2 DEF SourceRecords, add, batchEntity, Ingest
  <2>. QED BY <2>1, <2>2, HeaderElements
<1>. QED BY <1>1 DEF Closed, Triples

LEMMA ClaimClosed ==
  ASSUME NEW b, NEW c, validClaim(b, c)
  PROVE  Closed(Triples(Elements(claimRecords(b, c))))
<1>. DEFINE e == claimEntity(b, c)
            E == Elements(claimRecords(b, c))
            W == Triples(E)
<1>. HIDE DEF e, E, W
<1>1. ASSUME NEW s, NEW p, NEW o, add(s, p, o) \in E
      PROVE  <<<<s, p>>, o>> \in W
  <2>1. add(s, p, o).slot = <<s, p>> /\ add(s, p, o).object = o
    BY DEF add
  <2>. QED BY <1>1, <2>1 DEF Triples, W
<1>2. ClaimRecords(b, c) \subseteq E
  BY ClaimElements DEF E
<1>3. /\ <<<<batchEntity(b), Ingest("produced")>>, e>> \in W
      /\ <<<<e, Ingest("initial_status")>>, status(b)>> \in W
      /\ Told(W, e, c.subject, c.predicate, c.object)
  BY <1>1, <1>2 DEF ClaimRecords, Told, e
<1>4. CASE b.profile = "trusted-facts"
  <2>1. status(b) = Ingest("accepted")
    BY <1>4 DEF status
  <2>2. <<<<c.subject, c.predicate>>, c.object>> \in W
    <3>1. Assertion(c) \in E
      BY <1>4, ClaimElements DEF E
    <3>. QED BY <1>1, <3>1 DEF Assertion
  <2>3. ASSUME NEW r \in E, r.slot[1][1] = "user"
        PROVE  r = Assertion(c)
    <3>1. r \notin ClaimRecords(b, c)
      BY <2>3 DEF ClaimRecords, add, batchEntity, claimEntity
    <3>2. r # Confidence(b, c) /\ r # Supports(b, c)
      BY <2>3 DEF Confidence, Supports, add, claimEntity
    <3>. QED BY <3>1, <3>2, ClaimElements DEF E
  <2>4. ASSUME NEW w \in W, w[1][1][1] = "user"
        PROVE  w = <<<<c.subject, c.predicate>>, c.object>>
    BY <2>3, <2>4 DEF W, Triples, Assertion, add
  <2>5. ASSUME NEW w \in W, w[1][1][1] = "user"
        PROVE  Explained(W, w)
    <3>1. batchEntity(b)[1] = "batch"
      BY DEF batchEntity
    <3>2. w = <<<<c.subject, c.predicate>>, c.object>>
      BY <2>4, <2>5
    <3>. QED BY <1>3, <2>1, <3>1, <3>2 DEF Explained
  <2>6. ASSUME NEW r \in E, r.slot[2] = Ingest("initial_status")
        PROVE  r.slot[1] = e
    <3>1. CASE r \in ClaimRecords(b, c)
      BY <2>6, <3>1 DEF ClaimRecords, add, Ingest, e
    <3>2. CASE r \in {Confidence(b, c), Supports(b, c)}
      BY <2>6, <3>2 DEF Confidence, Supports, add, Ingest, e
    <3>3. CASE r = Assertion(c)
      <4>1. r.slot[2] = c.predicate /\ Ingest("initial_status")[1] = "ingest"
        BY <3>3 DEF Assertion, add, Ingest
      <4>. QED BY <2>6, <4>1, UserLabels
    <3>. QED BY <3>1, <3>2, <3>3, ClaimElements DEF E
  <2>7. ASSUME NEW d \in W, d[1][2] = Ingest("initial_status")
        PROVE  Asserted(W, d)
    <3>1. d[1][1] = e
      BY <2>6, <2>7 DEF W, Triples
    <3>. QED BY <1>3, <2>2, <3>1 DEF Asserted
  <2>. QED BY <2>5, <2>7 DEF Closed, W, E
<1>5. CASE b.profile # "trusted-facts"
  <2>1. status(b) # Ingest("accepted")
    BY <1>5 DEF status, Ingest
  <2>2. ASSUME NEW r \in E
        PROVE  /\ r.slot[1][1] # "user"
               /\ r.slot[2] = Ingest("initial_status") => r.object # Ingest("accepted")
    <3>1. CASE r \in ClaimRecords(b, c)
      BY <2>1, <3>1 DEF ClaimRecords, add, Ingest, batchEntity, claimEntity
    <3>2. CASE r \in {Confidence(b, c), Supports(b, c)}
      BY <3>2 DEF Confidence, Supports, add, Ingest, claimEntity
    <3>. QED BY <1>5, <3>1, <3>2, ClaimElements DEF E
  <2>. QED BY <2>2 DEF Closed, Triples, W, E
<1>. QED BY <1>4, <1>5

-----------------------------------------------------------------------------
(***************************************************************************)
(* Two records of one triple can only be assertions of trusted claims      *)
(***************************************************************************)
SameTriple(r, q) == r.slot = q.slot /\ r.object = q.object
Excused(b, r) == b.profile = "trusted-facts" /\ r.slot[1][1] = "user"

Apart(b, s) ==
  \A m, n \in 1..Len(s) : m # n /\ SameTriple(s[m], s[n]) => Excused(b, s[m])

\* The elements of a concatenation, by their places.
LEMMA Parts ==
  ASSUME NEW s, NEW t, Sequence(s), Sequence(t)
  PROVE  /\ Len(s) \in Nat /\ Len(t) \in Nat /\ Len(s \o t) = Len(s) + Len(t)
         /\ \A n \in 1..Len(s) : (s \o t)[n] = s[n]
         /\ \A n \in Len(s) + 1..Len(s) + Len(t) : (s \o t)[n] = t[n - Len(s)]
<1>. DEFINE R == Elements(s) \cup Elements(t)
<1>1. s \in Seq(R) /\ t \in Seq(R)
  <2>1. Len(s) \in Nat /\ Len(t) \in Nat /\ \A n \in 1..Len(s) : s[n] \in R
    BY SequenceFacts DEF Elements
  <2>2. \A n \in 1..Len(t) : t[n] \in R
    BY DEF Elements
  <2>. HIDE DEF R
  <2>. QED BY <2>1, <2>2, SequenceFacts
<1>. HIDE DEF R
<1>. QED BY <1>1

LEMMA ApartConcatenation ==
  ASSUME NEW b, NEW s, NEW t, Sequence(s), Sequence(t), Apart(b, s), Apart(b, t),
         \A r \in Elements(s), q \in Elements(t) : SameTriple(r, q) => Excused(b, r)
  PROVE  Apart(b, s \o t)
<1>1. /\ Len(s) \in Nat /\ Len(t) \in Nat /\ Len(s \o t) = Len(s) + Len(t)
      /\ \A n \in 1..Len(s) : (s \o t)[n] = s[n]
      /\ \A n \in Len(s) + 1..Len(s) + Len(t) : (s \o t)[n] = t[n - Len(s)]
  BY Parts
<1>. SUFFICES ASSUME NEW m \in 1..Len(s \o t), NEW n \in 1..Len(s \o t), m # n,
                     SameTriple((s \o t)[m], (s \o t)[n])
              PROVE  Excused(b, (s \o t)[m])
  BY DEF Apart
<1>2. CASE m \in 1..Len(s) /\ n \in 1..Len(s)
  BY <1>1, <1>2 DEF Apart
<1>3. CASE m \in 1..Len(s) /\ n \notin 1..Len(s)
  <2>1. /\ (s \o t)[m] = s[m] /\ (s \o t)[n] = t[n - Len(s)]
        /\ s[m] \in Elements(s) /\ t[n - Len(s)] \in Elements(t)
    BY <1>1, <1>3 DEF Elements
  <2>. QED BY <2>1
<1>4. CASE m \notin 1..Len(s) /\ n \in 1..Len(s)
  <2>1. /\ (s \o t)[n] = s[n] /\ (s \o t)[m] = t[m - Len(s)]
        /\ s[n] \in Elements(s) /\ t[m - Len(s)] \in Elements(t)
    BY <1>1, <1>4 DEF Elements
  <2>2. SameTriple(s[n], t[m - Len(s)]) /\ Excused(b, s[n])
    BY <2>1 DEF SameTriple
  <2>. QED BY <2>1, <2>2 DEF SameTriple, Excused
<1>5. CASE m \notin 1..Len(s) /\ n \notin 1..Len(s)
  <2>1. /\ (s \o t)[m] = t[m - Len(s)] /\ (s \o t)[n] = t[n - Len(s)]
        /\ m - Len(s) \in 1..Len(t) /\ n - Len(s) \in 1..Len(t)
        /\ m - Len(s) # n - Len(s)
    BY <1>1, <1>5
  <2>. QED BY <2>1 DEF Apart
<1>. QED BY <1>2, <1>3, <1>4, <1>5

LEMMA ApartShort ==
  ASSUME NEW b, NEW cond \in BOOLEAN, NEW r
  PROVE  Apart(b, when(cond, r)) /\ Apart(b, <<>>)
BY DEF Apart, when

LEMMA ApartFour ==
  ASSUME NEW b, NEW r1, NEW r2, NEW r3, NEW r4,
         r1.slot \notin {r2.slot, r3.slot, r4.slot}, r2.slot \notin {r3.slot, r4.slot},
         r3.slot # r4.slot
  PROVE  Apart(b, <<r1, r2, r3, r4>>)
<1>. DEFINE s == <<r1, r2, r3, r4>>
<1>1. Len(s) = 4 /\ s[1] = r1 /\ s[2] = r2 /\ s[3] = r3 /\ s[4] = r4
  OBVIOUS
<1>2. 1..4 = {1, 2, 3, 4}
  OBVIOUS
<1>. HIDE DEF s
<1>3. \A m, n \in {1, 2, 3, 4} : m # n => s[m].slot # s[n].slot
  BY <1>1
<1>. QED BY <1>1, <1>2, <1>3 DEF Apart, SameTriple, s

LEMMA ApartSix ==
  ASSUME NEW b, NEW r1, NEW r2, NEW r3, NEW r4, NEW r5, NEW r6,
         r1.slot \notin {r2.slot, r3.slot, r4.slot, r5.slot, r6.slot},
         r2.slot \notin {r3.slot, r4.slot, r5.slot, r6.slot},
         r3.slot \notin {r4.slot, r5.slot, r6.slot},
         r4.slot \notin {r5.slot, r6.slot}, r5.slot # r6.slot
  PROVE  Apart(b, <<r1, r2, r3, r4, r5, r6>>)
<1>. DEFINE s == <<r1, r2, r3, r4, r5, r6>>
<1>1. Len(s) = 6 /\ s[1] = r1 /\ s[2] = r2 /\ s[3] = r3 /\ s[4] = r4 /\ s[5] = r5 /\ s[6] = r6
  OBVIOUS
<1>2. 1..6 = {1, 2, 3, 4, 5, 6}
  OBVIOUS
<1>. HIDE DEF s
<1>3. \A m, n \in {1, 2, 3, 4, 5, 6} : m # n => s[m].slot # s[n].slot
  BY <1>1
<1>. QED BY <1>1, <1>2, <1>3 DEF Apart, SameTriple, s

\* The header names no claim.
LEMMA HeaderSlots ==
  ASSUME NEW b, NEW r \in Elements(headerRecords(b))
  PROVE  /\ r.slot[1][1] \in {"batch", "producer", "source"} /\ r.slot[2] # Ingest("produced")
         /\ r.kind \in {"ensure", "append"}
<1>1. CASE r \in BatchRecords(b)
  BY <1>1 DEF BatchRecords, add, addRaw, batchEntity, producerEntity, Ingest
<1>2. CASE r \in SourceRecords(b)
  BY <1>2 DEF SourceRecords, add, batchEntity, Ingest
<1>. QED BY <1>1, <1>2, HeaderElements

LEMMA HeaderApart ==
  ASSUME NEW b
  PROVE  Apart(b, headerRecords(b))
<1>. DEFINE e == batchEntity(b)
            p == producerEntity(b)
            s == <<"source", b.source[1].digest>>
            r1 == add(e, Ingest("is_a"), Ingest("batch"))
            r2 == add(e, Ingest("profile"), Ingest(b.profile))
            r3 == addRaw(e, Ingest("manifest"), e)
            r4 == add(e, Ingest("producer"), p)
            r5 == add(p, Ingest("is_a"), Ingest("producer"))
            r6 == add(p, Ingest("schema_identity"), <<"user", b.producer.schema>>)
            q1 == add(e, Ingest("source"), s)
            q2 == add(e, Ingest("artifact_mode"), Ingest(b.source[1].mode))
            q3 == add(s, Ingest("is_a"), Ingest("source"))
            q4 == add(s, Ingest("media_type"), <<"media-type", b.source[1].media>>)
            own == <<r1, r2, r3, r4, r5, r6>>
            sourced == <<q1, q2, q3, q4>>
<1>1. e[1] = "batch" /\ p[1] = "producer" /\ s[1] = "source"
  BY DEF batchEntity, producerEntity
<1>2. headerRecords(b) = own \o (IF b.source = <<>> THEN <<>> ELSE sourced)
  BY DEF headerRecords
<1>. HIDE DEF e, p, s
<1>3. /\ r1.slot = <<e, Ingest("is_a")>> /\ r2.slot = <<e, Ingest("profile")>>
      /\ r3.slot = <<e, Ingest("manifest")>> /\ r4.slot = <<e, Ingest("producer")>>
      /\ r5.slot = <<p, Ingest("is_a")>> /\ r6.slot = <<p, Ingest("schema_identity")>>
      /\ q1.slot = <<e, Ingest("source")>> /\ q2.slot = <<e, Ingest("artifact_mode")>>
      /\ q3.slot = <<s, Ingest("is_a")>> /\ q4.slot = <<s, Ingest("media_type")>>
  BY DEF add, addRaw
<1>. HIDE DEF r1, r2, r3, r4, r5, r6, q1, q2, q3, q4
<1>4. /\ r1.slot \notin {r2.slot, r3.slot, r4.slot, r5.slot, r6.slot}
      /\ r2.slot \notin {r3.slot, r4.slot, r5.slot, r6.slot}
      /\ r3.slot \notin {r4.slot, r5.slot, r6.slot}
      /\ r4.slot \notin {r5.slot, r6.slot} /\ r5.slot # r6.slot
  BY <1>1, <1>3 DEF Ingest
<1>5. /\ q1.slot \notin {q2.slot, q3.slot, q4.slot} /\ q2.slot \notin {q3.slot, q4.slot}
      /\ q3.slot # q4.slot
  BY <1>1, <1>3 DEF Ingest
<1>6. \A r \in {r1, r2, r3, r4, r5, r6}, q \in {q1, q2, q3, q4} : r.slot # q.slot
  BY <1>1, <1>3 DEF Ingest
<1>7. Apart(b, own) /\ Apart(b, sourced) /\ Apart(b, <<>>)
  BY <1>4, <1>5, ApartSix, ApartFour, ApartShort
<1>8. /\ Sequence(own) /\ Elements(own) = {r1, r2, r3, r4, r5, r6}
      /\ Sequence(sourced) /\ Elements(sourced) = {q1, q2, q3, q4}
  BY SixElements, FourElements
<1>. HIDE DEF own, sourced
<1>9. CASE b.source = <<>>
  <2>1. \A r \in Elements(own), q \in Elements(<<>>) : SameTriple(r, q) => Excused(b, r)
    BY NoElements
  <2>. QED BY <1>2, <1>7, <1>8, <1>9, <2>1, NoElements, ApartConcatenation
<1>10. CASE b.source # <<>>
  <2>1. \A r \in Elements(own), q \in Elements(sourced) : SameTriple(r, q) => Excused(b, r)
    BY <1>6, <1>8 DEF SameTriple
  <2>. QED BY <1>2, <1>7, <1>8, <1>10, <2>1, ApartConcatenation
<1>. QED BY <1>9, <1>10

\* A record of a claim is about the claim, says that the batch produced it, or
\* asserts its candidate.
Named(b, e, r) ==
  \/ r.slot[1] = e /\ r.slot[2] # Ingest("produced")
  \/ r.slot = <<batchEntity(b), Ingest("produced")>> /\ r.object = e
  \/ r.slot[2] # Ingest("produced") /\ Excused(b, r)

LEMMA AssertionExcused ==
  ASSUME NEW b \in Batches, NEW n \in 1..Len(b.claims), validClaim(b, b.claims[n]),
         b.profile = "trusted-facts"
  PROVE  /\ Excused(b, Assertion(b.claims[n]))
         /\ Assertion(b.claims[n]).slot[2] # Ingest("produced")
<1>. DEFINE c == b.claims[n]
<1>1. c.subject \in UserLabel
  BY ClaimLabels
<1>2. validateUserLabel(c.subject)
  BY DEF validClaim
<1>3. c.subject[1] = "user"
  BY <1>1, <1>2, IngestAssumption DEF validateUserLabel
<1>4. c.predicate[1] # "ingest" /\ Ingest("produced")[1] = "ingest"
  BY UserLabels DEF Ingest
<1>. QED BY <1>3, <1>4 DEF Excused, Assertion, add

LEMMA ClaimNamed ==
  ASSUME NEW b \in Batches, NEW n \in 1..Len(b.claims), validClaim(b, b.claims[n]),
         NEW r \in Elements(claimRecords(b, b.claims[n]))
  PROVE  Named(b, claimEntity(b, b.claims[n]), r) /\ r.kind \in {"ensure", "append"}
<1>. DEFINE c == b.claims[n]
            e == claimEntity(b, c)
<1>1. CASE r \in ClaimRecords(b, c)
  BY <1>1 DEF ClaimRecords, add, Named, Ingest
<1>2. CASE r \in {Confidence(b, c), Supports(b, c)}
  BY <1>2 DEF Confidence, Supports, add, Named, Ingest
<1>3. CASE r = Assertion(c) /\ b.profile = "trusted-facts"
  BY <1>3, AssertionExcused DEF Assertion, add, Named
<1>. QED BY <1>1, <1>2, <1>3, ClaimElements

LEMMA ClaimApart ==
  ASSUME NEW b \in Batches, NEW n \in 1..Len(b.claims), validClaim(b, b.claims[n])
  PROVE  Apart(b, claimRecords(b, b.claims[n]))
<1>. DEFINE c == b.claims[n]
            e == claimEntity(b, c)
            t == batchEntity(b)
            r1 == add(t, Ingest("produced"), e)
            r2 == add(e, Ingest("is_a"), Ingest("claim"))
            r3 == add(e, Ingest("initial_status"), status(b))
            r4 == add(e, Ingest("candidate_subject"), c.subject)
            r5 == add(e, Ingest("candidate_predicate"), c.predicate)
            r6 == add(e, Ingest("candidate_object"), c.object)
            own == <<r1, r2, r3, r4, r5, r6>>
            conf == when(c.confidence # <<>>, Confidence(b, c))
            supp == when(b.source # <<>>, Supports(b, c))
            fact == when(b.profile = "trusted-facts", Assertion(c))
<1>1. claimRecords(b, c) = ((own \o conf) \o supp) \o fact
  BY DEF claimRecords, Confidence, Supports, Assertion
<1>2. e[1] = "claim" /\ t[1] = "batch" /\ c.subject[1] \notin {"batch", "claim"}
  BY UserLabels DEF batchEntity, claimEntity
<1>3. Confidence(b, c).slot = <<e, Ingest("confidence_ppm")>>
  BY DEF Confidence, add
<1>4. Supports(b, c).slot = <<e, Ingest("supports")>>
  BY DEF Supports, add
<1>5. Assertion(c).slot = <<c.subject, c.predicate>>
  BY DEF Assertion, add
<1>. HIDE DEF e, t
<1>6. /\ r1.slot = <<t, Ingest("produced")>> /\ r2.slot = <<e, Ingest("is_a")>>
      /\ r3.slot = <<e, Ingest("initial_status")>> /\ r4.slot = <<e, Ingest("candidate_subject")>>
      /\ r5.slot = <<e, Ingest("candidate_predicate")>>
      /\ r6.slot = <<e, Ingest("candidate_object")>>
  BY DEF add
<1>. HIDE DEF r1, r2, r3, r4, r5, r6, c
<1>7. Apart(b, own) /\ Apart(b, conf) /\ Apart(b, supp) /\ Apart(b, fact)
  <2>1. /\ r1.slot \notin {r2.slot, r3.slot, r4.slot, r5.slot, r6.slot}
        /\ r2.slot \notin {r3.slot, r4.slot, r5.slot, r6.slot}
        /\ r3.slot \notin {r4.slot, r5.slot, r6.slot}
        /\ r4.slot \notin {r5.slot, r6.slot} /\ r5.slot # r6.slot
    BY <1>2, <1>6 DEF Ingest
  <2>. QED BY <2>1, ApartSix, ApartShort
<1>8. /\ Sequence(own) /\ Elements(own) = {r1, r2, r3, r4, r5, r6}
      /\ Sequence(conf) /\ Elements(conf) \subseteq {Confidence(b, c)}
      /\ Sequence(supp) /\ Elements(supp) \subseteq {Supports(b, c)}
      /\ Sequence(fact) /\ Elements(fact) \subseteq {Assertion(c)}
  <2>1. Sequence(own) /\ Elements(own) = {r1, r2, r3, r4, r5, r6}
    BY SixElements
  <2>2. Sequence(conf) /\ Elements(conf) \subseteq {Confidence(b, c)}
    BY WhenElements
  <2>3. Sequence(supp) /\ Elements(supp) \subseteq {Supports(b, c)}
    BY WhenElements
  <2>4. Sequence(fact) /\ Elements(fact) \subseteq {Assertion(c)}
    BY WhenElements
  <2>. QED BY <2>1, <2>2, <2>3, <2>4
<1>. HIDE DEF own, conf, supp, fact
<1>9. \A r \in Elements(own), q \in Elements(conf) : r.slot # q.slot
  BY <1>2, <1>3, <1>6, <1>8 DEF Ingest
<1>10. \A r \in Elements(own) \cup Elements(conf), q \in Elements(supp) : r.slot # q.slot
  BY <1>2, <1>3, <1>4, <1>6, <1>8 DEF Ingest
<1>11. \A r \in Elements(own) \cup Elements(conf) \cup Elements(supp), q \in Elements(fact) :
         r.slot # q.slot
  <2>1. ASSUME NEW r \in Elements(own) \cup Elements(conf) \cup Elements(supp)
        PROVE  r.slot[1] \in {e, t}
    BY <1>3, <1>4, <1>6, <1>8
  <2>2. ASSUME NEW q \in Elements(fact)
        PROVE  q.slot[1] = c.subject
    BY <1>5, <1>8
  <2>. QED BY <1>2, <2>1, <2>2
<1>12. /\ Sequence(own \o conf) /\ Elements(own \o conf) = Elements(own) \cup Elements(conf)
       /\ Apart(b, own \o conf)
  BY <1>7, <1>8, <1>9, Concatenation, ApartConcatenation DEF SameTriple
<1>. DEFINE s == own \o conf
<1>. HIDE DEF s
<1>13. /\ Sequence(s \o supp) /\ Elements(s \o supp) = Elements(own) \cup Elements(conf) \cup Elements(supp)
       /\ Apart(b, s \o supp)
  <2>1. Sequence(s) /\ Elements(s) = Elements(own) \cup Elements(conf) /\ Apart(b, s)
    BY <1>12 DEF s
  <2>2. \A r \in Elements(s), q \in Elements(supp) : SameTriple(r, q) => Excused(b, r)
    BY <1>10, <2>1 DEF SameTriple
  <2>. QED BY <1>7, <1>8, <2>1, <2>2, Concatenation, ApartConcatenation
<1>14. Apart(b, (s \o supp) \o fact)
  <2>1. \A r \in Elements(s \o supp), q \in Elements(fact) : SameTriple(r, q) => Excused(b, r)
    BY <1>11, <1>13 DEF SameTriple
  <2>. QED BY <1>7, <1>8, <1>13, <2>1, ApartConcatenation
<1>. QED BY <1>1, <1>14 DEF s, c

-----------------------------------------------------------------------------
(***************************************************************************)
(* The body of a batch.  A trace of compile is the records after each      *)
(* turn of its loop; the records are compiled when they end some trace,    *)
(* and every trace.  So two calls that compile one batch to its end have   *)
(* the same records, however far apart they run.                           *)
(***************************************************************************)
Trace(b, P, n) ==
  /\ P[0] = headerRecords(b)
  /\ \A k \in 1..n : P[k] = P[k - 1] \o claimRecords(b, b.claims[k])

Compiled(b, n, s) ==
  /\ \E P : Trace(b, P, n) /\ s = P[n]
  /\ \A P : Trace(b, P, n) => s = P[n]

LEMMA CompiledHeader ==
  ASSUME NEW b
  PROVE  Compiled(b, 0, headerRecords(b))
<1>. DEFINE P == [k \in {0} |-> headerRecords(b)]
<1>1. Trace(b, P, 0) /\ headerRecords(b) = P[0]
  BY DEF Trace
<1>. QED BY <1>1 DEF Compiled, Trace

LEMMA CompiledTurn ==
  ASSUME NEW b, NEW n \in Nat, NEW s, Compiled(b, n, s)
  PROVE  Compiled(b, n + 1, s \o claimRecords(b, b.claims[n + 1]))
<1>. DEFINE t == s \o claimRecords(b, b.claims[n + 1])
<1>1. PICK P : Trace(b, P, n) /\ s = P[n]
  BY DEF Compiled
<1>2. \E Q : Trace(b, Q, n + 1) /\ t = Q[n + 1]
  <2>. DEFINE Q == [k \in 0..n + 1 |-> IF k = n + 1 THEN t ELSE P[k]]
  <2>1. \A k \in 0..n : Q[k] = P[k]
    OBVIOUS
  <2>2. Q[n + 1] = t
    OBVIOUS
  <2>. HIDE DEF Q
  <2>3. Q[0] = headerRecords(b)
    BY <1>1, <2>1 DEF Trace
  <2>4. ASSUME NEW k \in 1..n + 1
        PROVE  Q[k] = Q[k - 1] \o claimRecords(b, b.claims[k])
    <3>1. CASE k = n + 1
      <4>1. k - 1 = n /\ Q[k - 1] = s
        BY <1>1, <2>1, <3>1
      <4>. QED BY <2>2, <3>1, <4>1
    <3>2. CASE k \in 1..n
      <4>1. k \in 0..n /\ k - 1 \in 0..n
        BY <3>2
      <4>2. P[k] = P[k - 1] \o claimRecords(b, b.claims[k])
        BY <1>1, <3>2 DEF Trace
      <4>3. Q[k] = P[k] /\ Q[k - 1] = P[k - 1]
        BY <2>1, <4>1
      <4>. QED BY <4>2, <4>3, Zenon
    <3>3. k = n + 1 \/ k \in 1..n
      OBVIOUS
    <3>. QED BY <3>1, <3>2, <3>3, Zenon
  <2>. QED BY <2>2, <2>3, <2>4 DEF Trace
<1>3. ASSUME NEW Q, Trace(b, Q, n + 1)
      PROVE  t = Q[n + 1]
  <2>1. Trace(b, Q, n)
    <3>1. ASSUME NEW k \in 1..n
          PROVE  Q[k] = Q[k - 1] \o claimRecords(b, b.claims[k])
      <4>1. k \in 1..n + 1
        OBVIOUS
      <4>. QED BY <1>3, <4>1 DEF Trace
    <3>. QED BY <1>3, <3>1 DEF Trace
  <2>2. s = Q[n]
    BY <2>1 DEF Compiled
  <2>3. n + 1 \in 1..n + 1 /\ (n + 1) - 1 = n
    OBVIOUS
  <2>4. Q[n + 1] = Q[(n + 1) - 1] \o claimRecords(b, b.claims[n + 1])
    BY <1>3, <2>3 DEF Trace
  <2>. QED BY <2>2, <2>3, <2>4
<1>. QED BY <1>2, <1>3 DEF Compiled

LEMMA CompiledUnique ==
  ASSUME NEW b, NEW n, NEW s, NEW t, Compiled(b, n, s), Compiled(b, n, t)
  PROVE  s = t
BY DEF Compiled

-----------------------------------------------------------------------------
(***************************************************************************)
(* The inductive invariant                                                 *)
(***************************************************************************)
ControlInv ==
  /\ phase \in Phase
  /\ batch \in Batches
  /\ enforce \in BOOLEAN
  /\ i \in 1..Len(batch.claims) + 1
  /\ calls \in 0..MaxCalls
  /\ outcome \in Outcome \ {"compile_error", "conflict"}
  /\ phase # "idle" => outcome = "none"

\* A call in progress has not committed yet.
CountInv ==
  /\ IsFiniteSet(receipts)
  /\ Cardinality(receipts) <= calls
  /\ phase # "idle" => Cardinality(receipts) < calls

\* Claims before the index of the first loop, then all of them, are valid.
ClaimsInv ==
  /\ phase = "header" => i = 1
  /\ phase = "claims" => \A k \in 1..i - 1 : validClaim(batch, batch.claims[k])
  /\ phase \in {"unique", "compile", "submit", "sent"} =>
       \A k \in 1..Len(batch.claims) : validClaim(batch, batch.claims[k])

Entities(n) == {claimEntity(batch, batch.claims[k]) : k \in 1..n}
Distinct(n) ==
  \A j, k \in 1..n : j # k => claimEntity(batch, batch.claims[j]) # claimEntity(batch, batch.claims[k])

\* What the first copy of the identity check has seen is what compile would have
\* seen; past it all claims are distinct, and what it refused are two that are not.
UniqueInv ==
  /\ phase = "unique" => seen = Entities(i - 1) /\ Distinct(i - 1)
  /\ phase = "compile" => seen = Entities(i - 1)
  /\ phase \in {"compile", "submit", "sent"} => Distinct(Len(batch.claims))
  /\ outcome = "duplicate" => ~Distinct(Len(batch.claims))

RecordsInv ==
  /\ Sequence(records)
  /\ \A r \in Elements(records) : Sound(batch, r)
  /\ Closed(Triples(Elements(records)))

CompileInv ==
  /\ phase = "compile" => Compiled(batch, i - 1, records)
  /\ phase \in {"submit", "sent"} => Compiled(batch, Len(batch.claims), records)

ReceiptsInv ==
  \A r \in receipts : \E b \in Batches :
    r.key = ingestionKey(b) /\ Compiled(b, Len(b.claims), r.body)

\* Every manifest in the store came with a receipt.
FactsInv ==
  /\ \A f \in facts :
       /\ f.slot \in Label \X Label /\ f.copy = 1
       /\ f.slot[1][1] \in {"batch", "producer", "claim"} /\ f.slot[2] # Ingest("produced") =>
            f.object = Says(f.slot[1][1], f.slot[1][2], f.slot[2])
       /\ f.slot[2] = Ingest("manifest") =>
            \E r \in receipts, b \in Batches : r.key = ingestionKey(b) /\ f.slot[1] = batchEntity(b)
  /\ Closed(Triples(facts))

\* Among the records only assertions can say one thing twice; a record about a
\* claim, or that it was produced, is about one that compile has seen.
ApartInv ==
  /\ phase \in {"compile", "submit", "sent"} =>
       Apart(batch, records) /\ \A r \in Elements(records) : r.kind \in {"ensure", "append"}
  /\ phase = "compile" => \A r \in Elements(records) :
       /\ r.slot[1][1] = "claim" => r.slot[1] \in seen
       /\ r.slot[2] = Ingest("produced") => r.object \in seen

Inv == /\ ControlInv /\ CountInv /\ ClaimsInv /\ UniqueInv
       /\ RecordsInv /\ CompileInv /\ ApartInv /\ ReceiptsInv /\ FactsInv

\* The two copies compute one digest.
LEMMA SameIdentity ==
  ASSUME NEW b, NEW c
  PROVE  semanticClaim(b, c) = claimEntity(b, c)
BY DEF semanticClaim, claimEntity, producerEntity, sourceDigest

LEMMA LenNat ==
  ASSUME NEW b \in Batches
  PROVE  Len(b.claims) \in Nat
BY IngestAssumption

LEMMA InitInv == Init => Inv
<1>. SUFFICES ASSUME Init PROVE Inv
  OBVIOUS
<1>1. ControlInv
  BY LenNat, IngestAssumption DEF Init, ControlInv, Phase, Outcome
<1>2. CountInv
  BY FS_EmptySet DEF Init, CountInv
<1>3. ClaimsInv /\ UniqueInv /\ CompileInv /\ ApartInv /\ ReceiptsInv
  BY DEF Init, ClaimsInv, UniqueInv, CompileInv, ApartInv, ReceiptsInv
<1>4. RecordsInv
  BY NoElements DEF Init, RecordsInv, Closed, Triples
<1>5. FactsInv
  BY DEF Init, FactsInv, Closed, Triples
<1>. QED BY <1>1, <1>2, <1>3, <1>4, <1>5 DEF Inv

-----------------------------------------------------------------------------
(***************************************************************************)
(* Every step keeps the invariant, one part at a time                      *)
(***************************************************************************)
LEMMA ControlStep == Inv /\ [Next]_vars => (ControlInv /\ CountInv)'
<1>. SUFFICES ASSUME Inv, [Next]_vars PROVE ControlInv' /\ CountInv'
  OBVIOUS
<1>0. /\ ControlInv /\ CountInv /\ Len(batch.claims) \in Nat
      /\ i \in Nat /\ calls \in Nat /\ Cardinality(receipts) \in Nat
  BY LenNat, FS_CardinalityType DEF Inv, ControlInv, CountInv
<1>. USE DEF ControlInv, CountInv, Phase, Outcome
<1>1. ASSUME NEW b \in Batches, NEW e \in BOOLEAN, Call(b, e)
      PROVE  ControlInv' /\ CountInv'
  <2>1. Len(b.claims) \in Nat /\ batch' = b /\ enforce' = e /\ i' = 1
    BY <1>1, LenNat DEF Call
  <2>. QED BY <1>0, <1>1, <2>1, IngestAssumption DEF Call, store
<1>2. CASE CheckHeader
  BY <1>0, <1>2 DEF CheckHeader, Finish, store
<1>3. CASE CheckClaim
  BY <1>0, <1>3 DEF CheckClaim, Finish, store
<1>4. CASE CheckUnique
  BY <1>0, <1>4 DEF CheckUnique, Finish, store
<1>5. CASE CompileClaim
  <2>1. claimEntity(batch, batch.claims[i]) \notin seen
    <3>1. phase = "compile" /\ i \in 1..Len(batch.claims)
      BY <1>0, <1>5 DEF CompileClaim
    <3>2. seen = Entities(i - 1) /\ Distinct(Len(batch.claims))
      BY <3>1 DEF Inv, UniqueInv
    <3>3. \A k \in 1..i - 1 : claimEntity(batch, batch.claims[k]) # claimEntity(batch, batch.claims[i])
      <4>1. \A k \in 1..i - 1 : k \in 1..Len(batch.claims) /\ k # i
        BY <1>0, <3>1
      <4>. QED BY <3>1, <3>2, <4>1 DEF Distinct
    <3>. QED BY <3>2, <3>3 DEF Entities
  <2>2. i' = i + 1 /\ UNCHANGED <<phase, outcome, batch, enforce, calls, receipts>>
    BY <1>5, <2>1 DEF CompileClaim, store
  <2>. QED BY <1>0, <1>5, <2>2 DEF CompileClaim
<1>6. CASE NextLoop
  BY <1>0, <1>6 DEF NextLoop, store
<1>7. CASE Submit
  BY <1>0, <1>7 DEF Submit, Finish, store
<1>8. CASE Lost
  BY <1>0, <1>8 DEF Lost, Finish, store
<1>9. CASE Execute
  <2>. DEFINE earlier == {r \in receipts : r.key = ingestionKey(batch)}
              new == [key |-> ingestionKey(batch), body |-> records]
  <2>1. CASE earlier # {}
    <3>1. PICK r \in receipts : r.key = ingestionKey(batch)
      BY <2>1
    <3>2. r.body = records
      <4>1. PICK b \in Batches : r.key = ingestionKey(b) /\ Compiled(b, Len(b.claims), r.body)
        BY DEF Inv, ReceiptsInv
      <4>2. b = batch
        BY <3>1, <4>1 DEF ingestionKey
      <4>3. Compiled(batch, Len(batch.claims), records)
        BY <1>9 DEF Inv, CompileInv, Execute
      <4>. QED BY <4>1, <4>2, <4>3, CompiledUnique
    <3>3. \E q \in earlier : q.body = records
      BY <3>1, <3>2
    <3>4. Finish("receipt") /\ UNCHANGED <<batch, enforce, i, calls, receipts>>
      BY <1>9, <2>1, <3>3 DEF Execute, store
    <3>. QED BY <1>0, <3>4 DEF Finish
  <2>2. CASE earlier = {}
    <3>1. receipts' \in {receipts, receipts \cup {new}}
      BY <1>9, <2>2 DEF Execute, store
    <3>2. IsFiniteSet(receipts') /\ Cardinality(receipts') <= Cardinality(receipts) + 1
      <4>1. /\ IsFiniteSet(receipts \cup {new})
            /\ Cardinality(receipts \cup {new}) \in {Cardinality(receipts), Cardinality(receipts) + 1}
        <5>. HIDE DEF new
        <5>. QED BY <1>0, FS_AddElement
      <4>. HIDE DEF new
      <4>2. CASE receipts' = receipts
        <5>1. Cardinality(receipts') = Cardinality(receipts) /\ IsFiniteSet(receipts')
          BY <1>0, <4>2, Zenon
        <5>. QED BY <1>0, <5>1
      <4>3. CASE receipts' = receipts \cup {new}
        <5>1. /\ Cardinality(receipts') = Cardinality(receipts \cup {new})
              /\ IsFiniteSet(receipts')
          BY <4>1, <4>3, Zenon
        <5>. QED BY <1>0, <4>1, <5>1
      <4>. QED BY <3>1, <4>2, <4>3
    <3>3. /\ phase' = "idle" /\ outcome' \in {"refused", "receipt", "uncertain"}
          /\ UNCHANGED <<batch, enforce, i, calls>>
      BY <1>9, <2>2 DEF Execute, Finish
    <3>4. Cardinality(receipts) < calls /\ Cardinality(receipts') \in Nat
      BY <1>0, <1>9, <3>2, FS_CardinalityType DEF Execute
    <3>. QED BY <1>0, <3>2, <3>3, <3>4
  <2>. QED BY <2>1, <2>2
<1>10. CASE Canonicalize
  BY <1>0, <1>10 DEF Canonicalize, Finish, store
<1>11. CASE UNCHANGED vars
  BY <1>0, <1>11 DEF vars
<1>. QED
  BY <1>1, <1>2, <1>3, <1>4, <1>5, <1>6, <1>7, <1>8, <1>9, <1>10, <1>11 DEF Next

LEMMA LoopStep == Inv /\ [Next]_vars => (ClaimsInv /\ UniqueInv)'
<1>. SUFFICES ASSUME Inv, [Next]_vars PROVE ClaimsInv' /\ UniqueInv'
  OBVIOUS
<1>0. /\ ClaimsInv /\ UniqueInv /\ Len(batch.claims) \in Nat
      /\ i \in 1..Len(batch.claims) + 1 /\ (phase # "idle" => outcome = "none")
  BY LenNat DEF Inv, ControlInv
<1>1. ASSUME outcome' # "duplicate",
             \/ phase' = "idle"
             \/ phase' = "header" /\ i' = 1
      PROVE  ClaimsInv' /\ UniqueInv'
  BY <1>1 DEF ClaimsInv, UniqueInv
<1>2. ASSUME UNCHANGED <<phase, batch, i, seen, outcome>>
      PROVE  ClaimsInv' /\ UniqueInv'
  BY <1>0, <1>2 DEF ClaimsInv, UniqueInv, Entities, Distinct
<1>3. CASE \E b \in Batches, e \in BOOLEAN : Call(b, e)
  BY <1>1, <1>3 DEF Call
<1>4. CASE CheckHeader
  <2>1. CASE phase' = "claims" /\ i' = 1 /\ outcome' = "none"
    BY <2>1 DEF ClaimsInv, UniqueInv
  <2>2. CASE phase' = "idle" /\ outcome' # "duplicate"
    BY <1>1, <2>2
  <2>. QED BY <1>0, <1>4, <2>1, <2>2 DEF CheckHeader, Finish, ClaimsInv
<1>5. CASE CheckClaim
  <2>1. CASE phase' # "idle"
    <3>1. /\ phase = "claims" /\ phase' = "claims" /\ i' = i + 1 /\ batch' = batch
          /\ validClaim(batch, batch.claims[i]) /\ outcome' = "none"
      BY <1>0, <1>5, <2>1 DEF CheckClaim, Finish
    <3>2. \A k \in 1..i' - 1 : validClaim(batch', batch'.claims[k])
      BY <1>0, <3>1 DEF ClaimsInv
    <3>. QED BY <3>1, <3>2 DEF ClaimsInv, UniqueInv
  <2>2. CASE phase' = "idle"
    <3>1. outcome' # "duplicate"
      BY <1>0, <1>5, <2>2 DEF CheckClaim, Finish
    <3>. QED BY <1>1, <2>2, <3>1
  <2>. QED BY <2>1, <2>2
<1>6. CASE CheckUnique
  <2>. DEFINE ent(k) == claimEntity(batch, batch.claims[k])
  <2>1. /\ phase = "unique" /\ i \in 1..Len(batch.claims) /\ batch' = batch
        /\ IF ent(i) \notin seen
             THEN i' = i + 1 /\ seen' = seen \cup {ent(i)} /\ UNCHANGED <<phase, outcome>>
             ELSE phase' = "idle" /\ outcome' = "duplicate"
    BY <1>0, <1>6, SameIdentity DEF CheckUnique, Finish
  <2>2. seen = {ent(k) : k \in 1..i - 1} /\ \A j, k \in 1..i - 1 : j # k => ent(j) # ent(k)
    BY <1>0, <2>1 DEF UniqueInv, Entities, Distinct
  <2>. HIDE DEF ent
  <2>5. CASE ent(i) \notin seen
    <3>1. /\ phase' = "unique" /\ i' = i + 1 /\ seen' = seen \cup {ent(i)} /\ outcome' = "none"
      BY <1>0, <2>1, <2>5
    <3>2. i' - 1 = i /\ 1..i = (1..i - 1) \cup {i}
      BY <1>0, <3>1
    <3>3. seen' = {ent(k) : k \in 1..i' - 1}
      BY <2>2, <3>1, <3>2
    <3>4. \A j, k \in 1..i' - 1 : j # k => ent(j) # ent(k)
      BY <2>2, <2>5, <3>2
    <3>5. seen' = Entities(i - 1)' /\ Distinct(i - 1)'
      <4>. DEFINE m == i' - 1
      <4>1. seen' = {ent(k) : k \in 1..m} /\ \A j, k \in 1..m : j # k => ent(j) # ent(k)
        BY <3>3, <3>4
      <4>2. seen' = {claimEntity(batch', batch'.claims[k]) : k \in 1..m}
        BY <2>1, <4>1 DEF ent
      <4>3. \A j, k \in 1..m : j # k => claimEntity(batch', batch'.claims[j]) # claimEntity(batch', batch'.claims[k])
        BY <2>1, <4>1 DEF ent
      <4>. QED BY <4>2, <4>3 DEF Entities, Distinct
    <3>6. ClaimsInv'
      BY <1>0, <2>1, <3>1 DEF ClaimsInv
    <3>. QED BY <3>1, <3>5, <3>6 DEF UniqueInv
  <2>6. CASE ent(i) \in seen
    <3>1. phase' = "idle" /\ outcome' = "duplicate"
      BY <2>1, <2>6
    <3>2. PICK k \in 1..i - 1 : ent(k) = ent(i)
      BY <2>2, <2>6
    <3>3. k \in 1..Len(batch.claims) /\ k # i
      BY <1>0, <2>1
    <3>4. batch' = batch /\ claimEntity(batch, batch.claims[k]) = claimEntity(batch, batch.claims[i])
      BY <2>1, <3>2 DEF ent
    <3>5. ~Distinct(Len(batch.claims))'
      BY <2>1, <3>3, <3>4 DEF Distinct
    <3>. QED BY <3>1, <3>5 DEF ClaimsInv, UniqueInv
  <2>. QED BY <2>5, <2>6
<1>7. CASE CompileClaim
  <2>1. CASE phase' # "idle"
    <3>. DEFINE ent(k) == claimEntity(batch, batch.claims[k])
    <3>1. /\ phase = "compile" /\ phase' = "compile" /\ i' = i + 1 /\ batch' = batch
          /\ seen' = seen \cup {ent(i)} /\ outcome' = "none"
      BY <1>0, <1>7, <2>1 DEF CompileClaim, Finish
    <3>2. seen = {ent(k) : k \in 1..i - 1} /\ Distinct(Len(batch.claims))
      BY <1>0, <3>1 DEF UniqueInv, Entities
    <3>3. UniqueInv' <=> seen' = {ent(k) : k \in 1..i' - 1} /\ Distinct(Len(batch.claims))
      BY <3>1 DEF UniqueInv, Entities, Distinct
    <3>. HIDE DEF ent
    <3>4. i' - 1 = i /\ 1..i = (1..i - 1) \cup {i}
      BY <1>0, <3>1
    <3>5. seen' = {ent(k) : k \in 1..i' - 1}
      BY <3>1, <3>2, <3>4
    <3>6. ClaimsInv'
      BY <1>0, <3>1 DEF ClaimsInv
    <3>. QED BY <3>2, <3>3, <3>5, <3>6
  <2>2. CASE phase' = "idle"
    <3>1. outcome' # "duplicate"
      BY <1>0, <1>7, <2>2 DEF CompileClaim, Finish
    <3>. QED BY <1>1, <2>2, <3>1
  <2>. QED BY <2>1, <2>2
<1>8. CASE NextLoop \/ (Canonicalize /\ phase' # "idle")
  <2>1. /\ i = Len(batch.claims) + 1 /\ i - 1 = Len(batch.claims) /\ i' = 1 /\ seen' = {}
        /\ batch' = batch /\ outcome' = "none"
        /\ \/ phase = "claims" /\ phase' = "unique"
           \/ phase = "unique" /\ phase' = "compile"
           \/ phase = "compile" /\ phase' = "submit"
    BY <1>0, <1>8 DEF NextLoop, Canonicalize, Finish
  <2>2. /\ Entities(i - 1)' = {} /\ Distinct(i - 1)'
        /\ phase \in {"unique", "compile"} => Distinct(Len(batch.claims))'
    <3>1. 1..i' - 1 = {}
      BY <2>1
    <3>2. Entities(i - 1)' = {} /\ Distinct(i - 1)'
      BY <3>1 DEF Entities, Distinct
    <3>3. phase \in {"unique", "compile"} => Distinct(Len(batch.claims))
      BY <1>0, <2>1 DEF UniqueInv
    <3>. QED BY <2>1, <3>2, <3>3 DEF Distinct
  <2>3. CASE phase = "claims"
    BY <1>0, <2>1, <2>2, <2>3 DEF ClaimsInv, UniqueInv
  <2>4. CASE phase = "unique"
    BY <1>0, <2>1, <2>2, <2>4 DEF ClaimsInv, UniqueInv
  <2>5. CASE phase = "compile"
    BY <1>0, <2>1, <2>2, <2>5 DEF ClaimsInv, UniqueInv
  <2>. QED BY <2>1, <2>3, <2>4, <2>5
<1>9. CASE Submit /\ phase' = "sent"
  <2>1. phase = "submit" /\ batch' = batch /\ outcome' = "none"
    BY <1>0, <1>9 DEF Submit, Finish
  <2>. QED BY <1>0, <1>9, <2>1 DEF ClaimsInv, UniqueInv, Distinct
<1>10. CASE (Submit \/ Canonicalize \/ Execute \/ Lost) /\ phase' = "idle"
  <2>1. outcome' # "duplicate"
    BY <1>0, <1>10 DEF Submit, Canonicalize, Execute, Lost, Finish
  <2>. QED BY <1>1, <1>10, <2>1
<1>11. CASE UNCHANGED vars
  BY <1>2, <1>11 DEF vars
<1>12. /\ Submit => phase' \in {"sent", "idle"}
       /\ Execute \/ Lost => phase' = "idle"
  BY DEF Submit, Execute, Lost, Finish
<1>. QED
  BY <1>3, <1>4, <1>5, <1>6, <1>7, <1>8, <1>9, <1>10, <1>11, <1>12 DEF Next

LEMMA TriplesUnion ==
  ASSUME NEW S, NEW T
  PROVE  Triples(S \cup T) = Triples(S) \cup Triples(T)
BY DEF Triples

LEMMA RecordsStep == Inv /\ [Next]_vars => (RecordsInv /\ CompileInv)'
<1>. SUFFICES ASSUME Inv, [Next]_vars PROVE RecordsInv' /\ CompileInv'
  OBVIOUS
<1>0. /\ RecordsInv /\ CompileInv /\ Len(batch.claims) \in Nat
      /\ i \in 1..Len(batch.claims) + 1 /\ batch \in Batches
  BY LenNat DEF Inv, ControlInv
<1>1. ASSUME UNCHANGED <<batch, records>>
      PROVE  RecordsInv'
  BY <1>0, <1>1 DEF RecordsInv
<1>2. ASSUME phase' \notin {"compile", "submit", "sent"}
      PROVE  CompileInv'
  BY <1>2 DEF CompileInv
<1>3. CASE \E b \in Batches, e \in BOOLEAN : Call(b, e)
  <2>1. records' = <<>> /\ phase' = "header"
    BY <1>3 DEF Call
  <2>2. Sequence(records') /\ Elements(records') = {}
    BY <2>1, NoElements
  <2>3. RecordsInv'
    BY <2>2 DEF RecordsInv, Closed, Triples
  <2>4. CompileInv'
    BY <1>2, <2>1
  <2>. QED BY <2>3, <2>4
<1>4. CASE CheckHeader \/ CheckClaim \/ CheckUnique \/ Execute \/ Lost
  <2>1. UNCHANGED <<batch, records>>
    BY <1>4 DEF CheckHeader, CheckClaim, CheckUnique, Execute, Lost
  <2>2. phase' \notin {"compile", "submit", "sent"}
    BY <1>4 DEF CheckHeader, CheckClaim, CheckUnique, Execute, Lost, Finish
  <2>. QED BY <1>1, <1>2, <2>1, <2>2
<1>5. CASE CompileClaim
  <2>. DEFINE c == batch.claims[i]
              turn == claimRecords(batch, c)
  <2>1. CASE phase' = "idle"
    <3>1. UNCHANGED <<batch, records>>
      BY <1>5, <2>1 DEF CompileClaim
    <3>. QED BY <1>1, <1>2, <2>1, <3>1
  <2>2. CASE phase' # "idle"
    <3>1. /\ phase = "compile" /\ phase' = "compile" /\ i' = i + 1 /\ batch' = batch
          /\ records' = records \o turn /\ i \in 1..Len(batch.claims)
      BY <1>0, <1>5, <2>2 DEF CompileClaim, Finish
    <3>2. validClaim(batch, c)
      BY <3>1 DEF Inv, ClaimsInv
    <3>3. /\ Sequence(turn) /\ \A r \in Elements(turn) : Sound(batch, r)
          /\ Closed(Triples(Elements(turn)))
      BY <1>0, <3>1, <3>2, ClaimElements, ClaimSound, ClaimClosed
    <3>4. Compiled(batch, i, records \o turn)
      <4>1. i - 1 \in Nat /\ (i - 1) + 1 = i
        BY <1>0
      <4>2. Compiled(batch, i - 1, records)
        BY <1>0, <3>1 DEF CompileInv
      <4>3. Compiled(batch, (i - 1) + 1, records \o claimRecords(batch, batch.claims[(i - 1) + 1]))
        BY <4>1, <4>2, CompiledTurn
      <4>. QED BY <4>1, <4>3
    <3>. HIDE DEF turn
    <3>5. /\ Sequence(records \o turn)
          /\ Elements(records \o turn) = Elements(records) \cup Elements(turn)
      BY <1>0, <3>3, Concatenation DEF RecordsInv
    <3>6. Closed(Triples(Elements(records \o turn)))
      <4>1. Triples(Elements(records \o turn)) = Triples(Elements(records)) \cup Triples(Elements(turn))
        BY <3>5, TriplesUnion
      <4>2. Closed(Triples(Elements(records)))
        BY <1>0 DEF RecordsInv
      <4>. QED BY <3>3, <4>1, <4>2, ClosedUnion
    <3>7. RecordsInv'
      <4>1. \A r \in Elements(records \o turn) : Sound(batch, r)
        BY <1>0, <3>3, <3>5 DEF RecordsInv
      <4>. QED BY <3>1, <3>5, <3>6, <4>1 DEF RecordsInv
    <3>8. CompileInv'
      <4>1. i' - 1 = i
        BY <1>0, <3>1
      <4>. QED BY <3>1, <3>4, <4>1 DEF CompileInv
    <3>. QED BY <3>7, <3>8
  <2>. QED BY <2>1, <2>2
<1>6. CASE NextLoop \/ Canonicalize
  <2>1. CASE phase' \in {"idle", "unique"}
    <3>1. UNCHANGED <<batch, records>>
      BY <1>6, <2>1 DEF NextLoop, Canonicalize
    <3>. QED BY <1>1, <1>2, <2>1, <3>1
  <2>2. CASE phase = "unique" /\ phase' # "idle"
    <3>1. /\ phase' = "compile" /\ i' = 1 /\ batch' = batch /\ records' = headerRecords(batch)
      BY <1>6, <2>2 DEF NextLoop, Canonicalize, Finish
    <3>2. RecordsInv'
      BY <1>0, <3>1, HeaderElements, HeaderSound, HeaderClosed DEF RecordsInv
    <3>3. CompileInv'
      <4>1. i' - 1 = 0
        BY <3>1
      <4>. QED BY <3>1, <4>1, CompiledHeader DEF CompileInv
    <3>. QED BY <3>2, <3>3
  <2>3. CASE phase = "compile"
    <3>1. UNCHANGED <<batch, records>> /\ phase' = "submit" /\ i - 1 = Len(batch.claims)
      BY <1>0, <1>6, <2>3 DEF NextLoop, Canonicalize
    <3>2. CompileInv'
      BY <1>0, <2>3, <3>1 DEF CompileInv
    <3>. QED BY <1>1, <3>1, <3>2
  <2>. QED BY <1>6, <2>1, <2>2, <2>3 DEF NextLoop, Canonicalize
<1>7. CASE Submit
  <2>1. UNCHANGED <<batch, records>> /\ phase = "submit" /\ phase' \in {"sent", "idle"}
    BY <1>7 DEF Submit, Finish
  <2>2. CompileInv'
    BY <1>0, <2>1 DEF CompileInv
  <2>. QED BY <1>1, <2>1, <2>2
<1>8. CASE UNCHANGED vars
  BY <1>0, <1>8 DEF vars, RecordsInv, CompileInv
<1>. QED
  BY <1>3, <1>4, <1>5, <1>6, <1>7, <1>8 DEF Next

LEMMA ApartStep == Inv /\ [Next]_vars => ApartInv'
<1>. SUFFICES ASSUME Inv, [Next]_vars PROVE ApartInv'
  OBVIOUS
<1>0. /\ ApartInv /\ RecordsInv /\ batch \in Batches /\ Len(batch.claims) \in Nat
      /\ i \in 1..Len(batch.claims) + 1
  BY LenNat DEF Inv, ControlInv
<1>1. ASSUME phase' \notin {"compile", "submit", "sent"}
      PROVE  ApartInv'
  BY <1>1 DEF ApartInv
<1>2. ASSUME phase \in {"compile", "submit", "sent"}, UNCHANGED <<batch, records>>,
             phase' = "compile" => phase = "compile" /\ UNCHANGED seen
      PROVE  ApartInv'
  BY <1>0, <1>2 DEF ApartInv
<1>3. CASE \E b \in Batches, e \in BOOLEAN : Call(b, e)
  BY <1>1, <1>3 DEF Call
<1>4. CASE CheckHeader \/ CheckClaim \/ CheckUnique \/ Execute \/ Lost
  BY <1>1, <1>4 DEF CheckHeader, CheckClaim, CheckUnique, Execute, Lost, Finish
<1>5. CASE CompileClaim /\ phase' = "compile"
  <2>. DEFINE c == batch.claims[i]
              e == claimEntity(batch, c)
              turn == claimRecords(batch, c)
  <2>1. /\ phase = "compile" /\ batch' = batch /\ records' = records \o turn
        /\ e \notin seen /\ seen' = seen \cup {e} /\ i \in 1..Len(batch.claims)
    BY <1>0, <1>5 DEF CompileClaim, Finish
  <2>2. validClaim(batch, c)
    BY <2>1 DEF Inv, ClaimsInv
  <2>3. e[1] = "claim"
    BY DEF claimEntity
  <2>4. Apart(batch, turn) /\ Sequence(turn)
    BY <1>0, <2>1, <2>2, ClaimApart, ClaimElements
  <2>5. \A r \in Elements(turn) : Named(batch, e, r) /\ r.kind \in {"ensure", "append"}
    BY <1>0, <2>1, <2>2, ClaimNamed
  <2>. HIDE DEF e, turn
  <2>6. ASSUME NEW r \in Elements(records), NEW q \in Elements(turn), SameTriple(r, q)
        PROVE  Excused(batch, r)
    <3>1. r.slot[1] # e
      BY <1>0, <2>1, <2>3 DEF ApartInv
    <3>2. r.slot[2] = Ingest("produced") => r.object # e
      BY <1>0, <2>1 DEF ApartInv
    <3>3. Excused(batch, q)
      BY <2>5, <2>6, <3>1, <3>2 DEF Named, SameTriple
    <3>. QED BY <2>6, <3>3 DEF SameTriple, Excused
  <2>7. /\ Apart(batch, records \o turn) /\ Sequence(records)
        /\ Elements(records \o turn) = Elements(records) \cup Elements(turn)
    BY <1>0, <2>1, <2>4, <2>6, Concatenation, ApartConcatenation DEF ApartInv, RecordsInv
  <2>8. ASSUME NEW r \in Elements(turn)
        PROVE  /\ r.slot[1][1] = "claim" => r.slot[1] = e
               /\ r.slot[2] = Ingest("produced") => r.object = e
    <3>1. CASE r.slot[1] = e /\ r.slot[2] # Ingest("produced")
      BY <3>1
    <3>2. CASE r.slot = <<batchEntity(batch), Ingest("produced")>> /\ r.object = e
      BY <3>2 DEF batchEntity
    <3>3. CASE r.slot[2] # Ingest("produced") /\ Excused(batch, r)
      BY <3>3 DEF Excused
    <3>. QED BY <2>5, <3>1, <3>2, <3>3 DEF Named
  <2>9. ASSUME NEW r \in Elements(records')
        PROVE  /\ r.kind \in {"ensure", "append"}
               /\ r.slot[1][1] = "claim" => r.slot[1] \in seen'
               /\ r.slot[2] = Ingest("produced") => r.object \in seen'
    <3>1. CASE r \in Elements(records)
      BY <1>0, <2>1, <3>1 DEF ApartInv
    <3>2. CASE r \in Elements(turn)
      BY <2>1, <2>5, <2>8, <3>2
    <3>. QED BY <2>1, <2>7, <3>1, <3>2
  <2>. QED BY <1>5, <2>1, <2>7, <2>9 DEF ApartInv
<1>6. CASE CompileClaim /\ phase' # "compile"
  BY <1>1, <1>6 DEF CompileClaim, Finish
<1>7. CASE NextLoop \/ Canonicalize
  <2>1. CASE phase' \in {"idle", "unique"}
    BY <1>1, <2>1
  <2>2. CASE phase = "unique" /\ phase' # "idle"
    <3>1. phase' = "compile" /\ batch' = batch /\ records' = headerRecords(batch)
      BY <1>7, <2>2 DEF NextLoop, Canonicalize, Finish
    <3>2. \A r \in Elements(records') : /\ r.kind \in {"ensure", "append"}
                                        /\ r.slot[1][1] # "claim" /\ r.slot[2] # Ingest("produced")
      BY <3>1, HeaderSlots
    <3>. QED BY <3>1, <3>2, HeaderApart DEF ApartInv
  <2>3. CASE phase = "compile"
    BY <1>2, <1>7, <2>3 DEF NextLoop, Canonicalize
  <2>. QED BY <1>7, <2>1, <2>2, <2>3 DEF NextLoop, Canonicalize
<1>8. CASE Submit
  BY <1>1, <1>2, <1>8 DEF Submit, Finish
<1>9. CASE UNCHANGED vars
  BY <1>0, <1>9 DEF vars, ApartInv
<1>. QED
  BY <1>3, <1>4, <1>5, <1>6, <1>7, <1>8, <1>9 DEF Next

\* What Execute adds to the store says what the records say, once.
LEMMA AppliedFacts ==
  ASSUME Inv, phase = "sent", \A r \in receipts : r.key # ingestionKey(batch)
  PROVE  /\ \A f \in applied : /\ f.copy = 1
                               /\ \E r \in Elements(records) : f.slot = r.slot /\ f.object = r.object
         /\ Triples(applied) = Triples(Elements(records))
<1>1. ASSUME NEW n \in 1..Len(records), records[n].kind = "append"
      PROVE  copies(records[n]) = 0
  <2>1. records[n].slot = <<batchEntity(batch), Ingest("manifest")>>
    BY <1>1 DEF Inv, RecordsInv, Sound, Elements
  <2>2. ASSUME NEW f \in facts, f.slot = records[n].slot
        PROVE  FALSE
    <3>1. f.slot[2] = Ingest("manifest") /\ f.slot[1] = batchEntity(batch)
      BY <2>1, <2>2
    <3>2. PICK r \in receipts, b \in Batches : r.key = ingestionKey(b) /\ f.slot[1] = batchEntity(b)
      BY <3>1 DEF Inv, FactsInv
    <3>3. b = batch
      BY <3>1, <3>2 DEF batchEntity
    <3>. QED BY <3>2, <3>3
  <2>3. {f \in facts : f.slot = records[n].slot /\ f.object = records[n].object} = {}
    BY <2>2
  <2>. QED BY <2>3, FS_EmptySet DEF copies
<1>2. applied = {[slot |-> records[n].slot, object |-> records[n].object, copy |-> 1] : n \in 1..Len(records)}
  BY <1>1 DEF applied
<1>. HIDE DEF applied
<1>3. ASSUME NEW f \in applied
      PROVE  f.copy = 1 /\ \E r \in Elements(records) : f.slot = r.slot /\ f.object = r.object
  BY <1>2 DEF Elements
<1>4. ASSUME NEW r \in Elements(records)
      PROVE  \E f \in applied : f.slot = r.slot /\ f.object = r.object
  <2>1. PICK n \in 1..Len(records) : r = records[n]
    BY DEF Elements
  <2>. DEFINE f == [slot |-> r.slot, object |-> r.object, copy |-> 1]
  <2>2. f \in applied
    BY <1>2, <2>1
  <2>. QED BY <2>2
<1>. QED BY <1>3, <1>4 DEF Triples

LEMMA StoreStep == Inv /\ [Next]_vars => (ReceiptsInv /\ FactsInv)'
<1>. SUFFICES ASSUME Inv, [Next]_vars PROVE ReceiptsInv' /\ FactsInv'
  OBVIOUS
<1>0. ReceiptsInv /\ FactsInv
  BY DEF Inv
<1>1. ASSUME UNCHANGED store
      PROVE  ReceiptsInv' /\ FactsInv'
  <2>1. receipts' = receipts /\ facts' = facts
    BY <1>1 DEF store
  <2>. QED BY <1>0, <2>1 DEF ReceiptsInv, FactsInv, ingestionKey
<1>2. CASE Execute /\ store' # store
  <2>. DEFINE new == [key |-> ingestionKey(batch), body |-> records]
  <2>1. /\ phase = "sent" /\ \A r \in receipts : r.key # ingestionKey(batch)
        /\ facts' = facts \cup applied /\ receipts' = receipts \cup {new}
    BY <1>2 DEF Execute
  <2>2. new.key = ingestionKey(batch) /\ new.body = records
    OBVIOUS
  <2>3. batch \in Batches
    BY DEF Inv, ControlInv
  <2>. HIDE DEF new
  <2>4. ReceiptsInv'
    <3>1. ASSUME NEW r \in receipts'
          PROVE  \E b \in Batches : r.key = ingestionKey(b) /\ Compiled(b, Len(b.claims), r.body)
      <4>1. CASE r \in receipts
        BY <1>0, <4>1 DEF ReceiptsInv
      <4>2. CASE r = new
        <5>1. Compiled(batch, Len(batch.claims), records)
          BY <2>1 DEF Inv, CompileInv
        <5>. QED BY <2>2, <2>3, <4>2, <5>1
      <4>. QED BY <2>1, <4>1, <4>2
    <3>. QED BY <3>1 DEF ReceiptsInv, ingestionKey
  <2>5. Closed(Triples(facts'))
    <3>1. Triples(facts') = Triples(facts) \cup Triples(Elements(records))
      BY <2>1, AppliedFacts, TriplesUnion
    <3>2. Closed(Triples(facts)) /\ Closed(Triples(Elements(records)))
      BY DEF Inv, FactsInv, RecordsInv
    <3>. QED BY <3>1, <3>2, ClosedUnion
  <2>6. ASSUME NEW f \in facts'
        PROVE  /\ f.slot \in Label \X Label /\ f.copy = 1
               /\ f.slot[1][1] \in {"batch", "producer", "claim"} /\ f.slot[2] # Ingest("produced") =>
                    f.object = Says(f.slot[1][1], f.slot[1][2], f.slot[2])
               /\ f.slot[2] = Ingest("manifest") =>
                    \E r \in receipts', b \in Batches :
                      r.key = ingestionKey(b) /\ f.slot[1] = batchEntity(b)
    <3>1. CASE f \in facts
      BY <1>0, <2>1, <3>1 DEF FactsInv
    <3>2. CASE f \in applied
      <4>1. PICK r \in Elements(records) : f.slot = r.slot /\ f.object = r.object /\ f.copy = 1
        BY <2>1, <3>2, AppliedFacts
      <4>2. Sound(batch, r)
        BY DEF Inv, RecordsInv
      <4>3. f.slot[2] = Ingest("manifest") => f.slot[1] = batchEntity(batch)
        BY <4>1, <4>2 DEF Sound
      <4>. QED BY <2>1, <2>2, <2>3, <4>1, <4>2, <4>3 DEF Sound
    <3>. QED BY <2>1, <3>1, <3>2
  <2>. QED BY <2>4, <2>5, <2>6 DEF FactsInv, ingestionKey
<1>3. CASE Execute /\ UNCHANGED store
  BY <1>1, <1>3
<1>4. CASE ~Execute
  <2>1. UNCHANGED store
    BY <1>4 DEF Next, vars, store, Call, CheckHeader, CheckClaim, CheckUnique, Canonicalize,
                CompileClaim, NextLoop, Submit, Lost
  <2>. QED BY <1>1, <2>1
<1>. QED BY <1>2, <1>3, <1>4

LEMMA Always == Spec => []Inv
<1>1. Inv /\ [Next]_vars => Inv'
  BY ControlStep, LoopStep, RecordsStep, ApartStep, StoreStep DEF Inv
<1>. QED BY <1>1, InitInv, PTL DEF Spec

-----------------------------------------------------------------------------
\* Ingestion is well typed: what it writes has labels for slots, and there are
\* no more receipts than calls.
THEOREM IngestTypeCorrect == Spec => []TypeOK
<1>1. Inv => TypeOK
  <2>. SUFFICES ASSUME Inv PROVE TypeOK
    OBVIOUS
  <2>1. \A n \in 1..Len(records) : records[n].slot \in Label \X Label
    BY DEF Inv, RecordsInv, Sound, Elements
  <2>2. \A f \in facts : f.slot \in Label \X Label /\ f.copy \in Nat \ {0}
    BY DEF Inv, FactsInv
  <2>. QED BY <2>1, <2>2 DEF Inv, ControlInv, CountInv, TypeOK
<1>. QED BY <1>1, Always, PTL

\* For batches of any size the two copies of the identity code agree: a batch is
\* refused as a duplicate only for two claims that one entity would name, and what
\* is let through compiles to as many entities as it has claims.
THEOREM OneEntityPerClaimHolds == Spec => []OneEntityPerClaim
<1>1. Inv => OneEntityPerClaim
  BY DEF Inv, ControlInv, UniqueInv, Distinct, OneEntityPerClaim
<1>. QED BY <1>1, Always, PTL

\* A key that the daemon knows always comes with the body it knows.
THEOREM KeyDeterminesBodyHolds == Spec => []KeyDeterminesBody
<1>1. Inv => KeyDeterminesBody
  BY DEF Inv, ControlInv, KeyDeterminesBody
<1>. QED BY <1>1, Always, PTL

\* No fact is stored twice, however often and after whatever answers the batches
\* are ingested again.
THEOREM NothingStoredTwiceHolds == Spec => []NothingStoredTwice
<1>1. Inv => NothingStoredTwice
  BY DEF Inv, FactsInv, NothingStoredTwice
<1>. QED BY <1>1, Always, PTL

\* No two batches disagree about a batch, claim or producer.
THEOREM ProvenanceIsFunctionalHolds == Spec => []ProvenanceIsFunctional
<1>1. Inv => ProvenanceIsFunctional
  <2>. SUFFICES ASSUME Inv, NEW f \in facts, NEW g \in facts, f.slot = g.slot,
                       f.slot[1][1] \in {"batch", "claim", "producer"},
                       f.slot[2] # Ingest("produced")
                PROVE  f.object = g.object
    BY DEF ProvenanceIsFunctional
  <2>1. f.object = Says(f.slot[1][1], f.slot[1][2], f.slot[2])
    BY DEF Inv, FactsInv
  <2>2. g.object = Says(g.slot[1][1], g.slot[1][2], g.slot[2])
    BY DEF Inv, FactsInv
  <2>. QED BY <2>1, <2>2
<1>. QED BY <1>1, Always, PTL

\* What the store says of a user's entity is the candidate of an accepted claim
\* of some batch, and every accepted claim is told; a proposal asserts nothing.
THEOREM AssertedIsAcceptedHolds == Spec => []AssertedIsAccepted
<1>1. Inv => AssertedIsAccepted
  <2>. SUFFICES ASSUME Inv PROVE AssertedIsAccepted
    OBVIOUS
  <2>. DEFINE W == Triples(facts)
  <2>1. Closed(W)
    BY DEF Inv, FactsInv
  <2>2. ASSUME NEW f \in facts
        PROVE  <<f.slot, f.object>> \in W /\ f.slot = <<f.slot[1], f.slot[2]>>
    <3>1. f.slot \in Label \X Label
      BY DEF Inv, FactsInv
    <3>. QED BY <3>1 DEF Triples
  <2>3. ASSUME NEW w \in W
        PROVE  \E f \in facts : w = <<f.slot, f.object>>
    BY DEF Triples
  <2>. HIDE DEF W
  <2>4. ASSUME NEW s, NEW p, NEW o, <<<<s, p>>, o>> \in W
        PROVE  Holds(s, p, o)
    BY <2>3, <2>4 DEF Holds
  <2>5. ASSUME NEW e, NEW s, NEW p, NEW o, Told(W, e, s, p, o)
        PROVE  Candidate(e, s, p, o)
    BY <2>4, <2>5 DEF Told, Candidate
  <2>6. ASSUME NEW f \in facts, f.slot[1][1] = "user"
        PROVE  \E d \in facts :
                 /\ d.slot[1][1] = "batch" /\ d.slot[2] = Ingest("produced")
                 /\ Holds(d.object, Ingest("initial_status"), Ingest("accepted"))
                 /\ Candidate(d.object, f.slot[1], f.slot[2], f.object)
    <3>. DEFINE w == <<f.slot, f.object>>
    <3>1. Explained(W, w)
      BY <2>1, <2>2, <2>6 DEF Closed
    <3>2. PICK d \in W : /\ d[1][1][1] = "batch" /\ d[1][2] = Ingest("produced")
                         /\ <<<<d[2], Ingest("initial_status")>>, Ingest("accepted")>> \in W
                         /\ Told(W, d[2], f.slot[1], f.slot[2], f.object)
      BY <3>1 DEF Explained
    <3>3. PICK g \in facts : d = <<g.slot, g.object>>
      BY <2>3
    <3>4. g.slot[1][1] = "batch" /\ g.slot[2] = Ingest("produced") /\ d[2] = g.object
      BY <3>2, <3>3
    <3>. QED BY <2>4, <2>5, <3>2, <3>4
  <2>7. ASSUME NEW d \in facts, d.slot[2] = Ingest("initial_status"), d.object = Ingest("accepted")
        PROVE  \E f \in facts : Candidate(d.slot[1], f.slot[1], f.slot[2], f.object)
    <3>1. Asserted(W, <<d.slot, d.object>>)
      BY <2>1, <2>2, <2>7 DEF Closed
    <3>2. PICK w \in W : Told(W, d.slot[1], w[1][1], w[1][2], w[2])
      BY <3>1 DEF Asserted
    <3>3. PICK f \in facts : w = <<f.slot, f.object>>
      BY <2>3
    <3>. QED BY <2>5, <3>2, <3>3
  <2>. QED BY <2>6, <2>7 DEF AssertedIsAccepted
<1>. QED BY <1>1, Always, PTL
\* Only candidate triples of one trusted batch can break the write rules: what
\* the compiler says of its own entities never does.
THEOREM ConflictsOnlyInAssertionsHolds == Spec => []ConflictsOnlyInAssertions
<1>1. Inv => ConflictsOnlyInAssertions
  <2>. SUFFICES ASSUME Inv, phase = "sent",
                       NEW m \in 1..Len(records), NEW n \in 1..Len(records), m # n,
                       Rules!Conflicts(records[m], records[n])
                PROVE  /\ batch.profile = "trusted-facts"
                       /\ records[m].slot[1][1] = "user" /\ records[n].slot[1][1] = "user"
    BY DEF ConflictsOnlyInAssertions
  <2>1. records[m].kind \in {"ensure", "append"} /\ records[n].kind \in {"ensure", "append"}
    BY DEF Inv, ApartInv, Elements
  <2>2. SameTriple(records[m], records[n])
    BY <2>1 DEF SameTriple, Rules!Conflicts, Rules!SameTarget, Rules!Targets, Rules!Owns,
                Rules!OwnsTriple, Rules!OwnsSlot, Rules!Places, Rules!Overlap
  <2>3. Excused(batch, records[m])
    BY <2>2 DEF Inv, ApartInv, Apart
  <2>. QED BY <2>2, <2>3 DEF Excused, SameTriple
<1>. QED BY <1>1, Always, PTL
=============================================================================
